------------------------------ MODULE SiteViews ------------------------------
(***************************************************************************)
(* The site the admin console is narrowed to (SiteContext.tsx), and what   *)
(* the dashboard, the chargers page and the sessions page make of it: each *)
(* filters what it has loaded by itself.                                   *)
(*                                                                         *)
(* The name of a site is typed by hand wherever it occurs, so the same     *)
(* site occurs in capitals and with blanks around it.                      *)
(***************************************************************************)
EXTENDS Integers, FiniteSets, Sequences, FiniteSetsExt, Functions

CONSTANT Energies   \* what a session can have consumed, in watt-hours

VARIABLES
    chargers,   \* the chargers as loaded, in the order of the answer
    emsSites,   \* the ids of the sites of the energy management
    sessions,   \* the sessions as loaded
    site,       \* selectedSite, in the page and in localStorage
    page,       \* the open page
    search,     \* its search field
    pill,       \* the status filter of the chargers page
    opened      \* the charger or session whose details are open

siteVars == <<chargers, emsSites, sessions, site, page, search, pill, opened>>

-----------------------------------------------------------------------------
(* Names: toLowerCase and trim *)

Text(name, form) == [name |-> name, form |-> form]
Absent == Text("", "plain")
All == Text("all", "plain")

Lower(t) == IF t.form = "caps" THEN Text(t.name, "plain") ELSE t
Trim(t) == IF t.form = "padded" THEN Text(t.name, "plain") ELSE t

Hub == Text("hub", "plain")
HUB == Text("hub", "caps")
Depot == Text("depot", "plain")
Newcastle == Text("newcastle", "caps")

Charger(id, text, status) == [id |-> id, site |-> text, status |-> status]

\* energy_kwh is null until the session is closed; the answer has no cost.
Null == -1
Session(id, charger, wh, status) ==
    [id |-> id, charger |-> charger, wh |-> wh, status |-> status]

ChargerAnswers ==
    {a \o b : a \in {<<>>} \cup {<<Charger("c1", t, IF t = HUB THEN "offline" ELSE "online")>> :
                                     t \in {Absent, Hub, HUB}},
              b \in {<<>>} \cup {<<Charger("c2", t, IF t = Depot THEN "Charging" ELSE "online")>> :
                                     t \in {Hub, Text("hub", "padded"), Depot}}}

\* Three sessions that lose a little in rounding, one without an energy yet, and one that
\* was never charged.
SessionAnswers ==
    {{}} \cup {{Session("s1", "c1", a, "completed"), Session("s2", "c2", b, "completed"),
                Session("s3", "c1", c, "completed"), Session("s4", "c2", 0, "failed"),
                Session("s5", "c1", Null, "active")} : a, b, c \in Energies}

EmsAnswers == {{}, {HUB}, {Text("site-1", "plain")}}

-----------------------------------------------------------------------------
(* SiteContext *)

\* The operators named Wrong... are what a slip in the definition that follows
\* would make of it; the specification does not use them.

\* Sites that differ in capitals count apart.
WrongKey(t) == Trim(t)

\* The key under which a site is counted.
Key(t) == Lower(Trim(t))

Located == {i \in DOMAIN chargers : chargers[i].site # Absent}

\* availableSites: the sites of the energy management, then those that chargers name
\* besides, under the first form met; each with its number of chargers.
Site(id, key) == [id |-> id, count |-> Cardinality({i \in Located : Key(chargers[i].site) = key})]

AvailableSites ==
    LET ems == {Site(t, Lower(t)) : t \in emsSites}
        new == {i \in Located : /\ Key(chargers[i].site) \notin {Lower(t) : t \in emsSites}
                                /\ \A j \in Located : Key(chargers[j].site) = Key(chargers[i].site)
                                                          => i <= j}
        found == ems \cup {Site(Trim(chargers[i].site), Key(chargers[i].site)) : i \in new}
    IN  IF found = {} THEN {[id |-> Newcastle, count |-> 0]} ELSE found

-----------------------------------------------------------------------------
(* What the pages show under a site *)

Everything == {chargers[i] : i \in DOMAIN chargers}

\* The dashboard.
DashboardChargers(s) == {c \in Everything : s = All \/ Lower(c.site) = Lower(s)}

Online(c) == c.status \in {"online", "Available", "Charging"}

\* The dashboard's cards count, and its ticker shows one by one; it stops after eight,
\* which are more than there are here.
DashboardCards(s) ==
    [online |-> Cardinality({c \in DashboardChargers(s) : Online(c)}),
     active |-> Cardinality({c \in DashboardChargers(s) : c.status = "Charging"})]
Ticker(s) ==
    {[id |-> c.id, online |-> Online(c), charging |-> c.status = "Charging"]
        : c \in DashboardChargers(s)}

\* The chargers page, the same as a grid and as a table; the search looks into the ids and the sites.
Pill(c) ==
    \/ pill = "all"
    \/ pill = "online" /\ Online(c)
    \/ pill = "faulted" /\ c.status = "Faulted"
    \/ pill = "offline" /\ c.status \in {"offline", "Unavailable"}

Found(c) == search \in {"", c.id, Lower(c.site).name}

ListedChargers(s) ==
    {c \in Everything : Pill(c) /\ (s = All \/ Lower(c.site) = Lower(s)) /\ Found(c)}

\* The cards above the list count all chargers, whatever is selected.
Ready == {c \in Everything : c.status \in {"Available", "online"}}

\* The sessions page: the site of a session is that of its charger, as far as the
\* charger is among those loaded.
SiteOf(s) ==
    LET of == {c \in Everything : c.id = s.charger /\ c.site # Absent}
    IN  IF of = {} THEN Absent ELSE Lower((CHOOSE c \in of : TRUE).site)

ListedSessions(x) ==
    {s \in sessions : /\ search \in {"", s.id, s.charger}
                      /\ x = All \/ (SiteOf(s) # Absent /\ SiteOf(s) = Lower(x))}

\* Without a cost in the answer a session costs its energy at the default tariff, 42
\* pence, here in thousandths of a penny; shown is that to the penny (toFixed(2)).
Cost(s) == IF s.wh = Null THEN 0 ELSE s.wh * 42
ToPenny(cost) == ((cost + 500) \div 1000) * 1000

\* A session's row, and its details: the metering and the invoice.
TableRow(s) == [id |-> s.id, cost |-> ToPenny(Cost(s))]
Details(s) == [id |-> s.id, cost |-> ToPenny(IF s.wh = Null THEN 0 ELSE s.wh * 42)]

\* Cut off instead of rounded.
WrongCsvCost(s) == IF s.wh \in {0, Null} THEN 0 ELSE ((s.wh * 42) \div 1000) * 1000

\* Its line in the exported file is rounded, the revenue only when it has been summed.
CsvCost(s) == IF s.wh \in {0, Null} THEN 0 ELSE ToPenny(s.wh * 42)

CsvRows(x) == {[id |-> s.id, cost |-> CsvCost(s)] : s \in ListedSessions(x)}
TotalRevenue(x) == SumFunction([s \in ListedSessions(x) |-> Cost(s)])

-----------------------------------------------------------------------------

Pages == {"dashboard", "chargers", "sessions"}
Sites == {Hub, HUB, Depot, Newcastle, Text("site-1", "plain")}

TypeOK ==
    /\ chargers \in ChargerAnswers
    /\ emsSites \in EmsAnswers
    /\ sessions \in SessionAnswers
    /\ site \in Sites \cup {All}
    /\ page \in Pages
    /\ search \in {"", "c1", "hub"}
    /\ pill \in {"all", "online", "faulted", "offline"}
    /\ opened \in {"", "c1", "c2", "s1", "s2", "s3", "s4", "s5"}

Init ==
    /\ chargers = <<>>
    /\ emsSites = {}
    /\ sessions = {}
    /\ site = All
    /\ page = "dashboard"
    /\ search = "" /\ pill = "all"
    /\ opened = ""

\* An answer of /chargers, of /ems/sites or of /sessions.
ChargersArrive ==
    /\ chargers' \in ChargerAnswers
    /\ UNCHANGED <<emsSites, sessions, site, page, search, pill, opened>>

EmsSitesArrive ==
    /\ emsSites' \in EmsAnswers
    /\ UNCHANGED <<chargers, sessions, site, page, search, pill, opened>>

SessionsArrive ==
    /\ page = "sessions"
    /\ sessions' \in SessionAnswers
    /\ UNCHANGED <<chargers, emsSites, site, page, search, pill, opened>>

\* The header and the three pages offer the available sites.  What is selected stays
\* selected when it is no longer among them.
SelectSite ==
    /\ \/ site' \in {s.id : s \in AvailableSites}
       \/ site' = All
    /\ UNCHANGED <<chargers, emsSites, sessions, page, search, pill, opened>>

\* The pages keep nothing of their own when they are left.
OpenPage(p) ==
    /\ page # p
    /\ page' = p
    /\ search' = "" /\ pill' = "all" /\ opened' = ""
    /\ UNCHANGED <<chargers, emsSites, sessions, site>>

Search(text) ==
    /\ page \in {"chargers", "sessions"} /\ opened = ""
    /\ search' = text
    /\ UNCHANGED <<chargers, emsSites, sessions, site, page, pill, opened>>

ChoosePill(p) ==
    /\ page = "chargers" /\ opened = ""
    /\ pill' = p
    /\ UNCHANGED <<chargers, emsSites, sessions, site, page, search, opened>>

\* A click on a card, on a row or on its button.
OpenCharger ==
    /\ page = "chargers" /\ opened = ""
    /\ opened' \in {c.id : c \in ListedChargers(site)}
    /\ UNCHANGED <<chargers, emsSites, sessions, site, page, search, pill>>

OpenSession ==
    /\ page = "sessions" /\ opened = ""
    /\ opened' \in {s.id : s \in ListedSessions(site)}
    /\ UNCHANGED <<chargers, emsSites, sessions, site, page, search, pill>>

CloseDetails ==
    /\ opened # ""
    /\ opened' = ""
    /\ UNCHANGED <<chargers, emsSites, sessions, site, page, search, pill>>

\* The browser loads the console again: only the site is kept.
Reload ==
    /\ chargers' = <<>> /\ emsSites' = {} /\ sessions' = {}
    /\ search' = "" /\ pill' = "all" /\ opened' = ""
    /\ UNCHANGED <<site, page>>

Next ==
    \/ ChargersArrive \/ EmsSitesArrive \/ SessionsArrive \/ SelectSite
    \/ \E p \in Pages : OpenPage(p)
    \/ \E t \in {"", "c1", "hub"} : Search(t)
    \/ \E p \in {"all", "online", "faulted", "offline"} : ChoosePill(p)
    \/ OpenCharger \/ OpenSession \/ CloseDetails \/ Reload

Spec == Init /\ [][Next]_siteVars

-----------------------------------------------------------------------------
(* Properties *)

\* No two sites are the same but for the capitals, and where no charger has blanks in
\* its site's name the number behind a site is that of the chargers the dashboard shows
\* under it, and those the chargers page lists without a search or a status filter.
CountsMatch ==
    /\ \A s, t \in AvailableSites : Lower(s.id) = Lower(t.id) => s = t
    /\ (\A c \in Everything : c.site.form # "padded") =>
           \A s \in AvailableSites :
               /\ Cardinality(DashboardChargers(s.id)) = s.count
               /\ search = "" /\ pill = "all" => ListedChargers(s.id) = DashboardChargers(s.id)

\* What the exported file adds up to.
CsvTotal(x) == SumFunction([s \in ListedSessions(x) |-> CsvCost(s)])

\* A session is listed under one site at most.  The exported file says of it what the table
\* says, and what the lines add up to is off the revenue shown by half a penny a line and
\* another half at most.
LedgerMatches ==
    /\ \A s, t \in AvailableSites : s # t => ListedSessions(s.id) \cap ListedSessions(t.id) = {}
    /\ CsvRows(site) = {TableRow(s) : s \in ListedSessions(site)}
    /\ LET lines == Cardinality(ListedSessions(site))
           off == CsvTotal(site) - ToPenny(TotalRevenue(site))
       IN  off <= 500 * lines + 500 /\ -off <= 500 * lines + 500

\* The lists of the three pages and the sites offered above them agree, although each
\* is computed on its own and from answers loaded at different times: the cards of the
\* dashboard count what its ticker shows, and those of the chargers page tell the
\* chargers that are ready from those that charge, together the ones online.
SiteViewsAgree ==
    /\ CountsMatch
    /\ LedgerMatches
    /\ \A s \in sessions : Details(s) = TableRow(s)
    /\ DashboardCards(site) =
           [online |-> Cardinality({c \in Ticker(site) : c.online}),
            active |-> Cardinality({c \in Ticker(site) : c.charging})]
    /\ DashboardCards(All).online = Cardinality(Ready) + DashboardCards(All).active
==============================================================================
