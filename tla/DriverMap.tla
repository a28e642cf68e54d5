------------------------------ MODULE DriverMap ------------------------------
(***************************************************************************)
(* The map of the driver app's home page (home.js): the stations around    *)
(* the centre of the map, kept for half a minute, the driver's position,   *)
(* the sheet of a station, and the search above the map.                   *)
(*                                                                         *)
(* A centre is the place the page starts at, one far from any station, or  *)
(* the first station of an answer.                                         *)
(***************************************************************************)
EXTENDS Naturals, FiniteSets

CONSTANTS
    Entries,        \* what is typed into the search field
    MaxRequests     \* how many requests for stations are in flight at most

VARIABLES
    center,     \* where the map is
    located,    \* the driver's marker is on the map
    cache,      \* chargerCache: the centre its answer is for, and whether it is fresh;
                \* its stations are those on the map
    debounce,   \* fetchNearby is scheduled
    requests,   \* the centres for which a request is in flight
    last,       \* where the map was when fetchNearby ran last
    behind,     \* why the stations drawn may not be those of that place, if so
    sheet,      \* the sheet: "closed", "open", or "coming" at the end of a flight
    input,      \* the query in the search field
    timer,      \* the query whose search is scheduled
    searches,   \* the queries whose search is in flight
    list        \* the list of results: its query, and whether it is open

mapVars == <<center, located, cache, debounce, requests, last, behind, sheet>>
searchVars == <<input, timer, searches, list>>
homeVars == <<mapVars, searchVars>>

Start == "start"
Centers == {Start, "away", "station"}
Places == {Start, "away"}
Nowhere == "nowhere"
NoCache == [of |-> Nowhere, fresh |-> FALSE]
NoQuery == ""
NoList == [query |-> NoQuery, open |-> FALSE]

\* No station is near the place away.
Stations(c) == c # "away"

TypeOK ==
    /\ center \in Centers
    /\ last \in Centers /\ behind \in {"", "cached", "overtaken", "failed"}
    /\ located \in BOOLEAN /\ debounce \in BOOLEAN
    /\ cache \in [of : Centers \cup {Nowhere}, fresh : BOOLEAN]
    /\ requests \subseteq Centers /\ Cardinality(requests) <= MaxRequests
    /\ sheet \in {"closed", "open", "coming"}
    /\ input \in Entries \cup {NoQuery} /\ timer \in Entries \cup {NoQuery}
    /\ searches \subseteq Entries
    /\ list \in [query : Entries \cup {NoQuery}, open : BOOLEAN]

\* initMap asks for the stations at once.
Init ==
    /\ center = Start /\ located = FALSE
    /\ cache = NoCache
    /\ debounce = FALSE /\ requests = {Start} /\ last = Start /\ behind = ""
    /\ sheet = "closed"
    /\ input = NoQuery /\ timer = NoQuery /\ searches = {} /\ list = NoList

-----------------------------------------------------------------------------
(* The stations *)

\* The operators named Wrong... are what a slip in the definition that follows
\* would make of it; the specification does not use them.

\* While a request is under way, a movement schedules nothing.
WrongMoveTo(c) ==
    /\ center' = c
    /\ debounce' = (requests = {} \/ debounce)

\* moveend, zoomend: scheduleFetch replaces what was scheduled.
MoveTo(c) ==
    /\ center' = c
    /\ debounce' = TRUE

\* renderChargers.  Until the driver is located, the map is set to the first station,
\* and that movement schedules the next drawing.
Render(c) ==
    IF Stations(c) /\ ~located THEN MoveTo("station") ELSE UNCHANGED <<center, debounce>>

\* The driver pans or zooms, also back to the start.
Pan(c) ==
    /\ MoveTo(c)
    /\ UNCHANGED <<located, cache, requests, last, behind, sheet, searchVars>>

\* fetchNearby: a fresh cache is drawn again, wherever the map is by now.
FetchCached ==
    /\ debounce /\ cache.fresh
    /\ last' = center
    /\ behind' = IF cache.of = center THEN "" ELSE "cached"
    /\ IF Stations(cache.of) /\ ~located
       THEN MoveTo("station")
       ELSE debounce' = FALSE /\ UNCHANGED center
    /\ UNCHANGED <<located, cache, requests, sheet, searchVars>>

FetchSent ==
    /\ debounce /\ ~cache.fresh
    /\ Cardinality(requests \cup {center}) <= MaxRequests
    /\ debounce' = FALSE
    /\ requests' = requests \cup {center}
    /\ last' = center /\ behind' = ""
    /\ UNCHANGED <<center, located, cache, sheet, searchVars>>

\* Answers come in any order, and each replaces the cache and what is drawn, also when it
\* is for an earlier place than what is there.
Answer(c) ==
    /\ c \in requests
    /\ requests' = requests \ {c}
    /\ cache' = [of |-> c, fresh |-> TRUE]
    /\ behind' = IF c = last THEN "" ELSE "overtaken"
    /\ Render(c)
    /\ UNCHANGED <<located, last, sheet, searchVars>>

\* Nothing is tried again.
RequestFails(c) ==
    /\ c \in requests
    /\ requests' = requests \ {c}
    /\ behind' = IF c = last THEN "failed" ELSE behind
    /\ UNCHANGED <<center, located, cache, debounce, last, sheet, searchVars>>

\* CACHE_TTL: half a minute is over.
CacheExpires ==
    /\ cache.fresh
    /\ cache' = [of |-> cache.of, fresh |-> FALSE]
    /\ UNCHANGED <<center, located, debounce, requests, last, behind, sheet, searchVars>>

\* The position is granted; a refusal shows the banner again.
LocateUser ==
    /\ located' = TRUE
    /\ \E c \in Places : MoveTo(c)
    /\ UNCHANGED <<cache, requests, last, behind, sheet, searchVars>>

OpenSheet ==
    /\ cache # NoCache /\ Stations(cache.of) /\ sheet # "open"
    /\ sheet' = "open"
    /\ UNCHANGED <<center, located, cache, debounce, requests, last, behind, searchVars>>

\* A tap on the map or on the handle; the sheet that comes is not stopped.
CloseSheet ==
    /\ sheet = "open"
    /\ sheet' = "closed"
    /\ UNCHANGED <<center, located, cache, debounce, requests, last, behind, searchVars>>

-----------------------------------------------------------------------------
(* The search *)

\* Emptying the field hides the results and leaves the scheduled search alone.
Type(q) ==
    /\ input' = q
    /\ IF q = NoQuery
       THEN list' = NoList /\ UNCHANGED timer
       ELSE timer' = q /\ UNCHANGED list
    /\ UNCHANGED <<mapVars, searches>>

SearchSent ==
    /\ timer # NoQuery
    /\ searches' = searches \cup {timer}
    /\ timer' = NoQuery
    /\ UNCHANGED <<mapVars, input, list>>

\* The places arrive, in any order: the list is theirs and the stations', whatever the
\* field holds by now.
SearchAnswered(q) ==
    /\ q \in searches
    /\ searches' = searches \ {q}
    /\ list' = [query |-> q, open |-> TRUE]
    /\ UNCHANGED <<mapVars, input, timer>>

\* The places do not arrive: the list shows the stations found, if any.
SearchFails(q) ==
    /\ q \in searches
    /\ searches' = searches \ {q}
    /\ \/ cache # NoCache /\ list' = [query |-> q, open |-> TRUE]
       \/ UNCHANGED list
    /\ UNCHANGED <<mapVars, input, timer>>

\* Escape, or a click elsewhere.
HideList ==
    /\ list.open
    /\ list' = [list EXCEPT !.open = FALSE]
    /\ UNCHANGED <<mapVars, input, timer, searches>>

Focus ==
    /\ input # NoQuery /\ list # NoList
    /\ list' = [list EXCEPT !.open = TRUE]
    /\ UNCHANGED <<mapVars, input, timer, searches>>

\* A result is clicked, or Enter takes the first: the map flies there.
PickPlace ==
    /\ list # NoList
    /\ list' = [list EXCEPT !.open = FALSE]
    /\ \E c \in Places : MoveTo(c)
    /\ UNCHANGED <<located, cache, requests, last, behind, sheet, input, timer, searches>>

PickStation ==
    /\ list # NoList /\ cache # NoCache
    /\ list' = [list EXCEPT !.open = FALSE]
    /\ MoveTo("station")
    /\ sheet' = "coming"
    /\ UNCHANGED <<located, cache, requests, last, behind, input, timer, searches>>

\* Six tenths of a second after a station was picked.
SheetComes ==
    /\ sheet = "coming"
    /\ sheet' = "open"
    /\ UNCHANGED <<center, located, cache, debounce, requests, last, behind, searchVars>>

Next ==
    \/ \E c \in Places : Pan(c)
    \/ FetchCached \/ FetchSent \/ CacheExpires \/ LocateUser
    \/ \E c \in Centers : Answer(c) \/ RequestFails(c)
    \/ OpenSheet \/ CloseSheet \/ SheetComes
    \/ \E q \in Entries \cup {NoQuery} : Type(q)
    \/ SearchSent \/ HideList \/ Focus \/ PickPlace \/ PickStation
    \/ \E q \in Entries : SearchAnswered(q) \/ SearchFails(q)

Spec == Init /\ [][Next]_homeVars

-----------------------------------------------------------------------------
(* Properties *)

\* The stations drawn are those around the centre of the map, or those will be drawn: a
\* fetch is scheduled or their request under way, whichever requests and timers were
\* before (scheduleFetch, clearTimeout).  Excepted is what the code leaves as it is until
\* the map moves again: a fresh cache was drawn for another place, an answer for an
\* earlier place came last, or the request failed.
MovesFollowed == cache.of # center => debounce \/ center \in requests \/ behind # ""

\* What makes it so: a place where fetchNearby has not run is scheduled, and what it ran
\* for last is under way or drawn.
Followed ==
    /\ center # last => debounce
    /\ last \in requests \/ cache.of = last \/ behind # ""
==============================================================================
