------------------------------ MODULE FrontEnds ------------------------------
(***************************************************************************)
(* The front ends together: the admin console's pages, forms, settings,    *)
(* session, registration, charts and site filter, the two tabs of the      *)
(* driver app's home page, and the API behind the settings.  They share no *)
(* state, so a behaviour plays one scene, and the state spaces add up.     *)
(***************************************************************************)
EXTENDS Naturals, AdminConsole, FormFields, SettingsFields

CONSTANTS
    RowValues, Puts,                    \* SettingsCache
    Tabs, Slots,                        \* AdminSession
    MaxAttempts, MaxCodes, Lifetime,    \* AdminRegistration
    Capacity, MaxClock, MaxPushes,      \* LiveTelemetry
    Energies,                           \* SiteViews
    Entries, MaxRequests,               \* DriverMap
    MaxStreams                          \* DriverScan

ASSUME RegistrationBounds == MaxAttempts \in Nat /\ MaxCodes \in Nat /\ Lifetime \in Nat
ASSUME TelemetryBounds == Capacity \in Nat \ {0} /\ MaxClock \in Nat
ASSUME SessionEnergies == Energies \subseteq Nat
ASSUME HomeBounds == MaxRequests \in Nat \ {0} /\ MaxStreams \in Nat

VARIABLES
    scene,      \* what is played
    \* RecordForms
    form, field, rows, open, base, entry, typed, request,
    \* SettingsForms
    setting, value, changed, seen, load, save, test,
    \* SettingsCache
    secret, stored, cached, puts, listing, upset,
    \* AdminSession
    jwt, refreshToken, place, isRefreshing, refresh, requests,
    \* AdminRegistration
    otp, digits, countdown, pending, mailed, verify, resend, guesses, account,
    \* LiveTelemetry
    view, ring, points, clock, power, online, readings, pushed,
    \* SiteViews
    chargers, emsSites, sessions, site, siteView, search, pill, opened,
    \* DriverMap
    center, located, cache, debounce, nearby, last, behind, sheet,
    input, timer, searches, list,
    \* DriverScan
    tab, scannerActive, asked, granted, live, videoStream, timers, scanInterval,
    detecting, leftWaiting, remembered, polling

F == INSTANCE RecordForms WITH stored <- rows, draft <- entry, call <- request
G == INSTANCE SettingsForms WITH
         draft <- value, typed <- changed, fetch <- load, call <- save, Logos <- DOMAIN BrandLogo
K == INSTANCE SettingsCache
S == INSTANCE AdminSession
R == INSTANCE AdminRegistration WITH dialog <- otp
T == INSTANCE LiveTelemetry
V == INSTANCE SiteViews WITH page <- siteView
M == INSTANCE DriverMap WITH requests <- nearby
C == INSTANCE DriverScan

\* What the tables of the forms' fields must be for what a user did not touch to stay:
\* there is a set of values that holds what the field can be in a record, all of which
\* the form takes over, and a value that is taken over and sent back unchanged becomes
\* again what the record held or holds.
RoundTrips(f, x, W) ==
    LET loads == Forms[f].loads[x]
        sends == Forms[f].sends[x]
        store == Forms[f].store
    IN  /\ F!Holds(f, x) \cup {"x", "y"} \subseteq W
        /\ \A v \in W : loads[v] # "keep"
        /\ \A old \in W, v \in Forms[f].inputs[x] \cup {loads[w] : w \in W} :
               F!MergedInto(old, sends[v], store) \in W
        /\ \A old \in W, v \in W :
               LET new == F!MergedInto(old, sends[loads[v]], store)
               IN  \/ new \in {old, v}
                   \/ v \in {"null", "blank", "zero"} /\ new = "std"

ASSUME FieldsRoundTrip ==
    \A f \in DOMAIN Forms : \A x \in DOMAIN Forms[f].inputs :
        ~F!OverwrittenIn(f, x) => \E W \in SUBSET Values : RoundTrips(f, x, W)

\* What the user can enter is sent as it is, but for a point in time.
ASSUME InputsAreSent ==
    \A f \in DOMAIN Forms : \A x \in DOMAIN Forms[f].inputs :
        /\ F!Nothing \notin Forms[f].inputs[x]
        /\ "x" \in Forms[f].inputs[x] /\ ~F!NotSavedIn(f, x) =>
               \/ Forms[f].sends[x]["x"] = "x"
               \/ Forms[f].sends[x] = Instant /\ Forms[f].sends[x]["x"] = "moved"

\* The tables speak of the values: what an input admits, and what is loaded and sent.
ASSUME FormsAreTyped ==
    \A f \in DOMAIN Forms : \A x \in DOMAIN Forms[f].inputs :
        /\ f # "none" /\ Forms[f].inputs[x] \subseteq Values
        /\ \A v \in Values : /\ Forms[f].loads[x][v] \in Values \cup {"keep"}
                            /\ Forms[f].sends[x][v] \in Values \cup {"omit"}

\* What the tables of the settings must be: every setting is sent by the save of the
\* group that it is loaded from, starts blank or with the page's own value, no secret is
\* loaded when empty, and a save is neither an upload nor a restore.
ASSUME SettingsAreSaved ==
    /\ \A x \in DOMAIN Settings : /\ Settings[x].group \in G!SentTo(x)
                                  /\ Settings[x].start \in {"blank", "std"}
                                  /\ ~(Settings[x].secret /\ Settings[x].always)
    /\ "none" \notin DOMAIN Settings
    /\ {"none", "upload", "restore"} \cap G!Groups = {}

\* A value of a setting is neither the lack of one nor its mask.
ASSUME CacheValues ==
    "default" \in RowValues /\ {"nothing", "masked"} \cap RowValues = {}

formVars == <<form, field, rows, open, base, entry, typed, request>>
settingsVars == <<setting, value, changed, seen, load, save, test>>
cacheVars == <<secret, stored, cached, puts, listing, upset>>
sessionVars == <<jwt, refreshToken, place, isRefreshing, refresh, requests>>
regVars == <<otp, digits, countdown, pending, mailed, verify, resend, guesses, account>>
liveVars == <<view, ring, points, clock, power, online, readings, pushed>>
siteVars == <<chargers, emsSites, sessions, site, siteView, search, pill, opened>>
homeVars == <<center, located, cache, debounce, nearby, last, behind, sheet,
              input, timer, searches, list>>
scanVars == <<tab, scannerActive, asked, granted, live, videoStream, timers, scanInterval,
              detecting, leftWaiting, remembered, polling>>

Scenes == {"page", "forms", "settings", "cache", "session", "registration", "charts",
           "sites", "map", "scan"}

FrontInit ==
    /\ Init /\ F!Init /\ G!Init /\ K!Init /\ S!Init /\ R!Init /\ T!Init
    /\ V!Init /\ M!Init /\ C!Init
    /\ scene \in Scenes
    /\ secret \/ stored # "default" => scene = "cache"
    /\ online => scene = "charts"
    /\ remembered => scene = "scan"

\* A step of scene s leaves the variables of the others alone.
Scene(s) == scene = s /\ UNCHANGED scene

Still(s) ==
    /\ IF s = "page" THEN TRUE ELSE UNCHANGED vars
    /\ IF s = "forms" THEN TRUE ELSE UNCHANGED formVars
    /\ IF s = "settings" THEN TRUE ELSE UNCHANGED settingsVars
    /\ IF s = "cache" THEN TRUE ELSE UNCHANGED cacheVars
    /\ IF s = "session" THEN TRUE ELSE UNCHANGED sessionVars
    /\ IF s = "registration" THEN TRUE ELSE UNCHANGED regVars
    /\ IF s = "charts" THEN TRUE ELSE UNCHANGED liveVars
    /\ IF s = "sites" THEN TRUE ELSE UNCHANGED siteVars
    /\ IF s = "map" THEN TRUE ELSE UNCHANGED homeVars
    /\ IF s = "scan" THEN TRUE ELSE UNCHANGED scanVars

FrontNext ==
    \/ Scene("page") /\ Next /\ Still("page")
    \/ Scene("forms") /\ F!Next /\ Still("forms")
    \/ Scene("settings") /\ G!Next /\ Still("settings")
    \/ Scene("cache") /\ K!Next /\ Still("cache")
    \/ Scene("session") /\ S!Next /\ Still("session")
    \/ Scene("registration") /\ R!Next /\ Still("registration")
    \/ Scene("charts") /\ T!Next /\ Still("charts")
    \/ Scene("sites") /\ V!Next /\ Still("sites")
    \/ Scene("map") /\ M!Next /\ Still("map")
    \/ Scene("scan") /\ C!Next /\ Still("scan")

frontVars ==
    <<scene, vars, formVars, settingsVars, cacheVars, sessionVars, regVars, liveVars,
      siteVars, homeVars, scanVars>>

FrontSpec == FrontInit /\ [][FrontNext]_frontVars /\ Fairness

-----------------------------------------------------------------------------
(* The properties of the modules, each in its scene                          *)

\* The type invariant of the scene that is played.
FrontTypeOK ==
    CASE scene = "page" -> TypeOK
      [] scene = "forms" -> F!TypeOK
      [] scene = "settings" -> G!TypeOK
      [] scene = "cache" -> K!TypeOK
      [] scene = "session" -> S!TypeOK
      [] scene = "registration" -> R!TypeOK
      [] scene = "charts" -> T!TypeOK
      [] scene = "sites" -> V!TypeOK
      [] scene = "map" -> M!TypeOK
      [] scene = "scan" -> C!TypeOK

\* Saving a record does not change what the user did not touch (RecordForms).
UntouchedKept == F!UntouchedKept

\* What the user typed reaches the record it was typed for (RecordForms).
EditReachesRow == F!EditReachesRow

\* Saving a group of settings keeps the settings the user did not touch, secrets
\* included: the page sends what it has loaded (SettingsForms), and the API keeps what it
\* is not sent or gets back masked, unless the group was upset (SettingsCache).
UntouchedSettingKept == G!SavesWhatWasLoaded /\ K!KeptUnlessUpset

\* What the API serves from its cache is what the row says, unless the group was upset
\* (SettingsCache).
SettingsCurrent == scene = "cache" => K!CacheCurrent

\* No request of a tab waits for a refresh that does not come (AdminSession).
NoneStranded == scene = "session" => S!NoneStranded

\* The attempts at a registration code are bounded (AdminRegistration).
GuessesBounded == scene = "registration" => R!GuessesBounded

\* The live charts draw the last points, inside their axes (LiveTelemetry).
ChartsFaithful == scene = "charts" => T!ChartsFaithful

\* The pages agree on what belongs to a site (SiteViews).
SiteViewsAgree == scene = "sites" => V!SiteViewsAgree

\* The home page of the driver app shows the stations around the centre of its map or is
\* about to, but for what the code leaves behind, and turns off the camera when the scan
\* tab is left (DriverMap, DriverScan).
HomePageSettles ==
    /\ scene = "map" => M!MovesFollowed
    /\ scene = "scan" => C!CameraOff
==============================================================================
