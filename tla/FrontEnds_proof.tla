--------------------------- MODULE FrontEnds_proof ---------------------------
(***************************************************************************)
(* Proofs about the front ends, for any tabs, requests, entries, codes,    *)
(* streams, buffers, settings and energies: the invariants of DriverMap,   *)
(* DriverScan, RecordForms, SettingsForms, SettingsCache and               *)
(* LiveTelemetry, and those of AdminSession and AdminRegistration carried  *)
(* over from their own proofs; the types of all ten scenes; and that the   *)
(* views of SiteViews agree.  A behaviour plays one scene and leaves the   *)
(* variables of the others as they were, so an invariant of a module is an *)
(* invariant of its scene.                                                 *)
(***************************************************************************)
EXTENDS FrontEnds, AdminConsole_proof, Sequences, SequenceTheorems, FiniteSetTheorems,
        WellFoundedInduction, TLAPS

\* The scene of a behaviour does not change, and only its module takes steps.
LEMMA OneScene ==
    ASSUME [FrontNext]_frontVars
    PROVE  /\ scene' = scene
           /\ scene = "page" => [Next]_vars
           /\ scene = "forms" => [F!Next]_formVars
           /\ scene = "settings" => [G!Next]_settingsVars
           /\ scene # "forms" => UNCHANGED formVars
           /\ scene # "settings" => UNCHANGED settingsVars
           /\ scene = "cache" => [K!Next]_cacheVars
           /\ scene # "cache" => UNCHANGED cacheVars
           /\ scene = "session" => [S!Next]_sessionVars
           /\ scene = "registration" => [R!Next]_regVars
           /\ scene = "charts" => [T!Next]_liveVars
           /\ scene = "sites" => [V!Next]_siteVars
           /\ scene = "map" => [M!Next]_homeVars
           /\ scene = "scan" => [C!Next]_scanVars
BY DEF FrontNext, frontVars, Scene, Still

-----------------------------------------------------------------------------
(* The map of the driver app *)

\* Whatever moves the map schedules a fetch.
LEMMA MoveSchedules == ASSUME NEW c, M!MoveTo(c) PROVE debounce'
BY DEF M!MoveTo

\* Drawing stations leaves the map where it is, or moves it and schedules a fetch.
LEMMA RenderSettles == ASSUME NEW c, M!Render(c) PROVE debounce' \/ UNCHANGED <<center, debounce>>
BY MoveSchedules DEF M!Render

LEMMA StepMoves == M!Followed /\ [M!Next]_homeVars => M!Followed'
<1> SUFFICES ASSUME M!Followed, [M!Next]_homeVars PROVE M!Followed'
  OBVIOUS
<1> USE DEF M!Followed
<1>1. CASE UNCHANGED <<center, debounce, nearby, last, behind>> /\ cache'.of = cache.of
  BY <1>1
<1>2. CASE debounce' /\ UNCHANGED <<cache, nearby, last, behind>>
  BY <1>2
<1>3. CASE M!FetchCached
  <2>1. debounce' \/ center' = center
    BY <1>3, MoveSchedules DEF M!FetchCached
  <2> QED
    BY <1>3, <2>1 DEF M!FetchCached
<1>4. CASE M!FetchSent
  BY <1>4 DEF M!FetchSent
<1>5. ASSUME NEW c \in M!Centers, M!Answer(c) PROVE M!Followed'
  BY <1>5, RenderSettles DEF M!Answer
<1>6. ASSUME NEW c \in M!Centers, M!RequestFails(c) PROVE M!Followed'
  BY <1>6 DEF M!RequestFails
<1>7. CASE (\E c \in M!Places : M!Pan(c)) \/ M!LocateUser \/ M!PickPlace \/ M!PickStation
  BY <1>2, <1>7, MoveSchedules DEF M!Pan, M!LocateUser, M!PickPlace, M!PickStation
<1>8. CASE M!CacheExpires
  BY <1>1, <1>8 DEF M!CacheExpires
<1> QED
  BY <1>1, <1>3, <1>4, <1>5, <1>6, <1>7, <1>8
  DEF M!Next, homeVars, M!mapVars, M!searchVars, M!OpenSheet, M!CloseSheet,
      M!SheetComes, M!Type, M!SearchSent, M!SearchAnswered, M!SearchFails, M!HideList, M!Focus

-----------------------------------------------------------------------------
(* The camera of the scan tab *)

\* The page knows the stream that is on and the interval that runs: at most one of each,
\* and none while the question for the camera is open.
OneCamera ==
    \/ asked = 0 /\ live \subseteq {videoStream} /\ timers \subseteq {scanInterval}
    \/ asked = 1 /\ live = {} /\ timers = {} /\ ~scannerActive

\* On the map tab there is neither a camera nor a question for it.
NoCamera == asked = 0 /\ live = {} /\ timers = {} /\ ~scannerActive

\* A page that has once been left during the question keeps none of this.
ScanInv ==
    ~leftWaiting => /\ tab = "map" => NoCamera
                    /\ tab = "scan" => OneCamera

LEMMA StepScan == ScanInv /\ [C!Next]_scanVars => ScanInv'
<1> SUFFICES ASSUME ScanInv, [C!Next]_scanVars PROVE ScanInv'
  OBVIOUS
<1> USE DEF ScanInv, OneCamera, NoCamera
<1>1. CASE UNCHANGED <<tab, scannerActive, asked, live, videoStream, timers, scanInterval,
                       leftWaiting>>
  BY <1>1
<1>2. CASE C!OpenScan
  BY <1>2 DEF C!OpenScan
<1>3. CASE C!OpenMap
  <2>1. SUFFICES ASSUME ~leftWaiting' PROVE NoCamera'
    BY <1>3 DEF C!OpenMap
  <2>2. ~leftWaiting /\ ~(asked > 0)
    BY <1>3, <2>1, Zenon DEF C!OpenMap
  <2> QED
    BY <1>3, <2>2 DEF C!OpenMap, C!StopScanner
<1>4. CASE C!Grant
  BY <1>4 DEF C!Grant
<1>5. CASE C!Deny
  BY <1>5 DEF C!Deny
<1>6. CASE C!CodeFound \/ C!SubmitManualCode
  BY <1>6 DEF C!CodeFound, C!SubmitManualCode, C!Leave
<1> QED
  BY <1>1, <1>2, <1>3, <1>4, <1>5, <1>6
  DEF C!Next, scanVars, C!Detect, C!NothingFound, C!PollAnswered

\* However often the driver goes to and fro and however late he answers, the home page
\* shows the stations around the centre of its map or is about to, unless a fresh cache
\* was drawn for another place, an earlier answer came last or the request failed, and
\* turns off the camera when the scan tab is left, unless it was once left before the
\* question for the camera was answered (scheduleFetch, fetchNearby, stopScanner).
THEOREM HomePageCorrect == FrontSpec => []HomePageSettles
<1> DEFINE HomeInv == /\ scene = "map" => M!Followed
                      /\ scene = "scan" => ScanInv
<1>1. FrontInit => HomeInv
  BY DEF FrontInit, M!Init, M!Followed, C!Init, ScanInv, NoCamera
<1>2. HomeInv /\ [FrontNext]_frontVars => HomeInv'
  BY OneScene, StepMoves, StepScan
<1>3. HomeInv => HomePageSettles
  BY DEF HomePageSettles, M!MovesFollowed, M!Followed, C!CameraOff, ScanInv, NoCamera
<1> QED
  BY <1>1, <1>2, <1>3, PTL DEF FrontSpec

-----------------------------------------------------------------------------
(* The session and the registration: their own proofs, in their scenes *)

SP == INSTANCE AdminSession_proof
RP == INSTANCE AdminRegistration_proof WITH dialog <- otp

LEMMA SessionInit == S!Init => SP!SessionInv
<1>1. S!Init => SP!Init
  BY DEF S!Init, SP!Init, S!Idle, SP!Idle
<1> QED
  BY <1>1, SP!InitSession

LEMMA SessionStep == SP!SessionInv /\ [S!Next]_sessionVars => SP!SessionInv'
<1>1. S!Next => SP!Next
  BY DEF S!Next, S!Expire, S!LogIn, S!LoginForm, S!LogOut, S!Forget, S!Redirect, S!Unload,
         S!Refreshed, S!Resume, S!RefreshFails, S!Send, S!Becomes, S!Answered,
         S!Unauthorized, S!StartRefresh, S!GiveUp, S!Park, S!UploadUnauthorized, S!Idle,
         SP!Next, SP!Expire, SP!LogIn, SP!LoginForm, SP!LogOut, SP!Forget, SP!Redirect,
         SP!Unload, SP!Refreshed, SP!Resume, SP!RefreshFails, SP!Send, SP!Becomes,
         SP!Answered, SP!Unauthorized, SP!StartRefresh, SP!GiveUp, SP!Park,
         SP!UploadUnauthorized, SP!Idle
<1>2. [S!Next]_sessionVars => [SP!Next]_(SP!sessionVars)
  BY <1>1 DEF sessionVars, SP!sessionVars
<1> QED
  BY <1>2, SP!StepType, SP!StepFlag, SP!StepStranded DEF SP!SessionInv

LEMMA RegistrationInit == R!Init => RP!RegInv
<1>1. R!Init => RP!Init
  BY DEF R!Init, RP!Init, R!NoPending, RP!NoPending, R!NoCall, RP!NoCall
<1> QED
  BY <1>1, RegistrationBounds, RP!InitReg DEF RP!Bounds

LEMMA SameRegistration == [R!Next]_regVars => [RP!Next]_(RP!regVars)
<1>1. R!Next => RP!Next
  BY DEF R!Next, R!Initiate, R!RegisterForm, R!CloseDialog, R!Tick, R!EnterDigits,
         R!SendVerify, R!ReadVerify, R!Exhausted, R!WrongCode, R!Attempt, R!RightCode,
         R!VerifyAnswered, R!SendResend, R!ReadResend, R!WriteResend, R!ResendAnswered,
         R!NoPending, R!NoCall,
         RP!Next, RP!Initiate, RP!RegisterForm, RP!CloseDialog, RP!Tick, RP!EnterDigits,
         RP!SendVerify, RP!ReadVerify, RP!Exhausted, RP!WrongCode, RP!Attempt,
         RP!RightCode, RP!VerifyAnswered, RP!SendResend, RP!ReadResend, RP!WriteResend,
         RP!ResendAnswered, RP!NoPending, RP!NoCall
<1> QED
  BY <1>1 DEF regVars, RP!regVars

LEMMA RegistrationStep == RP!RegInv /\ [R!Next]_regVars => RP!RegInv'
BY SameRegistration, RegistrationBounds, RP!StepReg DEF RP!Bounds

\* However logins, logouts, expiries and refreshes of the tabs overlap, every request of
\* the console that waits is behind a refresh in flight, or in a page about to be
\* unloaded (isRefreshing, refreshSubscribers).
THEOREM NoRequestWaitsForever == FrontSpec => []NoneStranded
<1> DEFINE Inv == scene = "session" => SP!SessionInv
<1>1. FrontInit => Inv
  BY SessionInit DEF FrontInit
<1>2. Inv /\ [FrontNext]_frontVars => Inv'
  BY OneScene, SessionStep
<1>3. Inv => NoneStranded
  BY DEF NoneStranded, S!NoneStranded, SP!SessionInv, SP!NoneStranded
<1> QED
  BY <1>1, <1>2, <1>3, PTL DEF FrontSpec

\* However verifications, resends, restarts and expiries overlap, no mailed code is
\* compared with more wrong ones than attempts are allowed (register_verify,
\* isVerifyingOtp).
THEOREM CodesAreHardToGuess == FrontSpec => []GuessesBounded
<1> DEFINE Inv == scene = "registration" => RP!RegInv
<1>1. FrontInit => Inv
  BY RegistrationInit DEF FrontInit
<1>2. Inv /\ [FrontNext]_frontVars => Inv'
  BY OneScene, RegistrationStep
<1>3. Inv => GuessesBounded
  BY DEF GuessesBounded, R!GuessesBounded, RP!RegInv, RP!GuessesBounded
<1> QED
  BY <1>1, <1>2, <1>3, PTL DEF FrontSpec

-----------------------------------------------------------------------------
(* The forms *)

\* The fields' tables, by name.
InputsOf(f, x) == Forms[f].inputs[x]
LoadsOf(f, x) == Forms[f].loads[x]
SendsOf(f, x) == Forms[f].sends[x]
IsField(f, x) == f \in DOMAIN Forms /\ x \in DOMAIN Forms[f].inputs

\* What was typed is in the draft, and what a request carries was in the draft when it
\* was sent.
DraftInv ==
    /\ form = "none" => open = "none" /\ typed = "nothing" /\ request.step = "none"
    /\ form # "none" => IsField(form, field)
    /\ open # "none" => open \in F!Rows
    /\ typed # "nothing" => typed \in InputsOf(form, field) /\ entry = typed
    /\ request.step = "sent" =>
           /\ request.row \in F!Rows
           /\ request.typed # "nothing" =>
                  /\ request.typed \in InputsOf(form, field)
                  /\ request.value = SendsOf(form, field)[request.typed]
    /\ DOMAIN rows = F!Rows

\* A page mounts the form of a field.
LEMMA MountsField == ASSUME NEW a \in F!Watchable PROVE IsField(a[1], a[2])
<1>1. PICK b \in F!Fields :
          a = CHOOSE c \in F!Fields : F!Kind(c[1], c[2]) = F!Kind(b[1], b[2])
  BY DEF F!Watchable
<1>2. a \in F!Fields
  BY <1>1
<1> QED
  BY <1>2 DEF F!Fields, IsField

LEMMA InitDraft == F!Init => DraftInv
BY DEF F!Init, DraftInv, F!NoRequest, F!Nothing, F!Rows

\* A request that is over carries nothing.
LEMMA Done ==
    ASSUME NEW r, NEW q, q = [F!NoRequest EXCEPT !.row = r, !.step = "done"]
    PROVE  q.step = "done"
BY DEF F!NoRequest

LEMMA StepDraft == DraftInv /\ [F!Next]_formVars => DraftInv'
<1> SUFFICES ASSUME DraftInv, [F!Next]_formVars PROVE DraftInv'
  OBVIOUS
<1> USE DEF DraftInv, F!Nothing
<1>1. CASE UNCHANGED formVars
  BY <1>1 DEF formVars
<1>2. ASSUME NEW a \in F!Watchable, form = "none", F!Mount(a[1], a[2]) PROVE DraftInv'
  <2>1. IsField(a[1], a[2]) /\ a[1] # "none"
    BY MountsField, Z3 DEF IsField, Forms
  <2> QED
    BY <1>2, <2>1 DEF F!Mount, F!Rows
<1>3. ASSUME NEW r \in F!Rows, F!Open(r) \/ F!OtherWrites(r) PROVE DraftInv'
  BY <1>3 DEF F!Open, F!TakeOver, F!OtherWrites
<1>4. ASSUME NEW v \in F!Inputs, form # "none", F!Type(v) PROVE DraftInv'
  BY <1>4 DEF F!Type, F!Inputs, InputsOf
<1>5. CASE F!DataArrives \/ F!Close \/ F!Succeed
  BY <1>5 DEF F!DataArrives, F!TakeOver, F!Close, F!Succeed, F!NoRequest
<1>6. CASE F!Submit
  BY <1>6 DEF F!Submit, F!Sends, SendsOf
<1>7. CASE F!Commit \/ F!Fail
  <2>1. request'.step # "sent"
    <3>1. CASE F!Commit
      <4>1. request' = [F!NoRequest EXCEPT !.row = request.row, !.step = "done"]
        BY <3>1, Zenon DEF F!Commit
      <4> QED
        BY <4>1, Done, Zenon
    <3>2. CASE F!Fail
      BY <3>2 DEF F!Fail, F!NoRequest
    <3> QED
      BY <1>7, <3>1, <3>2
  <2>2. DOMAIN rows' = DOMAIN rows
    BY <1>7 DEF F!Commit, F!Fail
  <2>3. UNCHANGED <<form, field, open, entry, typed>> /\ (form = "none" => request.step = "none")
    BY <1>7 DEF F!Commit, F!Fail
  <2>4. form # "none"
    BY <1>7 DEF F!Commit, F!Fail
  <2> QED
    BY <2>1, <2>2, <2>3, <2>4 DEF IsField, InputsOf
<1> QED
  BY <1>1, <1>2, <1>3, <1>4, <1>5, <1>6, <1>7 DEF F!Next

\* A value the user typed ends up in the record it was typed for (Type, Submit, Commit).
THEOREM EditsArrive == FrontSpec => EditReachesRow
<1>1. FrontInit => DraftInv
  BY InitDraft DEF FrontInit
<1>2. DraftInv /\ [FrontNext]_frontVars => DraftInv'
  <2>1. ASSUME DraftInv, UNCHANGED formVars PROVE DraftInv'
    BY <2>1 DEF DraftInv, formVars
  <2> QED
    BY <2>1, OneScene, StepDraft
<1>3. DraftInv => [F!Commit /\ request.typed = "x" /\ ~F!NotSaved =>
                       \/ rows'[request.row] = request.typed
                       \/ F!Sends = F!Instant /\ rows'[request.row] = "moved"]_(F!formVars)
  <2> SUFFICES ASSUME DraftInv, F!Commit, request.typed = "x", ~F!NotSaved
               PROVE  \/ rows'[request.row] = "x"
                      \/ F!Sends = F!Instant /\ rows'[request.row] = "moved"
    OBVIOUS
  <2>1. /\ IsField(form, field) /\ "x" \in InputsOf(form, field)
        /\ request.value = SendsOf(form, field)["x"]
        /\ request.row \in DOMAIN rows
    BY DEF DraftInv, F!Commit
  <2>2. Instant = F!Instant
    BY DEF Instant, F!Instant, Values, F!Values
  <2>3. \/ request.value = "x"
        \/ F!Sends = F!Instant /\ request.value = "moved"
    BY <2>1, <2>2, InputsAreSent DEF IsField, InputsOf, SendsOf, F!Sends, F!NotSaved
  <2>4. rows'[request.row] = request.value
    <3>1. rows' = [rows EXCEPT ![request.row] = F!Merged(rows[request.row], request.value)]
      BY DEF F!Commit
    <3> QED
      BY <2>1, <2>3, <3>1 DEF F!Merged, F!MergedInto
  <2> QED
    BY <2>3, <2>4
<1> QED
  BY <1>1, <1>2, <1>3, PTL DEF FrontSpec, EditReachesRow, F!EditReachesRow

\* What a field that saving does not overwrite can hold in a record.
Held(f, x) == CHOOSE W \in SUBSET Values : RoundTrips(f, x, W)

LEMMA HeldRoundTrips ==
    ASSUME NEW f, NEW x, IsField(f, x), ~F!OverwrittenIn(f, x)
    PROVE  RoundTrips(f, x, Held(f, x))
BY FieldsRoundTrip DEF Held, IsField

\* A record holds such a value.  A form the user did not touch shows the value it has
\* taken over, and a request he did not touch carries what it becomes when it is sent.
KeepInv ==
    form # "none" /\ ~F!OverwrittenIn(form, field) =>
        /\ \A r \in F!Rows : rows[r] \in Held(form, field)
        /\ open # "none" /\ typed = "nothing" =>
               base \in Held(form, field) /\ entry = LoadsOf(form, field)[base]
        /\ request.step = "sent" /\ request.typed = "nothing" =>
               /\ request.base \in Held(form, field)
               /\ request.value = SendsOf(form, field)[LoadsOf(form, field)[request.base]]

\* What a request does to the field of a record.
LEMMA CommitKeeps ==
    ASSUME DraftInv, KeepInv, F!Commit, ~F!OverwrittenIn(form, field)
    PROVE  /\ rows'[request.row] \in Held(form, field)
           /\ request.typed = "nothing" =>
                  \/ rows'[request.row] \in {rows[request.row], request.base}
                  \/ request.base \in {"null", "blank", "zero"} /\ rows'[request.row] = "std"
<1> DEFINE W == Held(form, field)
           new == F!MergedInto(rows[request.row], request.value, Forms[form].store)
<1>1. /\ request.step = "sent" /\ form # "none" /\ IsField(form, field)
      /\ request.row \in F!Rows /\ request.row \in DOMAIN rows
      /\ rows[request.row] \in W
  BY DEF DraftInv, KeepInv, F!Commit
<1>2. RoundTrips(form, field, W)
  BY <1>1, HeldRoundTrips
<1>3. rows'[request.row] = new
  <2>1. rows' = [rows EXCEPT ![request.row] = F!Merged(rows[request.row], request.value)]
    BY DEF F!Commit
  <2> QED
    BY <1>1, <2>1 DEF F!Merged
<1>4. CASE request.typed = "nothing"
  <2>1. /\ request.base \in W
        /\ request.value = SendsOf(form, field)[LoadsOf(form, field)[request.base]]
    BY <1>1, <1>4 DEF KeepInv
  <2>2. LoadsOf(form, field)[request.base] \in {LoadsOf(form, field)[w] : w \in W}
    BY <2>1
  <2>3. new \in W
    BY <1>1, <1>2, <2>1, <2>2 DEF RoundTrips, SendsOf, LoadsOf
  <2>4. \/ new \in {rows[request.row], request.base}
        \/ request.base \in {"null", "blank", "zero"} /\ new = "std"
    <3>1. \A old, v \in W :
             LET now == F!MergedInto(old, SendsOf(form, field)[LoadsOf(form, field)[v]],
                                     Forms[form].store)
             IN  now \in {old, v} \/ (v \in {"null", "blank", "zero"} /\ now = "std")
      BY <1>2 DEF RoundTrips, SendsOf, LoadsOf
    <3> HIDE DEF W
    <3> QED
      BY <1>1, <2>1, <3>1
  <2> HIDE DEF new
  <2> QED
    BY <1>3, <2>3, <2>4
<1>5. CASE request.typed # "nothing"
  <2>1. /\ request.typed \in InputsOf(form, field)
        /\ request.value = SendsOf(form, field)[request.typed]
    BY <1>1, <1>5 DEF DraftInv
  <2>2. \A old \in W, v \in InputsOf(form, field) :
           F!MergedInto(old, SendsOf(form, field)[v], Forms[form].store) \in W
    BY <1>2 DEF RoundTrips, SendsOf, InputsOf
  <2>3. new \in W
    <3>1. request.typed \in InputsOf(form, field) /\ rows[request.row] \in W
      BY <1>1, <2>1
    <3>2. F!MergedInto(rows[request.row], SendsOf(form, field)[request.typed],
                       Forms[form].store) \in W
      BY <2>2, <3>1
    <3>3. new = F!MergedInto(rows[request.row], SendsOf(form, field)[request.typed],
                             Forms[form].store)
      BY <2>1
    <3> HIDE DEF new, W
    <3> QED
      BY <3>2, <3>3
  <2> HIDE DEF new
  <2> QED
    BY <1>3, <1>5, <2>3
<1> QED
  BY <1>4, <1>5

LEMMA InitKeep == F!Init => KeepInv
BY DEF F!Init, KeepInv

LEMMA StepKeep == DraftInv /\ KeepInv /\ [F!Next]_formVars => KeepInv'
<1> SUFFICES ASSUME DraftInv, KeepInv, [F!Next]_formVars,
                    (form # "none" /\ ~F!OverwrittenIn(form, field))'
             PROVE  KeepInv'
  BY DEF KeepInv
<1>1. CASE UNCHANGED formVars
  BY <1>1 DEF formVars, KeepInv
<1>2. ASSUME NEW a \in F!Watchable, form = "none", F!Mount(a[1], a[2]) PROVE KeepInv'
  <2>1. IsField(a[1], a[2]) /\ form' = a[1] /\ field' = a[2]
    BY <1>2, MountsField DEF F!Mount
  <2>2. RoundTrips(form', field', Held(form', field'))
    BY <2>1, HeldRoundTrips
  <2>3. PICK v \in F!Holds(form', field') : rows' = [r1 |-> v, r2 |-> "y"]
    <3>1. \E v \in F!Holds(a[1], a[2]) : rows' = [r1 |-> v, r2 |-> "y"]
      BY <1>2 DEF F!Mount
    <3> QED
      BY <2>1, <3>1
  <2>4. \A r \in F!Rows : rows'[r] \in Held(form', field')
    BY <2>2, <2>3 DEF RoundTrips, F!Rows
  <2>5. open' = "none" /\ request'.step = "none"
    BY <1>2 DEF F!Mount, DraftInv
  <2> QED
    BY <2>4, <2>5 DEF KeepInv
<1>3. CASE form # "none" /\ UNCHANGED <<form, field>>
  <2>0. /\ ~F!OverwrittenIn(form, field) /\ IsField(form, field)
        /\ RoundTrips(form, field, Held(form, field))
    BY <1>3, HeldRoundTrips DEF DraftInv
  <2>a. Forms[form].when # "once"
    BY <2>0 DEF F!OverwrittenIn
  <2>b. \A v \in Held(form, field) : F!Loads[v] = LoadsOf(form, field)[v] /\ F!Loads[v] # "keep"
    BY <2>0 DEF RoundTrips, F!Loads, LoadsOf
  <2>1. ASSUME NEW r \in F!Rows, F!Open(r) PROVE KeepInv'
    BY <1>3, <2>0, <2>a, <2>b, <2>1 DEF F!Open, F!When, F!TakeOver, KeepInv
  <2>2. ASSUME NEW r \in F!Rows, F!OtherWrites(r) PROVE KeepInv'
    <3>1. "x" \in Held(form, field)
      BY <2>0 DEF RoundTrips
    <3>2. \A q \in F!Rows : rows'[q] \in {rows[q], "x"}
      BY <2>2 DEF F!OtherWrites, DraftInv
    <3> QED
      BY <1>3, <2>0, <2>2, <3>1, <3>2 DEF F!OtherWrites, KeepInv
  <2>3. ASSUME NEW v \in F!Inputs, F!Type(v) PROVE KeepInv'
    <3>1. v # "nothing"
      BY <2>0, InputsAreSent DEF IsField, F!Inputs, F!Nothing
    <3> QED
      BY <1>3, <2>0, <2>3, <3>1 DEF F!Type, KeepInv
  <2>4. CASE F!DataArrives
    BY <1>3, <2>0, <2>b, <2>4 DEF F!DataArrives, F!TakeOver, KeepInv, DraftInv
  <2>5. CASE F!Close
    BY <1>3, <2>0, <2>5 DEF F!Close, KeepInv
  <2>6. CASE F!Submit
    BY <1>3, <2>0, <2>6 DEF F!Submit, F!Sends, SendsOf, F!Nothing, KeepInv
  <2>7. CASE F!Commit
    <3>1. request'.step # "sent"
      <4>1. request' = [F!NoRequest EXCEPT !.row = request.row, !.step = "done"]
        BY <2>7, Zenon DEF F!Commit
      <4> QED
        BY <4>1, Done
    <3>2. \A q \in F!Rows : q # request.row => rows'[q] = rows[q]
      <4>1. rows' = [rows EXCEPT ![request.row] = F!Merged(rows[request.row], request.value)]
        BY <2>7 DEF F!Commit
      <4> QED
        BY <4>1 DEF DraftInv
    <3>3. rows'[request.row] \in Held(form, field)
      BY <2>0, <2>7, CommitKeeps
    <3>4. UNCHANGED <<open, base, entry, typed>>
      BY <2>7 DEF F!Commit
    <3> QED
      BY <1>3, <2>0, <3>1, <3>2, <3>3, <3>4 DEF KeepInv
  <2>8. CASE F!Fail \/ F!Succeed
    BY <1>3, <2>0, <2>8 DEF F!Fail, F!Succeed, F!NoRequest, KeepInv
  <2> QED
    BY <1>1, <1>3, <2>1, <2>2, <2>3, <2>4, <2>5, <2>6, <2>7, <2>8 DEF F!Next
<1>4. \/ UNCHANGED formVars
      \/ \E a \in F!Watchable : form = "none" /\ F!Mount(a[1], a[2])
      \/ form # "none" /\ UNCHANGED <<form, field>>
  BY DEF F!Next, F!Open, F!OtherWrites, F!Type, F!DataArrives, F!Close, F!Submit, F!Commit,
         F!Succeed, F!Fail, DraftInv
<1> QED
  BY <1>1, <1>2, <1>3, <1>4

\* Saving a record leaves a field the user did not touch as it was when the form was
\* filled, or as it is by now; only a field without a value may get the form's default
\* (the load effects, handleSave, the PATCH handlers).
THEOREM UntouchedIsKept == FrontSpec => UntouchedKept
<1>1. FrontInit => DraftInv /\ KeepInv
  BY InitDraft, InitKeep DEF FrontInit
<1>2. DraftInv /\ KeepInv /\ [FrontNext]_frontVars => (DraftInv /\ KeepInv)'
  <2>1. ASSUME DraftInv, KeepInv, UNCHANGED formVars PROVE (DraftInv /\ KeepInv)'
    BY <2>1 DEF DraftInv, KeepInv, formVars
  <2> QED
    BY <2>1, OneScene, StepDraft, StepKeep
<1>3. DraftInv /\ KeepInv =>
          [F!Commit /\ request.typed = F!Nothing /\ ~F!Overwritten =>
               \/ rows'[request.row] \in {rows[request.row], request.base}
               \/ /\ request.base \in {"null", "blank", "zero"}
                  /\ rows'[request.row] = "std"]_(F!formVars)
  BY CommitKeeps DEF F!Nothing, F!Overwritten
<1> QED
  BY <1>1, <1>2, <1>3, PTL DEF FrontSpec, UntouchedKept, F!UntouchedKept

-----------------------------------------------------------------------------
(* The settings page *)

\* A draft the user did not touch shows what was loaded, which of a secret that has a
\* value is its mask.
WatchedInv ==
    /\ setting \in DOMAIN Settings
    /\ ~changed /\ seen # "nothing" /\ G!TakenOver(seen) => value = seen
    /\ G!Watched.secret => /\ load \in {"idle", "sent", "blank", "masked"}
                           /\ seen \in {"nothing", "blank", "masked"}

SettingsInv ==
    IF setting = "none" THEN save = G!NoCall /\ load = "idle" /\ seen = "nothing" ELSE WatchedInv

LEMMA InitSettings == G!Init => SettingsInv
BY DEF G!Init, SettingsInv, G!NoCall, G!Nothing

LEMMA MountSettings ==
    ASSUME SettingsInv, NEW x \in G!Kinds, setting = "none", G!Mount(x)
    PROVE  SettingsInv'
<1>1. PICK y \in DOMAIN Settings : x = CHOOSE z \in DOMAIN Settings : G!Alike(y, z)
  BY DEF G!Kinds
<1>2. G!Alike(y, y)
  BY DEF G!Alike
<1>3. x \in DOMAIN Settings /\ x # "none"
  BY <1>1, <1>2, SettingsAreSaved
<1>4. seen' = "nothing" /\ load' = "sent" /\ setting' = x
  BY DEF G!Mount, SettingsInv
<1> QED
  BY <1>3, <1>4 DEF SettingsInv, WatchedInv

LEMMA StepSettings == SettingsInv /\ [G!Next]_settingsVars => SettingsInv'
<1> SUFFICES ASSUME SettingsInv, [G!Next]_settingsVars PROVE SettingsInv'
  OBVIOUS
<1>1. CASE UNCHANGED <<setting, value, changed, seen, load, save>>
  BY <1>1 DEF SettingsInv, WatchedInv, G!TakenOver, G!Watched
<1>2. ASSUME NEW x \in G!Kinds, setting = "none", G!Mount(x) PROVE SettingsInv'
  BY <1>2, MountSettings
<1>3. CASE setting # "none" /\ UNCHANGED setting
  <2>0. WatchedInv /\ G!Watched' = G!Watched
    BY <1>3 DEF SettingsInv, G!Watched
  <2>a. SUFFICES WatchedInv'
    BY <1>3 DEF SettingsInv
  <2> USE DEF WatchedInv, G!TakenOver
  <2>1. CASE G!Read
    BY <2>0, <2>1, <1>3 DEF G!Read, G!Served
  <2>2. CASE G!FetchFails
    BY <2>0, <2>2, <1>3 DEF G!FetchFails, G!Nothing
  <2>3. CASE G!Arrive
    <3>1. CASE value' = G!Loaded(load) /\ changed' = (changed /\ ~G!TakenOver(load))
      <4>1. ~changed' /\ G!TakenOver(load) => value' = load
        BY <3>1 DEF G!Loaded
      <4>2. ~changed' /\ ~G!TakenOver(load) => ~changed /\ value' = value
        BY <3>1 DEF G!Loaded
      <4> QED
        BY <2>0, <2>3, <4>1, <4>2, <1>3 DEF G!Arrive, G!Values
    <3>2. CASE seen = load /\ UNCHANGED <<value, changed>>
      BY <2>0, <2>3, <3>2, <1>3 DEF G!Arrive, G!Values
    <3> QED
      BY <2>3, <3>1, <3>2 DEF G!Arrive
  <2>4. CASE G!Refetch
    BY <2>0, <2>4, <1>3 DEF G!Refetch
  <2>5. CASE (\E v \in {"blank", "x"} : G!Type(v)) \/ G!RemoveLogo
    BY <2>0, <2>5, <1>3 DEF G!Type, G!RemoveLogo
  <2>6. CASE (\E g \in G!Groups : G!Save(g)) \/ G!UploadLogo \/ G!RestoreBackup
    BY <2>0, <2>6, <1>3 DEF G!Save, G!UploadLogo, G!RestoreBackup, G!Send
  <2>7. CASE G!Succeed
    <3>1. changed' \/ UNCHANGED <<value, changed>>
      BY <2>7 DEF G!Succeed
    <3>2. seen' = seen /\ load' \in {load, "sent"}
      BY <2>7 DEF G!Succeed
    <3> QED
      BY <2>0, <3>1, <3>2, <1>3
  <2>8. CASE G!Fail
    BY <2>0, <2>8, <1>3 DEF G!Fail
  <2>9. CASE UNCHANGED <<setting, value, changed, seen, load, save>>
    BY <2>0, <2>9
  <2> QED
    BY <2>1, <2>2, <2>3, <2>4, <2>5, <2>6, <2>7, <2>8, <2>9, <1>3
    DEF G!Next, settingsVars, G!OpenTest, G!SmtpTest, G!SmsTest, G!TestAnswered, G!CloseTest
<1>4. \/ UNCHANGED <<setting, value, changed, seen, load, save>>
      \/ \E x \in G!Kinds : setting = "none" /\ G!Mount(x)
      \/ setting # "none" /\ UNCHANGED setting
  <2>1. CASE setting = "none"
    <3>1. save = G!NoCall /\ load = "idle" /\ setting \notin DOMAIN BrandLogo
      BY <2>1 DEF SettingsInv, BrandLogo, Table
    <3>2. ~G!Succeed /\ ~G!Fail
      BY <3>1 DEF G!Succeed, G!Fail
    <3>3. ~G!Read /\ ~G!FetchFails /\ ~G!Arrive /\ ~G!Refetch /\ ~G!RemoveLogo
      BY <2>1, <3>1 DEF G!Read, G!FetchFails, G!Arrive, G!Values, G!Refetch, G!RemoveLogo
    <3>4. /\ ~\E v \in {"blank", "x"} : G!Type(v)
          /\ ~\E g \in G!Groups : G!Save(g)
          /\ ~G!UploadLogo /\ ~G!RestoreBackup
      BY <2>1 DEF G!Type, G!Save, G!Send, G!UploadLogo, G!RestoreBackup
    <3> QED
      BY <3>2, <3>3, <3>4
      DEF G!Next, settingsVars, G!OpenTest, G!SmtpTest, G!SmsTest, G!TestAnswered, G!CloseTest
  <2>2. CASE setting # "none"
    <3>1. (\E g \in G!Groups : G!Save(g)) \/ G!UploadLogo \/ G!RestoreBackup => UNCHANGED setting
      BY DEF G!Save, G!Send, G!UploadLogo, G!RestoreBackup
    <3>2. G!Succeed \/ G!Fail => UNCHANGED setting
      BY DEF G!Succeed, G!Fail
    <3> QED
      BY <2>2, <3>1, <3>2
      DEF G!Next, settingsVars, G!Read, G!FetchFails, G!Arrive, G!Refetch, G!Type, G!RemoveLogo,
          G!OpenTest, G!SmtpTest, G!SmsTest, G!TestAnswered, G!CloseTest
  <2> QED
    BY <2>1, <2>2
<1> QED
  BY <1>1, <1>2, <1>3, <1>4

\* What a save sends of a setting the user did not touch.
LEMMA SendsWhatWasLoaded ==
    ASSUME SettingsInv, ~changed, seen # G!Nothing, G!TakenOver(seen),
           NEW g \in G!SentTo(setting), G!Save(g)
    PROVE  save'.sent = IF G!Watched.secret THEN "masked" ELSE seen
<1>1. setting # "none" /\ WatchedInv
  BY DEF G!Save, G!Send, SettingsInv
<1>2. save'.sent = value
  BY DEF G!Save, G!Send, G!SentTo
<1>3. value = seen
  BY <1>1 DEF WatchedInv, G!Nothing
<1>4. G!Watched.secret => seen = "masked"
  BY <1>1, SettingsAreSaved DEF WatchedInv, G!TakenOver, G!Nothing, G!Watched
<1> QED
  BY <1>2, <1>3, <1>4

-----------------------------------------------------------------------------
(* The API of the settings and its cache *)

PutSteps == {"none", "sent", "read", "fill", "write", "refresh"}
SentValues == RowValues \cup {"nothing", "masked"}
HeldValues == RowValues \cup {"nothing"}

\* Unless the group is upset, the requests hold what the row says, each as it needs it.
CacheInv ==
    /\ K!TypeOK
    /\ \A p \in Puts : puts[p].sent \in K!Sendable
    /\ K!CacheCurrent
    /\ ~upset =>
           /\ listing \in {"nothing", stored}
           /\ \A p \in Puts :
                  /\ puts[p].step \in {"fill", "refresh"} => puts[p].held = stored
                  /\ puts[p].step = "write" => puts[p].held = K!Merge(stored, puts[p].sent)

LEMMA InitCache == K!Init => CacheInv
<1> SUFFICES ASSUME K!Init PROVE CacheInv
  OBVIOUS
<1>1. \A p \in Puts : puts[p] = K!NoPut
  BY DEF K!Init
<1>2. \A p \in Puts : puts[p].step = "none" /\ puts[p].sent = "nothing" /\ puts[p].held = "nothing"
  BY <1>1 DEF K!NoPut, K!Nothing
<1>3. K!TypeOK
  <2>1. puts \in [Puts -> [step : {"none", "sent", "read", "fill", "write", "refresh"},
                           sent : RowValues \cup {K!Nothing, "masked"},
                           held : RowValues \cup {K!Nothing}]]
    BY DEF K!Init, K!NoPut
  <2> QED
    BY <1>2, <2>1 DEF K!Init, K!TypeOK, K!AtWork, K!Nothing
<1>4. \A p \in Puts : puts[p].sent \in K!Sendable
  BY <1>2 DEF K!Sendable, K!Nothing
<1>5. K!CacheCurrent /\ listing \in {"nothing", stored}
  BY DEF K!Init, K!CacheCurrent, K!Nothing
<1> QED
  BY <1>2, <1>3, <1>4, <1>5 DEF CacheInv

\* What a step does to the request it is of.
LEMMA GoesOn ==
    ASSUME K!TypeOK, NEW p \in Puts, NEW step \in PutSteps, NEW v \in HeldValues, K!Goes(p, step, v)
    PROVE  /\ puts' \in [Puts -> [step : PutSteps, sent : SentValues, held : HeldValues]]
           /\ puts'[p].step = step /\ puts'[p].held = v /\ puts'[p].sent = puts[p].sent
           /\ \A q \in Puts \ {p} : puts'[q] = puts[q]
BY DEF K!TypeOK, K!Goes, PutSteps, SentValues, HeldValues, K!Nothing

LEMMA Ends ==
    ASSUME K!TypeOK, NEW p \in Puts, puts' = [puts EXCEPT ![p] = K!NoPut]
    PROVE  /\ puts' \in [Puts -> [step : PutSteps, sent : SentValues, held : HeldValues]]
           /\ puts'[p].step = "none" /\ puts'[p].held = "nothing" /\ puts'[p].sent = "nothing"
           /\ \A q \in Puts \ {p} : puts'[q] = puts[q]
BY DEF K!TypeOK, K!NoPut, PutSteps, SentValues, HeldValues, K!Nothing

\* A merge is a value again.
LEMMA MergeIsValue ==
    ASSUME CacheInv, NEW p \in Puts, NEW old \in RowValues
    PROVE  K!Merge(old, puts[p].sent) \in RowValues
BY DEF CacheInv, K!Merge, K!Keeps, K!Sendable, K!Nothing

\* A step that changes one request, from what it makes of it and of the rest.
LEMMA StepOfOne ==
    ASSUME CacheInv, NEW p \in Puts,
           puts' \in [Puts -> [step : PutSteps, sent : SentValues, held : HeldValues]],
           \A q \in Puts \ {p} : puts'[q] = puts[q],
           puts'[p].sent \in K!Sendable,
           K!AtWork(p)' <=> puts'[p].held # "nothing",
           secret' = secret, stored' \in RowValues, cached' \in HeldValues, listing' \in HeldValues,
           upset' \in BOOLEAN, K!CacheCurrent',
           ~upset' => /\ listing' \in {"nothing", stored'}
                      /\ \/ stored' = stored /\ ~upset
                         \/ \A q \in Puts \ {p} : ~K!AtWork(q)
                      /\ puts'[p].step \in {"fill", "refresh"} => puts'[p].held = stored'
                      /\ puts'[p].step = "write" => puts'[p].held = K!Merge(stored', puts'[p].sent)
    PROVE  CacheInv'
<1>1. K!TypeOK'
  <2>1. \A q \in Puts : K!AtWork(q)' <=> puts'[q].held # "nothing"
    BY DEF CacheInv, K!TypeOK, K!AtWork, K!Nothing
  <2> QED
    BY <2>1 DEF CacheInv, K!TypeOK, K!Nothing, PutSteps, SentValues, HeldValues
<1>2. \A q \in Puts : puts'[q].sent \in K!Sendable'
  BY DEF CacheInv, K!Sendable
<1>3. ASSUME ~upset', NEW q \in Puts
      PROVE  /\ puts'[q].step \in {"fill", "refresh"} => puts'[q].held = stored'
             /\ puts'[q].step = "write" => puts'[q].held = K!Merge(stored', puts'[q].sent)
  <2>1. CASE q = p
    BY <1>3, <2>1
  <2>2. CASE q # p /\ ~K!AtWork(q)
    BY <2>2 DEF K!AtWork
  <2>3. CASE q # p /\ stored' = stored /\ ~upset
    BY <2>3 DEF CacheInv
  <2> QED
    BY <1>3, <2>1, <2>2, <2>3
<1>4. ~upset' => /\ listing' \in {"nothing", stored'}
                 /\ \A q \in Puts :
                        /\ puts'[q].step \in {"fill", "refresh"} => puts'[q].held = stored'
                        /\ puts'[q].step = "write" => puts'[q].held = K!Merge(stored, puts[q].sent)'
  BY <1>3 DEF K!Merge, K!Keeps
<1> QED
  BY <1>1, <1>2, <1>4 DEF CacheInv

LEMMA PutStep ==
    ASSUME CacheInv, NEW p \in Puts,
           \/ K!Hit(p) \/ K!Miss(p) \/ K!ReadRow(p) \/ K!Fill(p) \/ K!RowUnread(p)
           \/ K!Write(p) \/ K!Refresh(p) \/ K!PutFails(p)
    PROVE  CacheInv'
<1> USE DEF K!Nothing
<1>0. /\ K!TypeOK /\ puts[p].sent \in K!Sendable /\ secret' = secret
      /\ "nothing" \notin RowValues /\ "nothing" \in K!Sendable /\ "default" \in RowValues
      /\ stored \in RowValues /\ cached \in HeldValues /\ listing \in HeldValues /\ upset \in BOOLEAN
      /\ K!AtWork(p) <=> puts[p].held # "nothing"
  BY CacheValues
  DEF CacheInv, K!TypeOK, K!Sendable, HeldValues, K!Hit, K!Miss, K!ReadRow, K!Fill, K!RowUnread,
      K!Write, K!Refresh, K!PutFails
<1>h. puts[p].held \in HeldValues
  BY <1>0 DEF K!TypeOK, HeldValues
<1>1. CASE K!Hit(p)
  <2> DEFINE m == K!Merge(cached, puts[p].sent)
  <2>1. m \in RowValues
    BY <1>0, <1>1, MergeIsValue DEF K!Hit, HeldValues
  <2>2. K!Goes(p, "write", m) /\ UNCHANGED <<secret, stored, cached, listing>>
    BY <1>1 DEF K!Hit
  <2>3. ~upset' => ~upset /\ cached = stored
    BY <1>1, <1>0 DEF K!Hit, CacheInv, K!CacheCurrent
  <2>4. K!CacheCurrent'
    BY <2>3, <2>2 DEF K!CacheCurrent
  <2> HIDE DEF m
  <2>5. /\ puts' \in [Puts -> [step : PutSteps, sent : SentValues, held : HeldValues]]
        /\ puts'[p].step = "write" /\ puts'[p].held = m /\ puts'[p].sent = puts[p].sent
        /\ \A q \in Puts \ {p} : puts'[q] = puts[q]
    BY <1>0, <2>1, <2>2, GoesOn DEF PutSteps, HeldValues
  <2>6. upset' \in BOOLEAN
    BY <1>1 DEF K!Hit
  <2>7. ~upset' => m = K!Merge(stored', puts'[p].sent)
    BY <2>2, <2>3, <2>5 DEF m, K!Merge, K!Keeps
  <2>8. K!AtWork(p)' <=> puts'[p].held # "nothing"
    BY <1>0, <2>1, <2>5 DEF K!AtWork
  <2>9. ~upset' => listing' \in {"nothing", stored'}
    BY <2>2, <2>3 DEF CacheInv
  <2> QED
    BY <1>0, <2>2, <2>3, <2>4, <2>5, <2>6, <2>7, <2>8, <2>9, StepOfOne
<1>2. CASE K!Miss(p)
  <2>1. K!Goes(p, "read", "nothing") /\ UNCHANGED <<secret, stored, cached, listing, upset>>
    BY <1>2 DEF K!Miss
  <2>2. /\ puts' \in [Puts -> [step : PutSteps, sent : SentValues, held : HeldValues]]
        /\ puts'[p].step = "read" /\ puts'[p].held = "nothing" /\ puts'[p].sent = puts[p].sent
        /\ \A q \in Puts \ {p} : puts'[q] = puts[q]
    BY <1>0, <2>1, GoesOn DEF PutSteps, HeldValues
  <2>3. K!CacheCurrent'
    BY <2>1, <2>2, <1>2 DEF CacheInv, K!CacheCurrent, K!Miss
  <2>4. K!AtWork(p)' <=> puts'[p].held # "nothing"
    BY <2>2 DEF K!AtWork
  <2>5. ~upset' => listing' \in {"nothing", stored'}
    BY <2>1 DEF CacheInv
  <2> QED
    BY <1>0, <2>1, <2>2, <2>3, <2>4, <2>5, StepOfOne
<1>3. CASE K!ReadRow(p)
  <2>1. K!Goes(p, "fill", stored) /\ UNCHANGED <<secret, stored, cached, listing, upset>>
    BY <1>3 DEF K!ReadRow
  <2>2. /\ puts' \in [Puts -> [step : PutSteps, sent : SentValues, held : HeldValues]]
        /\ puts'[p].step = "fill" /\ puts'[p].held = stored /\ puts'[p].sent = puts[p].sent
        /\ \A q \in Puts \ {p} : puts'[q] = puts[q]
    BY <1>0, <2>1, GoesOn DEF PutSteps, HeldValues
  <2>3. K!CacheCurrent'
    BY <2>1, <2>2, <1>3 DEF CacheInv, K!CacheCurrent, K!ReadRow
  <2>4. K!AtWork(p)' <=> puts'[p].held # "nothing"
    BY <1>0, <2>2 DEF K!AtWork
  <2>5. ~upset' => listing' \in {"nothing", stored'}
    BY <2>1 DEF CacheInv
  <2> QED
    BY <1>0, <2>1, <2>2, <2>3, <2>4, <2>5, StepOfOne
<1>4. CASE K!Fill(p)
  <2> DEFINE m == K!Merge(puts[p].held, puts[p].sent)
  <2>1. puts[p].held \in RowValues /\ m \in RowValues
    BY <1>0, <1>h, <1>4, MergeIsValue DEF K!Fill, K!AtWork, HeldValues
  <2>2. K!Goes(p, "write", m) /\ cached' = puts[p].held /\ UNCHANGED <<secret, stored, listing, upset>>
    BY <1>4 DEF K!Fill
  <2>3. ~upset' => puts[p].held = stored
    BY <1>4, <2>2 DEF K!Fill, CacheInv
  <2>4. K!CacheCurrent'
    BY <2>2, <2>3 DEF K!CacheCurrent
  <2> HIDE DEF m
  <2>5. /\ puts' \in [Puts -> [step : PutSteps, sent : SentValues, held : HeldValues]]
        /\ puts'[p].step = "write" /\ puts'[p].held = m /\ puts'[p].sent = puts[p].sent
        /\ \A q \in Puts \ {p} : puts'[q] = puts[q]
    BY <1>0, <2>1, <2>2, GoesOn DEF PutSteps, HeldValues
  <2>7. ~upset' => m = K!Merge(stored', puts'[p].sent)
    BY <2>2, <2>3, <2>5 DEF m, K!Merge, K!Keeps
  <2>8. K!AtWork(p)' <=> puts'[p].held # "nothing"
    BY <1>0, <2>1, <2>5 DEF K!AtWork
  <2>9. ~upset' => listing' \in {"nothing", stored'}
    BY <2>2 DEF CacheInv
  <2>10. cached' \in HeldValues
    BY <2>1, <2>2 DEF HeldValues
  <2> QED
    BY <1>0, <2>2, <2>4, <2>5, <2>7, <2>8, <2>9, <2>10, StepOfOne
<1>5. CASE K!RowUnread(p)
  <2> DEFINE m == K!Merge("default", puts[p].sent)
  <2>1. m \in RowValues
    BY <1>0, MergeIsValue
  <2>2. K!Goes(p, "write", m) /\ upset' = TRUE /\ UNCHANGED <<secret, stored, cached, listing>>
    BY <1>5 DEF K!RowUnread
  <2>4. K!CacheCurrent'
    BY <2>2 DEF K!CacheCurrent
  <2> HIDE DEF m
  <2>5. /\ puts' \in [Puts -> [step : PutSteps, sent : SentValues, held : HeldValues]]
        /\ puts'[p].step = "write" /\ puts'[p].held = m /\ puts'[p].sent = puts[p].sent
        /\ \A q \in Puts \ {p} : puts'[q] = puts[q]
    BY <1>0, <2>1, <2>2, GoesOn DEF PutSteps, HeldValues
  <2>8. K!AtWork(p)' <=> puts'[p].held # "nothing"
    BY <1>0, <2>1, <2>5 DEF K!AtWork
  <2> QED
    BY <1>0, <2>2, <2>4, <2>5, <2>8, StepOfOne
<1>6. CASE K!Write(p)
  <2>1. K!Goes(p, "refresh", puts[p].held) /\ stored' = puts[p].held /\ UNCHANGED <<cached, listing>>
    BY <1>6 DEF K!Write
  <2>2. puts[p].held \in RowValues
    BY <1>0, <1>h, <1>6 DEF K!Write, K!AtWork, HeldValues
  <2>3. /\ puts' \in [Puts -> [step : PutSteps, sent : SentValues, held : HeldValues]]
        /\ puts'[p].step = "refresh" /\ puts'[p].held = puts[p].held /\ puts'[p].sent = puts[p].sent
        /\ \A q \in Puts \ {p} : puts'[q] = puts[q]
    BY <1>0, <1>h, <2>1, GoesOn DEF PutSteps
  <2>4. ~upset' => listing' = "nothing" /\ \A q \in Puts \ {p} : ~K!AtWork(q)
    BY <1>6, <2>1 DEF K!Write
  <2>5. K!CacheCurrent'
    BY <2>3 DEF K!CacheCurrent
  <2>6. K!AtWork(p)' <=> puts'[p].held # "nothing"
    BY <1>0, <2>2, <2>3 DEF K!AtWork
  <2>7. upset' \in BOOLEAN
    BY <1>6 DEF K!Write
  <2> QED
    BY <1>0, <2>1, <2>2, <2>3, <2>4, <2>5, <2>6, <2>7, StepOfOne
<1>7. CASE K!Refresh(p)
  <2>1. /\ puts' = [puts EXCEPT ![p] = K!NoPut] /\ cached' = puts[p].held
        /\ UNCHANGED <<stored, listing, upset>>
    BY <1>7 DEF K!Refresh
  <2>2. ~upset' => puts[p].held = stored /\ listing' \in {"nothing", stored'}
    BY <1>7, <2>1 DEF K!Refresh, CacheInv
  <2>3. K!CacheCurrent'
    BY <2>1, <2>2 DEF K!CacheCurrent
  <2>4. /\ puts' \in [Puts -> [step : PutSteps, sent : SentValues, held : HeldValues]]
        /\ puts'[p].step = "none" /\ puts'[p].held = "nothing" /\ puts'[p].sent = "nothing"
        /\ \A q \in Puts \ {p} : puts'[q] = puts[q]
    BY <1>0, <2>1, Ends
  <2>5. K!AtWork(p)' <=> puts'[p].held # "nothing"
    BY <2>4 DEF K!AtWork
  <2> QED
    BY <1>0, <1>h, <2>1, <2>2, <2>3, <2>4, <2>5, StepOfOne
<1>8. CASE K!PutFails(p)
  <2>1. /\ puts' = [puts EXCEPT ![p] = K!NoPut] /\ UNCHANGED <<stored, cached, listing>>
        /\ upset' = (upset \/ puts[p].step = "refresh")
    BY <1>8 DEF K!PutFails
  <2>2. ~upset' => ~upset /\ puts[p].step # "refresh" /\ listing' \in {"nothing", stored'}
    BY <2>1 DEF CacheInv
  <2>4. /\ puts' \in [Puts -> [step : PutSteps, sent : SentValues, held : HeldValues]]
        /\ puts'[p].step = "none" /\ puts'[p].held = "nothing" /\ puts'[p].sent = "nothing"
        /\ \A q \in Puts \ {p} : puts'[q] = puts[q]
    BY <1>0, <2>1, Ends
  <2>3. K!CacheCurrent'
    BY <2>1, <2>2, <2>4 DEF CacheInv, K!CacheCurrent
  <2>5. K!AtWork(p)' <=> puts'[p].held # "nothing"
    BY <2>4 DEF K!AtWork
  <2> QED
    BY <1>0, <2>1, <2>2, <2>3, <2>4, <2>5, StepOfOne
<1> QED
  BY <1>1, <1>2, <1>3, <1>4, <1>5, <1>6, <1>7, <1>8

LEMMA StepCache == CacheInv /\ [K!Next]_cacheVars => CacheInv'
<1> SUFFICES ASSUME CacheInv, [K!Next]_cacheVars PROVE CacheInv'
  OBVIOUS
<1> USE DEF K!Nothing
<1>1. ASSUME NEW p \in Puts, NEW v \in K!Sendable, K!Ask(p, v) PROVE CacheInv'
  <2>0. K!Sendable \subseteq SentValues
    BY DEF K!Sendable, SentValues
  <2>1. /\ puts' \in [Puts -> [step : PutSteps, sent : SentValues, held : HeldValues]]
        /\ puts'[p].step = "sent" /\ puts'[p].held = "nothing" /\ puts'[p].sent = v
        /\ \A q \in Puts \ {p} : puts'[q] = puts[q]
    BY <1>1, <2>0 DEF CacheInv, K!TypeOK, K!Ask, PutSteps, SentValues, HeldValues
  <2>2. UNCHANGED <<secret, stored, cached, listing, upset>> /\ puts[p].step = "none"
    BY <1>1 DEF K!Ask, K!NoPut
  <2>3. K!CacheCurrent'
    BY <2>1, <2>2 DEF CacheInv, K!CacheCurrent
  <2>4. K!AtWork(p)' <=> puts'[p].held # "nothing"
    BY <2>1 DEF K!AtWork
  <2>5. /\ ~upset' => listing' \in {"nothing", stored'}
        /\ stored' \in RowValues /\ cached' \in HeldValues /\ listing' \in HeldValues /\ upset' \in BOOLEAN
    BY <2>2 DEF CacheInv, K!TypeOK, HeldValues
  <2> QED
    BY <2>1, <2>2, <2>3, <2>4, <2>5, StepOfOne
<1>2. ASSUME UNCHANGED <<secret, puts>>, stored' \in RowValues, cached' \in HeldValues, listing' \in HeldValues,
             upset' \in BOOLEAN,
             ~upset' => /\ \/ ~upset /\ stored' = stored
                           \/ \A p \in Puts : ~K!AtWork(p)
                        /\ listing' \in {"nothing", stored'}
                        /\ \/ cached' \in {"nothing", stored'}
                           \/ \E p \in Puts : puts[p].step = "refresh"
      PROVE  CacheInv'
  <2>1. K!TypeOK'
    BY <1>2 DEF CacheInv, K!TypeOK, K!AtWork, HeldValues
  <2>2. \A q \in Puts : puts'[q].sent \in K!Sendable'
    BY <1>2 DEF CacheInv, K!Sendable
  <2>3. K!CacheCurrent'
    BY <1>2 DEF K!CacheCurrent
  <2>4. ASSUME ~upset', NEW q \in Puts
        PROVE  /\ puts[q].step \in {"fill", "refresh"} => puts[q].held = stored'
               /\ puts[q].step = "write" => puts[q].held = K!Merge(stored', puts[q].sent)
    BY <1>2, <2>4 DEF CacheInv, K!AtWork
  <2>5. ~upset' => /\ listing' \in {"nothing", stored'}
                   /\ \A q \in Puts :
                          /\ puts'[q].step \in {"fill", "refresh"} => puts'[q].held = stored'
                          /\ puts'[q].step = "write" => puts'[q].held = K!Merge(stored, puts[q].sent)'
    BY <1>2, <2>4 DEF K!Merge, K!Keeps
  <2> QED
    BY <2>1, <2>2, <2>3, <2>5 DEF CacheInv
<1>3. CASE K!ListRows
  BY <1>2, <1>3 DEF K!ListRows, CacheInv, K!TypeOK, K!CacheCurrent, HeldValues
<1>4. CASE K!ListAnswer
  BY <1>2, <1>4 DEF K!ListAnswer, CacheInv, K!TypeOK, HeldValues
<1>5. CASE K!Expire
  <2>1. ~upset' => \/ ~upset
                   \/ listing = "nothing" /\ \A p \in Puts : ~K!AtWork(p)
    BY <1>5 DEF K!Expire
  <2>2. upset' \in BOOLEAN
    BY <1>5 DEF K!Expire, CacheInv, K!TypeOK
  <2> QED
    BY <1>2, <1>5, <2>1, <2>2 DEF K!Expire, CacheInv, K!TypeOK, HeldValues
<1>6. CASE K!Restore
  <2>1. ~upset' => cached = "nothing" /\ listing = "nothing" /\ \A p \in Puts : ~K!AtWork(p)
    BY <1>6 DEF K!Restore
  <2>2. upset' \in BOOLEAN
    BY <1>6 DEF K!Restore
  <2> QED
    BY <1>2, <1>6, <2>1, <2>2 DEF K!Restore, CacheInv, K!TypeOK, HeldValues
<1>7. CASE UNCHANGED cacheVars
  BY <1>2, <1>7 DEF cacheVars, CacheInv, K!TypeOK, K!CacheCurrent, HeldValues
<1> QED
  BY <1>1, <1>3, <1>4, <1>5, <1>6, <1>7, PutStep DEF K!Next

LEMMA CacheAlways == CacheInv /\ [FrontNext]_frontVars => CacheInv'
<1>1. CacheInv /\ UNCHANGED cacheVars => CacheInv'
  BY StepCache
<1> QED
  BY <1>1, OneScene, StepCache

\* Unless the group was upset, what the cache serves is what the row says, but for the
\* moment between a write and its refresh: however the requests that save the group,
\* the listings, the expiry and the restores overlap, for any number of requests and any
\* values (get_setting, put_setting, get_all_settings).
THEOREM SettingsStayCurrent == FrontSpec => []SettingsCurrent
<1>1. FrontInit => CacheInv
  BY InitCache DEF FrontInit
<1>2. CacheInv => SettingsCurrent
  BY DEF CacheInv, SettingsCurrent
<1> QED
  BY <1>1, <1>2, CacheAlways, PTL DEF FrontSpec

\* Saving a group of settings keeps the settings the user did not touch, secrets
\* included: the page sends what it has loaded, a secret's mask among it, and the API
\* keeps in the row what it is not sent or gets back masked, unless the group was upset
\* (populateOrg and the like, _merge_update, put_setting).
THEOREM UntouchedSettingIsKept == FrontSpec => UntouchedSettingKept
<1>1. FrontInit => SettingsInv /\ CacheInv
  BY InitSettings, InitCache DEF FrontInit
<1>2. SettingsInv /\ [FrontNext]_frontVars => SettingsInv'
  <2>1. ASSUME SettingsInv, UNCHANGED settingsVars PROVE SettingsInv'
    BY <2>1, StepSettings
  <2> QED
    BY <2>1, OneScene, StepSettings
<1>3. SettingsInv =>
          [~changed /\ seen # G!Nothing /\ G!TakenOver(seen) =>
               \A g \in G!SentTo(setting) :
                   G!Save(g) =>
                       save'.sent = IF G!Watched.secret THEN "masked" ELSE seen]_(G!settingsVars)
  BY SendsWhatWasLoaded
<1>4. CacheInv =>
          [\A p \in Puts : K!Write(p) /\ K!Keeps(puts[p].sent) =>
               upset \/ stored' = stored]_(K!cacheVars)
  <2> SUFFICES ASSUME CacheInv, NEW p \in Puts, K!Write(p), K!Keeps(puts[p].sent), ~upset
               PROVE  stored' = stored
    OBVIOUS
  <2>1. stored' = K!Merge(stored, puts[p].sent)
    BY DEF K!Write, CacheInv
  <2> QED
    BY <2>1 DEF K!Merge
<1> QED
  BY <1>1, <1>2, <1>3, <1>4, CacheAlways, PTL
  DEF FrontSpec, UntouchedSettingKept, G!SavesWhatWasLoaded, K!KeptUnlessUpset

-----------------------------------------------------------------------------
(* The live charts, for buffers of any capacity *)

\* Induction over the naturals, from the library's facts on well-founded relations: a set
\* of naturals that is not empty has a least element.
LEMMA LeastElement ==
    ASSUME NEW S0, S0 \subseteq Nat, S0 # {}
    PROVE  \E x \in S0 : \A y \in S0 : x <= y
<1>1. IsWellFoundedOn(OpToRel(<, Nat), Nat)
  BY NatLessThanWellFounded
<1>2. PICK x \in S0 : \A y \in S0 : ~(<<y, x>> \in OpToRel(<, Nat))
  BY <1>1, WFMin
<1>3. \A y \in S0 : ~(y < x)
  BY <1>2 DEF OpToRel
<1> QED
  BY <1>3

\* A set that holds zero, and with a natural also the next one, holds every natural.
LEMMA Induction ==
    ASSUME NEW Holds, 0 \in Holds, \A n \in Nat : n \in Holds => n + 1 \in Holds
    PROVE  Nat \subseteq Holds
<1> SUFFICES ASSUME Nat \ Holds # {} PROVE FALSE
  OBVIOUS
<1>1. PICK x \in Nat \ Holds : \A y \in Nat \ Holds : x <= y
  BY LeastElement
<1> QED
  BY <1>1

\* A bounded set of naturals that is not empty has a highest element, and Highest is it.
LEMMA HighestIs ==
    ASSUME NEW H, H \subseteq Nat, H # {}, NEW m \in Nat, \A y \in H : y <= m
    PROVE  T!Highest(H) \in H /\ \A y \in H : y <= T!Highest(H)
<1> DEFINE D == {n \in Nat : m - n \in H}
<1>1. D # {}
  <2>1. PICK y \in H : TRUE
    OBVIOUS
  <2>2. m - y \in Nat /\ m - (m - y) = y
    BY <2>1
  <2> QED
    BY <2>1, <2>2
<1>2. PICK d \in D : \A e \in D : d <= e
  BY <1>1, LeastElement
<1>3. \A y \in H : y <= m - d
  <2> TAKE y \in H
  <2>1. m - y \in D
    OBVIOUS
  <2> QED
    BY <1>2, <2>1
<1>4. m - d \in H
  BY <1>2
<1>5. \E x \in H : \A y \in H : y <= x
  BY <1>3, <1>4
<1> QED
  BY <1>5 DEF T!Highest

\* The pointer goes on by one and wraps at the end of the buffer (push).
LEMMA Wraps == ASSUME NEW p \in 0..Capacity - 1
               PROVE  (p + 1) % Capacity = IF p + 1 = Capacity THEN 0 ELSE p + 1
BY TelemetryBounds

\* A function that pushes one item after the other is what PushAll computes.
LEMMA PushAllIs ==
    ASSUME NEW r, NEW items, NEW len \in Nat, Len(items) = len,
           NEW h, h = [n \in 0..len |-> IF n = 0 THEN r ELSE T!Push(h[n - 1], items[n])]
    PROVE  T!PushAll(r, items) = h[len]
<1> DEFINE after == CHOOSE f : f = [n \in 0..len |-> IF n = 0 THEN r ELSE T!Push(f[n - 1], items[n])]
<1>1. after = [n \in 0..len |-> IF n = 0 THEN r ELSE T!Push(after[n - 1], items[n])]
  OBVIOUS
<1>2. T!PushAll(r, items) = after[len]
  BY DEF T!PushAll
<1> HIDE DEF after
<1> DEFINE Alike == {n \in Nat : n <= len => after[n] = h[n]}
<1>3. 0 \in Alike
  BY <1>1
<1>4. ASSUME NEW n \in Nat, n \in Alike PROVE n + 1 \in Alike
  <2> SUFFICES ASSUME n + 1 <= len PROVE after[n + 1] = h[n + 1]
    OBVIOUS
  <2>1. after[n] = h[n] /\ n + 1 \in 0..len /\ n + 1 # 0 /\ (n + 1) - 1 = n
    BY <1>4
  <2>2. after[n + 1] = T!Push(after[n], items[n + 1])
    BY <1>1, <2>1
  <2>3. h[n + 1] = T!Push(h[n], items[n + 1])
    BY <2>1
  <2> QED
    BY <2>1, <2>2, <2>3
<1> HIDE DEF Alike
<1>5. Nat \subseteq Alike
  BY <1>3, <1>4, Induction
<1> QED
  BY <1>2, <1>5 DEF Alike

\* The slot of the k-th last point, when the next one goes to slot p.
SlotBefore(p, k) == IF k <= p THEN p - k ELSE p - k + Capacity

\* A buffer holds the last of the points s.
RingOf(r, s) ==
    /\ r.pointer \in 0..Capacity - 1
    /\ DOMAIN r.buffer = 0..Capacity - 1
    /\ r.isFull = TRUE <=> Capacity <= Len(s)
    /\ r.isFull \in BOOLEAN
    /\ Len(s) < Capacity => r.pointer = Len(s)
    /\ \A k \in 1..Capacity :
           k <= Len(s) => r.buffer[SlotBefore(r.pointer, k)] = s[Len(s) - k + 1]

\* The last of the points s, as many as a buffer holds.
Window(s) ==
    LET n == Len(s)
        kept == IF n < Capacity THEN n ELSE Capacity
    IN  SubSeq(s, n - kept + 1, n)

\* The fields of a buffer to which an item is pushed (push).
LEMMA PushIs ==
    ASSUME NEW r, NEW item, NEW next, (r.pointer + 1) % Capacity = next
    PROVE  /\ T!Push(r, item).pointer = next
           /\ T!Push(r, item).buffer = [r.buffer EXCEPT ![r.pointer] = item]
           /\ T!Push(r, item).isFull = (r.isFull \/ next = 0)
<1> DEFINE buf == [r.buffer EXCEPT ![r.pointer] = item]
           full == r.isFull \/ next = 0
<1>1. T!Push(r, item) = [buffer |-> buf, pointer |-> next, isFull |-> full]
  BY Zenon DEF T!Push
<1> HIDE DEF buf, full
<1>2. /\ T!Push(r, item).pointer = next
      /\ T!Push(r, item).buffer = buf
      /\ T!Push(r, item).isFull = full
  BY <1>1
<1> QED
  BY <1>2, Zenon DEF buf, full

\* The elements of two sequences, one after the other.
LEMMA Joined ==
    ASSUME NEW B, NEW m \in Nat, NEW k \in Nat, NEW a \in [1..m -> B], NEW b \in [1..k -> B]
    PROVE  /\ Len(a \o b) = m + k
           /\ \A i \in 1..m + k : (a \o b)[i] = IF i <= m THEN a[i] ELSE b[i - m]
<1>1. a \in Seq(B) /\ Len(a) = m
  OBVIOUS
<1>2. b \in Seq(B) /\ Len(b) = k
  OBVIOUS
<1> QED
  BY <1>1, <1>2, ConcatProperties

\* A buffer that holds the last of the points s holds, after a push, the last of s and the
\* new one (push).
LEMMA PushKeeps ==
    ASSUME NEW r, NEW P, NEW s \in Seq(P), NEW item \in P, RingOf(r, s)
    PROVE  RingOf(T!Push(r, item), Append(s, item))
<1> DEFINE p == r.pointer
           n == Len(s)
           r2 == T!Push(r, item)
           s2 == Append(s, item)
           next == IF p + 1 = Capacity THEN 0 ELSE p + 1
<1>1. p \in 0..Capacity - 1 /\ n \in Nat /\ Capacity \in Nat \ {0}
  BY TelemetryBounds DEF RingOf
<1>2. (p + 1) % Capacity = next
  BY <1>1, Wraps
<1>4. r2.pointer = next /\ r2.buffer = [r.buffer EXCEPT ![p] = item]
      /\ r2.isFull = (r.isFull \/ next = 0)
  BY <1>2, PushIs, ZenonT(60)
<1>5. Len(s2) = n + 1 /\ s2[n + 1] = item /\ \A i \in 1..n : s2[i] = s[i]
  OBVIOUS
<1> HIDE DEF r2, s2
<1> HIDE DEF next
<1>6. (r2.isFull = TRUE <=> Capacity <= n + 1) /\ r2.isFull \in BOOLEAN
  <2>1. CASE r.isFull = TRUE
    <3>1. r2.isFull = TRUE
      BY <1>4, <2>1, Zenon
    <3>2. Capacity <= n + 1
      BY <1>1, <2>1 DEF RingOf
    <3> QED
      BY <3>1, <3>2
  <2>2. CASE next = 0
    <3>1. r2.isFull = TRUE
      BY <1>4, <2>2, Zenon
    <3>2. Capacity <= n + 1
      BY <1>1, <2>2 DEF RingOf, next
    <3> QED
      BY <3>1, <3>2
  <2>3. CASE r.isFull = FALSE /\ next # 0
    <3>1. r2.isFull = FALSE
      BY <1>4, <2>3, Zenon
    <3>2. ~(Capacity <= n + 1)
      BY <1>1, <2>3 DEF RingOf, next
    <3> QED
      BY <3>1, <3>2
  <2> QED
    BY <2>1, <2>2, <2>3 DEF RingOf
<1>7. n + 1 < Capacity => next = n + 1
  BY <1>1 DEF RingOf, next
<1>8. ASSUME NEW k \in 1..Capacity, k <= n + 1
      PROVE  r2.buffer[SlotBefore(next, k)] = s2[n + 1 - k + 1]
  <2>1. CASE k = 1
    <3>1. SlotBefore(next, 1) = p
      BY <1>1 DEF SlotBefore, next
    <3> QED
      BY <1>1, <1>4, <1>5, <2>1, <3>1 DEF RingOf
  <2>2. CASE k # 1
    <3>1. k - 1 \in 1..Capacity /\ k - 1 <= n /\ n - (k - 1) + 1 = n + 1 - k + 1
      BY <1>1, <1>8, <2>2
    <3>2. SlotBefore(next, k) = SlotBefore(p, k - 1)
      BY <1>1, <1>8, <2>2 DEF SlotBefore, next
    <3>3. SlotBefore(p, k - 1) \in 0..Capacity - 1 /\ SlotBefore(p, k - 1) # p
      BY <1>1, <1>8, <2>2 DEF SlotBefore, next
    <3>4. r2.buffer[SlotBefore(p, k - 1)] = r.buffer[SlotBefore(p, k - 1)]
      BY <1>4, <3>3 DEF RingOf
    <3>5. r.buffer[SlotBefore(p, k - 1)] = s[n - (k - 1) + 1]
      BY <3>1 DEF RingOf
    <3>6. s2[n + 1 - k + 1] = s[n - (k - 1) + 1]
      BY <1>1, <1>5, <1>8, <2>2, <3>1
    <3> QED
      BY <3>2, <3>4, <3>5, <3>6
  <2> QED
    BY <2>1, <2>2
<1> QED
  <2>1. RingOf(r2, s2)
    <3>1. r2.pointer \in 0..Capacity - 1
      BY <1>1, <1>4 DEF next
    <3>2. DOMAIN r2.buffer = DOMAIN r.buffer
      BY <1>4, Zenon
    <3>3. DOMAIN r2.buffer = 0..Capacity - 1
      BY <3>2 DEF RingOf
    <3> QED
      BY <3>1, <3>3, <1>4, <1>5, <1>6, <1>7, <1>8 DEF RingOf
  <2> QED
    BY <2>1 DEF r2, s2

\* The array of a buffer is the window on the points that it holds, whether or not it has
\* wrapped (toArray).
LEMMA ArrayIsWindow ==
    ASSUME NEW r, NEW P, NEW s \in Seq(P), RingOf(r, s)
    PROVE  T!ToArray(r) = Window(s)
<1> DEFINE p == r.pointer
           n == Len(s)
<1>1. p \in 0..Capacity - 1 /\ n \in Nat /\ Capacity \in Nat \ {0}
  BY TelemetryBounds DEF RingOf
<1>2. CASE n < Capacity
  <2>1. r.isFull = FALSE /\ p = n
    BY <1>1, <1>2 DEF RingOf
  <2>2. T!ToArray(r) = [i \in 1..n |-> r.buffer[i - 1]]
    <3>1. T!ToArray(r) = [i \in 1..n - 0 |-> r.buffer[0 + i - 1]]
      BY <2>1, Zenon DEF T!ToArray, T!Slice
    <3> QED
      BY <1>1, <3>1
  <2>3. \A i \in 1..n : r.buffer[i - 1] = s[i]
    <3> TAKE i \in 1..n
    <3>1. n - i + 1 \in 1..Capacity /\ n - i + 1 <= n /\ n - (n - i + 1) + 1 = i
      BY <1>1, <1>2
    <3>2. SlotBefore(p, n - i + 1) = i - 1
      BY <1>1, <2>1 DEF SlotBefore
    <3> QED
      BY <3>1, <3>2 DEF RingOf
  <2>4. Window(s) = [i \in 1..n |-> s[i]]
    BY <1>1, <1>2 DEF Window
  <2> QED
    BY <2>2, <2>3, <2>4
<1>3. CASE Capacity <= n
  <2>1. r.isFull = TRUE
    BY <1>1, <1>3 DEF RingOf
  <2>2. T!ToArray(r) = [i \in 1..Capacity |->
                          IF i <= Capacity - p THEN r.buffer[p + i - 1]
                          ELSE r.buffer[i - (Capacity - p) - 1]]
    <3> DEFINE a == [i \in 1..Capacity - p |-> r.buffer[p + i - 1]]
               b == [i \in 1..p - 0 |-> r.buffer[0 + i - 1]]
    <3>1. T!ToArray(r) = a \o b
      BY <2>1, Zenon DEF T!ToArray, T!Slice
    <3> DEFINE B == {r.buffer[i] : i \in 0..Capacity - 1}
               c == [i \in 1..p |-> r.buffer[i - 1]]
    <3>2. b = c
      BY <1>1
    <3>3. a \in [1..Capacity - p -> B]
      BY <1>1
    <3>4. c \in [1..p -> B]
      BY <1>1
    <3>5. a \o c = [i \in 1..Capacity |->
                      IF i <= Capacity - p THEN a[i] ELSE c[i - (Capacity - p)]]
      <4> DEFINE m == Capacity - p
                 ac == a \o c
      <4>1. m \in Nat /\ p \in Nat /\ m + p = Capacity
        BY <1>1
      <4>2. a \in [1..m -> B]
        BY <3>3, Zenon
      <4> HIDE DEF a, b, c, B, m, ac
      <4>3. /\ ac \in Seq(B) /\ Len(ac) = m + p
            /\ \A i \in 1..m + p : ac[i] = IF i <= m THEN a[i] ELSE c[i - m]
        <5>1. a \in Seq(B) /\ c \in Seq(B)
          <6>1. a \in Seq(B)
            BY <4>1, <4>2
          <6>2. c \in Seq(B)
            BY <3>4, <4>1
          <6> QED
            BY <6>1, <6>2
        <5>2. a \o c \in Seq(B)
          BY <5>1
        <5>3. /\ Len(a \o c) = m + p
              /\ \A i \in 1..m + p : (a \o c)[i] = IF i <= m THEN a[i] ELSE c[i - m]
          BY <3>4, <4>1, <4>2, Joined
        <5> QED
          BY <5>2, <5>3, Zenon DEF ac
      <4>4. ac = [i \in 1..Capacity |-> IF i <= m THEN a[i] ELSE c[i - m]]
        BY <4>1, <4>3
      <4> QED
        BY <4>4, Zenon DEF ac, m
    <3>7. ASSUME NEW i \in 1..Capacity
          PROVE  (IF i <= Capacity - p THEN a[i] ELSE c[i - (Capacity - p)])
                  = IF i <= Capacity - p THEN r.buffer[p + i - 1]
                    ELSE r.buffer[i - (Capacity - p) - 1]
      BY <1>1
    <3> HIDE DEF a, b, c, B
    <3> QED
      BY <3>1, <3>2, <3>5, <3>7, Zenon
  <2>3. Window(s) = [i \in 1..Capacity |-> s[n - Capacity + i]]
    <3>1. Window(s) = SubSeq(s, n - Capacity + 1, n)
      <4>1. (IF n < Capacity THEN n ELSE Capacity) = Capacity
        BY <1>1, <1>3
      <4> QED
        BY <4>1, Zenon DEF Window
    <3>2. SubSeq(s, n - Capacity + 1, n)
            = [i \in 1..Capacity |-> s[n - Capacity + 1 + i - 1]]
      BY <1>1, <1>3
    <3>3. \A i \in 1..Capacity : n - Capacity + 1 + i - 1 = n - Capacity + i
      BY <1>1
    <3> QED
      BY <3>1, <3>2, <3>3
  <2>4. ASSUME NEW i \in 1..Capacity
        PROVE  (IF i <= Capacity - p THEN r.buffer[p + i - 1]
                ELSE r.buffer[i - (Capacity - p) - 1]) = s[n - Capacity + i]
    <3> DEFINE k == Capacity - i + 1
    <3>1. k \in 1..Capacity /\ k <= n /\ n - k + 1 = n - Capacity + i
      BY <1>1, <1>3
    <3>2. SlotBefore(p, k) = IF i <= Capacity - p THEN p + i - 1 ELSE i - (Capacity - p) - 1
      BY <1>1 DEF SlotBefore
    <3>3. r.buffer[SlotBefore(p, k)] = s[n - k + 1]
      BY <3>1 DEF RingOf
    <3> QED
      BY <3>1, <3>2, <3>3
  <2> QED
    BY <2>2, <2>3, <2>4
<1> QED
  BY <1>1, <1>2, <1>3

\* The points of the charts.
Points == [time : Int, kw : T!Powers, volts : Int, amps : {0, 57, 434}]

\* Pushing points to an empty buffer, no more than it holds, leaves it holding them all.
LEMMA FillRing ==
    ASSUME NEW P, NEW s \in Seq(P), Len(s) <= Capacity
    PROVE  RingOf(T!PushAll(T!Empty, s), s)
<1> DEFINE len == Len(s)
           buf(n) == [i \in 0..Capacity - 1 |-> IF i < n THEN s[i + 1] ELSE T!NoPoint]
           ptr(n) == IF n = Capacity THEN 0 ELSE n
           at(n) == [buffer |-> buf(n), pointer |-> ptr(n), isFull |-> n = Capacity]
           h == [n \in 0..len |-> at(n)]
<1>1. len \in Nat /\ len <= Capacity /\ Capacity \in Nat \ {0}
  BY TelemetryBounds
<1>2. \A n : at(n).buffer = buf(n) /\ at(n).pointer = ptr(n)
  <2> HIDE DEF buf, ptr
  <2> QED
    OBVIOUS
<1>3. at(0) = T!Empty
  <2>1. buf(0) = [i \in 0..Capacity - 1 |-> T!NoPoint]
    BY <1>1
  <2>2. ptr(0) = 0 /\ (0 = Capacity) = FALSE
    BY <1>1
  <2> QED
    BY <2>1, <2>2, Zenon DEF T!Empty
<1>4. ASSUME NEW n \in 1..len PROVE at(n) = T!Push(at(n - 1), s[n])
  <2>1. n - 1 \in 0..Capacity - 1 /\ n - 1 < Capacity /\ n - 1 # Capacity /\ (n - 1) + 1 = n
    BY <1>1
  <2>2. at(n - 1).pointer = n - 1 /\ at(n - 1).buffer = buf(n - 1)
    <3>1. ptr(n - 1) = n - 1
      BY <2>1
    <3> QED
      BY <1>2, <3>1, Zenon
  <2>3. (at(n - 1).pointer + 1) % Capacity = ptr(n)
    <3>1. ((n - 1) + 1) % Capacity = IF (n - 1) + 1 = Capacity THEN 0 ELSE (n - 1) + 1
      BY <2>1, Wraps
    <3>2. ((n - 1) + 1) % Capacity = ptr(n)
      BY <2>1, <3>1
    <3> QED
      BY <2>2, <3>2, Zenon
  <2>4. [at(n - 1).buffer EXCEPT ![at(n - 1).pointer] = s[n]] = buf(n)
    <3>1. [buf(n - 1) EXCEPT ![n - 1] = s[n]]
            = [i \in 0..Capacity - 1 |-> IF i = n - 1 THEN s[n] ELSE buf(n - 1)[i]]
      BY Zenon
    <3>2. ASSUME NEW i \in 0..Capacity - 1
          PROVE  (IF i = n - 1 THEN s[n] ELSE buf(n - 1)[i])
                   = IF i < n THEN s[i + 1] ELSE T!NoPoint
      <4>1. buf(n - 1)[i] = IF i < n - 1 THEN s[i + 1] ELSE T!NoPoint
        BY Zenon
      <4> HIDE DEF buf
      <4>2. CASE i = n - 1
        <5>1. i < n /\ s[i + 1] = s[n]
          BY <2>1, <4>2
        <5> QED
          BY <4>2, <5>1, Zenon
      <4>3. CASE i # n - 1
        <5>1. i < n <=> i < n - 1
          BY <1>1, <4>3
        <5> QED
          BY <4>1, <4>3, <5>1, Zenon
      <4> QED
        BY <4>2, <4>3
    <3>3. [buf(n - 1) EXCEPT ![n - 1] = s[n]] = buf(n)
      BY <3>1, <3>2, Zenon
    <3> QED
      BY <2>2, <3>3, Zenon
  <2>5. (at(n - 1).isFull \/ ptr(n) = 0) = (n = Capacity)
    <3>1. at(n - 1).isFull = FALSE
      <4>1. (n - 1 = Capacity) = FALSE
        BY <2>1
      <4> QED
        BY <4>1, Zenon
    <3>2. (ptr(n) = 0) <=> (n = Capacity)
      BY <1>1
    <3> QED
      BY <3>1, <3>2, Zenon
  <2> QED
    BY <2>3, <2>4, <2>5, Zenon DEF T!Push
<1>5. h = [n \in 0..len |-> IF n = 0 THEN T!Empty ELSE T!Push(h[n - 1], s[n])]
  <2>1. ASSUME NEW n \in 0..len PROVE at(n) = IF n = 0 THEN T!Empty ELSE T!Push(h[n - 1], s[n])
    <3>1. CASE n = 0
      BY <1>3, <3>1, Zenon
    <3>2. CASE n # 0
      <4>1. n \in 1..len /\ n - 1 \in 0..len
        BY <1>1, <3>2
      <4>2. h[n - 1] = at(n - 1)
        BY <4>1, Zenon
      <4> QED
        BY <1>4, <3>2, <4>1, <4>2, Zenon
    <3> QED
      BY <3>1, <3>2
  <2> QED
    BY <2>1, Zenon
<1>6. T!PushAll(T!Empty, s) = at(len)
  <2>1. len \in 0..len
    BY <1>1
  <2> HIDE DEF at
  <2>2. h[len] = at(len)
    BY <2>1
  <2>3. len \in Nat /\ Len(s) = len
    BY <1>1
  <2> HIDE DEF h, len
  <2>4. T!PushAll(T!Empty, s) = h[len]
    BY <1>5, <2>3, PushAllIs
  <2> QED
    BY <2>2, <2>4
<1>7. RingOf(at(len), s)
  <2> DEFINE r == at(len)
  <2>1. r.buffer = buf(len) /\ r.pointer = ptr(len)
    BY <1>2, Zenon
  <2>2. (r.isFull = TRUE <=> Capacity <= len) /\ r.isFull \in BOOLEAN
    <3>1. r.isFull = (len = Capacity)
      BY Zenon
    <3> HIDE DEF r
    <3>2. len = Capacity <=> Capacity <= len
      BY <1>1
    <3> QED
      BY <3>1, <3>2, Zenon
  <2> HIDE DEF at, r
  <2>3. r.pointer \in 0..Capacity - 1 /\ (len < Capacity => r.pointer = len)
    BY <1>1, <2>1
  <2>4. DOMAIN r.buffer = 0..Capacity - 1
    BY <2>1
  <2>5. ASSUME NEW k \in 1..Capacity, k <= len
        PROVE  r.buffer[SlotBefore(r.pointer, k)] = s[len - k + 1]
    <3>1. SlotBefore(r.pointer, k) = len - k
      BY <1>1, <2>1, <2>5 DEF SlotBefore
    <3>2. len - k \in 0..Capacity - 1 /\ len - k < len
      BY <1>1, <2>5
    <3> QED
      BY <2>1, <3>1, <3>2
  <2>6. RingOf(r, s)
    BY <2>2, <2>3, <2>4, <2>5 DEF RingOf
  <2> QED
    BY <2>6 DEF r
<1> HIDE DEF at
<1> QED
  BY <1>6, <1>7

\* The elements of the window on s.
LEMMA WindowIs ==
    ASSUME NEW P, NEW s \in Seq(P)
    PROVE  Window(s) = [i \in 1..(IF Len(s) < Capacity THEN Len(s) ELSE Capacity) |->
                           IF Len(s) < Capacity THEN s[i] ELSE s[Len(s) - Capacity + i]]
<1> DEFINE n == Len(s)
<1>1. n \in Nat /\ Capacity \in Nat \ {0}
  BY TelemetryBounds
<1>2. CASE n < Capacity
  <2>1. Window(s) = SubSeq(s, n - n + 1, n)
    BY <1>2, Zenon DEF Window
  <2>2. SubSeq(s, n - n + 1, n) = [i \in 1..n |-> s[i]]
    BY <1>1
  <2> QED
    BY <1>2, <2>1, <2>2
<1>3. CASE ~(n < Capacity)
  <2>1. Window(s) = SubSeq(s, n - Capacity + 1, n)
    BY <1>3, Zenon DEF Window
  <2>2. SubSeq(s, n - Capacity + 1, n) = [i \in 1..Capacity |-> s[n - Capacity + 1 + i - 1]]
    BY <1>1, <1>3
  <2>3. \A i \in 1..Capacity : n - Capacity + 1 + i - 1 = n - Capacity + i
    BY <1>1
  <2>4. Window(s) = [i \in 1..Capacity |-> s[n - Capacity + i]]
    BY <2>1, <2>2, <2>3
  <2> HIDE DEF n
  <2> QED
    BY <1>3, <2>4 DEF n
<1> QED
  BY <1>2, <1>3

\* The higher of two naturals.
LEMMA HighestOfTwo == ASSUME NEW a \in Nat, NEW b \in Nat
    PROVE  /\ T!Highest({a, b}) \in {a, b}
           /\ a <= T!Highest({a, b}) /\ b <= T!Highest({a, b})
<1> DEFINE H == {a, b}
<1>1. H \subseteq Nat /\ H # {} /\ a + b \in Nat /\ \A y \in H : y <= a + b
  OBVIOUS
<1> HIDE DEF H
<1>2. T!Highest(H) \in H /\ \A y \in H : y <= T!Highest(H)
  BY <1>1, HighestIs
<1> QED
  BY <1>2 DEF H

\* No point of s is older than the one before it, or later than now.
InOrder(s, now) ==
    /\ \A i \in 1..Len(s) : s[i].time <= now
    /\ \A i \in 1..Len(s) - 1 : s[i].time <= s[i + 1].time

\* The buffer holds the last of the points pushed, the chart draws their window, and apart
\* from the scope they are in the order of their times.
ChartInv ==
    /\ view \in T!Views \cup {"none"}
    /\ clock \in Int /\ power \in T!Powers \cup {T!Export}
    /\ readings \in Seq(T!Readings)
    /\ pushed \in Seq(Points)
    /\ RingOf(ring, pushed)
    /\ points = Window(pushed)
    /\ view = "none" => pushed = <<>>
    /\ view \notin {"none", "scope"} => InOrder(pushed, clock)

\* No point that is drawn is above the axis: each axis is at least the highest of them.
LEMMA InAxis ==
    ASSUME ChartInv, view # "none"
    PROVE  \A y \in T!Drawn : y <= T!Axis
<1> DEFINE n == Len(pushed)
<1>1. \A i \in DOMAIN points : points[i] \in Points
  <2>1. points = [i \in 1..(IF n < Capacity THEN n ELSE Capacity) |->
                           IF n < Capacity THEN pushed[i] ELSE pushed[n - Capacity + i]]
    BY WindowIs DEF ChartInv
  <2> QED
    BY <2>1, TelemetryBounds DEF ChartInv
<1>2. T!Drawn \subseteq Nat /\ \A y \in T!Drawn : y <= 434
  BY <1>1 DEF T!Drawn, Points, T!Powers
<1> DEFINE High(limit) == T!Highest(T!Drawn \cup {limit})
<1>3. ASSUME NEW limit \in Nat
      PROVE  High(limit) \in Nat /\ \A y \in T!Drawn : y <= High(limit)
  <2> DEFINE H == T!Drawn \cup {limit}
  <2>1. H \subseteq Nat /\ H # {} /\ 434 + limit \in Nat /\ \A y \in H : y <= 434 + limit
    BY <1>2
  <2> HIDE DEF H
  <2>2. T!Highest(H) \in H /\ \A y \in H : y <= T!Highest(H)
    BY <2>1, HighestIs
  <2>3. T!Highest(H) \in Nat
    BY <2>1, <2>2
  <2> QED
    BY <2>2, <2>3 DEF H
<1> HIDE DEF High
<1>4. ASSUME NEW y \in T!Drawn PROVE y <= T!LoadAxis
  <2>1. High(T!GridLimit) \in Nat /\ y <= High(T!GridLimit) /\ y \in Nat
    BY <1>2, <1>3 DEF T!GridLimit
  <2> DEFINE top == ((High(T!GridLimit) * 115 + 999) \div 1000) * 10
  <2>2. top \in Nat /\ High(T!GridLimit) <= top
    BY <2>1
  <2>3. T!LoadAxis = T!Highest({50, top})
    BY Zenon DEF T!LoadAxis, High
  <2> HIDE DEF top
  <2> QED
    BY <2>1, <2>2, <2>3, HighestOfTwo
<1>5. ASSUME NEW y \in T!Drawn PROVE y <= T!BalanceAxis /\ y <= T!ScopeAxis
  <2>1. High(10) \in Nat /\ y <= High(10) /\ y \in Nat
    BY <1>2, <1>3
  <2> DEFINE top == (High(10) * 12 + 9) \div 10
  <2>2. top \in Nat /\ High(10) <= top
    BY <2>1
  <2>3. T!BalanceAxis = T!Highest({30, top}) /\ T!ScopeAxis = T!Highest({32, top})
    BY Zenon DEF T!BalanceAxis, T!ScopeAxis, High
  <2> HIDE DEF top
  <2> QED
    BY <2>1, <2>2, <2>3, HighestOfTwo
<1> QED
  BY <1>4, <1>5, Zenon DEF T!Axis

\* No more points than a buffer holds are their own window.
LEMMA WholeWindow ==
    ASSUME NEW P, NEW s \in Seq(P), Len(s) <= Capacity
    PROVE  Window(s) = s
<1>1. Len(s) \in Nat /\ Capacity \in Nat \ {0}
  BY TelemetryBounds
<1>2. CASE Len(s) < Capacity
  <2>1. Window(s) = [i \in 1..Len(s) |-> s[i]]
    BY <1>2, WindowIs
  <2> QED
    BY <2>1
<1>3. CASE ~(Len(s) < Capacity)
  <2>1. Len(s) = Capacity
    BY <1>1, <1>3
  <2>2. Window(s) = [i \in 1..Capacity |-> s[Len(s) - Capacity + i]]
    BY <1>3, WindowIs
  <2>3. \A i \in 1..Capacity : Len(s) - Capacity + i = i
    BY <1>1, <2>1
  <2> QED
    BY <2>1, <2>2, <2>3
<1> QED
  BY <1>2, <1>3

\* Before a chart is mounted its buffer is empty.
LEMMA InitChart == T!Init => ChartInv
<1> SUFFICES ASSUME T!Init PROVE ChartInv
  OBVIOUS
<1>1. <<>> \in Seq(Points) /\ Len(<<>>) = 0 /\ <<>> \in Seq(T!Readings)
  OBVIOUS
<1> DEFINE none == <<>>
<1>2. none \in Seq(Points) /\ Len(none) = 0 /\ Len(none) <= Capacity
  BY <1>1, TelemetryBounds
<1> HIDE DEF none
<1>4. Window(none) = none
  BY <1>2, WholeWindow, Zenon
<1>3. RingOf(T!Empty, none)
  <2>1. T!Empty.pointer = 0 /\ T!Empty.isFull = FALSE
        /\ T!Empty.buffer = [i \in 0..Capacity - 1 |-> T!NoPoint]
    BY DEF T!Empty
  <2>2. Capacity \in Nat \ {0}
    BY TelemetryBounds
  <2> DEFINE r == T!Empty
  <2>3. r.pointer = 0 /\ r.isFull = FALSE /\ DOMAIN r.buffer = 0..Capacity - 1
    BY <2>1
  <2> HIDE DEF r
  <2>4. r.isFull \in BOOLEAN /\ (r.isFull = TRUE <=> Capacity <= Len(none))
    <3>1. ~(Capacity <= Len(none))
      BY <1>2, <2>2
    <3> QED
      BY <2>3, <3>1, Zenon
  <2>7. r.pointer \in 0..Capacity - 1
    BY <2>2, <2>3
  <2>5. \A k \in 1..Capacity : ~(k <= Len(none))
    BY <1>2, <2>2
  <2>6. RingOf(r, none)
    BY <1>2, <2>3, <2>4, <2>5, <2>7 DEF RingOf
  <2> QED
    BY <2>6 DEF r
<1> QED
  BY <1>1, <1>4, <1>3, TelemetryBounds DEF T!Init, ChartInv, T!Powers, none

\* A point that bears the time it comes at leaves the points in the order of their times.
LEMMA AppendInOrder ==
    ASSUME NEW s \in Seq(Points), NEW point \in Points, NEW now \in Int, NEW then \in Int,
           InOrder(s, then), then <= now, point.time = now
    PROVE  InOrder(Append(s, point), now)
<1> DEFINE s2 == Append(s, point)
           n == Len(s)
<1>1. n \in Nat /\ Len(s2) = n + 1 /\ s2[n + 1] = point /\ \A i \in 1..n : s2[i] = s[i]
  OBVIOUS
<1>2. \A i \in 1..n : s[i].time \in Int
  <2>1. \A i \in 1..n : s[i] \in Points
    OBVIOUS
  <2> QED
    BY <2>1 DEF Points
<1> HIDE DEF s2, n
<1>3. ASSUME NEW i \in 1..n + 1 PROVE s2[i].time <= now
  <2>1. CASE i = n + 1
    BY <1>1, <2>1
  <2>2. CASE i # n + 1
    <3>1. i \in 1..n
      BY <1>1, <2>2
    <3>2. s[i].time <= then /\ s[i].time \in Int
      BY <1>2, <3>1 DEF InOrder, n
    <3> QED
      BY <1>1, <3>1, <3>2
  <2> QED
    BY <2>1, <2>2
<1>4. ASSUME NEW i \in 1..n PROVE s2[i].time <= s2[i + 1].time
  <2>1. CASE i = n
    <3>1. s2[i + 1].time = now
      BY <1>1, <2>1
    <3>2. i \in 1..n + 1
      BY <1>1
    <3> QED
      BY <1>3, <3>1, <3>2
  <2>2. CASE i # n
    <3>1. i \in 1..n - 1 /\ i + 1 \in 1..n
      BY <1>1, <2>2
    <3>2. s2[i] = s[i] /\ s2[i + 1] = s[i + 1]
      BY <1>1, <3>1
    <3> QED
      BY <3>1, <3>2 DEF InOrder, n
  <2> QED
    BY <2>1, <2>2
<1>5. (n + 1) - 1 = n
  BY <1>1
<1> QED
  BY <1>1, <1>3, <1>4, <1>5 DEF InOrder, s2

\* Whatever appends a point that bears the present time keeps the invariant.
LEMMA TakeKeeps ==
    ASSUME ChartInv, NEW point, point \in Points, T!Take(point),
           view' = view, view # "none", power' \in T!Powers \cup {T!Export}, readings' = readings,
           clock' \in Int, clock <= clock', point.time = clock'
    PROVE  ChartInv'
<1>1. pushed \in Seq(Points) /\ pushed' = Append(pushed, point) /\ RingOf(ring, pushed)
  BY DEF T!Take, ChartInv
<1>2. pushed' \in Seq(Points)
  BY <1>1
<1>3. RingOf(ring', pushed')
  BY <1>1, PushKeeps, Zenon DEF T!Take
<1>4. points' = Window(pushed')
  BY <1>2, <1>3, ArrayIsWindow DEF T!Take
<1>5. view' \notin {"none", "scope"} => InOrder(pushed', clock')
  BY <1>1, AppendInOrder DEF ChartInv
<1> QED
  BY <1>2, <1>3, <1>4, <1>5 DEF ChartInv

\* The currents a charger can show, for its powers and voltages.
LEMMA AmpsOf ==
    ASSUME NEW kw \in T!Powers, NEW volts \in {0, 230}
    PROVE  T!Amps(kw, volts) \in {0, 57, 434}
BY DEF T!Amps, T!Powers

\* The point of a ticker is a point and bears its time.
LEMMA LivePoints ==
    ASSUME ChartInv, NEW time, time \in Int
    PROVE  T!LivePoint(time) \in Points /\ T!LivePoint(time).time = time
<1>1. readings = <<>> \/ readings[1] \in T!Readings
  BY DEF ChartInv
<1>2. T!CurrentPower \in T!Powers
  BY <1>1 DEF T!CurrentPower, T!Readings, T!Powers
<1>3. T!BaseVoltage \in {0, 230}
  BY <1>1 DEF T!BaseVoltage, T!Readings
<1>4. T!BaseCurrent \in {0, 57, 434}
  <2>1. readings # <<>> => readings[1].kw \in T!Powers
    BY <1>1 DEF T!Readings
  <2> QED
    BY <1>2, <1>3, <2>1, AmpsOf DEF T!BaseCurrent
<1>5. T!Imported(power) \in T!Powers
  BY DEF ChartInv, T!Imported, T!Powers, T!Export
<1> HIDE DEF T!CurrentPower, T!BaseVoltage, T!BaseCurrent, T!Imported
<1> QED
  BY <1>2, <1>3, <1>4, <1>5 DEF T!LivePoint, T!Point, Points, T!Powers

\* A chart starts with as many zeroes as its buffer holds, in the order of their times.
LEMMA Mounts == ASSUME ChartInv, NEW v \in T!Views, T!Mount(v) PROVE ChartInv'
<1> DEFINE zeroes == T!ZeroState(v, clock)
<1>1. zeroes \in Seq(Points) /\ Len(zeroes) = Capacity
      /\ \A i \in 1..Capacity : zeroes[i].time = clock - Capacity + i
  BY TelemetryBounds DEF T!ZeroState, T!Point, Points, T!Powers, ChartInv
<1>2. points' = zeroes /\ pushed' = zeroes /\ ring' = T!PushAll(T!Empty, zeroes)
  BY Zenon DEF T!Mount
<1> HIDE DEF zeroes
<1>3. RingOf(ring', pushed') /\ points' = Window(pushed')
  BY <1>1, <1>2, FillRing, WholeWindow, TelemetryBounds
<1>4. \A i \in 1..Capacity : zeroes[i].time <= clock
  BY <1>1, TelemetryBounds DEF ChartInv
<1>5. \A i \in 1..Capacity - 1 : zeroes[i].time <= zeroes[i + 1].time
  BY <1>1, TelemetryBounds DEF ChartInv
<1>6. InOrder(pushed', clock')
  BY <1>1, <1>2, <1>4, <1>5 DEF InOrder, T!Mount
<1>7. pushed' \in Seq(Points) /\ view' = v /\ v # "none"
      /\ clock' = clock /\ power' = power /\ readings' = readings
  BY <1>1, <1>2 DEF T!Mount, T!Views
<1> QED
  BY <1>3, <1>6, <1>7 DEF ChartInv

\* An answer holds no more readings than the buffer.
LEMMA Answered ==
    ASSUME ChartInv, NEW new, new \in T!Answers
    PROVE  new \in Seq(T!Readings) /\ Len(new) <= Capacity
<1>1. CASE new = <<>>
  BY <1>1, TelemetryBounds
<1>2. CASE new # <<>>
  <2>1. PICK r \in [time : {clock - 1, clock + 2}, kw : {0, 40}, volts : {0, 230, T!Unknown}],
             n \in {1, Capacity} :
                new = [i \in 1..n |-> [time |-> r.time - (i - 1),
                                       kw |-> IF i = 1 THEN r.kw ELSE 40, volts |-> r.volts]]
    BY <1>2 DEF T!Answers
  <2>2. r \in T!Readings
    BY DEF ChartInv, T!Readings, T!Powers
  <2>3. n \in Nat /\ n <= Capacity
    BY TelemetryBounds
  <2>4. new \in [1..n -> T!Readings]
    BY <2>1, <2>2, <2>3 DEF T!Readings, T!Powers
  <2> QED
    BY <2>3, <2>4
<1> QED
  BY <1>1, <1>2

\* A stored reading becomes a point.
LEMMA Stores == ASSUME NEW r \in T!Readings PROVE T!StoredPoint(r) \in Points
<1>1. r.kw \in T!Powers /\ r.time \in Int /\ r.volts \in {0, 230, T!Unknown}
  BY DEF T!Readings
<1>2. T!Amps(r.kw, 230) \in {0, 57, 434}
  BY <1>1, AmpsOf
<1> QED
  BY <1>1, <1>2 DEF T!StoredPoint, T!Point, Points

\* The history that is loaded replaces the points: the buffer is filled anew.
LEMMA Hydrates == ASSUME ChartInv, NEW new \in T!Answers, T!Hydrate(new) PROVE ChartInv'
<1>1. new \in Seq(T!Readings) /\ Len(new) \in Nat /\ Len(new) <= Capacity /\ readings' = new
  BY Answered DEF T!Hydrate
<1>2. CASE new = <<>>
  BY <1>1, <1>2 DEF T!Hydrate, ChartInv
<1>3. CASE new # <<>>
  <2> DEFINE history == [i \in 1..Len(new) |-> T!StoredPoint(T!Reverse(new)[i])]
  <2>1. pushed' = history /\ ring' = T!PushAll(T!Empty, pushed') /\ points' = T!ToArray(ring')
    BY <1>3, Zenon DEF T!Hydrate
  <2>2. history \in Seq(Points) /\ Len(history) = Len(new)
    <3>1. \A i \in 1..Len(new) : T!Reverse(new)[i] \in T!Readings
      BY <1>1 DEF T!Reverse
    <3>2. \A i \in 1..Len(new) : T!StoredPoint(T!Reverse(new)[i]) \in Points
      BY <3>1, Stores
    <3>3. history \in [1..Len(new) -> Points]
      BY <3>2, Zenon
    <3> HIDE DEF history
    <3> QED
      BY <1>1, <3>3
  <2> HIDE DEF history
  <2>3. RingOf(ring', pushed')
    BY <1>1, <2>1, <2>2, FillRing
  <2>4. points' = Window(pushed')
    BY <2>1, <2>2, <2>3, ArrayIsWindow
  <2> QED
    BY <1>1, <2>1, <2>2, <2>3, <2>4 DEF T!Hydrate, ChartInv
<1> QED
  BY <1>2, <1>3

\* Every step of a chart keeps the invariant.
LEMMA StepChart == ChartInv /\ [T!Next]_liveVars => ChartInv'
<1> SUFFICES ASSUME ChartInv, [T!Next]_liveVars PROVE ChartInv'
  OBVIOUS
<1>1. CASE UNCHANGED liveVars
  BY <1>1 DEF liveVars, ChartInv
<1>2. CASE T!Tick
  <2>1. clock + 1 \in Int /\ clock <= clock + 1
    BY DEF ChartInv
  <2>2. T!LivePoint(clock') \in Points /\ T!LivePoint(clock').time = clock'
    BY <1>2, <2>1, LivePoints DEF T!Tick
  <2> DEFINE point == T!LivePoint(clock')
  <2>3. /\ point \in Points /\ point.time = clock' /\ T!Take(point)
        /\ clock' \in Int /\ clock <= clock' /\ view' = view /\ view # "none"
        /\ power' \in T!Powers \cup {T!Export} /\ readings' = readings
    BY <1>2, <2>1, <2>2 DEF T!Tick, ChartInv
  <2> HIDE DEF point
  <2> QED
    BY <2>3, TakeKeeps
<1>3. ASSUME NEW kw \in T!Powers, T!LoadChanges(kw) PROVE ChartInv'
  <2>1. T!Point(clock, kw, 0, 0) \in Points /\ T!Point(clock, kw, 0, 0).time = clock
    BY DEF ChartInv, T!Point, Points
  <2> QED
    BY <1>3, <2>1, TakeKeeps DEF T!LoadChanges, ChartInv
<1>4. CASE T!Restarted
  <2>1. \A i \in 1..Len(pushed) : pushed[i] \in Points
    BY DEF ChartInv
  <2>2. InOrder(pushed, clock) => InOrder(pushed, clock + 1)
    BY <2>1 DEF InOrder, ChartInv, Points
  <2> QED
    BY <1>4, <2>2 DEF T!Restarted, ChartInv
<1>5. CASE T!StatusChanges
  BY <1>5 DEF T!StatusChanges, ChartInv
<1>6. ASSUME NEW kw \in T!Powers \cup {T!Export}, T!BalanceChanges(kw) PROVE ChartInv'
  BY <1>6 DEF T!BalanceChanges, ChartInv
<1> QED
  BY <1>1, <1>2, <1>3, <1>4, <1>5, <1>6, Mounts, Hydrates DEF T!Next

\* The invariant gives what the charts draw.
LEMMA Draws == ChartInv => T!ChartsFaithful
<1> SUFFICES ASSUME ChartInv PROVE T!ChartsFaithful
  OBVIOUS
<1> DEFINE n == Len(pushed)
           kept == IF n < Capacity THEN n ELSE Capacity
<1>1. points = SubSeq(pushed, n - kept + 1, n)
  BY Zenon DEF ChartInv, Window
<1>2. ASSUME view # "scope", NEW i \in 1..Len(points) - 1
      PROVE  points[i].time <= points[i + 1].time
  <2>1. n \in Nat /\ Capacity \in Nat \ {0}
    BY TelemetryBounds DEF ChartInv
  <2>2. points = [j \in 1..kept |-> IF n < Capacity THEN pushed[j] ELSE pushed[n - Capacity + j]]
    BY WindowIs DEF ChartInv
  <2>3. Len(points) = kept
    BY <2>1, <2>2
  <2>4. view = "none" => n = 0
    BY DEF ChartInv
  <2>5. InOrder(pushed, clock)
    BY <1>2, <2>1, <2>3, <2>4 DEF ChartInv
  <2> QED
    <3>1. CASE n < Capacity
      <4>1. points[i] = pushed[i] /\ points[i + 1] = pushed[i + 1] /\ i \in 1..n - 1
        BY <2>1, <2>2, <2>3, <3>1
      <4> QED
        BY <2>5, <4>1 DEF InOrder
    <3>2. CASE ~(n < Capacity)
      <4> DEFINE j == n - Capacity + i
      <4>1. points[i] = pushed[j] /\ points[i + 1] = pushed[j + 1] /\ j \in 1..n - 1
        <5>1. kept = Capacity /\ i \in 1..kept /\ i + 1 \in 1..kept
              /\ n - Capacity + (i + 1) = j + 1 /\ j \in 1..n - 1
          BY <2>1, <2>3, <3>2
        <5> QED
          BY <2>2, <3>2, <5>1
      <4> QED
        BY <2>5, <4>1 DEF InOrder
    <3> QED
      BY <3>1, <3>2
<1> QED
  BY <1>1, <1>2, InAxis, Zenon DEF T!ChartsFaithful, T!ChartShowsWindow

\* Whatever the capacity of the buffers, and however many points wrap them, whatever is
\* loaded and however often the ticker restarts: a live chart draws the last points pushed
\* since it was emptied, in their order, and none above its axis (TelemetryRingBuffer,
\* the ticker and the history of the charts).
THEOREM ChartsDrawTheLast == FrontSpec => []ChartsFaithful
<1> DEFINE Charted == scene = "charts" => ChartInv
<1>1. FrontInit => Charted
  BY InitChart DEF FrontInit
<1>2. Charted /\ [FrontNext]_frontVars => Charted'
  BY OneScene, StepChart
<1>3. Charted => ChartsFaithful
  BY Draws DEF ChartsFaithful
<1> QED
  BY <1>1, <1>2, <1>3, PTL DEF FrontSpec

-----------------------------------------------------------------------------
(* The types of the scenes: the forms *)

\* The tables, in the values of the form.
LEMMA TablesTyped ==
    ASSUME NEW f, NEW x, IsField(f, x)
    PROVE  /\ f # "none" /\ Forms[f].inputs[x] \subseteq F!Values
           /\ \A v \in F!Values : /\ Forms[f].loads[x][v] \in F!Values \cup {"keep"}
                                 /\ Forms[f].sends[x][v] \in F!Values \cup {"omit"}
<1>1. F!Values = Values
  BY DEF F!Values, Values
<1> QED
  BY <1>1, FormsAreTyped DEF IsField

\* Besides the types of the form's variables, what a request carries is a value or nothing.
FormTyped ==
    /\ F!TypeOK
    /\ request.step = "sent" => request.value \in F!Values \cup {"omit"}

LEMMA InitForm == F!Init => FormTyped
BY DEF F!Init, FormTyped, F!TypeOK, F!NoRequest, F!Nothing, F!Rows, F!Values

\* What a form takes over from a record is a value.
LEMMA TakesOver ==
    ASSUME DraftInv, FormTyped, form # "none", NEW v \in F!Values, F!TakeOver(v)
    PROVE  entry' \in F!Values /\ base' \in F!Values /\ typed' = F!Nothing
<1>1. IsField(form, field)
  BY DEF DraftInv
<1>2. LoadsOf(form, field)[v] \in F!Values \cup {"keep"}
  BY <1>1, TablesTyped DEF IsField, LoadsOf
<1> QED
  BY <1>2 DEF F!TakeOver, F!Loads, LoadsOf, FormTyped, F!TypeOK

LEMMA StepForm == DraftInv /\ FormTyped /\ [F!Next]_formVars => FormTyped'
<1> SUFFICES ASSUME DraftInv, FormTyped, [F!Next]_formVars PROVE FormTyped'
  OBVIOUS
<1>0. F!TypeOK /\ (request.step = "sent" => request.value \in F!Values \cup {"omit"})
  BY DEF FormTyped
<1>1. CASE UNCHANGED formVars
  BY <1>0, <1>1 DEF formVars, FormTyped, F!TypeOK
<1>2. ASSUME NEW a \in F!Watchable, F!Mount(a[1], a[2]), form = "none" PROVE FormTyped'
  <2> DEFINE f == a[1]
             x == a[2]
  <2>1. IsField(f, x)
    BY MountsField
  <2>2. PICK v \in F!Holds(f, x) : rows' = [r1 |-> v, r2 |-> "y"]
    BY <1>2 DEF F!Mount
  <2>3. v \in F!Values
    BY <2>1, <2>2, TablesTyped DEF IsField, F!Holds, F!Values
  <2>4. rows' \in [F!Rows -> F!Values]
    BY <2>2, <2>3 DEF F!Rows, F!Values
  <2>5. Forms[f].loads[x]["null"] \in F!Values \cup {"keep"}
    BY <2>1, TablesTyped DEF IsField, F!Values
  <2>6. entry' \in F!Values
    BY <1>0, <1>2, <2>5 DEF F!Mount, F!TypeOK
  <2> QED
    BY <1>0, <1>2, <2>1, <2>4, <2>6 DEF F!Mount, FormTyped, F!TypeOK, IsField
<1>3. ASSUME NEW r \in F!Rows, F!Open(r) PROVE FormTyped'
  <2>1. rows[r] \in F!Values
    BY <1>0 DEF F!TypeOK
  <2>2. entry' \in F!Values /\ base' \in F!Values /\ typed' = F!Nothing
    <3>1. CASE F!When = "once"
      BY <1>0, <1>3, <2>1, <3>1 DEF F!Open, F!TypeOK
    <3>2. CASE F!When # "once"
      BY <1>3, <2>1, <3>2, TakesOver DEF F!Open
    <3> QED
      BY <3>1, <3>2
  <2> QED
    BY <1>0, <1>3, <2>2 DEF F!Open, FormTyped, F!TypeOK
<1>4. ASSUME NEW v \in F!Inputs, form # "none", F!Type(v) PROVE FormTyped'
  <2>1. v \in F!Values
    BY <1>4, TablesTyped DEF DraftInv, IsField, F!Inputs
  <2> QED
    BY <1>0, <1>4, <2>1 DEF F!Type, FormTyped, F!TypeOK
<1>5. CASE F!DataArrives
  <2>1. open \in F!Rows /\ rows[open] \in F!Values /\ form # "none"
    BY <1>0, <1>5 DEF F!DataArrives, F!TypeOK, DraftInv
  <2>2. entry' \in F!Values /\ base' \in F!Values /\ typed' = F!Nothing
    BY <1>5, <2>1, TakesOver DEF F!DataArrives
  <2> QED
    BY <1>0, <1>5, <2>2 DEF F!DataArrives, FormTyped, F!TypeOK
<1>6. CASE F!Close \/ F!Succeed
  BY <1>0, <1>6 DEF F!Close, F!Succeed, FormTyped, F!TypeOK, F!NoRequest, F!Values
<1>7. CASE F!Submit
  <2>1. IsField(form, field) /\ entry \in F!Values
    BY <1>0, <1>7 DEF F!Submit, DraftInv, F!TypeOK
  <2>2. F!Sends[entry] \in F!Values \cup {"omit"}
    BY <2>1, TablesTyped DEF IsField, F!Sends
  <2> QED
    BY <1>0, <1>7, <2>2 DEF F!Submit, FormTyped, F!TypeOK
<1>8. CASE F!Commit
  <2>1. \A old \in F!Values : F!Merged(old, request.value) \in F!Values
    BY <1>0, <1>8 DEF F!Commit, F!Merged, F!MergedInto, F!Values
  <2>2. rows' \in [F!Rows -> F!Values]
    BY <1>0, <1>8, <2>1 DEF F!Commit, F!TypeOK
  <2>3. request'.step = "done" /\ request'.row = request.row
    BY <1>8 DEF F!Commit, F!NoRequest
  <2> QED
    BY <1>0, <1>8, <2>2, <2>3 DEF F!Commit, FormTyped, F!TypeOK
<1>9. CASE F!Fail
  BY <1>0, <1>9 DEF F!Fail, FormTyped, F!TypeOK, F!NoRequest
<1>10. ASSUME NEW r \in F!Rows, F!OtherWrites(r) PROVE FormTyped'
  BY <1>0, <1>10 DEF F!OtherWrites, FormTyped, F!TypeOK, F!Values
<1> QED
  BY <1>1, <1>2, <1>3, <1>4, <1>5, <1>6, <1>7, <1>8, <1>9, <1>10 DEF F!Next

-----------------------------------------------------------------------------
(* The types of the settings *)

\* Besides the types of the page's variables, an upload sends the logo the user chose.
SettingTyped ==
    /\ G!TypeOK
    /\ save.what = "upload" => save.sent = "x"

LEMMA InitSetting == G!Init => SettingTyped
<1>1. /\ G!NoCall \in [what : {"none", "upload", "restore"} \cup G!Groups,
                       sent : G!Values \cup {G!Nothing}]
      /\ G!NoCall.what = "none"
  BY DEF G!NoCall
<1> QED
  BY <1>1 DEF G!Init, SettingTyped, G!TypeOK, G!Values

LEMMA StepSetting == SettingsInv /\ SettingTyped /\ [G!Next]_settingsVars => SettingTyped'
<1> SUFFICES ASSUME SettingsInv, SettingTyped, [G!Next]_settingsVars PROVE SettingTyped'
  OBVIOUS
<1>0. G!TypeOK /\ (save.what = "upload" => save.sent = "x")
  BY DEF SettingTyped
<1> USE DEF SettingTyped, G!TypeOK
<1>1. CASE UNCHANGED settingsVars
  BY <1>0, <1>1 DEF settingsVars
<1>2. ASSUME NEW x \in G!Kinds, setting = "none", G!Mount(x) PROVE SettingTyped'
  <2>1. x \in DOMAIN Settings
    <3>1. PICK y \in DOMAIN Settings : x = CHOOSE z \in DOMAIN Settings : G!Alike(y, z)
      BY DEF G!Kinds
    <3>2. G!Alike(y, y)
      BY DEF G!Alike
    <3> QED
      BY <3>1, <3>2
  <2>2. value' \in G!Values
    BY <1>2, <2>1, SettingsAreSaved DEF G!Mount, G!Values
  <2> QED
    BY <1>0, <1>2, <2>1, <2>2 DEF G!Mount
<1>3. CASE G!Read
  <2>1. setting # "none"
    BY <1>3 DEF G!Read, SettingsInv
  <2>2. G!Watched.start \in G!Values
    BY <1>0, <2>1, SettingsAreSaved DEF G!Watched, G!Values
  <2>3. load' \in G!Values
    BY <1>3, <2>2 DEF G!Read, G!Served, G!Values
  <2> QED
    BY <1>0, <1>3, <2>3 DEF G!Read
<1>4. CASE G!FetchFails \/ G!Refetch
  BY <1>0, <1>4 DEF G!FetchFails, G!Refetch
<1>5. CASE G!Arrive
  <2>1. value' \in G!Values /\ changed' \in BOOLEAN
    BY <1>0, <1>5 DEF G!Arrive, G!Loaded
  <2> QED
    BY <1>0, <1>5, <2>1 DEF G!Arrive
<1>6. ASSUME NEW v \in {"blank", "x"}, G!Type(v) \/ G!RemoveLogo PROVE SettingTyped'
  BY <1>0, <1>6 DEF G!Type, G!RemoveLogo, G!Values
<1>7. ASSUME NEW what \in G!Groups \cup {"upload", "restore"},
             NEW v \in G!Values \cup {G!Nothing}, what = "upload" => v = "x", G!Send(what, v)
      PROVE  SettingTyped'
  <2>1. save' = [what |-> what, sent |-> v] /\ UNCHANGED <<setting, value, changed, seen, load, test>>
    BY <1>7 DEF G!Send
  <2> QED
    BY <1>0, <1>7, <2>1
<1>8. ASSUME NEW g \in G!Groups, G!Save(g) PROVE SettingTyped'
  BY <1>0, <1>7, <1>8, SettingsAreSaved DEF G!Save
<1>9. CASE G!UploadLogo \/ G!RestoreBackup
  BY <1>7, <1>9 DEF G!UploadLogo, G!RestoreBackup, G!Values
<1>10. CASE G!Succeed
  <2>1. value' \in G!Values /\ changed' \in BOOLEAN /\ load' \in {load, "sent"}
    BY <1>0, <1>10 DEF G!Succeed, G!Values
  <2>2. save' = [what |-> "none", sent |-> G!Nothing] /\ UNCHANGED <<setting, seen, test>>
    BY <1>10 DEF G!Succeed, G!NoCall
  <2> QED
    BY <1>0, <2>1, <2>2
<1>11. CASE G!Fail
  BY <1>0, <1>11 DEF G!Fail, G!NoCall
<1>12. CASE G!OpenTest \/ G!SmtpTest \/ G!SmsTest \/ G!TestAnswered \/ G!CloseTest
  BY <1>0, <1>12 DEF G!OpenTest, G!SmtpTest, G!SmsTest, G!TestAnswered, G!CloseTest
<1> QED
  BY <1>1, <1>2, <1>3, <1>4, <1>5, <1>6, <1>8, <1>9, <1>10, <1>11, <1>12 DEF G!Next

-----------------------------------------------------------------------------
(* The types of the map *)

LEMMA SameCardinality == ASSUME NEW s PROVE M!Cardinality(s) = Cardinality(s)
BY Zenon DEF M!Cardinality, Cardinality

\* The types of the map, and those of the search above it.
MapTyped ==
    /\ center \in M!Centers
    /\ located \in BOOLEAN /\ debounce \in BOOLEAN
    /\ last \in M!Centers /\ behind \in {"", "cached", "overtaken", "failed"}
    /\ cache \in [of : M!Centers \cup {M!Nowhere}, fresh : BOOLEAN]
    /\ nearby \subseteq M!Centers /\ Cardinality(nearby) <= MaxRequests
    /\ sheet \in {"closed", "open", "coming"}

SearchTyped ==
    /\ input \in Entries \cup {M!NoQuery} /\ timer \in Entries \cup {M!NoQuery}
    /\ searches \subseteq Entries
    /\ list \in [query : Entries \cup {M!NoQuery}, open : BOOLEAN]

LEMMA MapTypes == MapTyped /\ SearchTyped => M!TypeOK
<1>1. M!Cardinality(nearby) = Cardinality(nearby)
  BY SameCardinality
<1> QED
  BY <1>1 DEF MapTyped, SearchTyped, M!TypeOK

\* A list of results has its type.
LEMMA ListTyped ==
    ASSUME NEW q \in Entries \cup {M!NoQuery}, NEW b \in BOOLEAN
    PROVE  [query |-> q, open |-> b] \in [query : Entries \cup {M!NoQuery}, open : BOOLEAN]
OBVIOUS

LEMMA InitHome == M!Init => MapTyped /\ SearchTyped
<1>1. Cardinality({M!Start}) = 1
  BY FS_Singleton
<1>2. M!Init => MapTyped
  <2>1. M!NoCache \in [of : M!Centers \cup {M!Nowhere}, fresh : BOOLEAN]
    BY DEF M!NoCache
  <2>2. M!Start \in M!Centers
    BY DEF M!Centers
  <2> QED
    <3>1. ASSUME M!Init
          PROVE  nearby \subseteq M!Centers /\ Cardinality(nearby) <= MaxRequests
      <4>1. nearby = {M!Start}
        BY <3>1 DEF M!Init
      <4>2. Cardinality(nearby) = 1
        BY <1>1, <4>1, Zenon
      <4> QED
        BY <2>2, <4>1, <4>2, HomeBounds
    <3> QED
      BY <2>1, <2>2, <3>1 DEF M!Init, MapTyped
<1>3. M!Init => SearchTyped
  <2>1. M!NoList \in [query : Entries \cup {M!NoQuery}, open : BOOLEAN]
    BY DEF M!NoList
  <2> QED
    BY <2>1 DEF M!Init, SearchTyped
<1> QED
  BY <1>2, <1>3

\* The requests in flight do not get more when one is answered.
LEMMA Fewer ==
    ASSUME MapTyped, NEW c
    PROVE  nearby \ {c} \subseteq M!Centers /\ Cardinality(nearby \ {c}) <= MaxRequests
<1>1. IsFiniteSet(M!Centers)
  <2>1. M!Centers = (({} \cup {M!Start}) \cup {"away"}) \cup {"station"}
    BY DEF M!Centers
  <2>2. IsFiniteSet(({} \cup {M!Start}) \cup {"away"})
    BY FS_EmptySet, FS_AddElement
  <2> QED
    BY <2>1, <2>2, FS_AddElement
<1>2. IsFiniteSet(nearby)
  BY <1>1, FS_Subset DEF MapTyped
<1>3. Cardinality(nearby) \in Nat /\ Cardinality(nearby \ {c}) <= Cardinality(nearby)
      /\ Cardinality(nearby \ {c}) \in Nat
  BY <1>2, FS_Subset, FS_CardinalityType
<1>4. nearby \subseteq M!Centers /\ Cardinality(nearby) <= MaxRequests
  BY DEF MapTyped
<1> QED
  BY <1>3, <1>4, HomeBounds

LEMMA StepMap == MapTyped /\ [M!Next]_homeVars => MapTyped'
<1> SUFFICES ASSUME MapTyped, [M!Next]_homeVars PROVE MapTyped'
  OBVIOUS
<1> USE DEF MapTyped, M!Centers, M!Places, M!Start, M!Nowhere, M!MoveTo
<1>1. ASSUME UNCHANGED <<center, located, cache, debounce, nearby, last, behind, sheet>>
      PROVE  MapTyped'
  BY <1>1
<1>2. ASSUME NEW c \in M!Places, M!Pan(c) PROVE MapTyped'
  BY <1>2 DEF M!Pan
<1>3. CASE M!FetchCached
  BY <1>3 DEF M!FetchCached
<1>4. CASE M!FetchSent
  <2>1. Cardinality(nearby') <= MaxRequests
    BY <1>4, SameCardinality DEF M!FetchSent
  <2> QED
    BY <1>4, <2>1 DEF M!FetchSent
<1>5. ASSUME NEW c \in M!Centers, M!Answer(c) PROVE MapTyped'
  <2>1. nearby' \subseteq M!Centers /\ Cardinality(nearby') <= MaxRequests
    BY <1>5, Fewer DEF M!Answer
  <2>2. center' \in M!Centers /\ debounce' \in BOOLEAN
    BY <1>5 DEF M!Answer, M!Render
  <2> QED
    BY <1>5, <2>1, <2>2 DEF M!Answer
<1>6. ASSUME NEW c \in M!Centers, M!RequestFails(c) PROVE MapTyped'
  <2>1. nearby' \subseteq M!Centers /\ Cardinality(nearby') <= MaxRequests
    BY <1>6, Fewer DEF M!RequestFails
  <2> QED
    BY <1>6, <2>1 DEF M!RequestFails
<1>7. CASE M!CacheExpires
  BY <1>7 DEF M!CacheExpires
<1>8. CASE M!LocateUser \/ M!OpenSheet \/ M!CloseSheet \/ M!SheetComes
  BY <1>8 DEF M!LocateUser, M!OpenSheet, M!CloseSheet, M!SheetComes
<1>9. CASE M!PickPlace \/ M!PickStation
  BY <1>9 DEF M!PickPlace, M!PickStation
<1> QED
  BY <1>1, <1>2, <1>3, <1>4, <1>5, <1>6, <1>7, <1>8, <1>9
  DEF M!Next, homeVars, M!Type, M!SearchSent, M!SearchAnswered, M!SearchFails, M!HideList,
      M!Focus, M!mapVars

LEMMA StepSearch == SearchTyped /\ [M!Next]_homeVars => SearchTyped'
<1> SUFFICES ASSUME SearchTyped, [M!Next]_homeVars PROVE SearchTyped'
  OBVIOUS
<1> USE DEF SearchTyped, M!NoQuery
<1>1. ASSUME UNCHANGED <<input, timer, searches, list>> PROVE SearchTyped'
  BY <1>1
<1>2. ASSUME NEW q \in Entries \cup {M!NoQuery}, M!Type(q) PROVE SearchTyped'
  <2>1. list' = list \/ list' = M!NoList
    BY <1>2 DEF M!Type
  <2>2. M!NoList \in [query : Entries \cup {M!NoQuery}, open : BOOLEAN]
    BY ListTyped DEF M!NoList
  <2> QED
    BY <1>2, <2>1, <2>2 DEF M!Type
<1>3. CASE M!SearchSent
  BY <1>3 DEF M!SearchSent
<1>4. ASSUME NEW q \in Entries, M!SearchAnswered(q) \/ M!SearchFails(q) PROVE SearchTyped'
  <2>1. list' = list \/ list' = [query |-> q, open |-> TRUE]
    BY <1>4 DEF M!SearchAnswered, M!SearchFails
  <2>2. [query |-> q, open |-> TRUE] \in [query : Entries \cup {M!NoQuery}, open : BOOLEAN]
    BY ListTyped
  <2> QED
    BY <1>4, <2>1, <2>2 DEF M!SearchAnswered, M!SearchFails
<1>5. CASE M!HideList \/ M!Focus \/ M!PickPlace \/ M!PickStation
  BY <1>5 DEF M!HideList, M!Focus, M!PickPlace, M!PickStation
<1> QED
  BY <1>1, <1>2, <1>3, <1>4, <1>5
  DEF M!Next, homeVars, M!Pan, M!FetchCached, M!FetchSent, M!Answer, M!RequestFails,
      M!CacheExpires, M!LocateUser, M!OpenSheet, M!CloseSheet, M!SheetComes, M!searchVars

-----------------------------------------------------------------------------
(* The types of the scanner *)

\* The types of the tabs and questions, and those of the streams and their intervals.
TabsTyped ==
    /\ tab \in {"map", "scan", "left"}
    /\ scannerActive \in BOOLEAN /\ detecting \in BOOLEAN /\ leftWaiting \in BOOLEAN
    /\ remembered \in BOOLEAN /\ polling \in BOOLEAN

StreamsTyped ==
    /\ asked \in 0..MaxStreams /\ granted \in 0..MaxStreams /\ asked + granted <= MaxStreams
    /\ live \subseteq C!Streams /\ timers \subseteq C!Streams
    /\ videoStream \in {0} \cup C!Streams /\ scanInterval \in {0} \cup C!Streams

LEMMA ScanTypes == TabsTyped /\ StreamsTyped => C!TypeOK
BY DEF TabsTyped, StreamsTyped, C!TypeOK

LEMMA InitScan == C!Init => TabsTyped /\ StreamsTyped
<1>1. C!Init => TabsTyped
  BY DEF C!Init, TabsTyped
<1>2. C!Init => StreamsTyped
  BY HomeBounds DEF C!Init, StreamsTyped
<1> QED
  BY <1>1, <1>2

LEMMA StepTabs == TabsTyped /\ [C!Next]_scanVars => TabsTyped'
<1> SUFFICES ASSUME TabsTyped, [C!Next]_scanVars PROVE TabsTyped'
  OBVIOUS
<1> USE DEF TabsTyped
<1>1. CASE UNCHANGED scanVars
  BY <1>1 DEF scanVars
<1>2. CASE C!OpenScan \/ C!OpenMap
  BY <1>2 DEF C!OpenScan, C!OpenMap, C!StopScanner
<1>3. CASE C!Grant \/ C!Deny
  BY <1>3 DEF C!Grant, C!Deny
<1>4. CASE C!Detect \/ C!NothingFound \/ C!PollAnswered
  BY <1>4 DEF C!Detect, C!NothingFound, C!PollAnswered
<1>5. CASE C!CodeFound \/ C!SubmitManualCode
  BY <1>5 DEF C!CodeFound, C!SubmitManualCode, C!Leave
<1> QED
  BY <1>1, <1>2, <1>3, <1>4, <1>5 DEF C!Next

LEMMA StepStreams == StreamsTyped /\ [C!Next]_scanVars => StreamsTyped'
<1> SUFFICES ASSUME StreamsTyped, [C!Next]_scanVars PROVE StreamsTyped'
  OBVIOUS
<1> USE HomeBounds DEF StreamsTyped, C!Streams
<1>1. ASSUME UNCHANGED <<asked, granted, live, videoStream, timers, scanInterval>>
      PROVE  StreamsTyped'
  BY <1>1
<1>2. CASE C!OpenScan
  BY <1>2 DEF C!OpenScan
<1>3. CASE C!OpenMap
  BY <1>3 DEF C!OpenMap, C!StopScanner
<1>4. CASE C!Grant
  <2>1. asked' \in 0..MaxStreams /\ granted' \in 1..MaxStreams /\ asked' + granted' <= MaxStreams
    BY <1>4 DEF C!Grant
  <2>2. live' \subseteq C!Streams /\ videoStream' \in C!Streams
    BY <1>4, <2>1 DEF C!Grant
  <2>3. timers' \subseteq C!Streams /\ scanInterval' \in {0} \cup C!Streams
    BY <1>4, <2>1 DEF C!Grant
  <2>4. granted' \in 0..MaxStreams
    BY <2>1
  <2> QED
    BY <2>1, <2>2, <2>3, <2>4
<1>5. CASE C!Deny
  BY <1>5 DEF C!Deny
<1>6. CASE C!CodeFound \/ C!SubmitManualCode
  BY <1>6 DEF C!CodeFound, C!SubmitManualCode, C!Leave
<1> QED
  BY <1>1, <1>2, <1>3, <1>4, <1>5, <1>6
  DEF C!Next, scanVars, C!Detect, C!NothingFound, C!PollAnswered

-----------------------------------------------------------------------------
(* The types of the charts *)

ClockTyped == clock \in Capacity..Capacity + MaxClock /\ online \in BOOLEAN

LEMMA InitClock == T!Init => ClockTyped
BY TelemetryBounds DEF T!Init, ClockTyped

LEMMA StepClock == ChartInv /\ ClockTyped /\ [T!Next]_liveVars => ClockTyped'
<1> SUFFICES ASSUME ClockTyped, [T!Next]_liveVars PROVE ClockTyped'
  OBVIOUS
<1> USE TelemetryBounds DEF ClockTyped
<1>1. CASE T!Tick \/ T!Restarted
  BY <1>1 DEF T!Tick, T!Restarted
<1>2. ASSUME UNCHANGED <<clock, online>> PROVE ClockTyped'
  BY <1>2
<1>3. CASE T!StatusChanges
  BY <1>3 DEF T!StatusChanges
<1> QED
  BY <1>1, <1>2, <1>3
  DEF T!Next, liveVars, T!Mount, T!LoadChanges, T!BalanceChanges, T!Hydrate

LEMMA ChartTypes == ChartInv /\ ClockTyped => T!TypeOK
<1> SUFFICES ASSUME ChartInv, ClockTyped PROVE T!TypeOK
  OBVIOUS
<1>1. Len(points) <= Capacity
  <2>1. Capacity \in Nat /\ Len(pushed) \in Nat
    BY TelemetryBounds DEF ChartInv
  <2>2. points = [i \in 1..(IF Len(pushed) < Capacity THEN Len(pushed) ELSE Capacity) |->
            IF Len(pushed) < Capacity THEN pushed[i] ELSE pushed[Len(pushed) - Capacity + i]]
    BY WindowIs DEF ChartInv
  <2> QED
    BY <2>1, <2>2
<1>2. ring.pointer \in 0..Capacity - 1 /\ ring.isFull \in BOOLEAN
  BY DEF ChartInv, RingOf
<1>3. \A i \in DOMAIN readings : readings[i] \in T!Readings
  BY DEF ChartInv
<1> QED
  BY <1>1, <1>2, <1>3 DEF ChartInv, ClockTyped, T!TypeOK

-----------------------------------------------------------------------------
(* The types of the site filter *)

Texts == [name : {"", "hub", "depot"}, form : {"plain", "caps", "padded"}]

\* What an answer says of a charger.
ChargerRows ==
    {c \in [id : {"c1", "c2"}, site : Texts, status : {"online", "offline", "Charging"}] :
        c.site \in {V!Absent, V!Hub, V!HUB, V!Text("hub", "padded"), V!Depot}}

\* Joining lists of one row or none.
LEMMA JoinedBoth == ASSUME NEW c, NEW d PROVE <<c>> \o <<d>> = <<c, d>>
<1> DEFINE l == <<c>> \o <<d>>
<1>1. /\ l \in Seq({c, d}) /\ Len(l) = 2
      /\ l[1] = c /\ l[2] = d
  OBVIOUS
<1> HIDE DEF l
<1>2. l = <<c, d>>
  BY <1>1
<1> QED
  BY <1>2 DEF l

LEMMA JoinedNone == <<>> \o <<>> = <<>>
OBVIOUS

LEMMA JoinedOne == ASSUME NEW c PROVE <<c>> \o <<>> = <<c>> /\ <<>> \o <<c>> = <<c>>
OBVIOUS

LEMMA Halves ==
    ASSUME NEW A, NEW B
    PROVE  /\ \A l \in {a \o b : a \in A, b \in B} : \E a \in A, b \in B : l = a \o b
           /\ \A a \in A, b \in B : a \o b \in {x \o y : x \in A, y \in B}
OBVIOUS

LEMMA TextsAre ==
    {V!Absent, V!Hub, V!HUB, V!Depot, V!Text("hub", "padded")} \subseteq Texts
<1>1. V!Absent \in Texts
  BY DEF V!Absent, V!Text, Texts
<1>2. V!Hub \in Texts
  BY DEF V!Hub, V!Text, Texts
<1>3. V!HUB \in Texts
  BY DEF V!HUB, V!Text, Texts
<1>4. V!Depot \in Texts
  BY DEF V!Depot, V!Text, Texts
<1>5. V!Text("hub", "padded") \in Texts
  BY DEF V!Text, Texts
<1> QED
  BY <1>1, <1>2, <1>3, <1>4, <1>5

LEMMA RowIs ==
    ASSUME NEW i \in {"c1", "c2"}, NEW s \in {"online", "offline", "Charging"},
           NEW t \in {V!Absent, V!Hub, V!HUB, V!Text("hub", "padded"), V!Depot}
    PROVE  V!Charger(i, t, s) \in ChargerRows /\ V!Charger(i, t, s).id = i
<1>1. t \in Texts
  BY TextsAre
<1> QED
  BY <1>1 DEF V!Charger, ChargerRows

\* An answer is a row of the first charger or none, then one of the second or none.
FirstHalf == {<<>>} \cup {<<V!Charger("c1", t, IF t = V!HUB THEN "offline" ELSE "online")>> :
                              t \in {V!Absent, V!Hub, V!HUB}}
SecondHalf == {<<>>} \cup {<<V!Charger("c2", t, IF t = V!Depot THEN "Charging" ELSE "online")>> :
                               t \in {V!Hub, V!Text("hub", "padded"), V!Depot}}

LEMMA TwoHalves == V!ChargerAnswers = {a \o b : a \in FirstHalf, b \in SecondHalf}
BY DEF V!ChargerAnswers, FirstHalf, SecondHalf

LEMMA AnswersAre ==
    ASSUME NEW l \in V!ChargerAnswers
    PROVE  \/ l = <<>>
           \/ \E c \in ChargerRows : l = <<c>>
           \/ \E c, d \in ChargerRows : c.id = "c1" /\ d.id = "c2" /\ l = <<c, d>>
<1>1. PICK a \in FirstHalf, b \in SecondHalf : l = a \o b
  BY TwoHalves, Halves
<1>2. a = <<>> \/ \E c \in ChargerRows : c.id = "c1" /\ a = <<c>>
  BY RowIs DEF FirstHalf
<1>3. b = <<>> \/ \E c \in ChargerRows : c.id = "c2" /\ b = <<c>>
  BY RowIs DEF SecondHalf
<1>4. CASE a = <<>>
  <2>1. CASE b = <<>>
    BY <1>1, <1>4, <2>1, JoinedNone
  <2>2. ASSUME NEW d \in ChargerRows, b = <<d>> PROVE l = <<d>>
    BY <1>1, <1>4, <2>2, JoinedOne
  <2> QED
    BY <1>3, <2>1, <2>2
<1>5. ASSUME NEW c \in ChargerRows, c.id = "c1", a = <<c>>
      PROVE  l = <<c>> \/ \E d \in ChargerRows : d.id = "c2" /\ l = <<c, d>>
  <2>1. CASE b = <<>>
    BY <1>1, <1>5, <2>1, JoinedOne
  <2>2. ASSUME NEW d \in ChargerRows, d.id = "c2", b = <<d>> PROVE l = <<c, d>>
    BY <1>1, <1>5, <2>2, JoinedBoth
  <2> QED
    BY <1>3, <2>1, <2>2
<1> QED
  BY <1>2, <1>4, <1>5

LEMMA EmptyAnswer == <<>> \in V!ChargerAnswers
<1>1. <<>> \in FirstHalf /\ <<>> \in SecondHalf
  BY DEF FirstHalf, SecondHalf
<1>2. <<>> \o <<>> \in {x \o y : x \in FirstHalf, y \in SecondHalf}
  BY <1>1, Halves
<1> QED
  BY <1>2, TwoHalves, JoinedNone

\* So every charger of an answer is one of the rows.
LEMMA RowsOfAnswers ==
    ASSUME NEW l \in V!ChargerAnswers, NEW i \in DOMAIN l
    PROVE  l[i] \in ChargerRows
<1>1. CASE l = <<>>
  BY <1>1
<1>2. ASSUME NEW c \in ChargerRows, l = <<c>> PROVE l[i] \in ChargerRows
  BY <1>2
<1>3. ASSUME NEW c \in ChargerRows, NEW d \in ChargerRows, l = <<c, d>> PROVE l[i] \in ChargerRows
  BY <1>3
<1> QED
  BY <1>1, <1>2, <1>3, AnswersAre

\* The sites that can be selected are among those that are named anywhere.
LEMMA SitesAre == ASSUME V!TypeOK, NEW s \in V!AvailableSites PROVE s.id \in V!Sites
<1> DEFINE new == {i \in V!Located : /\ V!Key(chargers[i].site) \notin {V!Lower(t) : t \in emsSites}
                                     /\ \A j \in V!Located :
                                            V!Key(chargers[j].site) = V!Key(chargers[i].site)
                                                => i <= j}
           found == {V!Site(t, V!Lower(t)) : t \in emsSites}
                        \cup {V!Site(V!Trim(chargers[i].site), V!Key(chargers[i].site)) : i \in new}
<1>1. \A t \in emsSites : t \in V!Sites
  BY DEF V!TypeOK, V!EmsAnswers, V!Sites
<1>2. ASSUME NEW i \in V!Located PROVE V!Trim(chargers[i].site) \in V!Sites
  <2>1. chargers[i] \in ChargerRows /\ chargers[i].site # V!Absent
    BY <1>2, RowsOfAnswers DEF V!Located, V!TypeOK
  <2>2. chargers[i].site \in {V!Hub, V!HUB, V!Text("hub", "padded"), V!Depot}
    BY <2>1 DEF ChargerRows
  <2>3. V!Trim(V!Hub) = V!Hub /\ V!Trim(V!HUB) = V!HUB /\ V!Trim(V!Depot) = V!Depot
    BY DEF V!Trim, V!Hub, V!HUB, V!Depot, V!Text
  <2>4. V!Trim(V!Text("hub", "padded")) = V!Hub
    BY DEF V!Trim, V!Hub, V!Text
  <2> QED
    BY <2>2, <2>3, <2>4 DEF V!Sites
<1>3. \A x, k : V!Site(x, k).id = x
  BY DEF V!Site
<1>4. \/ s \in found
      \/ s = [id |-> V!Newcastle, count |-> 0]
  BY DEF V!AvailableSites
<1>5. CASE s \in found
  <2>1. \/ \E t \in emsSites : s = V!Site(t, V!Lower(t))
        \/ \E i \in V!Located : s = V!Site(V!Trim(chargers[i].site), V!Key(chargers[i].site))
    BY <1>5
  <2> QED
    BY <1>1, <1>2, <1>3, <2>1
<1>6. CASE s = [id |-> V!Newcastle, count |-> 0]
  BY <1>6 DEF V!Sites
<1> QED
  BY <1>4, <1>5, <1>6

\* The sessions of an answer are few, each with an id and an energy or none.
LEMMA SessionsAre ==
    ASSUME NEW x \in V!SessionAnswers
    PROVE  /\ IsFiniteSet(x)
           /\ \A s \in x : /\ s.id \in {"s1", "s2", "s3", "s4", "s5"}
                           /\ s.wh \in Nat \cup {V!Null}
<1>1. CASE x = {}
  BY <1>1, FS_EmptySet
<1>2. ASSUME NEW a \in Energies, NEW b \in Energies, NEW c \in Energies,
             x = {V!Session("s1", "c1", a, "completed"), V!Session("s2", "c2", b, "completed"),
                  V!Session("s3", "c1", c, "completed"), V!Session("s4", "c2", 0, "failed"),
                  V!Session("s5", "c1", V!Null, "active")}
      PROVE  /\ IsFiniteSet(x)
             /\ \A s \in x : /\ s.id \in {"s1", "s2", "s3", "s4", "s5"}
                             /\ s.wh \in Nat \cup {V!Null}
  <2> DEFINE s1 == V!Session("s1", "c1", a, "completed")
             s2 == V!Session("s2", "c2", b, "completed")
             s3 == V!Session("s3", "c1", c, "completed")
             s4 == V!Session("s4", "c2", 0, "failed")
             s5 == V!Session("s5", "c1", V!Null, "active")
  <2>1. /\ s1.id = "s1" /\ s1.wh = a
        /\ s2.id = "s2" /\ s2.wh = b
        /\ s3.id = "s3" /\ s3.wh = c
        /\ s4.id = "s4" /\ s4.wh = 0
        /\ s5.id = "s5" /\ s5.wh = V!Null
    BY DEF V!Session
  <2>2. a \in Nat /\ b \in Nat /\ c \in Nat
    BY SessionEnergies
  <2>3. x = {s1, s2, s3, s4, s5}
    BY <1>2
  <2> HIDE DEF s1, s2, s3, s4, s5
  <2>4. IsFiniteSet({s1, s2, s3, s4, s5})
    <3>1. IsFiniteSet({s1} \cup {s2}) /\ IsFiniteSet(({s1} \cup {s2}) \cup {s3})
      BY FS_Singleton, FS_AddElement
    <3>3. IsFiniteSet((({s1} \cup {s2}) \cup {s3}) \cup {s4})
      BY <3>1, FS_AddElement
    <3>4. IsFiniteSet(((({s1} \cup {s2}) \cup {s3}) \cup {s4}) \cup {s5})
      BY <3>3, FS_AddElement
    <3>2. {s1, s2, s3, s4, s5} = ((({s1} \cup {s2}) \cup {s3}) \cup {s4}) \cup {s5}
      OBVIOUS
    <3> QED
      BY <3>2, <3>4
  <2>5. ASSUME NEW s \in x
        PROVE  s.id \in {"s1", "s2", "s3", "s4", "s5"} /\ s.wh \in Nat \cup {V!Null}
    BY <2>1, <2>2, <2>3, <2>5
  <2>6. IsFiniteSet(x)
    BY <2>3, <2>4, Zenon
  <2> QED
    BY <2>5, <2>6
<1>3. \/ x = {}
      \/ \E a, b, c \in Energies :
             x = {V!Session("s1", "c1", a, "completed"), V!Session("s2", "c2", b, "completed"),
                  V!Session("s3", "c1", c, "completed"), V!Session("s4", "c2", 0, "failed"),
                  V!Session("s5", "c1", V!Null, "active")}
  BY SMTT(30) DEF V!SessionAnswers
<1> QED
  BY <1>1, <1>2, <1>3, Zenon

LEMMA NoSessions == {} \in V!SessionAnswers
BY DEF V!SessionAnswers

LEMMA InitSites == V!Init => V!TypeOK
BY NoSessions, EmptyAnswer DEF V!Init, V!TypeOK, V!EmsAnswers, V!Pages

LEMMA StepSites == V!TypeOK /\ [V!Next]_siteVars => V!TypeOK'
<1> SUFFICES ASSUME V!TypeOK, [V!Next]_siteVars PROVE V!TypeOK'
  OBVIOUS
<1> USE DEF V!TypeOK
<1>1. CASE UNCHANGED siteVars
  BY <1>1 DEF siteVars
<1>2. CASE V!ChargersArrive \/ V!EmsSitesArrive \/ V!SessionsArrive
  BY <1>2 DEF V!ChargersArrive, V!EmsSitesArrive, V!SessionsArrive
<1>3. CASE V!SelectSite
  <2>1. site' \in V!Sites \cup {V!All}
    BY <1>3, SitesAre DEF V!SelectSite
  <2> QED
    BY <1>3, <2>1 DEF V!SelectSite
<1>4. ASSUME NEW p \in V!Pages, V!OpenPage(p) PROVE V!TypeOK'
  BY <1>4 DEF V!OpenPage
<1>5. ASSUME NEW t \in {"", "c1", "hub"}, V!Search(t) PROVE V!TypeOK'
  BY <1>5 DEF V!Search
<1>6. ASSUME NEW p \in {"all", "online", "faulted", "offline"}, V!ChoosePill(p) PROVE V!TypeOK'
  BY <1>6 DEF V!ChoosePill
<1>7. CASE V!OpenCharger
  <2>1. \A c \in ChargerRows : c.id \in {"c1", "c2"}
    BY DEF ChargerRows
  <2>2. \A c \in V!Everything : c.id \in {"c1", "c2"}
    BY <2>1, RowsOfAnswers DEF V!Everything
  <2>3. opened' \in {"c1", "c2"}
    BY <1>7, <2>2 DEF V!OpenCharger, V!ListedChargers
  <2> QED
    BY <1>7, <2>3 DEF V!OpenCharger
<1>8. CASE V!OpenSession
  <2>1. PICK s \in sessions : opened' = s.id
    BY <1>8 DEF V!OpenSession, V!ListedSessions
  <2>2. sessions \in V!SessionAnswers
    OBVIOUS
  <2>3. \A z \in sessions : z.id \in {"s1", "s2", "s3", "s4", "s5"}
    BY <2>2, SessionsAre, Zenon
  <2> QED
    BY <1>8, <2>1, <2>3 DEF V!OpenSession
<1>9. CASE V!CloseDetails
  BY <1>9 DEF V!CloseDetails
<1>10. CASE V!Reload
  <2>1. chargers' \in V!ChargerAnswers /\ emsSites' \in V!EmsAnswers /\ sessions' \in V!SessionAnswers
    BY <1>10, NoSessions, EmptyAnswer DEF V!Reload, V!EmsAnswers
  <2> QED
    BY <1>10, <2>1 DEF V!Reload
<1> QED
  BY <1>1, <1>2, <1>3, <1>4, <1>5, <1>6, <1>7, <1>8, <1>9, <1>10 DEF V!Next

-----------------------------------------------------------------------------
(* What the three pages make of a site *)

\* The sums of h over the subsets of a set, as SumFunction computes them.
SumsOver(S0, h, g) ==
    g = [s \in SUBSET S0 |-> IF s = {} THEN 0
                            ELSE h[CHOOSE x \in s : TRUE] + g[s \ {CHOOSE x \in s : TRUE}]]

LEMMA SumOfNone == ASSUME NEW S0, NEW h, NEW g, SumsOver(S0, h, g) PROVE g[{}] = 0
BY DEF SumsOver

LEMMA SumOfSome ==
    ASSUME NEW S0, NEW h, NEW g, SumsOver(S0, h, g), NEW s \in SUBSET S0, s # {}
    PROVE  \E x \in s : x = (CHOOSE y \in s : TRUE) /\ g[s] = h[x] + g[s \ {x}]
<1> DEFINE x == CHOOSE y \in s : TRUE
<1>1. x \in s
  OBVIOUS
<1>2. g[s] = h[x] + g[s \ {x}]
  BY DEF SumsOver
<1> QED
  BY <1>1, <1>2

\* A property of some subset of a finite set is one of a smallest such subset.
LEMMA Smallest ==
    ASSUME NEW S0, IsFiniteSet(S0), NEW B, B \subseteq SUBSET S0, B # {}
    PROVE  \E s \in B : /\ IsFiniteSet(s) /\ Cardinality(s) \in Nat
                        /\ \A x \in s : /\ s \ {x} \notin B
                                        /\ Cardinality(s \ {x}) = Cardinality(s) - 1
<1> DEFINE N == {Cardinality(s) : s \in B}
<1>1. \A s \in SUBSET S0 : IsFiniteSet(s) /\ Cardinality(s) \in Nat
  BY FS_Subset, FS_CardinalityType
<1>2. N \subseteq Nat /\ N # {}
  BY <1>1
<1>3. PICK n \in N : \A m \in N : n <= m
  BY <1>2, LeastElement
<1>4. PICK s \in B : \A r \in B : Cardinality(s) <= Cardinality(r)
  BY <1>3
<1>5. ASSUME NEW x \in s PROVE s \ {x} \notin B /\ Cardinality(s \ {x}) = Cardinality(s) - 1
  <2>1. Cardinality(s \ {x}) = Cardinality(s) - 1
    BY <1>1, FS_RemoveElement
  <2> QED
    BY <1>1, <1>4, <2>1
<1> QED
  BY <1>1, <1>4, <1>5

\* What differs by d at most in each element differs in the sums by d for each element,
\* also where one is computed over more.
LEMMA SumsNear ==
    ASSUME NEW S1, NEW S0 \in SUBSET S1, IsFiniteSet(S0), NEW d \in {0, 500}, NEW h, NEW r,
           \A x \in S0 : /\ h[x] \in Int /\ r[x] \in Int
                         /\ h[x] - r[x] <= d /\ r[x] - h[x] <= d,
           NEW g, SumsOver(S1, h, g), NEW k, SumsOver(S0, r, k)
    PROVE  /\ g[S0] \in Int /\ k[S0] \in Int
           /\ g[S0] - k[S0] <= d * Cardinality(S0) /\ k[S0] - g[S0] <= d * Cardinality(S0)
<1> DEFINE Near(s) == /\ g[s] \in Int /\ k[s] \in Int
                      /\ g[s] - k[s] <= d * Cardinality(s) /\ k[s] - g[s] <= d * Cardinality(s)
           B == {s \in SUBSET S0 : ~Near(s)}
<1> SUFFICES ASSUME B # {} PROVE FALSE
  OBVIOUS
<1>1. PICK s \in B : /\ IsFiniteSet(s) /\ Cardinality(s) \in Nat
                     /\ \A x \in s : /\ s \ {x} \notin B
                                     /\ Cardinality(s \ {x}) = Cardinality(s) - 1
  <2> HIDE DEF B
  <2>1. B \subseteq SUBSET S0
    BY DEF B
  <2> QED
    BY <2>1, Smallest
<1>2. CASE s = {}
  <2>1. g[s] = 0 /\ k[s] = 0 /\ Cardinality(s) = 0
    BY <1>2, SumOfNone, FS_EmptySet
  <2> QED
    BY <1>1, <2>1
<1>3. CASE s # {}
  <2>1. s \in SUBSET S0 /\ s \in SUBSET S1
    OBVIOUS
  <2>2. PICK x \in s : x = (CHOOSE y \in s : TRUE) /\ g[s] = h[x] + g[s \ {x}]
    BY <1>3, <2>1, SumOfSome
  <2>3. k[s] = r[x] + k[s \ {x}]
    <3>1. \E y \in s : y = (CHOOSE z \in s : TRUE) /\ k[s] = r[y] + k[s \ {y}]
      BY <1>3, <2>1, SumOfSome
    <3> QED
      BY <2>2, <3>1
  <2>4. Near(s \ {x}) /\ Cardinality(s \ {x}) = Cardinality(s) - 1
    BY <1>1
  <2>5. Near(s)
    BY <1>1, <2>2, <2>3, <2>4
  <2> QED
    BY <2>5
<1> QED
  BY <1>2, <1>3

\* Such sums exist.
LEMMA SumExists ==
    ASSUME NEW S0, IsFiniteSet(S0), NEW h, \A x \in S0 : h[x] \in Int
    PROVE  \E g : SumsOver(S0, h, g)
<1> DEFINE B == {s \in SUBSET S0 : ~\E g : SumsOver(s, h, g)}
<1> SUFFICES ASSUME B # {} PROVE FALSE
  OBVIOUS
<1>1. PICK s \in B : /\ IsFiniteSet(s) /\ Cardinality(s) \in Nat
                     /\ \A x \in s : s \ {x} \notin B
  <2> HIDE DEF B
  <2>1. B \subseteq SUBSET S0
    BY DEF B
  <2> QED
    BY <2>1, Smallest
<1> DEFINE x == CHOOSE y \in s : TRUE
\* The sums over a set with one element fewer, one for each of its subsets.
<1>2. ASSUME NEW t \in SUBSET s, t # s PROVE \E g : SumsOver(t, h, g)
  <2>1. PICK y \in s : t \subseteq s \ {y}
    BY <1>2
  <2>2. PICK g : SumsOver(s \ {y}, h, g)
    BY <1>1
  <2> DEFINE k == [u \in SUBSET t |-> g[u]]
  <2>3. SumsOver(t, h, k)
    <3>1. ASSUME NEW u \in SUBSET t
          PROVE  k[u] = IF u = {} THEN 0
                        ELSE h[CHOOSE z \in u : TRUE] + k[u \ {CHOOSE z \in u : TRUE}]
      <4>1. CASE u = {}
        BY <4>1, <2>2, SumOfNone
      <4>2. CASE u # {}
        <5>1. u \in SUBSET (s \ {y})
          BY <2>1
        <5>2. PICK z \in u : z = (CHOOSE w \in u : TRUE) /\ g[u] = h[z] + g[u \ {z}]
          BY <2>2, <4>2, <5>1, SumOfSome
        <5>3. k[u] = g[u] /\ k[u \ {z}] = g[u \ {z}]
          OBVIOUS
        <5> QED
          BY <4>2, <5>2, <5>3
      <4> QED
        BY <4>1, <4>2
    <3>2. k = [u \in SUBSET t |-> k[u]]
      OBVIOUS
    <3> HIDE DEF k
    <3>3. k = [u \in SUBSET t |-> IF u = {} THEN 0
                   ELSE h[CHOOSE z \in u : TRUE] + k[u \ {CHOOSE z \in u : TRUE}]]
      BY <3>1, <3>2
    <3> QED
      BY <3>3, Zenon DEF SumsOver
  <2> QED
    BY <2>3
<1> DEFINE Sums(t) == CHOOSE g : SumsOver(t, h, g)
<1>3. ASSUME NEW t \in SUBSET s, t # s PROVE SumsOver(t, h, Sums(t))
  BY <1>2, <1>3
<1>4. ASSUME NEW t \in SUBSET s, t # s, NEW u \in SUBSET t PROVE Sums(t)[u] = Sums(u)[u]
  <2>1. u \in SUBSET s /\ u # s
    BY <1>4
  <2>2. SumsOver(t, h, Sums(t)) /\ SumsOver(u, h, Sums(u))
    BY <1>3, <1>4, <2>1
  <2>3. IsFiniteSet(u)
    BY <1>1, <2>1, FS_Subset
  <2>4. \A z \in u : h[z] \in Int /\ h[z] - h[z] <= 0
    <3>1. \A z \in u : h[z] \in Int
      BY <2>1
    <3> QED
      BY <3>1
  <2> HIDE DEF Sums
  <2>5. /\ Sums(t)[u] \in Int /\ Sums(u)[u] \in Int
        /\ Sums(t)[u] - Sums(u)[u] <= 0 * Cardinality(u) /\ Sums(u)[u] - Sums(t)[u] <= 0 * Cardinality(u)
    BY <2>2, <2>3, <2>4, SumsNear
  <2>6. Cardinality(u) \in Nat
    BY <2>3, FS_CardinalityType
  <2> QED
    BY <2>5, <2>6
<1> DEFINE f == [t \in SUBSET s |-> IF t = {} THEN 0
                     ELSE h[CHOOSE y \in t : TRUE]
                          + Sums(t \ {CHOOSE y \in t : TRUE})[t \ {CHOOSE y \in t : TRUE}]]
<1>5. ASSUME NEW t \in SUBSET s, t # s PROVE f[t] = Sums(t)[t]
  <2>0. SumsOver(t, h, Sums(t))
    BY <1>3, <1>5
  <2>1. CASE t = {}
    BY <2>0, <2>1, SumOfNone
  <2>2. CASE t # {}
    <3>1. PICK y \in t : y = (CHOOSE z \in t : TRUE) /\ Sums(t)[t] = h[y] + Sums(t)[t \ {y}]
      <4> HIDE DEF Sums
      <4> QED
        BY <2>0, <2>2, SumOfSome
    <3>2. Sums(t)[t \ {y}] = Sums(t \ {y})[t \ {y}]
      BY <1>4, <1>5
    <3> HIDE DEF Sums
    <3> QED
      BY <2>2, <3>1, <3>2
  <2> QED
    BY <2>1, <2>2
<1>6. ASSUME NEW t \in SUBSET s
      PROVE  f[t] = IF t = {} THEN 0
                    ELSE h[CHOOSE y \in t : TRUE] + f[t \ {CHOOSE y \in t : TRUE}]
  <2>1. CASE t = {}
    BY <2>1
  <2>2. CASE t # {}
    <3> DEFINE y == CHOOSE z \in t : TRUE
    <3>1. y \in t /\ t \ {y} \in SUBSET s /\ t \ {y} # s
      BY <2>2
    <3>2. f[t \ {y}] = Sums(t \ {y})[t \ {y}]
      BY <1>5, <3>1
    <3> HIDE DEF Sums
    <3> QED
      BY <2>2, <3>2
  <2> QED
    BY <2>1, <2>2
<1>7. SumsOver(s, h, f)
  <2>1. f = [t \in SUBSET s |-> f[t]]
    OBVIOUS
  <2> HIDE DEF f
  <2>2. f = [t \in SUBSET s |-> IF t = {} THEN 0
                 ELSE h[CHOOSE y \in t : TRUE] + f[t \ {CHOOSE y \in t : TRUE}]]
    BY <1>6, <2>1
  <2> QED
    BY <2>2, Zenon DEF SumsOver
<1> QED
  BY <1>7

\* SumFunction computes them.
LEMMA SumIs ==
    ASSUME NEW f, IsFiniteSet(DOMAIN f), \A x \in DOMAIN f : f[x] \in Int
    PROVE  \E g : SumsOver(DOMAIN f, f, g) /\ V!SumFunction(f) = g[DOMAIN f]
<1> DEFINE g == CHOOSE k : k = [s \in SUBSET DOMAIN f |-> IF s = {} THEN 0
                       ELSE f[CHOOSE x \in s : TRUE] + k[s \ {CHOOSE x \in s : TRUE}]]
<1>1. V!SumFunction(f) = g[DOMAIN f]
  BY DEF V!SumFunction, V!SumFunctionOnSet, V!FoldFunctionOnSet, V!MapThenFoldSet
<1>2. \E k : k = [s \in SUBSET DOMAIN f |-> IF s = {} THEN 0
                       ELSE f[CHOOSE x \in s : TRUE] + k[s \ {CHOOSE x \in s : TRUE}]]
  <2>1. PICK k : SumsOver(DOMAIN f, f, k)
    BY SumExists
  <2> QED
    BY <2>1, Zenon DEF SumsOver
<1>3. g = [s \in SUBSET DOMAIN f |-> IF s = {} THEN 0
                       ELSE f[CHOOSE x \in s : TRUE] + g[s \ {CHOOSE x \in s : TRUE}]]
  BY <1>2, Zenon
<1> HIDE DEF g
<1>4. SumsOver(DOMAIN f, f, g)
  BY <1>3, Zenon DEF SumsOver
<1> QED
  BY <1>1, <1>4

\* An image under an operation that tells elements apart has as many elements.
LEMMA SameNumber ==
    ASSUME NEW S0, IsFiniteSet(S0), NEW f, f = [x \in S0 |-> f[x]],
           \A x, y \in S0 : f[x] = f[y] => x = y
    PROVE  IsFiniteSet({f[x] : x \in S0}) /\ Cardinality({f[x] : x \in S0}) = Cardinality(S0)
<1> DEFINE Image == {f[x] : x \in S0}
<1>1. f \in Bijection(S0, Image)
  BY DEF Bijection, Injection, Surjection, IsInjective
<1>2. ExistsBijection(S0, Image)
  BY <1>1 DEF ExistsBijection
<1> QED
  BY <1>2, FS_Bijection

\* V's Cardinality is that of the library's theorems.
LEMMA Counts == ASSUME NEW s PROVE V!Cardinality(s) = Cardinality(s)
BY Zenon DEF V!Cardinality, Cardinality

\* No charger has two rows in an answer.
LEMMA RowsDiffer ==
    ASSUME NEW l \in V!ChargerAnswers
    PROVE  /\ IsFiniteSet(DOMAIN l) /\ DOMAIN l \subseteq Nat
           /\ \A i, j \in DOMAIN l : l[i].id = l[j].id => i = j
<1>1. CASE l = <<>>
  BY <1>1, FS_EmptySet
<1>2. ASSUME NEW c \in ChargerRows, l = <<c>>
      PROVE  /\ IsFiniteSet(DOMAIN l) /\ DOMAIN l \subseteq Nat
             /\ \A i, j \in DOMAIN l : l[i].id = l[j].id => i = j
  <2>1. DOMAIN l = {1}
    BY <1>2
  <2>2. IsFiniteSet({1})
    BY FS_Singleton
  <2> QED
    BY <2>1, <2>2
<1>3. ASSUME NEW c \in ChargerRows, NEW d \in ChargerRows, c.id = "c1", d.id = "c2",
             l = <<c, d>>
      PROVE  /\ IsFiniteSet(DOMAIN l) /\ DOMAIN l \subseteq Nat
             /\ \A i, j \in DOMAIN l : l[i].id = l[j].id => i = j
  <2>1. DOMAIN l = {1, 2} /\ l[1] = c /\ l[2] = d
    BY <1>3
  <2>2. IsFiniteSet({1, 2})
    <3>1. {1, 2} = {1} \cup {2}
      OBVIOUS
    <3>2. IsFiniteSet({1} \cup {2})
      BY FS_Singleton, FS_AddElement
    <3> QED
      BY <3>1, <3>2, Zenon
  <2> QED
    BY <1>3, <2>1, <2>2
<1> QED
  BY <1>1, <1>2, <1>3, AnswersAre

\* A site that can be selected counts the chargers of its name in lower case.
LEMMA SiteIs ==
    ASSUME V!TypeOK, NEW s \in V!AvailableSites
    PROVE  /\ s.id \in V!Sites
           /\ s = V!Site(s.id, V!Lower(s.id))
<1> DEFINE new == {i \in V!Located : /\ V!Key(chargers[i].site) \notin {V!Lower(t) : t \in emsSites}
                                     /\ \A j \in V!Located :
                                            V!Key(chargers[j].site) = V!Key(chargers[i].site)
                                                => i <= j}
           found == {V!Site(t, V!Lower(t)) : t \in emsSites}
                        \cup {V!Site(V!Trim(chargers[i].site), V!Key(chargers[i].site)) : i \in new}
<1>1. \A x, k : V!Site(x, k).id = x
  BY DEF V!Site
<1>2. s \in found \/ (found = {} /\ s = [id |-> V!Newcastle, count |-> 0])
  BY DEF V!AvailableSites
<1>3. CASE s \in found
  <2>1. \/ \E t \in emsSites : s = V!Site(t, V!Lower(t))
        \/ \E i \in V!Located : s = V!Site(V!Trim(chargers[i].site), V!Key(chargers[i].site))
    BY <1>3
  <2> QED
    BY <1>1, <2>1, SitesAre DEF V!Key
<1>4. CASE found = {} /\ s = [id |-> V!Newcastle, count |-> 0]
  <2>1. \A i \in V!Located : V!Key(chargers[i].site) # V!Lower(V!Newcastle)
    <3> SUFFICES ASSUME NEW i \in V!Located PROVE V!Key(chargers[i].site) # V!Lower(V!Newcastle)
      OBVIOUS
    <3>1. chargers[i].site \in {V!Absent, V!Hub, V!HUB, V!Text("hub", "padded"), V!Depot}
      BY RowsOfAnswers DEF V!TypeOK, V!Located, ChargerRows
    <3>2. V!Lower(V!Newcastle).name = "newcastle"
      BY DEF V!Lower, V!Newcastle, V!Text
    <3>3. \A x \in Texts : V!Key(x).name = x.name
      BY DEF V!Key, V!Lower, V!Trim, V!Text, Texts
    <3>4. chargers[i].site \in Texts
      BY <3>1, TextsAre
    <3>5. \A x \in Texts : x.name # "newcastle"
      BY DEF Texts
    <3> QED
      BY <3>2, <3>3, <3>4, <3>5
  <2>2. {i \in V!Located : V!Key(chargers[i].site) = V!Lower(V!Newcastle)} = {}
    BY <2>1
  <2>3. V!Cardinality({i \in V!Located : V!Key(chargers[i].site) = V!Lower(V!Newcastle)}) = 0
    BY <2>2, Counts, FS_EmptySet
  <2>4. V!Site(V!Newcastle, V!Lower(V!Newcastle)) = [id |-> V!Newcastle, count |-> 0]
    BY <2>3 DEF V!Site
  <2> QED
    BY <1>4, <2>4, SitesAre
<1> QED
  BY <1>2, <1>3, <1>4

\* No two sites that can be selected are the same but for the capitals.
LEMMA SitesDiffer ==
    ASSUME V!TypeOK, NEW s \in V!AvailableSites, NEW t \in V!AvailableSites,
           V!Lower(s.id) = V!Lower(t.id)
    PROVE  s = t
<1> DEFINE new == {i \in V!Located : /\ V!Key(chargers[i].site) \notin {V!Lower(x) : x \in emsSites}
                                     /\ \A j \in V!Located :
                                            V!Key(chargers[j].site) = V!Key(chargers[i].site)
                                                => i <= j}
           ems == {V!Site(x, V!Lower(x)) : x \in emsSites}
           named == {V!Site(V!Trim(chargers[i].site), V!Key(chargers[i].site)) : i \in new}
           found == ems \cup named
<1>1. \A x, k : V!Site(x, k).id = x
  BY DEF V!Site
<1>2. CASE found = {}
  <2>1. V!AvailableSites = {[id |-> V!Newcastle, count |-> 0]}
    BY <1>2 DEF V!AvailableSites
  <2> QED
    BY <2>1
<1>3. CASE found # {}
  <2>1. V!AvailableSites = found
    BY <1>3 DEF V!AvailableSites
  <2>2. ASSUME NEW u \in ems PROVE u.id \in emsSites
    BY <1>1, <2>2
  <2>3. ASSUME NEW u \in named
        PROVE  \E i \in new : u = V!Site(V!Trim(chargers[i].site), V!Key(chargers[i].site))
                              /\ V!Lower(u.id) = V!Key(chargers[i].site)
    BY <1>1, <2>3 DEF V!Key
  <2>4. CASE s \in ems /\ t \in ems
    <3>1. s.id = t.id
      BY <2>2, <2>4 DEF V!TypeOK, V!EmsAnswers
    <3> QED
      BY <3>1, SiteIs
  <2>5. ASSUME NEW u \in ems, NEW w \in named PROVE V!Lower(u.id) # V!Lower(w.id)
    BY <2>2, <2>3, <2>5
  <2>6. CASE s \in named /\ t \in named
    <3>1. PICK i \in new : s = V!Site(V!Trim(chargers[i].site), V!Key(chargers[i].site))
                           /\ V!Lower(s.id) = V!Key(chargers[i].site)
      BY <2>3, <2>6
    <3>2. PICK j \in new : t = V!Site(V!Trim(chargers[j].site), V!Key(chargers[j].site))
                           /\ V!Lower(t.id) = V!Key(chargers[j].site)
      BY <2>3, <2>6
    <3>3. i <= j /\ j <= i /\ i \in Nat /\ j \in Nat
      BY <3>1, <3>2, RowsDiffer DEF V!Located, V!TypeOK
    <3>4. i = j
      BY <3>3
    <3> QED
      BY <3>1, <3>2, <3>4
  <2> HIDE DEF ems, named
  <2> QED
    BY <2>1, <2>4, <2>5, <2>6
<1> QED
  BY <1>2, <1>3

\* The chargers loaded are finitely many, and an id is that of one of them.
LEMMA Loaded ==
    ASSUME V!TypeOK
    PROVE  /\ IsFiniteSet(V!Everything)
           /\ V!Everything \subseteq ChargerRows
           /\ \A c, d \in V!Everything : c.id = d.id => c = d
<1> DEFINE f == [i \in DOMAIN chargers |-> chargers[i]]
<1>1. /\ IsFiniteSet(DOMAIN chargers)
      /\ \A i, j \in DOMAIN chargers : chargers[i].id = chargers[j].id => i = j
  BY RowsDiffer DEF V!TypeOK
<1>2. \A i, j \in DOMAIN chargers : f[i] = f[j] => i = j
  BY <1>1
<1>3. {f[i] : i \in DOMAIN chargers} = V!Everything
  BY DEF V!Everything
<1>4. f = [i \in DOMAIN chargers |-> f[i]]
  OBVIOUS
<1> HIDE DEF f
<1>5. IsFiniteSet(V!Everything)
  BY <1>1, <1>2, <1>3, <1>4, SameNumber
<1> QED
  BY <1>1, <1>5, RowsOfAnswers DEF V!Everything, V!TypeOK

\* A site's name in lower case is that of no charger without a site.
LEMMA NamesAre ==
    /\ V!Lower(V!Absent) = V!Absent
    /\ \A x \in V!Sites : V!Lower(x) # V!Absent /\ x # V!All
<1>1. \A x : V!Lower(x) = x \/ V!Lower(x).name = x.name
  BY DEF V!Lower, V!Text
<1>2. V!Absent.name = "" /\ V!All.name = "all" /\ V!Absent.form = "plain"
  BY DEF V!Absent, V!All, V!Text
<1>3. V!Lower(V!Absent) = V!Absent
  BY <1>2 DEF V!Lower
<1>4. \A x \in V!Sites : x.name \in {"hub", "depot", "newcastle", "site-1"}
  BY DEF V!Sites, V!Hub, V!HUB, V!Depot, V!Newcastle, V!Text
<1> QED
  BY <1>1, <1>2, <1>3, <1>4

\* The number behind a site is that of the chargers shown under it.
LEMMA NumbersMatch ==
    ASSUME V!TypeOK, \A c \in V!Everything : c.site.form # "padded",
           NEW s \in V!AvailableSites
    PROVE  /\ V!Cardinality(V!DashboardChargers(s.id)) = s.count
           /\ search = "" /\ pill = "all" =>
                  V!ListedChargers(s.id) = V!DashboardChargers(s.id)
<1> DEFINE k == V!Lower(s.id)
           I == {i \in V!Located : V!Key(chargers[i].site) = k}
           f == [i \in I |-> chargers[i]]
<1>1. s.count = Cardinality(I)
  <2>1. V!Site(s.id, k).count = V!Cardinality(I)
    BY DEF V!Site
  <2> QED
    BY <2>1, SiteIs, Counts
<1>2. V!DashboardChargers(s.id) = {f[i] : i \in I}
  <2>1. s.id # V!All /\ k # V!Absent
    BY NamesAre, SiteIs
  <2>2. ASSUME NEW i \in DOMAIN chargers
        PROVE  V!Lower(chargers[i].site) = k <=> i \in I
    <3>1. V!Key(chargers[i].site) = V!Lower(chargers[i].site)
      BY DEF V!Everything, V!Key, V!Trim
    <3>2. V!Lower(chargers[i].site) = k => chargers[i].site # V!Absent
      BY <2>1, NamesAre
    <3> QED
      BY <3>1, <3>2 DEF V!Located
  <2>3. I \subseteq DOMAIN chargers
    BY DEF V!Located
  <2>4. V!DashboardChargers(s.id) = {c \in V!Everything : V!Lower(c.site) = k}
    BY <2>1 DEF V!DashboardChargers
  <2> HIDE DEF k, I
  <2> QED
    BY <2>2, <2>3, <2>4 DEF V!Everything
<1>3. IsFiniteSet(I) /\ \A i, j \in I : f[i] = f[j] => i = j
  <2>1. I \subseteq DOMAIN chargers /\ I \in SUBSET DOMAIN chargers
    BY DEF V!Located
  <2>2. /\ IsFiniteSet(DOMAIN chargers)
        /\ \A i, j \in DOMAIN chargers : chargers[i].id = chargers[j].id => i = j
    BY RowsDiffer DEF V!TypeOK
  <2> HIDE DEF I
  <2> QED
    BY <2>1, <2>2, FS_Subset
<1>4. f = [i \in I |-> f[i]]
  OBVIOUS
<1> HIDE DEF f, I
<1>5. V!Cardinality(V!DashboardChargers(s.id)) = s.count
  BY <1>1, <1>2, <1>3, <1>4, SameNumber, Counts
<1>6. search = "" /\ pill = "all" => V!ListedChargers(s.id) = V!DashboardChargers(s.id)
  BY DEF V!ListedChargers, V!DashboardChargers, V!Pill, V!Found
<1> QED
  BY <1>5, <1>6

\* What the cards of the dashboard count is what its ticker shows.
LEMMA TickerMatches ==
    ASSUME V!TypeOK
    PROVE  V!DashboardCards(site) =
               [online |-> V!Cardinality({c \in V!Ticker(site) : c.online}),
                active |-> V!Cardinality({c \in V!Ticker(site) : c.charging})]
<1> DEFINE D == V!DashboardChargers(site)
           f == [c \in D |-> [id |-> c.id, online |-> V!Online(c),
                              charging |-> c.status = "Charging"]]
<1>1. IsFiniteSet(D) /\ \A c, d \in D : c.id = d.id => c = d
  <2>1. D \in SUBSET V!Everything
    BY DEF V!DashboardChargers
  <2> QED
    BY <2>1, Loaded, FS_Subset
<1>2. V!Ticker(site) = {f[c] : c \in D}
  BY DEF V!Ticker
<1>3. \A c \in D : /\ f[c].id = c.id
                   /\ f[c].online = V!Online(c)
                   /\ f[c].charging = (c.status = "Charging")
  OBVIOUS
<1> HIDE DEF f, D
<1>4. ASSUME NEW X \in SUBSET D
      PROVE  Cardinality({f[c] : c \in X}) = Cardinality(X)
  <2> DEFINE g == [c \in X |-> f[c]]
  <2>1. IsFiniteSet(X)
    BY <1>1, FS_Subset
  <2>2. \A c, d \in X : g[c] = g[d] => c = d
    BY <1>1, <1>3
  <2>3. g = [c \in X |-> g[c]] /\ {g[c] : c \in X} = {f[c] : c \in X}
    OBVIOUS
  <2> HIDE DEF g
  <2> QED
    BY <2>1, <2>2, <2>3, SameNumber, SMTT(20)
<1>5. V!Cardinality({c \in D : V!Online(c)}) = V!Cardinality({c \in V!Ticker(site) : c.online})
  <2>1. {c \in V!Ticker(site) : c.online} = {f[c] : c \in {c \in D : V!Online(c)}}
    BY <1>2, <1>3, ZenonT(30)
  <2> QED
    BY <1>4, <2>1, Counts
<1>6. V!Cardinality({c \in D : c.status = "Charging"})
      = V!Cardinality({c \in V!Ticker(site) : c.charging})
  <2>1. {c \in V!Ticker(site) : c.charging} = {f[c] : c \in {c \in D : c.status = "Charging"}}
    BY <1>2, <1>3, ZenonT(30)
  <2> QED
    BY <1>4, <2>1, Counts
<1> QED
  BY <1>5, <1>6 DEF V!DashboardCards, D

\* The cards of the dashboard count as online what the chargers page counts as ready, and
\* what is charging.
LEMMA CardsMatch ==
    ASSUME V!TypeOK
    PROVE  V!DashboardCards(V!All).online = V!Cardinality(V!Ready) + V!DashboardCards(V!All).active
<1> DEFINE E == V!Everything
           on == {c \in E : V!Online(c)}
           active == {c \in E : c.status = "Charging"}
<1>1. V!DashboardCards(V!All) = [online |-> V!Cardinality(on), active |-> V!Cardinality(active)]
  <2>1. V!DashboardChargers(V!All) = E
    BY DEF V!DashboardChargers
  <2> QED
    BY <2>1 DEF V!DashboardCards
<1>2. on = V!Ready \cup active /\ V!Ready \cap active = {}
  BY DEF V!Online, V!Ready
<1>3. V!Ready \in SUBSET E /\ active \in SUBSET E /\ IsFiniteSet(E)
  BY Loaded DEF V!Ready
<1> HIDE DEF E, on, active
<1>4. IsFiniteSet(V!Ready) /\ IsFiniteSet(active)
  BY <1>3, FS_Subset
<1>5. Cardinality(V!Ready \cup active)
      = Cardinality(V!Ready) + Cardinality(active) - Cardinality(V!Ready \cap active)
  BY <1>4, FS_Union
<1>6. Cardinality(V!Ready) \in Nat /\ Cardinality(active) \in Nat
      /\ Cardinality(V!Ready \cap active) = 0
  BY <1>2, <1>4, FS_CardinalityType, FS_EmptySet
<1>7. Cardinality(on) = Cardinality(V!Ready) + Cardinality(active)
  BY <1>2, <1>5, <1>6
<1> QED
  BY <1>1, <1>7, Counts

\* Rounded to the penny is half a penny off at most.
LEMMA PennyIs ==
    ASSUME NEW c \in Int
    PROVE  /\ V!ToPenny(c) \in Int /\ V!ToPenny(0) = 0
           /\ V!ToPenny(c) - c <= 500 /\ c - V!ToPenny(c) <= 500
BY DEF V!ToPenny

\* A line of the file says what the row of the table says, and that is what the session
\* costs but for the rounding.
LEMMA LineIs ==
    ASSUME NEW s, s.wh \in Nat \cup {V!Null}
    PROVE  /\ V!Cost(s) \in Int /\ V!CsvCost(s) \in Int
           /\ V!CsvCost(s) = V!ToPenny(V!Cost(s))
           /\ V!CsvCost(s) - V!Cost(s) <= 500 /\ V!Cost(s) - V!CsvCost(s) <= 500
<1>1. V!Cost(s) \in Int
  BY DEF V!Cost
<1>2. V!CsvCost(s) = V!ToPenny(V!Cost(s))
  BY PennyIs DEF V!CsvCost, V!Cost, V!Null
<1> QED
  BY <1>1, <1>2, PennyIs

\* The exported file, the table and the revenue agree.
LEMMA LedgersMatch == ASSUME V!TypeOK PROVE V!LedgerMatches
<1> DEFINE L == V!ListedSessions(site)
           lines == [s \in L |-> V!CsvCost(s)]
           costs == [s \in L |-> V!Cost(s)]
<1>1. IsFiniteSet(L) /\ \A s \in L : s.wh \in Nat \cup {V!Null}
  <2>1. L \in SUBSET sessions
    BY DEF V!ListedSessions
  <2>2. IsFiniteSet(sessions) /\ \A s \in sessions : s.wh \in Nat \cup {V!Null}
    BY SessionsAre DEF V!TypeOK
  <2> QED
    BY <2>1, <2>2, FS_Subset
<1>2. ASSUME NEW s \in V!AvailableSites, NEW t \in V!AvailableSites, s # t
      PROVE  V!ListedSessions(s.id) \cap V!ListedSessions(t.id) = {}
  <2>1. s.id # V!All /\ t.id # V!All
    BY NamesAre, SiteIs
  <2>2. V!Lower(s.id) # V!Lower(t.id)
    BY <1>2, SitesDiffer
  <2> QED
    BY <2>1, <2>2 DEF V!ListedSessions
<1>3. V!CsvRows(site) = {V!TableRow(s) : s \in L}
  <2>1. \A s \in L : [id |-> s.id, cost |-> V!CsvCost(s)] = V!TableRow(s)
    BY <1>1, LineIs DEF V!TableRow
  <2> QED
    BY <2>1 DEF V!CsvRows
<1>4. V!CsvTotal(site) = V!SumFunction(lines) /\ V!TotalRevenue(site) = V!SumFunction(costs)
  BY DEF V!CsvTotal, V!TotalRevenue
<1>5. DOMAIN lines = L /\ DOMAIN costs = L
  OBVIOUS
<1>6. \A s \in L : /\ lines[s] \in Int /\ costs[s] \in Int
                   /\ lines[s] - costs[s] <= 500 /\ costs[s] - lines[s] <= 500
  BY <1>1, LineIs
<1>n. V!Cardinality(L) = Cardinality(L) /\ Cardinality(L) \in Nat
  BY <1>1, Counts, FS_CardinalityType
<1> HIDE DEF L, lines, costs
<1>7. PICK g : SumsOver(L, lines, g) /\ V!CsvTotal(site) = g[L]
  BY <1>1, <1>4, <1>5, <1>6, SumIs
<1>8. PICK k : SumsOver(L, costs, k) /\ V!TotalRevenue(site) = k[L]
  BY <1>1, <1>4, <1>5, <1>6, SumIs
<1>9. /\ g[L] \in Int /\ k[L] \in Int
      /\ g[L] - k[L] <= 500 * Cardinality(L) /\ k[L] - g[L] <= 500 * Cardinality(L)
  BY <1>1, <1>6, <1>7, <1>8, SumsNear
<1>10. LET off == V!CsvTotal(site) - V!ToPenny(V!TotalRevenue(site))
       IN  off <= 500 * V!Cardinality(L) + 500 /\ -off <= 500 * V!Cardinality(L) + 500
  <2>1. V!ToPenny(k[L]) \in Int /\ V!ToPenny(k[L]) - k[L] <= 500 /\ k[L] - V!ToPenny(k[L]) <= 500
    BY <1>9, PennyIs
  <2> QED
    BY <1>n, <1>7, <1>8, <1>9, <2>1
<1> QED
  BY <1>2, <1>3, <1>10 DEF V!LedgerMatches, L

LEMMA ViewsAgree == V!TypeOK => V!SiteViewsAgree
<1> SUFFICES ASSUME V!TypeOK PROVE V!SiteViewsAgree
  OBVIOUS
<1>1. V!CountsMatch
  BY SitesDiffer, NumbersMatch DEF V!CountsMatch
<1>2. \A s : V!Details(s) = V!TableRow(s)
  BY DEF V!Details, V!TableRow, V!Cost
<1> QED
  BY <1>1, <1>2, LedgersMatch, TickerMatches, CardsMatch DEF V!SiteViewsAgree

\* Whatever has been loaded, selected, searched and filtered, in whatever order the answers
\* came: the sites offered and the dashboard, the chargers page and the sessions page count
\* the same chargers, each line of the exported file says what the table says, and what the
\* lines add up to is off the revenue by the rounding at most, half a penny a line and
\* half a penny more, whatever the sessions consumed (SiteContext and the three pages).
THEOREM SitesAgree == FrontSpec => []SiteViewsAgree
<1> DEFINE Inv == scene = "sites" => V!TypeOK
<1>1. FrontInit => Inv
  BY InitSites DEF FrontInit
<1>2. Inv /\ [FrontNext]_frontVars => Inv'
  BY OneScene, StepSites
<1>3. Inv => SiteViewsAgree
  BY ViewsAgree DEF SiteViewsAgree
<1> QED
  BY <1>1, <1>2, <1>3, PTL DEF FrontSpec

-----------------------------------------------------------------------------
(* All scenes together *)

\* The registration's lemmas, for the variables it has here.
LEMMA RegistrationTyped ==
    /\ R!Init => RP!RegTyped
    /\ RP!RegInv /\ RP!RegTyped /\ [R!Next]_regVars => RP!RegTyped'
    /\ RP!RegInv /\ RP!RegTyped => R!TypeOK
<1>1. R!Init => RP!Init
  BY DEF R!Init, RP!Init, R!NoPending, RP!NoPending, R!NoCall, RP!NoCall
<1>2. [R!Next]_regVars => [RP!Next]_(RP!regVars)
  BY SameRegistration
<1>3. RP!TypeOK => R!TypeOK
  BY DEF RP!TypeOK, R!TypeOK
<1> QED
  BY <1>1, <1>2, <1>3, RegistrationBounds, RP!InitTyped, RP!StepTyped, RP!TypesOf DEF RP!Bounds

\* What is invariant of the scene that is played, with the types of its variables.
TypedScene ==
    /\ scene \in Scenes
    /\ scene = "page" => PageInv
    /\ scene = "forms" => DraftInv /\ FormTyped
    /\ scene = "settings" => SettingsInv /\ SettingTyped
    /\ CacheInv
    /\ scene = "session" => SP!SessionInv
    /\ scene = "registration" => RP!RegInv /\ RP!RegTyped
    /\ scene = "charts" => ChartInv /\ ClockTyped
    /\ scene = "sites" => V!TypeOK
    /\ scene = "map" => MapTyped /\ SearchTyped
    /\ scene = "scan" => TabsTyped /\ StreamsTyped

\* Whatever the tabs, requests, codes, buffers and entries, and whatever the tables of the
\* pages, forms and settings say as far as they are assumed to: in every scene of the
\* front ends the variables keep their types.  Part of it are the limits that are counted
\* in several places: the attempts at a code, the requests and the streams of the home
\* page, the points of a chart.
THEOREM FrontTypesCorrect == FrontSpec => []FrontTypeOK
<1>1. FrontInit => TypedScene
  BY PageInit, InitDraft, InitForm, InitSettings, InitSetting, InitCache, SessionInit,
     RegistrationInit, RegistrationTyped, InitChart, InitClock, InitSites, InitHome, InitScan
     DEF FrontInit, TypedScene
<1>2. TypedScene /\ [FrontNext]_frontVars => TypedScene'
  BY OneScene, PageStep, StepDraft, StepForm, StepSettings, StepSetting, CacheAlways,
     SessionStep, RegistrationStep, RegistrationTyped, StepChart, StepClock, StepSites, StepMap,
     StepSearch, StepTabs, StepStreams
     DEF TypedScene
<1>3. TypedScene => FrontTypeOK
  <2>1. PageInv => TypeOK
    BY DEF PageInv
  <2>2. FormTyped => F!TypeOK
    BY DEF FormTyped
  <2>3. SettingTyped => G!TypeOK
    BY DEF SettingTyped
  <2>5. CacheInv => K!TypeOK
    BY DEF CacheInv
  <2>4. SP!SessionInv => S!TypeOK
    BY DEF SP!SessionInv, SP!TypeOK, S!TypeOK, SP!Steps, S!Steps, SP!Tokens, S!Tokens
  <2> QED
    BY <2>1, <2>2, <2>3, <2>4, <2>5, RegistrationTyped, ChartTypes, MapTypes, ScanTypes
       DEF TypedScene, FrontTypeOK, Scenes
<1> QED
  BY <1>1, <1>2, <1>3, PTL DEF FrontSpec
================================================================================
