----------------------------- MODULE DriverScan -----------------------------
(***************************************************************************)
(* The scan tab of the driver app's home page (home.js), and what the page *)
(* does about a session that runs: it asks for it once, when it is opened. *)
(***************************************************************************)
EXTENDS Naturals, FiniteSets

CONSTANT MaxStreams     \* how often the camera is granted in a behaviour

VARIABLES
    tab,            \* "map", "scan", or "left" when another page is opened
    scannerActive,
    asked,          \* how many questions for the camera are open
    granted,        \* how many streams have been granted
    live,           \* the streams that are on
    videoStream,    \* the one the page knows, 0 if none
    timers,         \* the streams with a running interval
    scanInterval,   \* the interval the page knows, 0 if none
    detecting,      \* a picture is being searched for a code
    leftWaiting,    \* the tab was left while a question was open
    remembered,     \* active_session_id is in localStorage
    polling         \* the page asks for that session

scanVars == <<tab, scannerActive, asked, granted, live, videoStream, timers, scanInterval,
              detecting, leftWaiting, remembered, polling>>

Streams == 1..MaxStreams

TypeOK ==
    /\ tab \in {"map", "scan", "left"}
    /\ scannerActive \in BOOLEAN /\ detecting \in BOOLEAN /\ leftWaiting \in BOOLEAN
    /\ remembered \in BOOLEAN /\ polling \in BOOLEAN
    /\ asked \in 0..MaxStreams /\ granted \in 0..MaxStreams /\ asked + granted <= MaxStreams
    /\ live \subseteq Streams /\ timers \subseteq Streams
    /\ videoStream \in {0} \cup Streams /\ scanInterval \in {0} \cup Streams

Init ==
    /\ tab = "map"
    /\ scannerActive = FALSE /\ asked = 0 /\ granted = 0
    /\ live = {} /\ videoStream = 0 /\ timers = {} /\ scanInterval = 0
    /\ detecting = FALSE /\ leftWaiting = FALSE
    /\ remembered \in BOOLEAN
    /\ polling = remembered

-----------------------------------------------------------------------------
(* The tabs: checkHashTab *)

\* startScanner returns at once if a stream is on; a question that is still open does
\* not count.
OpenScan ==
    /\ tab = "map" /\ asked + granted < MaxStreams
    /\ tab' = "scan"
    /\ asked' = IF scannerActive THEN asked ELSE asked + 1
    /\ UNCHANGED <<scannerActive, granted, live, videoStream, timers, scanInterval, detecting,
                   leftWaiting, remembered, polling>>

\* The operators named Wrong... are what a slip in the definition that follows
\* would make of it; the specification does not use them.

\* The tracks go on while no code was found.
WrongStopScanner ==
    /\ scannerActive' = FALSE
    /\ timers' = timers \ {scanInterval}
    /\ scanInterval' = 0
    /\ live' = IF scannerActive /\ scanInterval # 0 THEN live ELSE live \ {videoStream}
    /\ videoStream' = 0

StopScanner ==
    /\ scannerActive' = FALSE
    /\ timers' = timers \ {scanInterval}
    /\ scanInterval' = 0
    /\ live' = live \ {videoStream}
    /\ videoStream' = 0

OpenMap ==
    /\ tab = "scan"
    /\ tab' = "map"
    /\ StopScanner
    /\ leftWaiting' = (leftWaiting \/ asked > 0)
    /\ UNCHANGED <<asked, granted, detecting, remembered, polling>>

-----------------------------------------------------------------------------
(* The camera *)

\* The driver allows it, wherever the page is by now.  A browser without a
\* BarcodeDetector runs no interval.
Grant ==
    /\ asked > 0 /\ tab # "left"
    /\ asked' = asked - 1
    /\ granted' = granted + 1
    /\ live' = live \cup {granted'}
    /\ videoStream' = granted'
    /\ scannerActive' = TRUE
    /\ \/ timers' = timers \cup {granted'} /\ scanInterval' = granted'
       \/ UNCHANGED <<timers, scanInterval>>
    /\ UNCHANGED <<tab, detecting, leftWaiting, remembered, polling>>

Deny ==
    /\ asked > 0 /\ tab # "left"
    /\ asked' = asked - 1
    /\ UNCHANGED <<tab, scannerActive, granted, live, videoStream, timers, scanInterval,
                   detecting, leftWaiting, remembered, polling>>

\* detectQR
Detect ==
    /\ timers # {} /\ scannerActive /\ ~detecting
    /\ detecting' = TRUE
    /\ UNCHANGED <<tab, scannerActive, asked, granted, live, videoStream, timers, scanInterval,
                   leftWaiting, remembered, polling>>

NothingFound ==
    /\ detecting
    /\ detecting' = FALSE
    /\ UNCHANGED <<tab, scannerActive, asked, granted, live, videoStream, timers, scanInterval,
                   leftWaiting, remembered, polling>>

\* navigateToCode and the session's page: the browser ends all that the page does.
Leave ==
    /\ tab' = "left"
    /\ scannerActive' = FALSE /\ asked' = 0
    /\ live' = {} /\ videoStream' = 0 /\ timers' = {} /\ scanInterval' = 0
    /\ detecting' = FALSE /\ polling' = FALSE
    /\ UNCHANGED <<granted, leftWaiting>>

\* A code counts also when the tab has been left meanwhile.
CodeFound == detecting /\ Leave /\ UNCHANGED remembered

SubmitManualCode == tab = "scan" /\ Leave /\ UNCHANGED remembered

-----------------------------------------------------------------------------
(* The session that runs *)

\* The answer, or its failure.  The page looks for a mollie_status, which the API's
\* answer does not have (the app's other pages read payment_status): whatever the
\* session does, its id is forgotten and the driver stays where he is.
PollAnswered ==
    /\ polling
    /\ polling' = FALSE
    /\ remembered' = FALSE
    /\ UNCHANGED <<tab, scannerActive, asked, granted, live, videoStream, timers, scanInterval,
                   detecting, leftWaiting>>

Next ==
    \/ OpenScan \/ OpenMap \/ Grant \/ Deny
    \/ Detect \/ NothingFound \/ CodeFound \/ SubmitManualCode
    \/ PollAnswered

Spec == Init /\ [][Next]_scanVars

-----------------------------------------------------------------------------
(* Properties *)

\* On the map tab no camera is on and no interval runs, however often the driver went
\* to and fro, unless he once left the scan tab before he answered the question for the
\* camera (stopScanner).
CameraOff == tab = "map" /\ ~leftWaiting => live = {} /\ timers = {} /\ ~scannerActive
==============================================================================
