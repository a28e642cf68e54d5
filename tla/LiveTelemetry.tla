---------------------------- MODULE LiveTelemetry ----------------------------
(***************************************************************************)
(* The live charts of the admin console: the load of the network on the    *)
(* dashboard ("load"), a site's energy balance ("balance") and the phases  *)
(* of a charger ("scope").  Each keeps its last points in a ring buffer    *)
(* (telemetry-processor.ts) to which a ticker appends what the page shows  *)
(* at that moment; the scope also starts anew from the stored readings     *)
(* when they are loaded.                                                   *)
(***************************************************************************)
EXTENDS Integers, Sequences, FiniteSets, SequencesExt

CONSTANTS
    Capacity,       \* the points a buffer holds: 60, 30 for the scope
    MaxClock,       \* how many ticks a behaviour lasts
    MaxPushes       \* how many points are pushed after mounting

VARIABLES
    view,       \* the mounted chart, "none" before the first
    ring,       \* its buffer
    points,     \* what it draws
    clock,      \* the ticks of two seconds passed, from Capacity on
    power,      \* the power the page shows
    online,     \* the charger of the scope is online
    readings,   \* the readings the scope has loaded, the newest first
    pushed      \* every point pushed since the buffer was empty last

liveVars == <<view, ring, points, clock, power, online, readings, pushed>>

Views == {"load", "balance", "scope"}
Powers == {0, 40, 300}

\* What is exported counts as zero.
Export == -40
Imported(kw) == IF kw > 0 THEN kw ELSE 0

\* A reading may lack the voltage.
Unknown == -1
Point(time, kw, volts, amps) == [time |-> time, kw |-> kw, volts |-> volts, amps |-> amps]
Readings == [time : Int, kw : Powers, volts : {0, 230, Unknown}]

-----------------------------------------------------------------------------
(* TelemetryRingBuffer *)

NoPoint == Point(-Capacity, 0, 0, 0)
Empty == [buffer |-> [i \in 0..Capacity - 1 |-> NoPoint], pointer |-> 0, isFull |-> FALSE]

\* The operators named Wrong... are what a slip in the definition that follows
\* would make of it; the specification does not use them.

\* The buffer counts as full one point early.
WrongPush(r, item) ==
    LET next == (r.pointer + 1) % Capacity IN
    [buffer  |-> [r.buffer EXCEPT ![r.pointer] = item],
     pointer |-> next,
     isFull  |-> r.isFull \/ next = Capacity - 1]

\* The pointer does not wrap.
WrongPushOn(r, item) ==
    [buffer  |-> [r.buffer EXCEPT ![r.pointer] = item],
     pointer |-> r.pointer + 1,
     isFull  |-> r.isFull \/ r.pointer + 1 = Capacity]

Push(r, item) ==
    LET next == (r.pointer + 1) % Capacity IN
    [buffer  |-> [r.buffer EXCEPT ![r.pointer] = item],
     pointer |-> next,
     isFull  |-> r.isFull \/ next = 0]

Slice(r, from, to) == [i \in 1..to - from |-> r.buffer[from + i - 1]]

ToArray(r) ==
    IF r.isFull
    THEN Slice(r, r.pointer, Capacity) \o Slice(r, 0, r.pointer)
    ELSE Slice(r, 0, r.pointer)

PushAll(r, items) ==
    LET after[n \in 0..Len(items)] == IF n = 0 THEN r ELSE Push(after[n - 1], items[n])
    IN  after[Len(items)]

-----------------------------------------------------------------------------
(* What the scope makes of the charger and of its newest reading *)

\* The stored power counts, however old it is; /chargers/{id} has no power.
\* status is "online" or "offline" for a charge point, never "Charging".
CurrentPower == IF readings = <<>> THEN 0 ELSE readings[1].kw
IsCharging == CurrentPower > 0
IsOnline == online \/ IsCharging
BaseVoltage ==
    IF readings # <<>> /\ readings[1].volts # Unknown THEN readings[1].volts
    ELSE IF IsOnline THEN 230 ELSE 0

\* A charger that reports no voltage reports no current either: the scope computes it
\* for a live point, and takes it for zero in a stored one.
Amps(kw, volts) == (kw * 1000) \div (3 * (IF volts = 0 THEN 230 ELSE volts))
BaseCurrent ==
    IF readings # <<>> /\ readings[1].volts # Unknown THEN Amps(readings[1].kw, 230)
    ELSE Amps(CurrentPower, BaseVoltage)

\* What the ticker appends.
LivePoint(time) ==
    IF view = "scope"
    THEN Point(time, CurrentPower, IF IsOnline THEN BaseVoltage ELSE 0,
               IF IsCharging THEN BaseCurrent ELSE 0)
    ELSE Point(time, Imported(power), 0, 0)

\* What a chart starts with: zeroes up to now.
ZeroState(v, now) ==
    [i \in 1..Capacity |->
        Point(now - Capacity + i, 0, IF v = "scope" /\ online THEN 230 ELSE 0, 0)]

\* A stored reading; a voltage of zero is taken for an unknown one.
StoredPoint(r) ==
    Point(r.time, r.kw, IF r.volts \in {0, Unknown} THEN 230 ELSE r.volts,
          IF r.volts = Unknown THEN 0 ELSE Amps(r.kw, 230))

-----------------------------------------------------------------------------

TypeOK ==
    /\ view \in Views \cup {"none"}
    /\ ring.pointer \in 0..Capacity - 1 /\ ring.isFull \in BOOLEAN
    /\ clock \in Capacity..Capacity + MaxClock
    /\ power \in Powers \cup {Export} /\ online \in BOOLEAN
    /\ \A i \in DOMAIN readings : readings[i] \in Readings
    /\ Len(points) <= Capacity

Init ==
    /\ view = "none"
    /\ ring = Empty
    /\ points = <<>>
    /\ clock = Capacity
    /\ power = 0
    /\ online \in BOOLEAN
    /\ readings = <<>>
    /\ pushed = <<>>

Mount(v) ==
    /\ view = "none"
    /\ view' = v
    /\ points' = ZeroState(v, clock)
    /\ ring' = PushAll(Empty, points')
    /\ pushed' = points'
    /\ UNCHANGED <<clock, power, online, readings>>

CanPush == Len(pushed) < Capacity + MaxPushes

Take(point) ==
    /\ ring' = Push(ring, point)
    /\ points' = ToArray(ring')
    /\ pushed' = Append(pushed, point)

Tick ==
    /\ view # "none" /\ clock < Capacity + MaxClock /\ CanPush
    /\ clock' = clock + 1
    /\ Take(LivePoint(clock'))
    /\ UNCHANGED <<view, power, online, readings>>

\* Time passes without a point: new values restart the ticker.
Restarted ==
    /\ view # "none" /\ clock < Capacity + MaxClock
    /\ clock' = clock + 1
    /\ UNCHANGED <<view, ring, points, power, online, readings, pushed>>

\* The page shows another load: the load chart appends it at once.
LoadChanges(kw) ==
    /\ view = "load" /\ kw # power /\ CanPush
    /\ power' = kw
    /\ Take(Point(clock, kw, 0, 0))
    /\ UNCHANGED <<view, clock, online, readings>>

\* The balance takes the change with the next tick.
BalanceChanges(kw) ==
    /\ view = "balance" /\ kw # power
    /\ power' = kw
    /\ UNCHANGED <<view, ring, points, clock, online, readings, pushed>>

\* The charger's readings are loaded, at most as many as the buffer holds: the history
\* starts from them, the oldest first.  Their times are the charger's.
Hydrate(new) ==
    /\ view = "scope" /\ new # readings
    /\ readings' = new
    /\ IF new = <<>>
       THEN UNCHANGED <<ring, points, pushed>>
       ELSE /\ pushed' = [i \in 1..Len(new) |-> StoredPoint(Reverse(new)[i])]
            /\ ring' = PushAll(Empty, pushed')
            /\ points' = ToArray(ring')
    /\ UNCHANGED <<view, clock, power, online>>

\* The state of the charger is loaded.
StatusChanges ==
    /\ view = "scope"
    /\ online' = ~online
    /\ UNCHANGED <<view, ring, points, clock, power, readings, pushed>>

\* The answers in which a charger has readings: its newest, possibly with an older one,
\* or as many as the buffer holds.
Answers ==
    LET Aged(r, i) == [time |-> r.time - (i - 1), kw |-> IF i = 1 THEN r.kw ELSE 40, volts |-> r.volts]
        Older(r, n) == [i \in 1..n |-> Aged(r, i)]
        Newest == [time : {clock - 1, clock + 2}, kw : {0, 40}, volts : {0, 230, Unknown}]
    IN  {<<>>} \cup {Older(r, n) : r \in Newest, n \in {1, Capacity}}

Next ==
    \/ \E v \in Views : Mount(v)
    \/ Tick \/ Restarted \/ StatusChanges
    \/ \E kw \in Powers : LoadChanges(kw)
    \/ \E kw \in Powers \cup {Export} : BalanceChanges(kw)
    \/ \E new \in Answers : Hydrate(new)

Spec == Init /\ [][Next]_liveVars

-----------------------------------------------------------------------------
(* The charts *)

Highest(S) == CHOOSE x \in S : \A y \in S : y <= x
Drawn == {0} \cup {IF view = "scope" THEN points[i].amps ELSE points[i].kw : i \in DOMAIN points}
GridLimit == 250

\* Only the limit counts.
WrongLoadAxis == Highest({50, ((GridLimit * 115 + 999) \div 1000) * 10})

\* The axes round up, the load chart's in tens, with a margin of 15 or 20 per cent; the
\* scope's is that of its currents.
LoadAxis == Highest({50, ((Highest(Drawn \cup {GridLimit}) * 115 + 999) \div 1000) * 10})
BalanceAxis == Highest({30, (Highest(Drawn \cup {10}) * 12 + 9) \div 10})
ScopeAxis == Highest({32, (Highest(Drawn \cup {10}) * 12 + 9) \div 10})

Axis ==
    CASE view = "load" -> LoadAxis [] view = "balance" -> BalanceAxis [] OTHER -> ScopeAxis

-----------------------------------------------------------------------------
(* Properties *)

\* A chart draws the last points that were pushed since it was last emptied, as many as
\* it holds and in the order they came, whatever the wrap of the buffer, reloading and
\* restarted tickers do (TelemetryRingBuffer); and apart from the scope, whose stored
\* points bear the charger's time, no point is older than the one before it.
ChartShowsWindow ==
    LET n == Len(pushed)
        kept == IF n < Capacity THEN n ELSE Capacity
    IN  /\ points = SubSeq(pushed, n - kept + 1, n)
        /\ view # "scope" =>
               \A i \in 1..Len(points) - 1 : points[i].time <= points[i + 1].time

\* Besides, no point is drawn above the axis it is drawn against.
ChartsFaithful ==
    /\ ChartShowsWindow
    /\ view # "none" => \A y \in Drawn : y <= Axis
==============================================================================
