---------------------------- MODULE EventDelivery ----------------------------
(***************************************************************************)
(* The event bus (events/bus.py) as the Lago billing consumer uses it      *)
(* (events/consumers/lago_billing.py): a Redis stream, one consumer group, *)
(* one consumer, and Lago at the far end.                                  *)
(*                                                                         *)
(* An entry of the stream is identified by its position; the group's state *)
(* in Redis (last-delivered id, pending entries) survives the process, the *)
(* batch the consumer holds in memory does not.                            *)
(***************************************************************************)
EXTENDS Naturals, Sequences

CONSTANTS
    MaxStream,  \* EVENTS_MAX_STREAM_LENGTH, the MAXLEN of every XADD
    BatchSize,  \* batch_size of consume
    MaxEvents,  \* bound on the entries published
    MaxFaults   \* bound on crashes, lost replies and failed calls

ASSUME SizesAssumption ==
    /\ MaxStream \in Nat \ {0} /\ BatchSize \in Nat \ {0}
    /\ MaxEvents \in Nat /\ MaxFaults \in Nat

VARIABLES
    log,        \* every entry ever published, in order
    first,      \* the oldest entry the stream still holds
    last,       \* the group's last-delivered entry
    pending,    \* the group's delivered and unacknowledged entries
    pc,         \* the consumer's next step, "dead" once its task has ended
    at,         \* the entry it handles; at+1..last are in its memory
    posts,      \* the entries posted to Lago, in order
    lago,       \* the entries Lago accepted
    boots,      \* how often the process was started again
    faults      \* crashes, lost replies and failed calls so far

streamVars == <<log, first>>
groupVars == <<last, pending>>
lagoVars == <<posts, lago>>
vars == <<log, first, last, pending, pc, at, posts, lago, boots, faults>>

(* "cdr": a session.cdr that is to be billed; "unbillable": one whose charge *)
(* point has no subscription; "skip": any other event, a simulated CDR or a  *)
(* CDR without energy; "broken": an entry Event.from_stream rejects.         *)
Kinds == {"cdr", "unbillable", "skip", "broken"}
Steps == {"group", "read", "take", "resolve", "post", "ack", "dead"}

Posted == {posts[i] : i \in 1..Len(posts)}

TypeOK ==
    /\ log \in Seq(Kinds)
    /\ first \in Nat \ {0}
    /\ last \in 0..Len(log)
    /\ pending \subseteq 1..last
    /\ pc \in Steps
    /\ at \in 0..last
    /\ posts \in Seq(1..last)
    /\ lago \subseteq 1..last
    /\ boots \in Nat
    /\ faults \in Nat

Init ==
    /\ log = <<>> /\ first = 1
    /\ last = 0 /\ pending = {}
    /\ pc = "group" /\ at = 0
    /\ posts = <<>> /\ lago = {}
    /\ boots = 0
    /\ faults = 0

Fault == faults < MaxFaults /\ faults' = faults + 1

-----------------------------------------------------------------------------
(* The producers *)

\* XADD with approximate trimming: never below MaxStream entries, not always
\* down to it.
Publish(kind) ==
    /\ Len(log) < MaxEvents
    /\ log' = Append(log, kind)
    /\ first' \in {first} \cup {f \in first..Len(log') : Len(log') - f + 1 >= MaxStream}
    /\ UNCHANGED <<groupVars, pc, at, lagoVars, boots, faults>>

-----------------------------------------------------------------------------
(* The consumer *)

\* ensure_group creates the group, or finds it there: it reads from the oldest entry.
JoinGroup ==
    /\ pc = "group"
    /\ pc' = "read"
    /\ UNCHANGED <<streamVars, groupVars, at, lagoVars, boots, faults>>

\* Redis does not answer when the consumer starts, which ends its task.
GroupRaises ==
    /\ pc = "group"
    /\ Fault
    /\ pc' = "dead"
    /\ UNCHANGED <<streamVars, groupVars, at, lagoVars, boots>>

\* ">" asks for what was never delivered to this group; what was trimmed unread
\* is skipped.
Unread == IF last + 1 >= first THEN last + 1 ELSE first

\* The operators named Wrong... are what a slip in the definition that follows
\* would make of it; the specification does not use them.

\* A full batch, whether or not the stream holds one.
WrongBatchEnd == Unread + BatchSize - 1

BatchEnd == IF Len(log) <= Unread + BatchSize - 1 THEN Len(log) ELSE Unread + BatchSize - 1

\* XREADGROUP delivers a batch to the group: recorded in Redis at once.
Deliver ==
    /\ pc = "read"
    /\ Unread <= Len(log)
    /\ last' = BatchEnd
    /\ pending' = pending \cup (Unread..BatchEnd)

\* Reads the stream from its start instead of from the last-delivered entry.
WrongRead ==
    /\ pc = "read"
    /\ first <= Len(log)
    /\ last' = Len(log)
    /\ pending' = pending \cup (first..Len(log))
    /\ at' = first - 1
    /\ pc' = "take"
    /\ UNCHANGED <<streamVars, lagoVars, boots, faults>>

Read ==
    /\ Deliver
    /\ at' = Unread - 1
    /\ pc' = "take"
    /\ UNCHANGED <<streamVars, lagoVars, boots, faults>>

\* The reply is lost: "Consumer error", a pause, and the next read goes on after
\* the batch nobody saw.
ReadLost ==
    /\ Deliver
    /\ Fault
    /\ at' = last'
    /\ UNCHANGED <<streamVars, pc, lagoVars, boots>>

\* The event type is parsed outside the try block.
WrongTakeUnguarded ==
    /\ pc = "take" /\ at < last
    /\ at' = at + 1
    /\ pc' = CASE log[at'] \in {"cdr", "unbillable"} -> "resolve"
               [] log[at'] = "skip" -> "ack"
               [] log[at'] = "broken" -> "dead"
    /\ UNCHANGED <<streamVars, groupVars, lagoVars, boots, faults>>

\* Acknowledges before it yields.
WrongTakeAcks ==
    /\ pc = "take" /\ at < last
    /\ at' = at + 1
    /\ pc' = IF log[at'] \in {"cdr", "unbillable"} THEN "resolve" ELSE "take"
    /\ pending' = pending \ {at'}
    /\ UNCHANGED <<streamVars, last, lagoVars, boots, faults>>

\* The next entry of the batch.  A broken one is logged and stays pending.
Take ==
    /\ pc = "take" /\ at < last
    /\ at' = at + 1
    /\ pc' = CASE log[at'] \in {"cdr", "unbillable"} -> "resolve"
               [] log[at'] = "skip" -> "ack"
               [] log[at'] = "broken" -> "take"
    /\ UNCHANGED <<streamVars, groupVars, lagoVars, boots, faults>>

BatchDone ==
    /\ pc = "take" /\ at = last
    /\ pc' = "read"
    /\ UNCHANGED <<streamVars, groupVars, at, lagoVars, boots, faults>>

\* Posts without asking whether there is a subscription.
WrongResolve ==
    /\ pc = "resolve"
    /\ pc' = "post"
    /\ UNCHANGED <<streamVars, groupVars, at, lagoVars, boots, faults>>

\* _resolve_subscription; without one the event is not billed.
Resolve ==
    /\ pc = "resolve"
    /\ pc' = IF log[at] = "cdr" THEN "post" ELSE "ack"
    /\ UNCHANGED <<streamVars, groupVars, at, lagoVars, boots, faults>>

\* The query raises in the body of the async for, which ends run(): the
\* exception never reaches the generator, and main.py's gather swallows it.
ResolveRaises ==
    /\ pc = "resolve"
    /\ Fault
    /\ pc' = "dead"
    /\ UNCHANGED <<streamVars, groupVars, at, lagoVars, boots>>

\* The timestamp it parses before is one that Event itself has written.
Post ==
    /\ pc = "post"
    /\ posts' = Append(posts, at)
    /\ lago' = lago \cup {at}
    /\ pc' = "ack"
    /\ UNCHANGED <<streamVars, groupVars, at, boots, faults>>

\* An error status or a timeout, before or after Lago took the event: only a
\* warning is logged and the loop body ends like any other.
PostFails ==
    /\ pc = "post"
    /\ Fault
    /\ posts' = Append(posts, at)
    /\ lago' \in {lago, lago \cup {at}}
    /\ pc' = "ack"
    /\ UNCHANGED <<streamVars, groupVars, at, boots>>

\* The body has ended, or the filter rejected the event: XACK.
Ack ==
    /\ pc = "ack"
    /\ pending' = pending \ {at}
    /\ pc' = "take"
    /\ UNCHANGED <<streamVars, last, at, lagoVars, boots, faults>>

\* XACK raises, executed or not; the loop goes on with the next entry.
AckFails ==
    /\ pc = "ack"
    /\ Fault
    /\ pending' \in {pending, pending \ {at}}
    /\ pc' = "take"
    /\ UNCHANGED <<streamVars, last, at, lagoVars, boots>>

\* The process dies or is redeployed; main.py starts a new consumer, which
\* never asks for the entries pending from before.
Restart ==
    /\ Fault
    /\ boots' = boots + 1
    /\ pc' = "group"
    /\ at' = last
    /\ UNCHANGED <<streamVars, groupVars, lagoVars>>

Consume == JoinGroup \/ Read \/ Take \/ BatchDone \/ Resolve \/ Post \/ Ack

Next ==
    \/ \E kind \in Kinds : Publish(kind)
    \/ Consume
    \/ GroupRaises \/ ReadLost \/ ResolveRaises \/ PostFails \/ AckFails
    \/ Restart

Spec == Init /\ [][Next]_vars

\* The event loop keeps running the consumer's task.  Faults are bounded, so in
\* the end Redis, the database and Lago answer.
FairSpec == Spec /\ WF_vars(Consume)

-----------------------------------------------------------------------------
(* Properties *)

\* What the bus really gives a group is at-most-once delivery in stream order:
\* whatever fails, no CDR is posted twice and none overtakes another, so billing
\* does not rest on Lago deduplicating.
PostedOnceInOrder ==
    \A i, j \in 1..Len(posts) : i < j => posts[i] < posts[j]

\* No billable CDR disappears without a trace: once delivered it was posted, or
\* it is still pending in the group for an operator to claim, or the stream was
\* trimmed past it.  In particular no XACK precedes the billing it acknowledges.
NoneVanishes ==
    \A i \in 1..last : log[i] = "cdr" => i \in Posted \/ i \in pending \/ i < first

\* Unless something fails or the stream is trimmed past it, every billable CDR is
\* accepted by Lago: broken and foreign entries around it do not hold it up.
CdrBilledUnlessFault ==
    \A i \in 1..MaxEvents :
        (i <= Len(log) /\ log[i] = "cdr") ~> (i \in lago \/ i < first \/ faults > 0)

\* docs/events.md on at-least-once delivery: "if a consumer crashes mid-processing,
\* the unacknowledged message stays pending and is redelivered on restart".
PendingRedelivered ==
    \A i \in 1..MaxEvents :
        (boots > 0 /\ i \in pending /\ log[i] = "cdr") ~> i \in Posted

\* lago_billing.py on a failed call: "Don't ack", so that the billing is "retried
\* via Redis XPENDING".  No CDR leaves the pending entries before Lago has it.
UnbilledStaysPending ==
    [][\A i \in pending \ pending' : log[i] = "cdr" => i \in lago]_pending

-----------------------------------------------------------------------------
(* The inductive invariant behind them *)

\* What is in memory, and what is being handled, is pending.
InMemoryPending ==
    /\ pc \in {"take", "resolve", "post", "ack"} => (at + 1)..last \subseteq pending
    /\ pc \in {"resolve", "post", "ack"} => at \in 1..last /\ at \in pending

\* Only entries up to the one being handled were posted, itself only once its
\* step is over.
PostsBehind ==
    /\ \A i \in 1..Len(posts) : posts[i] <= at
    /\ pc \in {"resolve", "post"} => at \notin Posted
    /\ pc = "ack" /\ log[at] = "cdr" => at \in Posted
    /\ pc = "post" => log[at] = "cdr"

DeliveryInv == InMemoryPending /\ PostsBehind /\ PostedOnceInOrder /\ NoneVanishes

-----------------------------------------------------------------------------
(* Refinement *)

\* How far an event has come, told from the stream, the group and the posts.
Fate(i) ==
    IF log[i] # "cdr" THEN "other"
    ELSE IF i \in Posted THEN IF i \in pending THEN "posted" ELSE "settled"
    ELSE IF i \in pending THEN "open"
    ELSE IF i > last /\ i >= first THEN "stored" ELSE "trimmed"

Fates == [i \in 1..Len(log) |-> Fate(i)]

Course == INSTANCE CdrCourse WITH fate <- Fates, billed <- lago

\* Batches, lost replies, failing calls and restarts give a CDR no other course than
\* CdrCourse allows (events/bus.py, events/consumers/lago_billing.py).
CourseSpec == Course!Spec
==============================================================================
