--------------------------- MODULE RemoteStart_proof ---------------------------
(***************************************************************************)
(* Proofs about RemoteStart, for any number of sessions, requests and      *)
(* tasks: type correctness, that only sessions that were paid are charged, *)
(* that a started session is left alone, that a start is sent once and is  *)
(* not retried for ever, how it leaves the queue, and that RemoteStart     *)
(* implements PaidStart.                                                   *)
(***************************************************************************)
EXTENDS RemoteStart, FiniteSetTheorems, TLAPS

-----------------------------------------------------------------------------
(* The inductive invariant *)

\* A start is only tried again while it has a retry left, so the count that is
\* written back is in range.
RetryLeft(t) ==
    pc[t] \in {"pending_send", "delete", "requeue"} => ctx[t].retries < MaxRetries

\* A request that is about to write a row knows which one, and a webhook does not
\* report a failed start.
RowKnown(t) ==
    /\ pc[t] \in {"hook_write", "cancel_write"} => ctx[t].p \in Publics
    /\ pc[t] = "hook_write" => ctx[t].status # "remote_start_failed"

\* What a task is about to send, to queue or to look at belongs to a session that
\* was paid.
WorkWasPaid(t) ==
    /\ ctx[t].todo \subseteq paid
    /\ pc[t] \in {"send", "hook_send", "hook_queue", "pending_send", "delete", "requeue",
                  "give_up", "fail_row"}
         => ctx[t].p \in paid

TaskInv(t) == RetryLeft(t) /\ RowKnown(t) /\ WorkWasPaid(t)

StartInv == (\A t \in Tasks : TaskInv(t)) /\ ChargedWasPaid

USE DEF MaxRetries

\* A counter that stops at MaxCount stays in its range.
LEMMA CappedType == \A n \in 0..MaxCount : Capped(n) \in 0..MaxCount
BY BoundsAssumption DEF Capped

\* The shapes of a task's local variables.
LEMMA LocalsType ==
    /\ NoLocals \in Locals
    /\ \A p \in Publics \cup {Free}, r \in 0..MaxRetries, todo \in SUBSET Publics :
        ProcLocals(p, r, todo) \in Locals
    /\ \A p \in Publics \cup {Free}, status, prev \in Statuses :
        RequestLocals(p, status, prev) \in Locals
BY DEF Locals, NoLocals, ProcLocals, RequestLocals, Statuses

\* A task that has only keys to look at.
LEMMA ScanLocals == \A todo \in SUBSET Publics : ProcLocals(Free, 0, todo) \in Locals
BY LocalsType

\* The contents of a key.
Keys == {{}} \cup {{r} : r \in 0..MaxRetries}

LEMMA KeysType ==
    /\ {} \in Keys
    /\ \A r \in 0..MaxRetries : {r} \in Keys
    /\ \A key \in Keys : \A r \in key : r \in 0..MaxRetries
BY DEF Keys

\* A key that is written or deleted.
LEMMA QueueType ==
    ASSUME TypeOK, NEW p, NEW key \in Keys, queue' = [queue EXCEPT ![p] = key]
    PROVE  queue' \in [Publics -> Keys]
<1>1. queue \in [Publics -> Keys]
  BY DEF TypeOK, Keys
<1>2. QED
  BY <1>1

-----------------------------------------------------------------------------
(* Types *)

\* What TypeOK says of the local variables of one task.
LEMMA FieldTypes ==
    ASSUME TypeOK, NEW t \in Tasks
    PROVE  /\ ctx[t].p \in Publics \cup {Free}
           /\ ctx[t].status \in Statuses
           /\ ctx[t].retries \in 0..MaxRetries
           /\ ctx[t].todo \in SUBSET Publics
BY DEF TypeOK, Locals

\* The values pc and ctx may have.
PcCtxOK == pc \in [Tasks -> RequestSteps \cup ProcSteps] /\ ctx \in [Tasks -> Locals]

\* A task that goes to a step with local variables of one of the shapes.
LEMMA PcCtxTypes ==
    ASSUME TypeOK, NEW t \in Tasks, NEW step \in RequestSteps \cup ProcSteps,
           NEW x \in Locals,
           pc' = [pc EXCEPT ![t] = step], ctx' = ctx \/ ctx' = [ctx EXCEPT ![t] = x]
    PROVE  PcCtxOK'
BY DEF TypeOK, PcCtxOK

\* The ways in which tasks go on.
LEMMA GoOnTypes ==
    ASSUME TypeOK, NEW t \in Tasks,
           \/ \E step \in RequestSteps \cup ProcSteps : Goto(t, step)
           \/ Finish(t)
           \/ \E todo \in SUBSET Publics : NextKey(t, todo)
           \/ \E p \in Publics \cup {Free} : SendNext(t, p)
    PROVE  PcCtxOK'
<1>1. CASE \E step \in RequestSteps \cup ProcSteps : Goto(t, step)
  BY <1>1 DEF Goto, TypeOK, PcCtxOK
<1>2. CASE Finish(t)
  BY <1>2, LocalsType DEF Finish, TypeOK, PcCtxOK, RequestSteps
<1>3. ASSUME NEW todo \in SUBSET Publics, NextKey(t, todo) PROVE PcCtxOK'
  <2>1. ProcLocals(Free, 0, todo) \in Locals
    BY ScanLocals
  <2>2. QED
    BY <1>3, <2>1 DEF NextKey, TypeOK, PcCtxOK, ProcSteps
<1>4. ASSUME NEW p \in Publics \cup {Free}, SendNext(t, p) PROVE PcCtxOK'
  <2>1. RequestLocals(p, "none", "none") \in Locals
    BY LocalsType DEF Statuses
  <2>2. QED
    BY <1>4, <2>1 DEF SendNext, TypeOK, PcCtxOK, RequestSteps
<1>5. QED
  BY <1>1, <1>2, <1>3, <1>4

\* A request's step keeps the types.
LEMMA RequestTypes ==
    ASSUME TypeOK, NEW q \in Requests, RowKnown(q), Receive(q) \/ Answer(q)
    PROVE  TypeOK'
<1>0. q \in Tasks
  BY DEF Tasks
<1> USE CappedType, BoundsAssumption
    DEF TypeOK, row, Statuses, Paying, RequestSteps, ProcSteps, chargerVars, history
<1>1. CASE Create(q)
  <2>1. PICK p \in Publics, status \in {"authorized", "pending"} :
            /\ pay' = [pay EXCEPT ![p] = status]
            /\ IF status = "authorized"
               THEN /\ pc' = [pc EXCEPT ![q] = "send"]
                    /\ ctx' = [ctx EXCEPT ![q] = RequestLocals(p, "none", "none")]
                    /\ paid' = paid \cup {p}
                    /\ triggers' = [triggers EXCEPT ![p] = @ + 1]
               ELSE UNCHANGED <<pc, ctx, paid, triggers>>
    BY <1>1 DEF Create
  <2>2. RequestLocals(p, "none", "none") \in Locals
    BY LocalsType
  <2>3. PcCtxOK'
    BY <2>1, <2>2, <1>0 DEF PcCtxOK
  <2>4. QED
    BY <1>1, <2>1, <2>3 DEF Create, Serve, PcCtxOK
<1>2. CASE StripePaid(q)
  <2>1. PICK p \in Publics :
            /\ pay' = [pay EXCEPT ![p] = "paid"]
            /\ paid' = paid \cup {p}
            /\ triggers' = [triggers EXCEPT ![p] = @ + 1]
            /\ ctx' = [ctx EXCEPT ![q] = RequestLocals(p, "none", "none")]
    BY <1>2 DEF StripePaid
  <2>2. RequestLocals(p, "none", "none") \in Locals
    BY LocalsType
  <2>3. PcCtxOK'
    BY <1>0, <1>2, <2>1, <2>2 DEF StripePaid, PcCtxOK
  <2>4. QED
    BY <1>2, <2>1, <2>3 DEF StripePaid, Serve, PcCtxOK
<1>3. CASE Webhook(q)
  <2>1. PICK p \in Publics, status \in {"paid", "cancelled"} :
            ctx' = [ctx EXCEPT ![q] = RequestLocals(p, status, pay[p])]
    BY <1>3 DEF Webhook
  <2>2. RequestLocals(p, status, pay[p]) \in Locals
    BY LocalsType
  <2>3. PcCtxOK'
    BY <1>0, <1>3, <2>1, <2>2 DEF Webhook, PcCtxOK
  <2>4. QED
    BY <1>3, <2>3 DEF Webhook, Serve, PcCtxOK
<1>4. CASE Cancel(q)
  <2>1. PICK p \in Publics : ctx' = [ctx EXCEPT ![q] = RequestLocals(p, "none", "none")]
    BY <1>4 DEF Cancel
  <2>2. RequestLocals(p, "none", "none") \in Locals
    BY LocalsType
  <2>3. PcCtxOK'
    BY <1>0, <1>4, <2>1, <2>2 DEF Cancel, PcCtxOK
  <2>4. QED
    BY <1>4, <2>3 DEF Cancel, Serve, PcCtxOK
<1>5. CASE SendOnce(q)
  <2>1. PcCtxOK'
    BY <1>0, <1>5, GoOnTypes DEF SendOnce
  <2>2. QED
    BY <1>5, <2>1 DEF SendOnce, Sent, NotSent, PcCtxOK
<1>6. CASE HookWrite(q)
  <2>1. ctx[q].p \in Publics /\ ctx[q].status \in Statuses
    BY <1>0, <1>6, FieldTypes DEF HookWrite, RowKnown
  <2>2. PcCtxOK'
    BY <1>0, <1>6, <2>1, GoOnTypes DEF HookWrite
  <2>3. QED
    BY <1>6, <2>1, <2>2 DEF HookWrite, PcCtxOK
<1>7. CASE HookSend(q)
  <2>1. PcCtxOK'
    BY <1>0, <1>7, GoOnTypes DEF HookSend
  <2>2. QED
    BY <1>7, <2>1 DEF HookSend, Sent, NotSent, PcCtxOK
<1>8. CASE HookQueue(q)
  <2>1. PcCtxOK'
    BY <1>0, <1>8, GoOnTypes DEF HookQueue
  <2>2. queue' \in [Publics -> Keys]
    <3>1. {0} \in Keys
      BY KeysType
    <3>2. QED
      BY <1>8, <3>1, QueueType DEF HookQueue
  <2>3. QED
    BY <1>8, <2>1, <2>2 DEF HookQueue, PcCtxOK, Keys
<1>9. CASE CancelWrite(q)
  <2>1. ctx[q].p \in Publics
    BY <1>0, <1>9 DEF CancelWrite, RowKnown
  <2>2. PcCtxOK'
    BY <1>0, <1>9, GoOnTypes DEF CancelWrite
  <2>3. QED
    BY <1>9, <2>1, <2>2 DEF CancelWrite, PcCtxOK
<1>10. QED
  BY <1>1, <1>2, <1>3, <1>4, <1>5, <1>6, <1>7, <1>8, <1>9 DEF Receive, Answer

\* A step of a task that works off the queue keeps the types, as long as it has a
\* retry left.
LEMMA ProcTypes ==
    ASSUME TypeOK, NEW t \in Procs, RetryLeft(t), Process(t)
    PROVE  TypeOK'
<1>0. t \in Tasks
  BY DEF Tasks
<1>00. ctx[t].todo \in SUBSET Publics /\ ctx[t].p \in Publics \cup {Free}
  BY <1>0, FieldTypes
<1> DEFINE keys == {p \in Publics : queue[p] # {}}
<1>000. ProcLocals(Free, 0, keys) \in Locals
  <2>1. keys \in SUBSET Publics
    OBVIOUS
  <2>2. QED
    BY <2>1, ScanLocals
<1> USE CappedType, BoundsAssumption
    DEF TypeOK, row, Statuses, Paying, RequestSteps, ProcSteps, chargerVars, history
<1>1. CASE Spawn(t)
  <2>2. PcCtxOK'
    BY <1>0, <1>1, <1>000 DEF Spawn, PcCtxOK
  <2>3. QED
    BY <1>1, <2>2 DEF Spawn, PcCtxOK
<1>2. CASE GetKey(t)
  <2>1. PICK p \in ctx[t].todo :
            \/ NextKey(t, ctx[t].todo \ {p}) /\ UNCHANGED overlaps
            \/ \E r \in queue[p] :
               /\ ctx' = [ctx EXCEPT ![t] = ProcLocals(p, r, ctx[t].todo \ {p})]
               /\ pc' = [pc EXCEPT ![t] = IF r >= MaxRetries THEN "give_up" ELSE "pending_send"]
               /\ overlaps' \in {overlaps, [overlaps EXCEPT ![p] = @ + 1]}
    BY <1>2 DEF GetKey, Look
  <2>2. p \in Publics /\ ctx[t].todo \ {p} \in SUBSET Publics
    BY <1>00
  <2>3. overlaps' \in [Publics -> Nat]
    BY <2>1, <2>2
  <2>4. PcCtxOK'
    <3>1. CASE NextKey(t, ctx[t].todo \ {p})
      BY <1>0, <2>2, <3>1, GoOnTypes
    <3>2. ASSUME NEW r \in queue[p],
                 ctx' = [ctx EXCEPT ![t] = ProcLocals(p, r, ctx[t].todo \ {p})],
                 pc' = [pc EXCEPT ![t] = IF r >= MaxRetries THEN "give_up" ELSE "pending_send"]
          PROVE  PcCtxOK'
      <4>1. r \in 0..MaxRetries
        BY <2>2, KeysType DEF Keys
      <4>2. ProcLocals(p, r, ctx[t].todo \ {p}) \in Locals
        BY <2>2, <4>1, LocalsType
      <4>3. QED
        BY <1>0, <3>2, <4>2 DEF PcCtxOK
    <3>3. QED
      BY <2>1, <3>1, <3>2
  <2>5. QED
    BY <1>2, <2>3, <2>4 DEF GetKey, Look, PcCtxOK
<1>4. CASE PendingSend(t)
  <2>1. PcCtxOK'
    BY <1>0, <1>4, GoOnTypes DEF PendingSend
  <2>2. QED
    BY <1>4, <2>1 DEF PendingSend, Sent, NotSent, PcCtxOK
<1>5. CASE DeleteKey(t)
  <2>1. PcCtxOK'
    BY <1>0, <1>00, <1>5, GoOnTypes DEF DeleteKey
  <2>2. queue' \in [Publics -> Keys]
    BY <1>5, KeysType, QueueType DEF DeleteKey
  <2>3. QED
    BY <1>5, <2>1, <2>2 DEF DeleteKey, PcCtxOK, Keys
<1>6. CASE Requeue(t)
  <2>1. ctx[t].retries + 1 \in 0..MaxRetries
    <3>1. ctx[t].retries \in 0..MaxRetries
      BY <1>0, FieldTypes
    <3>2. ctx[t].retries < MaxRetries
      BY <1>0, <1>6 DEF Requeue, RetryLeft
    <3>3. QED
      BY <3>1, <3>2
  <2>2. PcCtxOK'
    BY <1>0, <1>00, <1>6, GoOnTypes DEF Requeue
  <2>3. {ctx[t].retries + 1} \in Keys
    BY <2>1, KeysType
  <2>4. queue' \in [Publics -> Keys]
    BY <1>6, <2>3, QueueType DEF Requeue
  <2>5. QED
    BY <1>6, <2>2, <2>4 DEF Requeue, PcCtxOK, Keys
<1>7. CASE GiveUp(t)
  <2>1. PcCtxOK'
    BY <1>0, <1>7, GoOnTypes DEF GiveUp
  <2>2. queue' \in [Publics -> Keys]
    BY <1>7, KeysType, QueueType DEF GiveUp
  <2>3. QED
    BY <1>7, <2>1, <2>2 DEF GiveUp, PcCtxOK, Keys
<1>8. CASE FailRow(t)
  <2>1. PcCtxOK'
    BY <1>0, <1>00, <1>8, GoOnTypes DEF FailRow
  <2>2. QED
    BY <1>8, <2>1 DEF FailRow, PcCtxOK
<1>9. QED
  BY <1>1, <1>2, <1>4, <1>5, <1>6, <1>7, <1>8 DEF Process

\* The steps of the charger and the failures keep the types.
LEMMA OtherTypes ==
    ASSUME TypeOK,
           \/ \E t \in Tasks : Fault(t)
           \/ \E p \in Publics : Accept(p) \/ Expire(p)
           \/ Link \/ Stop \/ Crash
    PROVE  TypeOK'
<1> USE BoundsAssumption
    DEF TypeOK, row, Statuses, Paying, RequestSteps, ProcSteps, chargerVars, history
<1>1. ASSUME NEW t \in Tasks, Fault(t) PROVE TypeOK'
  <2>1. ctx[t].todo \in SUBSET Publics
    BY FieldTypes
  <2>2. PcCtxOK'
    BY <1>1, <2>1, GoOnTypes DEF Fault
  <2>3. QED
    BY <1>1, <2>2 DEF Fault, PcCtxOK
<1>2. ASSUME NEW p \in Publics, Accept(p) PROVE TypeOK'
  BY <1>2 DEF Accept
<1>3. ASSUME NEW p \in Publics, Expire(p) PROVE TypeOK'
  <2>1. queue' \in [Publics -> Keys]
    BY <1>3, KeysType, QueueType DEF Expire
  <2>2. QED
    BY <1>3, <2>1 DEF Expire, Keys
<1>4. CASE Link
  BY <1>4 DEF Link
<1>5. CASE Stop
  BY <1>5 DEF Stop
<1>6. CASE Crash
  <2>1. NoLocals \in Locals
    BY LocalsType
  <2>2. PcCtxOK'
    BY <1>6, <2>1 DEF Crash, PcCtxOK
  <2>3. QED
    BY <1>6, <2>2 DEF Crash, PcCtxOK
<1>7. QED
  BY <1>1, <1>2, <1>3, <1>4, <1>5, <1>6

\* Every step keeps the types.
LEMMA TypeStep == TypeOK /\ StartInv /\ [Next]_vars => TypeOK'
<1> SUFFICES ASSUME TypeOK, StartInv, [Next]_vars PROVE TypeOK'
  OBVIOUS
<1>0. \A t \in Tasks : RetryLeft(t) /\ RowKnown(t)
  BY DEF StartInv, TaskInv
<1>1. ASSUME NEW q \in Requests, Receive(q) \/ Answer(q) PROVE TypeOK'
  BY <1>0, <1>1, RequestTypes DEF Tasks
<1>2. ASSUME NEW t \in Procs, Process(t) PROVE TypeOK'
  BY <1>0, <1>2, ProcTypes DEF Tasks
<1>3. CASE \/ \E t \in Tasks : Fault(t)
           \/ \E p \in Publics : Accept(p) \/ Expire(p)
           \/ Link \/ Stop \/ Crash
  BY <1>3, OtherTypes
<1>4. CASE UNCHANGED vars
  BY <1>4 DEF vars, row, chargerVars, history, TypeOK
<1>5. QED
  BY <1>1, <1>2, <1>3, <1>4 DEF Next, Tasks

-----------------------------------------------------------------------------
(* Only paid sessions are charged *)

\* When one task moves and no session loses its payment, the other tasks keep
\* their invariant.
LEMMA OtherTasksKept ==
    ASSUME TypeOK, StartInv, paid \subseteq paid', NEW t \in Tasks, TaskInv(t)',
           \A u \in Tasks \ {t} : pc'[u] = pc[u] /\ ctx'[u] = ctx[u]
    PROVE  (\A u \in Tasks : TaskInv(u))'
<1> SUFFICES ASSUME NEW u \in Tasks, u # t PROVE TaskInv(u)'
  OBVIOUS
<1>1. TaskInv(u)
  BY DEF StartInv
<1>2. pc'[u] = pc[u] /\ ctx'[u] = ctx[u]
  OBVIOUS
<1>3. QED
  BY <1>1, <1>2 DEF TaskInv, RetryLeft, RowKnown, WorkWasPaid

\* Where a task is after the ways to go on, the others being where they were.
LEMMA GoOnTo ==
    ASSUME TypeOK, NEW t \in Tasks
    PROVE  /\ \A step : Goto(t, step) =>
                pc'[t] = step /\ ctx'[t] = ctx[t]
                /\ \A u \in Tasks \ {t} : pc'[u] = pc[u] /\ ctx'[u] = ctx[u]
           /\ Finish(t) =>
                pc'[t] = "idle" /\ ctx'[t] = NoLocals
                /\ \A u \in Tasks \ {t} : pc'[u] = pc[u] /\ ctx'[u] = ctx[u]
           /\ \A todo : NextKey(t, todo) =>
                pc'[t] \in {"idle", "scan"} /\ ctx'[t] = ProcLocals(Free, 0, todo)
                /\ \A u \in Tasks \ {t} : pc'[u] = pc[u] /\ ctx'[u] = ctx[u]
           /\ \A p : SendNext(t, p) =>
                pc'[t] = "hook_send" /\ ctx'[t] = RequestLocals(p, "none", "none")
                /\ \A u \in Tasks \ {t} : pc'[u] = pc[u] /\ ctx'[u] = ctx[u]
BY DEF TypeOK, Goto, Finish, NextKey, SendNext

\* The fields of the shapes.
LEMMA ShapeFields ==
    /\ NoLocals.todo = {}
    /\ \A p, r, todo : /\ ProcLocals(p, r, todo).p = p
                      /\ ProcLocals(p, r, todo).retries = r
                      /\ ProcLocals(p, r, todo).todo = todo
    /\ \A p, status, prev : /\ RequestLocals(p, status, prev).p = p
                           /\ RequestLocals(p, status, prev).status = status
                           /\ RequestLocals(p, status, prev).todo = {}
BY DEF NoLocals, ProcLocals, RequestLocals

\* A request's step keeps the invariant of all tasks.
LEMMA RequestTasks ==
    ASSUME TypeOK, StartInv, NEW q \in Requests, Receive(q) \/ Answer(q)
    PROVE  (\A u \in Tasks : TaskInv(u))' /\ paid \subseteq paid'
<1>0. q \in Tasks
  BY DEF Tasks
<1>00. TaskInv(q)
  BY <1>0 DEF StartInv
<1> DEFINE Others == \A u \in Tasks \ {q} : pc'[u] = pc[u] /\ ctx'[u] = ctx[u]
<1>1. CASE Create(q)
  <2>1. paid \subseteq paid' /\ Others
    BY <1>0, <1>1 DEF Create, Serve, TypeOK
  <2>2. TaskInv(q)'
    <3>1. PICK p \in Publics, status \in {"authorized", "pending"} :
              IF status = "authorized"
              THEN /\ pc' = [pc EXCEPT ![q] = "send"]
                   /\ ctx' = [ctx EXCEPT ![q] = RequestLocals(p, "none", "none")]
                   /\ paid' = paid \cup {p}
              ELSE UNCHANGED <<pc, ctx, paid>>
      BY <1>1 DEF Create
    <3>2. CASE status = "authorized"
      <4>1. /\ pc'[q] = "send" /\ ctx'[q] = RequestLocals(p, "none", "none")
            /\ p \in paid'
        BY <1>0, <3>1, <3>2 DEF TypeOK
      <4>2. QED
        BY <4>1, ShapeFields DEF TaskInv, RetryLeft, RowKnown, WorkWasPaid
    <3>3. CASE status # "authorized"
      BY <1>00, <3>1, <3>3 DEF TaskInv, RetryLeft, RowKnown, WorkWasPaid
    <3>4. QED
      BY <3>2, <3>3
  <2>3. QED
    BY <1>0, <2>1, <2>2, OtherTasksKept
<1>2. CASE StripePaid(q) \/ Webhook(q) \/ Cancel(q)
  <2>1. paid \subseteq paid' /\ Others
    BY <1>0, <1>2 DEF StripePaid, Webhook, Cancel, Serve, TypeOK
  <2>2. PICK p \in Publics, status \in Statuses, prev \in Statuses :
            /\ ctx'[q] = RequestLocals(p, status, prev)
            /\ pc'[q] = "send" => p \in paid'
            /\ pc'[q] = "hook_write" => status # "remote_start_failed"
            /\ pc'[q] \in {"send", "hook_write", "cancel_write"}
    <3>1. CASE StripePaid(q)
      BY <1>0, <3>1 DEF StripePaid, TypeOK, Statuses
    <3>2. CASE Webhook(q)
      BY <1>0, <3>2 DEF Webhook, TypeOK, Statuses, Paying
    <3>3. CASE Cancel(q)
      BY <1>0, <3>3 DEF Cancel, TypeOK, Statuses
    <3>4. QED
      BY <1>2, <3>1, <3>2, <3>3
  <2>3. TaskInv(q)'
    BY <2>2, ShapeFields DEF TaskInv, RetryLeft, RowKnown, WorkWasPaid
  <2>4. QED
    BY <1>0, <2>1, <2>3, OtherTasksKept
<1>3. CASE SendOnce(q) \/ HookQueue(q) \/ CancelWrite(q) \/ (HookSend(q) /\ Finish(q))
  <2>1. paid' = paid /\ Finish(q)
    BY <1>3 DEF SendOnce, HookQueue, CancelWrite, HookSend, history
  <2>2. pc'[q] = "idle" /\ ctx'[q] = NoLocals /\ Others
    BY <1>0, <2>1, GoOnTo
  <2>3. TaskInv(q)'
    BY <2>2, ShapeFields DEF TaskInv, RetryLeft, RowKnown, WorkWasPaid
  <2>4. QED
    BY <1>0, <2>1, <2>2, <2>3, OtherTasksKept
<1>4. CASE HookSend(q) /\ Goto(q, "hook_queue")
  <2>1. paid' = paid /\ pc'[q] = "hook_queue" /\ ctx'[q] = ctx[q] /\ Others
    BY <1>0, <1>4, GoOnTo DEF HookSend, history
  <2>2. TaskInv(q)'
    BY <1>00, <1>4, <2>1 DEF HookSend, TaskInv, RetryLeft, RowKnown, WorkWasPaid
  <2>3. QED
    BY <1>0, <2>1, <2>2, OtherTasksKept
<1>5. CASE HookWrite(q)
  <2>1. paid \subseteq paid'
    BY <1>5 DEF HookWrite
  <2>2. CASE SendNext(q, ctx[q].p) /\ ctx[q].p \in paid'
    <3>1. /\ pc'[q] = "hook_send" /\ ctx'[q] = RequestLocals(ctx[q].p, "none", "none")
          /\ Others
      BY <1>0, <2>2, GoOnTo
    <3>2. TaskInv(q)'
      BY <2>2, <3>1, ShapeFields DEF TaskInv, RetryLeft, RowKnown, WorkWasPaid
    <3>3. QED
      BY <1>0, <2>1, <3>1, <3>2, OtherTasksKept
  <2>3. CASE Finish(q)
    <3>1. pc'[q] = "idle" /\ ctx'[q] = NoLocals /\ Others
      BY <1>0, <2>3, GoOnTo
    <3>2. TaskInv(q)'
      BY <3>1, ShapeFields DEF TaskInv, RetryLeft, RowKnown, WorkWasPaid
    <3>3. QED
      BY <1>0, <2>1, <3>1, <3>2, OtherTasksKept
  <2>4. QED
    BY <1>5, <2>2, <2>3 DEF HookWrite
<1>6. QED
  BY <1>1, <1>2, <1>3, <1>4, <1>5 DEF Receive, Answer, HookSend

\* A step of a task that works off the queue, or one that fails, keeps the
\* invariant of all tasks: a key is only there for a session that was paid.
LEMMA ProcTasks ==
    ASSUME TypeOK, StartInv, NEW t \in Tasks, (t \in Procs /\ Process(t)) \/ Fault(t)
    PROVE  (\A u \in Tasks : TaskInv(u))' /\ paid' = paid
<1>0. TaskInv(t) /\ ctx[t].todo \subseteq paid
  BY DEF StartInv, TaskInv, WorkWasPaid
<1> DEFINE Others == \A u \in Tasks \ {t} : pc'[u] = pc[u] /\ ctx'[u] = ctx[u]
<1>1. paid' = paid
  BY DEF Process, Spawn, GetKey, Look, PendingSend, DeleteKey, Requeue, GiveUp, FailRow,
         Fault, history
<1>2. ASSUME NextKey(t, ctx[t].todo) \/ Finish(t)
                \/ \E p \in ctx[t].todo : NextKey(t, ctx[t].todo \ {p})
      PROVE  (\A u \in Tasks : TaskInv(u))'
  <2>1. PICK todo \in SUBSET paid : NextKey(t, todo) \/ Finish(t)
    BY <1>0, <1>2
  <2>2. Others /\ pc'[t] \in {"idle", "scan"} /\ ctx'[t].todo \subseteq paid'
    BY <1>1, <2>1, GoOnTo, ShapeFields
  <2>3. TaskInv(t)'
    BY <2>2 DEF TaskInv, RetryLeft, RowKnown, WorkWasPaid
  <2>4. QED
    BY <1>1, <2>2, <2>3, OtherTasksKept
<1>3. CASE Spawn(t)
  <2> DEFINE keys == {p \in Publics : queue[p] # {}}
  <2>1. keys \subseteq paid'
    BY <1>1 DEF StartInv, ChargedWasPaid
  <2>2. Others /\ pc'[t] = "scan" /\ ctx'[t] = ProcLocals(Free, 0, keys)
    BY <1>3 DEF Spawn, TypeOK
  <2>3. TaskInv(t)'
    BY <2>1, <2>2, ShapeFields DEF TaskInv, RetryLeft, RowKnown, WorkWasPaid
  <2>4. QED
    BY <1>1, <2>2, <2>3, OtherTasksKept
<1>4. CASE GetKey(t)
  <2>1. PICK p \in ctx[t].todo :
            \/ NextKey(t, ctx[t].todo \ {p})
            \/ \E r \in queue[p] :
               /\ ctx' = [ctx EXCEPT ![t] = ProcLocals(p, r, ctx[t].todo \ {p})]
               /\ pc' = [pc EXCEPT ![t] = IF r >= MaxRetries THEN "give_up" ELSE "pending_send"]
    BY <1>4 DEF GetKey, Look
  <2>2. ASSUME NEW r \in queue[p],
               ctx' = [ctx EXCEPT ![t] = ProcLocals(p, r, ctx[t].todo \ {p})],
               pc' = [pc EXCEPT ![t] = IF r >= MaxRetries THEN "give_up" ELSE "pending_send"]
        PROVE  (\A u \in Tasks : TaskInv(u))'
    <3>1. /\ Others
          /\ ctx'[t] = ProcLocals(p, r, ctx[t].todo \ {p})
          /\ pc'[t] = IF r >= MaxRetries THEN "give_up" ELSE "pending_send"
      BY <2>2 DEF TypeOK
    <3>2. p \in paid' /\ ctx[t].todo \ {p} \subseteq paid'
      BY <1>0, <1>1
    <3>3. r \in 0..MaxRetries
      <4>1. p \in Publics
        BY FieldTypes
      <4>2. QED
        BY <4>1, KeysType DEF TypeOK, Keys
    <3>4. WorkWasPaid(t)' /\ RowKnown(t)'
      BY <3>1, <3>2, ShapeFields DEF RowKnown, WorkWasPaid
    <3>5. RetryLeft(t)'
      BY <3>1, <3>3, ShapeFields DEF RetryLeft
    <3>6. QED
      BY <1>1, <3>1, <3>4, <3>5, OtherTasksKept DEF TaskInv
  <2>3. QED
    BY <1>1, <1>2, <2>1, <2>2
<1>5. CASE PendingSend(t) \/ GiveUp(t)
  <2>1. PICK step \in {"delete", "requeue", "fail_row"} : Goto(t, step)
    BY <1>5 DEF PendingSend, GiveUp
  <2>2. /\ pc[t] \in {"pending_send", "give_up"}
        /\ step # "fail_row" => pc[t] = "pending_send"
    <3>1. CASE PendingSend(t)
      BY <3>1 DEF PendingSend
    <3>2. CASE GiveUp(t)
      <4>1. Goto(t, "fail_row")
        BY <3>2 DEF GiveUp
      <4>2. step = "fail_row"
        BY <2>1, <4>1, GoOnTo
      <4>3. QED
        BY <3>2, <4>2 DEF GiveUp
    <3>3. QED
      BY <1>5, <3>1, <3>2
  <2>3. Others /\ pc'[t] = step /\ ctx'[t] = ctx[t]
    BY <2>1, GoOnTo
  <2>4. TaskInv(t)'
    BY <1>0, <1>1, <2>2, <2>3 DEF TaskInv, RetryLeft, RowKnown, WorkWasPaid
  <2>5. QED
    BY <1>1, <2>3, <2>4, OtherTasksKept
<1>6. CASE DeleteKey(t) \/ Requeue(t) \/ FailRow(t) \/ Fault(t)
  BY <1>1, <1>2, <1>6 DEF DeleteKey, Requeue, FailRow, Fault
<1>7. QED
  BY <1>1, <1>3, <1>4, <1>5, <1>6 DEF Process

\* Every step keeps it that a start waits, is on its way, or runs only for a
\* session that was paid.
LEMMA ChargedStep ==
    ASSUME TypeOK, StartInv, [Next]_vars, paid \subseteq paid'
    PROVE  ChargedWasPaid'
<1>0. \A t \in Tasks :
        pc[t] \in {"send", "hook_send", "hook_queue", "pending_send", "delete", "requeue"}
          => ctx[t].p \in paid
  BY DEF StartInv, TaskInv, WorkWasPaid
<1>1. ASSUME NEW t \in Tasks, Sent(ctx[t].p), ctx[t].p \in paid, queue' = queue
      PROVE  ChargedWasPaid'
  BY <1>1 DEF Sent, StartInv, ChargedWasPaid, TypeOK
<1>2. ASSUME NEW t \in Tasks, NEW key, queue' = [queue EXCEPT ![ctx[t].p] = key],
             key = {} \/ ctx[t].p \in paid, UNCHANGED chargerVars
      PROVE  ChargedWasPaid'
  BY <1>2 DEF chargerVars, StartInv, ChargedWasPaid, TypeOK
<1>3. ASSUME UNCHANGED <<queue, chargerVars>> PROVE ChargedWasPaid'
  BY <1>3 DEF chargerVars, StartInv, ChargedWasPaid
<1>4. ASSUME NEW q \in Requests, Receive(q) \/ Answer(q) PROVE ChargedWasPaid'
  <2>0. q \in Tasks
    BY DEF Tasks
  <2>1. CASE Receive(q)
    BY <1>3, <2>1 DEF Receive, Create, StripePaid, Webhook, Cancel, row
  <2>2. CASE SendOnce(q) \/ HookSend(q)
    BY <1>0, <1>1, <1>3, <2>0, <2>2 DEF SendOnce, HookSend, NotSent
  <2>3. CASE HookQueue(q)
    BY <1>0, <1>2, <2>0, <2>3 DEF HookQueue
  <2>4. CASE HookWrite(q) \/ CancelWrite(q)
    BY <1>3, <2>4 DEF HookWrite, CancelWrite
  <2>5. QED
    BY <1>4, <2>1, <2>2, <2>3, <2>4 DEF Answer
<1>5. ASSUME NEW t \in Procs, Process(t) PROVE ChargedWasPaid'
  <2>0. t \in Tasks
    BY DEF Tasks
  <2>1. CASE Spawn(t) \/ GetKey(t) \/ FailRow(t)
    BY <1>3, <2>1 DEF Spawn, GetKey, Look, FailRow
  <2>2. CASE PendingSend(t)
    BY <1>0, <1>1, <1>3, <2>0, <2>2 DEF PendingSend, NotSent
  <2>3. CASE DeleteKey(t) \/ GiveUp(t)
    BY <1>2, <2>0, <2>3 DEF DeleteKey, GiveUp
  <2>4. CASE Requeue(t)
    BY <1>0, <1>2, <2>0, <2>4 DEF Requeue
  <2>5. QED
    BY <1>5, <2>1, <2>2, <2>3, <2>4 DEF Process
<1>6. ASSUME NEW t \in Tasks, Fault(t) PROVE ChargedWasPaid'
  BY <1>3, <1>6 DEF Fault
<1>7. ASSUME NEW p \in Publics, Accept(p) PROVE ChargedWasPaid'
  BY <1>7 DEF Accept, StartInv, ChargedWasPaid, TypeOK
<1>8. ASSUME NEW p \in Publics, Expire(p) PROVE ChargedWasPaid'
  BY <1>8 DEF Expire, chargerVars, StartInv, ChargedWasPaid, TypeOK
<1>9. CASE Link
  BY <1>9 DEF Link, StartInv, ChargedWasPaid
<1>10. CASE Stop
  BY <1>10, NamesAssumption DEF Stop, StartInv, ChargedWasPaid
<1>11. CASE Crash \/ UNCHANGED vars
  BY <1>3, <1>11 DEF Crash, vars, chargerVars
<1>12. QED
  BY <1>4, <1>5, <1>6, <1>7, <1>8, <1>9, <1>10, <1>11 DEF Next, Tasks

\* Every step keeps the invariant.
LEMMA StartStep == TypeOK /\ StartInv /\ [Next]_vars => StartInv'
<1> SUFFICES ASSUME TypeOK, StartInv, [Next]_vars PROVE StartInv'
  OBVIOUS
<1>1. (\A u \in Tasks : TaskInv(u))' /\ paid \subseteq paid'
  <2>1. ASSUME NEW q \in Requests, Receive(q) \/ Answer(q)
        PROVE  (\A u \in Tasks : TaskInv(u))' /\ paid \subseteq paid'
    BY <2>1, RequestTasks
  <2>2. ASSUME NEW t \in Tasks, (t \in Procs /\ Process(t)) \/ Fault(t)
        PROVE  (\A u \in Tasks : TaskInv(u))' /\ paid \subseteq paid'
    BY <2>2, ProcTasks
  <2>3. CASE \/ \E p \in Publics : Accept(p) \/ Expire(p)
             \/ Link \/ Stop \/ UNCHANGED vars
    BY <2>3 DEF Accept, Expire, Link, Stop, vars, history, StartInv, TaskInv, RetryLeft,
         RowKnown, WorkWasPaid
  <2>4. CASE Crash
    BY <2>4, ShapeFields DEF Crash, TaskInv, RetryLeft, RowKnown, WorkWasPaid
  <2>5. QED
    BY <2>1, <2>2, <2>3, <2>4 DEF Next, Tasks
<1>2. QED
  BY <1>1, ChargedStep DEF StartInv

-----------------------------------------------------------------------------
(* Started sessions *)

\* A started session stays started, is closed by its own StopTransaction only, and
\* is not marked as failed.
LEMMA StartedStep ==
    ASSUME TypeOK, StartInv, Next, NEW p \in started
    PROVE  /\ p \in started'
           /\ p \in stopped' \ stopped => plug = p /\ txn = "own" /\ plug' = Free
           /\ pay'[p] = "remote_start_failed" => pay[p] = "remote_start_failed"
<1> DEFINE Kept == /\ p \in started'
                   /\ p \in stopped' \ stopped => plug = p /\ txn = "own" /\ plug' = Free
                   /\ pay'[p] = "remote_start_failed" => pay[p] = "remote_start_failed"
<1>0. p \in Publics
  BY DEF TypeOK
<1>1. ASSUME UNCHANGED row PROVE Kept
  BY <1>1 DEF row
<1>2. ASSUME NEW q \in Requests, Receive(q) \/ Answer(q) PROVE Kept
  <2>1. CASE Create(q)
    BY <1>0, <2>1 DEF Create, TypeOK
  <2>2. CASE StripePaid(q)
    BY <1>0, <2>2 DEF StripePaid, TypeOK
  <2>3. CASE HookWrite(q)
    <3>1. ctx[q].status # "remote_start_failed"
      BY <2>3 DEF HookWrite, StartInv, TaskInv, RowKnown, Tasks
    <3>2. QED
      BY <1>0, <2>3, <3>1 DEF HookWrite, TypeOK
  <2>4. CASE CancelWrite(q)
    BY <1>0, <2>4 DEF CancelWrite, TypeOK
  <2>5. CASE Webhook(q) \/ Cancel(q) \/ SendOnce(q) \/ HookSend(q) \/ HookQueue(q)
    BY <1>1, <2>5 DEF Webhook, Cancel, SendOnce, HookSend, HookQueue
  <2>6. QED
    BY <1>2, <2>1, <2>2, <2>3, <2>4, <2>5 DEF Receive, Answer
<1>3. ASSUME NEW t \in Procs, Process(t) PROVE Kept
  <2>1. CASE FailRow(t)
    BY <1>0, <2>1 DEF FailRow, TypeOK
  <2>2. CASE Spawn(t) \/ GetKey(t) \/ PendingSend(t) \/ DeleteKey(t) \/ Requeue(t) \/ GiveUp(t)
    BY <1>1, <2>2 DEF Spawn, GetKey, Look, PendingSend, DeleteKey, Requeue, GiveUp
  <2>3. QED
    BY <1>3, <2>1, <2>2 DEF Process
<1>4. CASE \/ \E t \in Tasks : Fault(t)
           \/ \E k \in Publics : Accept(k) \/ Expire(k)
           \/ Crash
  BY <1>1, <1>4 DEF Fault, Accept, Expire, Crash
<1>5. CASE Link
  BY <1>5 DEF Link
<1>6. CASE Stop
  BY <1>6 DEF Stop
<1>7. QED
  BY <1>2, <1>3, <1>4, <1>5, <1>6 DEF Next, Tasks

-----------------------------------------------------------------------------
(* Counting the messages *)

\* Task t has a start of p to send or to queue.
Owing(t, p) ==
    /\ pc[t] \in {"send", "hook_send", "hook_queue", "pending_send", "requeue"}
    /\ ctx[t].p = p

Owed(p) == {t \in Tasks : Owing(t, p)}

\* The start of p waits in the queue.  While a task has the key in hand, its own start
\* is the one it owes.
KeyWaits(p) == queue[p] # {} /\ \A t \in Procs : ~Holds(t, p)

\* Some task has the key of p in hand, at this step.
At(step, p) == \E t \in Procs : pc[t] = step /\ ctx[t].p = p

One(b) == IF b THEN 1 ELSE 0

\* No two tasks have the key of p in hand.
SoleHolder(p) == \A k, l \in Procs : Holds(k, p) /\ Holds(l, p) => k = l

\* What was sent, is owed or waits in the queue was triggered, or a failure or an
\* overlap had it sent once more.
SendsCovered(p) ==
    sends[p] + Cardinality(Owed(p)) + One(KeyWaits(p)) <= triggers[p] + faults + overlaps[p]

\* The failed attempts are those counted in the key or in the hands of the task
\* that has it, but for the one that a requeue has yet to count.
AttemptsCovered(p) ==
    /\ attempts[p] <= MaxRetries + faults
    /\ \A r \in queue[p] : attempts[p] <= r + faults + One(At("requeue", p))
    /\ \A t \in Procs : ctx[t].p = p =>
        /\ pc[t] = "pending_send" => attempts[p] <= ctx[t].retries + faults
        /\ pc[t] = "requeue" => attempts[p] <= ctx[t].retries + 1 + faults

Counted(p) ==
    /\ IsFiniteSet(Owed(p)) /\ SendsCovered(p)
    /\ overlaps[p] = 0 => SoleHolder(p) /\ AttemptsCovered(p)

\* A counter that stops at MaxCount grows by at most one.
LEMMA CappedGrows == \A n \in 0..MaxCount : Capped(n) \in Nat /\ Capped(n) <= n + 1
BY BoundsAssumption DEF Capped

\* One task at a time gets or gives up something it owes.
LEMMA OwedStep ==
    ASSUME NEW t \in Tasks, NEW p, IsFiniteSet(Owed(p)),
           \A u \in Tasks \ {t} : pc'[u] = pc[u] /\ ctx'[u] = ctx[u]
    PROVE  /\ IsFiniteSet(Owed(p)')
           /\ Cardinality(Owed(p)) \in Nat /\ Cardinality(Owed(p)') \in Nat
           /\ Cardinality(Owed(p)') + One(Owing(t, p))
                = Cardinality(Owed(p)) + One(Owing(t, p)')
<1>1. Cardinality(Owed(p)) \in Nat
  BY FS_CardinalityType
<1>2. t \in Owed(p) <=> Owing(t, p)
  BY DEF Owed
<1>3. Owed(p)' = IF Owing(t, p)' THEN Owed(p) \cup {t} ELSE Owed(p) \ {t}
  BY DEF Owed, Owing
<1>4. CASE Owing(t, p)'
  <2>1. /\ IsFiniteSet(Owed(p) \cup {t})
        /\ Cardinality(Owed(p) \cup {t}) =
             IF t \in Owed(p) THEN Cardinality(Owed(p)) ELSE Cardinality(Owed(p)) + 1
    BY FS_AddElement
  <2>2. QED
    BY <1>1, <1>2, <1>3, <1>4, <2>1 DEF One
<1>5. CASE ~Owing(t, p)'
  <2>1. /\ IsFiniteSet(Owed(p) \ {t})
        /\ Cardinality(Owed(p) \ {t}) =
             IF t \in Owed(p) THEN Cardinality(Owed(p)) - 1 ELSE Cardinality(Owed(p))
    BY FS_RemoveElement
  <2>2. Cardinality(Owed(p) \ {t}) \in Nat
    BY <2>1, FS_CardinalityType
  <2>3. QED
    BY <1>1, <1>2, <1>3, <1>5, <2>1, <2>2 DEF One
<1>6. QED
  BY <1>4, <1>5

\* What is owed and waits when no task moves.
LEMMA OwedKept ==
    ASSUME NEW p, pc' = pc, ctx' = ctx
    PROVE  Owed(p)' = Owed(p) /\ \A t \in Procs : Holds(t, p)' <=> Holds(t, p)
BY DEF Owed, Owing, Holds

\* A step that moves no task that holds the key and counts nothing.
LEMMA AttemptsKept ==
    ASSUME TypeOK, TypeOK', NEW p \in Publics, SoleHolder(p), AttemptsCovered(p),
           \A k \in Procs : (Holds(k, p) \/ Holds(k, p)') =>
                pc'[k] = pc[k] /\ ctx'[k] = ctx[k],
           queue'[p] = queue[p], attempts'[p] = attempts[p], faults' = faults
    PROVE  SoleHolder(p)' /\ AttemptsCovered(p)'
<1>1. At("requeue", p)' <=> At("requeue", p)
  BY DEF At, Holds
<1>2. SoleHolder(p)'
  BY DEF SoleHolder, Holds
<1>3. AttemptsCovered(p)'
  BY <1>1 DEF AttemptsCovered, Holds, One
<1>4. QED
  BY <1>2, <1>3

\* What AttemptsCovered and SendsCovered speak of, as numbers.
LEMMA CountTypes ==
    ASSUME TypeOK, NEW p \in Publics
    PROVE  /\ sends[p] \in Nat /\ overlaps[p] \in Nat
           /\ attempts[p] \in 0..MaxCount /\ attempts[p] \in Nat
           /\ triggers[p] \in Nat /\ faults \in Nat
           /\ \A r \in queue[p] : r \in Nat
<1>1. queue[p] \in Keys /\ MaxCount \in Nat
  BY BoundsAssumption DEF TypeOK, Keys
<1>2. \A r \in queue[p] : r \in Nat
  BY <1>1, KeysType
<1>3. QED
  BY <1>1, <1>2 DEF TypeOK

\* What the messages sent and the triggers may be after a request's step.
LEMMA RequestEffect ==
    ASSUME TypeOK, StartInv, NEW q \in Requests, Receive(q) \/ Answer(q), NEW p \in Publics
    PROVE  /\ \A u \in Tasks \ {q} : pc'[u] = pc[u] /\ ctx'[u] = ctx[u]
           /\ faults' = faults /\ overlaps' = overlaps
           /\ \/ /\ sends'[p] = sends[p] /\ triggers'[p] = triggers[p]
                 /\ Owing(q, p)' => Owing(q, p)
                 /\ queue'[p] = queue[p] /\ attempts'[p] = attempts[p]
              \/ /\ sends'[p] = sends[p] /\ triggers'[p] = triggers[p] + 1
                 /\ queue'[p] = queue[p] /\ attempts'[p] = attempts[p]
              \/ /\ sends'[p] = sends[p] + 1 /\ triggers'[p] = triggers[p]
                 /\ Owing(q, p) /\ ~Owing(q, p)'
                 /\ queue'[p] = queue[p] /\ attempts'[p] = attempts[p]
              \/ /\ sends'[p] = sends[p] /\ triggers'[p] = triggers[p]
                 /\ Owing(q, p) /\ ~Owing(q, p)'
                 /\ queue'[p] = {0} /\ attempts'[p] = 0
<1>0. q \in Tasks
  BY DEF Tasks
<1>00. pc[q] \in {"send", "hook_send", "hook_queue", "hook_write", "cancel_write"}
         => ctx[q].p \in Publics
  BY <1>0 DEF StartInv, TaskInv, WorkWasPaid, RowKnown, TypeOK
<1> USE <1>0 DEF TypeOK, row, chargerVars, history
<1>1. CASE Create(q)
  <2>1. PICK k \in Publics, status \in {"authorized", "pending"} :
            IF status = "authorized"
            THEN /\ pc' = [pc EXCEPT ![q] = "send"]
                 /\ ctx' = [ctx EXCEPT ![q] = RequestLocals(k, "none", "none")]
                 /\ triggers' = [triggers EXCEPT ![k] = @ + 1]
            ELSE UNCHANGED <<pc, ctx, triggers>>
    BY <1>1 DEF Create
  <2>2. Owing(q, p)' => p = k \/ Owing(q, p)
    BY <2>1, ShapeFields DEF Owing
  <2>3. \/ triggers'[p] = triggers[p] + 1
        \/ triggers'[p] = triggers[p] /\ (Owing(q, p)' => Owing(q, p))
    <3>1. CASE status = "authorized"
      BY <2>1, <2>2, <3>1
    <3>2. CASE status # "authorized"
      BY <2>1, <3>2 DEF Owing
    <3>3. QED
      BY <3>1, <3>2
  <2>4. \A u \in Tasks \ {q} : pc'[u] = pc[u] /\ ctx'[u] = ctx[u]
    BY <2>1
  <2>5. QED
    BY <1>1, <2>3, <2>4 DEF Create, Serve
<1>2. CASE StripePaid(q)
  <2>1. PICK k \in Publics :
            /\ triggers' = [triggers EXCEPT ![k] = @ + 1]
            /\ ctx' = [ctx EXCEPT ![q] = RequestLocals(k, "none", "none")]
    BY <1>2 DEF StripePaid
  <2>2. Owing(q, p)' => p = k
    BY <2>1, ShapeFields DEF Owing
  <2>3. QED
    BY <1>2, <2>1, <2>2 DEF StripePaid, Serve
<1>3. CASE Webhook(q) \/ Cancel(q)
  <2>1. pc'[q] \in {"hook_write", "cancel_write"}
    BY <1>3 DEF Webhook, Cancel
  <2>2. ~Owing(q, p)'
    BY <2>1 DEF Owing
  <2>3. QED
    BY <1>3, <2>2 DEF Webhook, Cancel, Serve
<1>4. CASE SendOnce(q)
  <2>1. ~Owing(q, p)' /\ \A u \in Tasks \ {q} : pc'[u] = pc[u] /\ ctx'[u] = ctx[u]
    BY <1>4, GoOnTo DEF SendOnce, Owing
  <2>2. Owing(q, p) <=> p = ctx[q].p
    BY <1>4 DEF SendOnce, Owing
  <2>3. QED
    BY <1>00, <1>4, <2>1, <2>2 DEF SendOnce, Sent, NotSent
<1>5. CASE HookWrite(q)
  <2>1. CASE SendNext(q, ctx[q].p) /\ triggers' = [triggers EXCEPT ![ctx[q].p] = @ + 1]
    <3>1. /\ \A u \in Tasks \ {q} : pc'[u] = pc[u] /\ ctx'[u] = ctx[u]
          /\ Owing(q, p)' => p = ctx[q].p
      BY <2>1, GoOnTo, ShapeFields DEF Owing
    <3>2. QED
      BY <1>00, <1>5, <2>1, <3>1 DEF HookWrite
  <2>2. CASE Finish(q) /\ UNCHANGED triggers
    <3>1. ~Owing(q, p)' /\ \A u \in Tasks \ {q} : pc'[u] = pc[u] /\ ctx'[u] = ctx[u]
      BY <2>2, GoOnTo DEF Owing
    <3>2. QED
      BY <1>5, <2>2, <3>1 DEF HookWrite
  <2>3. QED
    BY <1>5, <2>1, <2>2 DEF HookWrite
<1>6. CASE HookSend(q)
  <2>1. CASE Sent(ctx[q].p) /\ Finish(q)
    <3>1. ~Owing(q, p)' /\ \A u \in Tasks \ {q} : pc'[u] = pc[u] /\ ctx'[u] = ctx[u]
      BY <2>1, GoOnTo DEF Owing
    <3>2. Owing(q, p) <=> p = ctx[q].p
      BY <1>6 DEF HookSend, Owing
    <3>3. QED
      BY <1>00, <1>6, <2>1, <3>1, <3>2 DEF HookSend, Sent
  <2>2. CASE NotSent /\ Goto(q, "hook_queue")
    <3>1. /\ \A u \in Tasks \ {q} : pc'[u] = pc[u] /\ ctx'[u] = ctx[u]
          /\ Owing(q, p)' <=> Owing(q, p)
      BY <1>6, <2>2, GoOnTo DEF HookSend, Owing
    <3>2. QED
      BY <1>6, <2>2, <3>1 DEF HookSend, NotSent
  <2>3. QED
    BY <1>6, <2>1, <2>2 DEF HookSend
<1>7. CASE HookQueue(q)
  <2>1. ~Owing(q, p)' /\ \A u \in Tasks \ {q} : pc'[u] = pc[u] /\ ctx'[u] = ctx[u]
    BY <1>7, GoOnTo DEF HookQueue, Owing
  <2>2. Owing(q, p) <=> p = ctx[q].p
    BY <1>7 DEF HookQueue, Owing
  <2>3. QED
    BY <1>00, <1>7, <2>1, <2>2 DEF HookQueue
<1>8. CASE CancelWrite(q)
  <2>1. ~Owing(q, p)' /\ \A u \in Tasks \ {q} : pc'[u] = pc[u] /\ ctx'[u] = ctx[u]
    BY <1>8, GoOnTo DEF CancelWrite, Owing
  <2>2. QED
    BY <1>8, <2>1 DEF CancelWrite
<1>9. QED
  BY <1>1, <1>2, <1>3, <1>4, <1>5, <1>6, <1>7, <1>8 DEF Receive, Answer

\* A request's step keeps the counts.
LEMMA RequestCounts ==
    ASSUME TypeOK, TypeOK', StartInv, NEW q \in Requests, Receive(q) \/ Answer(q),
           NEW p \in Publics, Counted(p)
    PROVE  Counted(p)'
<1>0. q \in Tasks /\ \A u \in Tasks \ {q} : pc'[u] = pc[u] /\ ctx'[u] = ctx[u]
  BY RequestEffect DEF Tasks
<1>1. \A u \in Procs : pc'[u] = pc[u] /\ ctx'[u] = ctx[u]
  BY RequestEffect, NamesAssumption DEF Tasks
<1>2. /\ IsFiniteSet(Owed(p)')
      /\ Cardinality(Owed(p)) \in Nat /\ Cardinality(Owed(p)') \in Nat
      /\ Cardinality(Owed(p)') + One(Owing(q, p))
           = Cardinality(Owed(p)) + One(Owing(q, p)')
  BY <1>0, OwedStep DEF Counted
<1>3. /\ sends[p] \in Nat /\ sends'[p] \in Nat /\ overlaps[p] \in Nat
      /\ triggers[p] \in Nat /\ faults \in Nat /\ faults' = faults /\ overlaps' = overlaps
  BY CountTypes, RequestEffect DEF TypeOK
<1>4. SendsCovered(p)
  BY DEF Counted
<1>5. CASE queue'[p] = queue[p] /\ attempts'[p] = attempts[p]
  <2>1. KeyWaits(p)' <=> KeyWaits(p)
    BY <1>1, <1>5 DEF KeyWaits, Holds
  <2>2. SendsCovered(p)'
    <3>1. \/ sends'[p] = sends[p] /\ triggers'[p] = triggers[p] /\ (Owing(q, p)' => Owing(q, p))
          \/ sends'[p] = sends[p] /\ triggers'[p] = triggers[p] + 1
          \/ sends'[p] = sends[p] + 1 /\ triggers'[p] = triggers[p]
             /\ Owing(q, p) /\ ~Owing(q, p)'
      BY RequestEffect
    <3>2. QED
      BY <1>2, <1>3, <1>4, <2>1, <3>1 DEF SendsCovered, One
  <2>3. overlaps'[p] = 0 => SoleHolder(p)' /\ AttemptsCovered(p)'
    BY <1>1, <1>3, <1>5, AttemptsKept DEF Counted
  <2>4. QED
    BY <1>2, <2>2, <2>3 DEF Counted
<1>6. CASE /\ sends'[p] = sends[p] /\ triggers'[p] = triggers[p]
           /\ Owing(q, p) /\ ~Owing(q, p)'
           /\ queue'[p] = {0} /\ attempts'[p] = 0
  <2>1. overlaps'[p] = 0 => SoleHolder(p)'
    BY <1>1, <1>3 DEF SoleHolder, Counted, Holds
  <2>2. SendsCovered(p)'
    BY <1>2, <1>3, <1>4, <1>6 DEF SendsCovered, One
  <2>3. AttemptsCovered(p)'
    <3>1. \A t \in Procs : ctx'[t].retries \in Nat
      BY DEF TypeOK, Tasks, Locals
    <3>2. QED
      BY <1>3, <1>6, <3>1 DEF AttemptsCovered, One
  <2>4. QED
    BY <1>2, <2>1, <2>2, <2>3 DEF Counted
<1>7. QED
  BY <1>5, <1>6, RequestEffect

\* A step of the only task that has the key.
LEMMA HolderMoves ==
    ASSUME NEW t \in Procs, NEW p, SoleHolder(p), Holds(t, p),
           \A u \in Procs \ {t} : pc'[u] = pc[u] /\ ctx'[u] = ctx[u]
    PROVE  /\ SoleHolder(p)' /\ \A u \in Procs : Holds(u, p)' => u = t
           /\ \A step \in {"pending_send", "delete", "requeue"} :
                /\ At(step, p) <=> pc[t] = step
                /\ At(step, p)' <=> pc'[t] = step /\ ctx'[t].p = p
<1>1. \A u \in Procs \ {t} : ~Holds(u, p) /\ ~Holds(u, p)'
  BY DEF SoleHolder, Holds
<1>2. SoleHolder(p)' /\ \A u \in Procs : Holds(u, p)' => u = t
  BY <1>1 DEF SoleHolder
<1>3. ASSUME NEW step \in {"pending_send", "delete", "requeue"}
      PROVE  /\ At(step, p) <=> pc[t] = step
             /\ At(step, p)' <=> pc'[t] = step /\ ctx'[t].p = p
  BY <1>1 DEF At, Holds
<1>4. QED
  BY <1>2, <1>3

\* A task's step, seen from one key.
LEMMA ProcFrame ==
    ASSUME TypeOK, NEW t \in Procs, Process(t)
    PROVE  /\ \A u \in Tasks \ {t} : pc'[u] = pc[u] /\ ctx'[u] = ctx[u]
           /\ pc'[t] \in ProcSteps /\ triggers' = triggers /\ faults' = faults
<1>0. t \in Tasks
  BY DEF Tasks
<1>1. triggers' = triggers /\ faults' = faults
  BY DEF Process, Spawn, GetKey, Look, PendingSend, DeleteKey, Requeue, GiveUp, FailRow,
         history
<1>2. CASE Spawn(t)
  BY <1>0, <1>1, <1>2 DEF Spawn, ProcSteps, TypeOK
<1>3. CASE GetKey(t)
  <2>1. PICK p \in ctx[t].todo :
            \/ NextKey(t, ctx[t].todo \ {p})
            \/ \E r \in queue[p] :
               /\ ctx' = [ctx EXCEPT ![t] = ProcLocals(p, r, ctx[t].todo \ {p})]
               /\ pc' = [pc EXCEPT ![t] = IF r >= MaxRetries THEN "give_up" ELSE "pending_send"]
    BY <1>3 DEF GetKey, Look
  <2>2. CASE NextKey(t, ctx[t].todo \ {p})
    BY <1>0, <1>1, <2>2, GoOnTo DEF ProcSteps
  <2>3. CASE ~NextKey(t, ctx[t].todo \ {p})
    BY <1>0, <1>1, <2>1, <2>3 DEF ProcSteps, TypeOK
  <2>4. QED
    BY <2>2, <2>3
<1>4. CASE PendingSend(t) \/ DeleteKey(t) \/ Requeue(t) \/ GiveUp(t) \/ FailRow(t)
  BY <1>0, <1>1, <1>4, GoOnTo DEF PendingSend, DeleteKey, Requeue, GiveUp, FailRow, ProcSteps
<1>5. QED
  BY <1>2, <1>3, <1>4 DEF Process

\* A task that does not have the key of p leaves its counts alone.
LEMMA BystanderCounts ==
    ASSUME TypeOK, StartInv, NEW t \in Procs, Process(t), NEW p \in Publics,
           ~Holds(t, p), ~Holds(t, p)'
    PROVE  /\ queue'[p] = queue[p] /\ attempts'[p] = attempts[p] /\ sends'[p] = sends[p]
           /\ overlaps'[p] = overlaps[p]
<1> USE DEF TypeOK, chargerVars, history
<1>1. CASE Spawn(t) \/ FailRow(t)
  BY <1>1 DEF Spawn, FailRow
<1>2. CASE GetKey(t)
  <2>1. PICK k \in ctx[t].todo :
            \/ UNCHANGED overlaps
            \/ \E r \in queue[k] :
               /\ ctx' = [ctx EXCEPT ![t] = ProcLocals(k, r, ctx[t].todo \ {k})]
               /\ pc' = [pc EXCEPT ![t] = IF r >= MaxRetries THEN "give_up" ELSE "pending_send"]
               /\ overlaps' \in {overlaps, [overlaps EXCEPT ![k] = @ + 1]}
    BY <1>2 DEF GetKey, Look
  <2>2. CASE overlaps' # overlaps
    <3>1. PICK r \in queue[k] :
              /\ ctx'[t] = ProcLocals(k, r, ctx[t].todo \ {k})
              /\ pc'[t] \in {"give_up", "pending_send"}
              /\ overlaps' = [overlaps EXCEPT ![k] = @ + 1]
      BY <2>1, <2>2 DEF Tasks
    <3>2. k # p
      BY <3>1, ShapeFields DEF Holds
    <3>3. QED
      BY <1>2, <3>1, <3>2 DEF GetKey, Look
  <2>3. QED
    BY <1>2, <2>2 DEF GetKey, Look
<1>3. CASE PendingSend(t)
  <2>1. ctx[t].p # p
    BY <1>3 DEF PendingSend, Holds
  <2>2. QED
    BY <1>3, <2>1 DEF PendingSend, Sent, NotSent
<1>4. CASE DeleteKey(t) \/ Requeue(t) \/ GiveUp(t)
  <2>1. ctx[t].p # p
    BY <1>4 DEF DeleteKey, Requeue, GiveUp, Holds
  <2>2. QED
    BY <1>4, <2>1 DEF DeleteKey, Requeue, GiveUp
<1>5. QED
  BY <1>1, <1>2, <1>3, <1>4 DEF Process

\* A task that takes the key of p.
LEMMA KeyTaken ==
    ASSUME TypeOK, NEW t \in Procs, Process(t), NEW p \in Publics, ~Holds(t, p), Holds(t, p)'
    PROVE  /\ pc'[t] \in {"pending_send", "give_up"} /\ ctx'[t].retries \in queue[p]
           /\ queue' = queue /\ attempts' = attempts /\ sends' = sends
           /\ \/ (\A u \in Procs : ~Holds(u, p)) /\ overlaps' = overlaps
              \/ overlaps'[p] = overlaps[p] + 1
<1>0. t \in Tasks
  BY DEF Tasks
<1>1. CASE GetKey(t)
  <2>1. PICK k \in ctx[t].todo :
            \/ NextKey(t, ctx[t].todo \ {k})
            \/ \E r \in queue[k] :
               /\ ctx' = [ctx EXCEPT ![t] = ProcLocals(k, r, ctx[t].todo \ {k})]
               /\ pc' = [pc EXCEPT ![t] = IF r >= MaxRetries THEN "give_up" ELSE "pending_send"]
               /\ \/ (\A u \in Procs : ~Holds(u, k)) /\ UNCHANGED overlaps
                  \/ overlaps' = [overlaps EXCEPT ![k] = @ + 1]
    BY <1>1 DEF GetKey, Look
  <2>2. ~NextKey(t, ctx[t].todo \ {k})
    BY <1>0, GoOnTo DEF Holds
  <2>3. PICK r \in queue[k] :
            /\ ctx'[t] = ProcLocals(k, r, ctx[t].todo \ {k})
            /\ pc'[t] = IF r >= MaxRetries THEN "give_up" ELSE "pending_send"
            /\ \/ (\A u \in Procs : ~Holds(u, k)) /\ UNCHANGED overlaps
               \/ overlaps' = [overlaps EXCEPT ![k] = @ + 1]
    BY <1>0, <2>1, <2>2 DEF TypeOK
  <2>4. k = p /\ ctx'[t].retries = r
    BY <2>3, ShapeFields DEF Holds
  <2>5. overlaps \in [Publics -> Nat]
    BY DEF TypeOK
  <2>6. \/ (\A u \in Procs : ~Holds(u, p)) /\ overlaps' = overlaps
        \/ overlaps'[p] = overlaps[p] + 1
    BY <2>3, <2>4, <2>5
  <2>7. QED
    BY <1>1, <2>3, <2>4, <2>6 DEF GetKey, Look
<1>2. ~Spawn(t)
  BY <1>0 DEF Spawn, Holds, TypeOK
<1>3. ~FailRow(t)
  BY <1>0, GoOnTo DEF FailRow, Holds
<1>4. ~(DeleteKey(t) \/ Requeue(t))
  BY <1>0, GoOnTo DEF DeleteKey, Requeue, Holds
<1>5. ~(PendingSend(t) \/ GiveUp(t))
  BY <1>0, GoOnTo DEF PendingSend, GiveUp, Holds
<1>6. QED
  BY <1>1, <1>2, <1>3, <1>4, <1>5 DEF Process

\* What a task does that has the key of p: it sends the start, fails to, deletes the
\* key, puts it back, or gives up.
LEMMA HolderEffect ==
    ASSUME TypeOK, StartInv, NEW t \in Procs, Process(t), NEW p \in Publics, Holds(t, p)
    PROVE  /\ overlaps' = overlaps /\ ctx[t].p = p
           /\ \/ /\ pc[t] = "pending_send" /\ pc'[t] = "delete" /\ ctx'[t] = ctx[t]
                 /\ sends'[p] = sends[p] + 1 /\ queue' = queue /\ attempts' = attempts
              \/ /\ pc[t] = "pending_send" /\ pc'[t] = "requeue" /\ ctx'[t] = ctx[t]
                 /\ sends' = sends /\ queue' = queue /\ attempts'[p] = Capped(attempts[p])
              \/ /\ pc[t] \in {"delete", "give_up"} /\ pc'[t] \in {"idle", "scan", "fail_row"}
                 /\ sends' = sends /\ queue'[p] = {} /\ attempts' = attempts
              \/ /\ pc[t] = "requeue" /\ pc'[t] \in {"idle", "scan"}
                 /\ sends' = sends /\ queue'[p] = {ctx[t].retries + 1} /\ attempts' = attempts
<1>0. t \in Tasks /\ ctx[t].p = p
  BY DEF Tasks, Holds
<1>1. CASE PendingSend(t) /\ Sent(p) /\ Goto(t, "delete")
  <2>1. pc[t] = "pending_send" /\ pc'[t] = "delete" /\ ctx'[t] = ctx[t]
    BY <1>0, <1>1, GoOnTo DEF PendingSend
  <2>2. queue' = queue /\ attempts' = attempts /\ sends'[p] = sends[p] + 1 /\ overlaps' = overlaps
    BY <1>0, <1>1, <2>1 DEF PendingSend, Sent, TypeOK, Goto
  <2>3. QED
    BY <1>0, <2>1, <2>2
<1>2. CASE PendingSend(t) /\ ~(Sent(p) /\ Goto(t, "delete"))
  <2>1. /\ pc[t] = "pending_send" /\ pc'[t] = "requeue" /\ ctx'[t] = ctx[t]
        /\ queue' = queue /\ attempts'[p] = Capped(attempts[p]) /\ sends' = sends
        /\ overlaps' = overlaps
    BY <1>0, <1>2, GoOnTo DEF PendingSend, NotSent, TypeOK
  <2>2. QED
    BY <1>0, <2>1
<1>3. CASE DeleteKey(t)
  <2>1. /\ pc[t] = "delete" /\ pc'[t] \in {"idle", "scan"}
        /\ queue'[p] = {} /\ attempts' = attempts /\ sends' = sends /\ overlaps' = overlaps
    BY <1>0, <1>3, GoOnTo DEF DeleteKey, history, TypeOK
  <2>2. QED
    BY <1>0, <2>1
<1>4. CASE Requeue(t)
  <2>1. /\ pc[t] = "requeue" /\ pc'[t] \in {"idle", "scan"}
        /\ queue'[p] = {ctx[t].retries + 1} /\ attempts' = attempts /\ sends' = sends
        /\ overlaps' = overlaps
    BY <1>0, <1>4, GoOnTo DEF Requeue, history, TypeOK
  <2>2. QED
    BY <1>0, <2>1
<1>5. CASE GiveUp(t)
  <2>1. /\ pc[t] = "give_up" /\ pc'[t] = "fail_row"
        /\ queue'[p] = {} /\ attempts' = attempts /\ sends' = sends /\ overlaps' = overlaps
    BY <1>0, <1>5, GoOnTo DEF GiveUp, history, TypeOK
  <2>2. QED
    BY <1>0, <2>1
<1>6. ~(Spawn(t) \/ GetKey(t) \/ FailRow(t))
  BY DEF Holds, Spawn, GetKey, Look, FailRow
<1>7. QED
  BY <1>1, <1>2, <1>3, <1>4, <1>5, <1>6 DEF Process

\* A task that takes the key of p owes its start from then on, and the key waits no
\* more; when another task has it too, that is an overlap.
LEMMA ProcSends ==
    ASSUME TypeOK, TypeOK', StartInv, NEW t \in Procs, Process(t),
           NEW p \in Publics, Counted(p)
    PROVE  IsFiniteSet(Owed(p)') /\ SendsCovered(p)' /\ overlaps[p] <= overlaps'[p]
<1>0. t \in Tasks /\ Procs \subseteq Tasks
  BY DEF Tasks
<1>1. /\ \A u \in Tasks \ {t} : pc'[u] = pc[u] /\ ctx'[u] = ctx[u]
      /\ pc'[t] \in ProcSteps /\ triggers' = triggers /\ faults' = faults
  BY ProcFrame
<1>2. /\ IsFiniteSet(Owed(p)')
      /\ Cardinality(Owed(p)) \in Nat /\ Cardinality(Owed(p)') \in Nat
      /\ Cardinality(Owed(p)') + One(Owing(t, p))
           = Cardinality(Owed(p)) + One(Owing(t, p)')
  BY <1>0, <1>1, OwedStep DEF Counted
<1>3. /\ sends[p] \in Nat /\ sends'[p] \in Nat /\ overlaps[p] \in Nat /\ overlaps'[p] \in Nat
      /\ triggers[p] \in Nat /\ faults \in Nat
  BY CountTypes DEF TypeOK
<1>4. SendsCovered(p)
  BY DEF Counted
<1>5. CASE ~Holds(t, p) /\ ~Holds(t, p)'
  <2>1. queue'[p] = queue[p] /\ sends'[p] = sends[p] /\ overlaps'[p] = overlaps[p]
    BY <1>5, BystanderCounts
  <2>2. KeyWaits(p)' <=> KeyWaits(p)
    BY <1>0, <1>1, <1>5, <2>1 DEF KeyWaits, Holds
  <2>3. ~Owing(t, p)'
    BY <1>1, <1>5 DEF Owing, Holds, ProcSteps
  <2>4. QED
    BY <1>1, <1>2, <1>3, <1>4, <2>1, <2>2, <2>3 DEF SendsCovered, One
<1>6. CASE ~Holds(t, p) /\ Holds(t, p)'
  <2>1. /\ queue' = queue /\ sends' = sends
        /\ \/ (\A u \in Procs : ~Holds(u, p)) /\ overlaps' = overlaps
           \/ overlaps'[p] = overlaps[p] + 1
        /\ \E r \in queue[p] : TRUE
    BY <1>6, KeyTaken
  <2>2. ~KeyWaits(p)'
    BY <1>6 DEF KeyWaits
  <2>3. CASE (\A u \in Procs : ~Holds(u, p)) /\ overlaps' = overlaps
    <3>1. KeyWaits(p)
      BY <2>1, <2>3 DEF KeyWaits
    <3>2. QED
      BY <1>1, <1>2, <1>3, <1>4, <2>1, <2>2, <2>3, <3>1 DEF SendsCovered, One
  <2>4. CASE overlaps'[p] = overlaps[p] + 1
    BY <1>1, <1>2, <1>3, <1>4, <2>1, <2>2, <2>4 DEF SendsCovered, One
  <2>5. QED
    BY <2>1, <2>3, <2>4
<1>7. CASE Holds(t, p)
  <2>1. ~KeyWaits(p) /\ overlaps' = overlaps /\ ctx[t].p = p
    BY <1>7, HolderEffect DEF KeyWaits
  <2>2. CASE /\ pc[t] = "pending_send" /\ pc'[t] = "delete" /\ ctx'[t] = ctx[t]
             /\ sends'[p] = sends[p] + 1
    <3>1. Owing(t, p) /\ ~Owing(t, p)' /\ ~KeyWaits(p)'
      BY <2>1, <2>2 DEF Owing, KeyWaits, Holds
    <3>2. QED
      BY <1>1, <1>2, <1>3, <1>4, <2>1, <2>2, <3>1 DEF SendsCovered, One
  <2>3. CASE /\ pc[t] = "pending_send" /\ pc'[t] = "requeue" /\ ctx'[t] = ctx[t]
             /\ sends' = sends
    <3>1. Owing(t, p) /\ ~KeyWaits(p)'
      BY <2>1, <2>3 DEF Owing, KeyWaits, Holds
    <3>2. QED
      BY <1>1, <1>2, <1>3, <1>4, <2>1, <2>3, <3>1 DEF SendsCovered, One
  <2>4. CASE /\ pc[t] \in {"delete", "give_up"} /\ pc'[t] \in {"idle", "scan", "fail_row"}
             /\ sends' = sends /\ queue'[p] = {}
    <3>1. ~Owing(t, p)' /\ ~KeyWaits(p)'
      BY <2>4 DEF Owing, KeyWaits
    <3>2. QED
      BY <1>1, <1>2, <1>3, <1>4, <2>1, <2>4, <3>1 DEF SendsCovered, One
  <2>5. CASE /\ pc[t] = "requeue" /\ pc'[t] \in {"idle", "scan"} /\ sends' = sends
    <3>1. Owing(t, p) /\ ~Owing(t, p)'
      BY <2>1, <2>5 DEF Owing
    <3>2. QED
      BY <1>1, <1>2, <1>3, <1>4, <2>1, <2>5, <3>1 DEF SendsCovered, One
  <2>6. QED
    BY <1>7, <2>2, <2>3, <2>4, <2>5, HolderEffect
<1>8. QED
  BY <1>5, <1>6, <1>7

\* As long as there was no overlap, the one task that has the key accounts for the
\* failed attempts.
LEMMA ProcAttempts ==
    ASSUME TypeOK, TypeOK', StartInv, NEW t \in Procs, Process(t),
           NEW p \in Publics, SoleHolder(p), AttemptsCovered(p), overlaps'[p] = overlaps[p]
    PROVE  SoleHolder(p)' /\ AttemptsCovered(p)'
<1>0. t \in Tasks /\ Procs \subseteq Tasks
  BY DEF Tasks
<1>1. (\A u \in Procs \ {t} : pc'[u] = pc[u] /\ ctx'[u] = ctx[u]) /\ faults' = faults
  BY <1>0, ProcFrame
<1>2. /\ attempts[p] \in Nat /\ attempts'[p] \in Nat /\ faults \in Nat /\ overlaps[p] \in Nat
      /\ Capped(attempts[p]) \in Nat /\ Capped(attempts[p]) <= attempts[p] + 1
      /\ \A r \in queue[p] : r \in Nat
      /\ ctx[t].retries \in Nat
  <2>1. ctx[t].retries \in 0..MaxRetries
    BY <1>0, FieldTypes
  <2>2. QED
    BY <2>1, CountTypes, CappedGrows DEF TypeOK
<1>3. CASE ~Holds(t, p) /\ ~Holds(t, p)'
  <2>1. queue'[p] = queue[p] /\ attempts'[p] = attempts[p]
    BY <1>3, BystanderCounts
  <2>2. QED
    BY <1>1, <1>3, <2>1, AttemptsKept
<1>4. CASE ~Holds(t, p) /\ Holds(t, p)'
  <2>1. /\ pc'[t] \in {"pending_send", "give_up"} /\ ctx'[t].retries \in queue[p]
        /\ queue' = queue /\ attempts' = attempts
        /\ \A u \in Procs : ~Holds(u, p)
    BY <1>2, <1>4, KeyTaken
  <2>2. \A u \in Procs \ {t} : ~Holds(u, p)'
    BY <1>1, <2>1 DEF Holds
  <2>3. ~At("requeue", p) /\ ~At("requeue", p)'
    BY <2>1, <2>2 DEF At, Holds
  <2>4. attempts[p] <= ctx'[t].retries + faults
    BY <1>2, <2>1, <2>3 DEF AttemptsCovered, One
  <2>5. \A u \in Procs : ctx'[u].p = p /\ pc'[u] \in {"pending_send", "requeue"} => u = t
    BY <2>2 DEF Holds
  <2>6. AttemptsCovered(p)'
    BY <1>1, <1>2, <2>1, <2>3, <2>4, <2>5 DEF AttemptsCovered, One
  <2>7. QED
    BY <2>2, <2>6 DEF SoleHolder
<1>5. CASE Holds(t, p)
  <2>1. /\ SoleHolder(p)' /\ \A u \in Procs : Holds(u, p)' => u = t
        /\ At("requeue", p) <=> pc[t] = "requeue"
        /\ At("requeue", p)' <=> pc'[t] = "requeue" /\ ctx'[t].p = p
    BY <1>1, <1>5, HolderMoves
  <2>2. \A u \in Procs : ctx'[u].p = p /\ pc'[u] \in {"pending_send", "requeue"} => u = t
    BY <2>1 DEF Holds
  <2>3. ctx[t].p = p
    BY <1>5 DEF Holds
  <2>4. CASE /\ pc[t] = "pending_send" /\ pc'[t] = "delete" /\ ctx'[t] = ctx[t]
             /\ queue' = queue /\ attempts' = attempts
    BY <1>1, <1>2, <2>1, <2>2, <2>4 DEF AttemptsCovered, One
  <2>5. CASE /\ pc[t] = "pending_send" /\ pc'[t] = "requeue" /\ ctx'[t] = ctx[t]
             /\ queue' = queue /\ attempts'[p] = Capped(attempts[p])
    <3>1. ctx[t].retries < 3 /\ attempts[p] <= ctx[t].retries + faults
      BY <1>0, <2>3, <2>5 DEF AttemptsCovered, StartInv, TaskInv, RetryLeft
    <3>2. attempts'[p] <= MaxRetries + faults /\ attempts'[p] <= ctx[t].retries + 1 + faults
      BY <1>2, <2>5, <3>1
    <3>3. \A r \in queue[p] : attempts[p] <= r + faults
      BY <1>2, <2>1, <2>5 DEF AttemptsCovered, One
    <3>4. \A r \in queue[p] : attempts'[p] <= r + faults + 1
      BY <1>2, <2>5, <3>3
    <3>5. At("requeue", p)'
      BY <2>1, <2>3, <2>5
    <3>6. AttemptsCovered(p)'
      BY <1>1, <2>2, <2>5, <3>2, <3>4, <3>5 DEF AttemptsCovered, One
    <3>7. QED
      BY <2>1, <3>6
  <2>6. CASE /\ pc[t] \in {"delete", "give_up"} /\ pc'[t] \in {"idle", "scan", "fail_row"}
             /\ queue'[p] = {} /\ attempts' = attempts
    <3>1. AttemptsCovered(p)'
      BY <1>1, <2>2, <2>6 DEF AttemptsCovered
    <3>2. QED
      BY <2>1, <3>1
  <2>7. CASE /\ pc[t] = "requeue" /\ pc'[t] \in {"idle", "scan"}
             /\ queue'[p] = {ctx[t].retries + 1} /\ attempts' = attempts
    <3>1. attempts[p] <= ctx[t].retries + 1 + faults
      BY <2>3, <2>7 DEF AttemptsCovered
    <3>2. ~At("requeue", p)'
      BY <2>1, <2>7
    <3>3. AttemptsCovered(p)'
      BY <1>1, <1>2, <2>2, <2>7, <3>1, <3>2 DEF AttemptsCovered, One
    <3>4. QED
      BY <2>1, <3>3
  <2>8. QED
    BY <1>5, <2>4, <2>5, <2>6, <2>7, HolderEffect
<1>6. QED
  BY <1>3, <1>4, <1>5

\* A task's step keeps the counts.
LEMMA ProcCounts ==
    ASSUME TypeOK, TypeOK', StartInv, NEW t \in Procs, Process(t),
           NEW p \in Publics, Counted(p)
    PROVE  Counted(p)'
<1>1. IsFiniteSet(Owed(p)') /\ SendsCovered(p)' /\ overlaps[p] <= overlaps'[p]
  BY ProcSends
<1>2. overlaps[p] \in Nat /\ overlaps'[p] \in Nat
  BY DEF TypeOK
<1>3. overlaps'[p] = 0 => SoleHolder(p)' /\ AttemptsCovered(p)'
  BY <1>1, <1>2, ProcAttempts DEF Counted
<1>4. QED
  BY <1>1, <1>3 DEF Counted

\* A failure sends and counts nothing; whatever key or task it stops is made up for
\* by its own count.
LEMMA FailureCounts ==
    ASSUME TypeOK, NEW p \in Publics, Counted(p),
           sends' = sends, triggers' = triggers, attempts' = attempts, overlaps' = overlaps,
           faults' = faults + 1, queue'[p] \subseteq queue[p], Owed(p)' \subseteq Owed(p),
           \A u \in Procs : Holds(u, p)' => pc'[u] = pc[u] /\ ctx'[u] = ctx[u]
    PROVE  Counted(p)'
<1>1. /\ IsFiniteSet(Owed(p)')
      /\ Cardinality(Owed(p)) \in Nat /\ Cardinality(Owed(p)') \in Nat
      /\ Cardinality(Owed(p)') <= Cardinality(Owed(p))
  <2>1. IsFiniteSet(Owed(p)) /\ Owed(p)' \in SUBSET Owed(p)
    BY DEF Counted
  <2>2. IsFiniteSet(Owed(p)') /\ Cardinality(Owed(p)') <= Cardinality(Owed(p))
    BY <2>1, FS_Subset
  <2>3. QED
    BY <2>1, <2>2, FS_CardinalityType
<1>2. SendsCovered(p) /\ (overlaps[p] = 0 => SoleHolder(p) /\ AttemptsCovered(p))
  BY DEF Counted
<1>3. /\ sends[p] \in Nat /\ overlaps[p] \in Nat /\ attempts[p] \in Nat /\ triggers[p] \in Nat /\ faults \in Nat
      /\ \A r \in queue[p] : r \in Nat
      /\ \A u \in Procs : ctx[u].retries \in Nat
  <2>1. \A u \in Procs : ctx[u].retries \in 0..MaxRetries
    BY FieldTypes DEF Tasks
  <2>2. QED
    BY <2>1, CountTypes
<1>4. SendsCovered(p)'
  BY <1>1, <1>2, <1>3 DEF SendsCovered, One
<1>5. ASSUME SoleHolder(p), AttemptsCovered(p) PROVE SoleHolder(p)' /\ AttemptsCovered(p)'
  <2>1. SoleHolder(p)'
    BY <1>5 DEF SoleHolder, Holds
  <2>2. \A r \in queue'[p] : attempts'[p] <= r + faults' + One(At("requeue", p)')
    <3>1. \A r \in queue[p] : attempts[p] <= r + faults + 1
      BY <1>3, <1>5 DEF AttemptsCovered, One
    <3>2. QED
      BY <1>3, <3>1 DEF One
  <2>3. \A u \in Procs : ctx'[u].p = p =>
            /\ pc'[u] = "pending_send" => attempts'[p] <= ctx'[u].retries + faults'
            /\ pc'[u] = "requeue" => attempts'[p] <= ctx'[u].retries + 1 + faults'
    <3>1. SUFFICES ASSUME NEW u \in Procs, ctx'[u].p = p,
                          pc'[u] \in {"pending_send", "requeue"}
                   PROVE  /\ pc'[u] = "pending_send" => attempts'[p] <= ctx'[u].retries + faults'
                          /\ pc'[u] = "requeue" => attempts'[p] <= ctx'[u].retries + 1 + faults'
      OBVIOUS
    <3>2. pc'[u] = pc[u] /\ ctx'[u] = ctx[u]
      BY <3>1 DEF Holds
    <3>3. QED
      BY <1>3, <1>5, <3>1, <3>2 DEF AttemptsCovered
  <2>4. attempts'[p] <= MaxRetries + faults'
    BY <1>3, <1>5 DEF AttemptsCovered
  <2>5. QED
    BY <2>1, <2>2, <2>3, <2>4 DEF AttemptsCovered
<1>6. QED
  BY <1>1, <1>2, <1>4, <1>5 DEF Counted

\* The steps of the charger and the failures keep the counts.
LEMMA OtherCounts ==
    ASSUME TypeOK, TypeOK', NEW p \in Publics, Counted(p),
           \/ \E t \in Tasks : Fault(t)
           \/ \E k \in Publics : Accept(k) \/ Expire(k)
           \/ Link \/ Stop \/ Crash \/ UNCHANGED vars
    PROVE  Counted(p)'
<1>1. ASSUME NEW t \in Tasks, Fault(t) PROVE Counted(p)'
  <2>1. /\ pc'[t] \in {"idle", "scan"}
        /\ \A u \in Tasks \ {t} : pc'[u] = pc[u] /\ ctx'[u] = ctx[u]
    BY <1>1, GoOnTo DEF Fault
  <2>2. Owed(p)' \subseteq Owed(p)
    BY <2>1 DEF Owed, Owing, Tasks
  <2>3. \A u \in Procs : Holds(u, p)' => pc'[u] = pc[u] /\ ctx'[u] = ctx[u]
    BY <2>1 DEF Holds, Tasks
  <2>4. QED
    BY <1>1, <2>2, <2>3, FailureCounts DEF Fault
<1>2. CASE Crash
  <2>1. Owed(p)' \subseteq Owed(p) /\ \A u \in Procs : ~Holds(u, p)'
    BY <1>2 DEF Crash, Owed, Owing, Holds, Tasks
  <2>2. QED
    BY <1>2, <2>1, FailureCounts DEF Crash
<1>3. ASSUME NEW k \in Publics, Expire(k) PROVE Counted(p)'
  <2>1. queue'[p] \subseteq queue[p] /\ pc' = pc /\ ctx' = ctx
    BY <1>3 DEF Expire, TypeOK
  <2>2. Owed(p)' = Owed(p)
    BY <2>1, OwedKept
  <2>3. QED
    BY <1>3, <2>1, <2>2, FailureCounts DEF Expire
<1>4. ASSUME UNCHANGED <<queue, pc, ctx, sends, history>> PROVE Counted(p)'
  BY <1>4 DEF history, Counted, Owed, Owing, SoleHolder, SendsCovered, AttemptsCovered,
              KeyWaits, At, Holds
<1>5. CASE (\E k \in Publics : Accept(k)) \/ Link \/ Stop \/ UNCHANGED vars
  BY <1>4, <1>5 DEF Accept, Link, Stop, vars
<1>6. QED
  BY <1>1, <1>2, <1>3, <1>5

CountInv == \A p \in Publics : Counted(p)

\* Every step keeps the counts.
LEMMA CountStep == TypeOK /\ TypeOK' /\ StartInv /\ CountInv /\ [Next]_vars => CountInv'
<1> SUFFICES ASSUME TypeOK, TypeOK', StartInv, CountInv, [Next]_vars,
                    NEW p \in Publics
             PROVE  Counted(p)'
  BY DEF CountInv
<1>0. Counted(p)
  BY DEF CountInv
<1>1. ASSUME NEW q \in Requests, Receive(q) \/ Answer(q) PROVE Counted(p)'
  BY <1>0, <1>1, RequestCounts
<1>2. ASSUME NEW t \in Procs, Process(t) PROVE Counted(p)'
  BY <1>0, <1>2, ProcCounts
<1>3. CASE \/ \E t \in Tasks : Fault(t)
           \/ \E k \in Publics : Accept(k) \/ Expire(k)
           \/ Link \/ Stop \/ Crash \/ UNCHANGED vars
  BY <1>0, <1>3, OtherCounts
<1>4. QED
  BY <1>1, <1>2, <1>3 DEF Next, Tasks

-----------------------------------------------------------------------------
(* The contract *)

Failed == {p \in Publics : pay[p] = "remote_start_failed"}

\* What a change of the counters, or of one payment status, is to PaidStart.
LEMMA Mapped ==
    ASSUME TypeOK, TypeOK'
    PROVE  /\ Due = [p \in Publics |-> (triggers[p] + faults + overlaps[p]) - sends[p]]
           /\ Due' = [p \in Publics |-> (triggers'[p] + faults' + overlaps'[p]) - sends'[p]]
           /\ \A p \in Publics : /\ triggers[p] \in Nat /\ sends[p] \in Nat /\ overlaps[p] \in Nat
                                 /\ triggers'[p] \in Nat /\ sends'[p] \in Nat /\ overlaps'[p] \in Nat
           /\ faults \in Nat /\ faults' \in Nat
BY DEF TypeOK, Due

\* Without a message, a trigger, an overlap or a failure no more starts are due.
LEMMA DueKept ==
    ASSUME UNCHANGED <<sends, triggers, overlaps, faults>>
    PROVE  Due' = Due
BY DEF Due

\* One more is due once a session has been paid.
LEMMA DuePaid ==
    ASSUME TypeOK, TypeOK', NEW p \in Publics, triggers' = [triggers EXCEPT ![p] = @ + 1],
           UNCHANGED <<sends, overlaps, faults>>
    PROVE  Due' = [Due EXCEPT ![p] = @ + 1]
<1>1. Due'[p] = Due[p] + 1
  BY Mapped DEF TypeOK
<1>2. \A k \in Publics \ {p} : Due'[k] = Due[k]
  BY Mapped DEF TypeOK
<1>3. QED
  BY <1>1, <1>2, Mapped

\* A status other than "remote_start_failed" is written.
LEMMA FailedLeft ==
    ASSUME TypeOK, NEW p \in Publics, NEW status, status # "remote_start_failed",
           pay' = [pay EXCEPT ![p] = status]
    PROVE  Failed' = Failed \ {p}
BY DEF TypeOK, Failed

USE DEF Paid!charger, chargerVars, row, history

\* A request that writes no payment, sends nothing and touches no row but a fresh one is
\* none of the contract's business.
LEMMA StutterIs ==
    ASSUME UNCHANGED <<paid, pay, sends, triggers, overlaps, faults, chargerVars, started, stopped>>
    PROVE  UNCHANGED Paid!startVars
BY DueKept DEF Paid!startVars

\* A message goes out to the charger, if a start is due.
LEMMA SentIsSend ==
    ASSUME TypeOK, TypeOK', SentOncePerTrigger', NEW p \in paid, Sent(p),
           UNCHANGED <<pay, paid, started, stopped, triggers, overlaps, faults>>
    PROVE  Paid!Send(p)
<1>0. p \in Publics
  BY DEF TypeOK
<1>1. sends'[p] = sends[p] + 1 /\ \A k \in Publics \ {p} : sends'[k] = sends[k]
  BY <1>0 DEF Sent, TypeOK
<1>2. Due[p] > 0
  <2>1. sends'[p] <= triggers[p] + faults + overlaps[p]
    BY <1>0 DEF SentOncePerTrigger
  <2>2. QED
    BY <1>0, <1>1, <2>1, Mapped
<1>3. Due' = [Due EXCEPT ![p] = @ - 1]
  <2>1. Due'[p] = Due[p] - 1
    BY <1>0, <1>1, Mapped
  <2>2. \A k \in Publics \ {p} : Due'[k] = Due[k]
    BY <1>0, <1>1, Mapped
  <2>3. QED
    BY <2>1, <2>2, Mapped
<1>4. inbox' \in {inbox, [inbox EXCEPT ![p] = @ + 1]}
  <2>1. inbox' = [inbox EXCEPT ![p] = Capped(inbox[p])]
    BY DEF Sent
  <2>2. inbox[p] \in 0..MaxCount /\ inbox \in [Publics -> 0..MaxCount]
    BY <1>0 DEF TypeOK
  <2>3. CASE inbox[p] < MaxCount
    BY <2>1, <2>3 DEF Capped
  <2>4. CASE ~(inbox[p] < MaxCount)
    <3>1. Capped(inbox[p]) = inbox[p]
      BY <2>2, <2>4, BoundsAssumption DEF Capped
    <3>2. QED
      BY <2>1, <2>2, <3>1
  <2>5. QED
    BY <2>3, <2>4
<1>5. QED
  BY <1>2, <1>3, <1>4 DEF Sent, Paid!Send

\* A failure excuses one more start of every session.
LEMMA FaultIsExcuse ==
    ASSUME TypeOK, TypeOK', faults' = faults + 1,
           UNCHANGED <<pay, paid, started, stopped, sends, triggers, overlaps, chargerVars>>
    PROVE  Paid!Excuse(Publics)
<1>1. \A p \in Publics : Due'[p] = Due[p] + 1
  BY Mapped
<1>2. Due' = [p \in Publics |-> IF p \in Publics THEN Due[p] + 1 ELSE Due[p]]
  BY <1>1, Mapped
<1>3. QED
  BY <1>2 DEF Paid!Excuse

\* Every step of a request pays, withdraws, sends, or is none of the contract's business.
LEMMA RequestMaps ==
    ASSUME TypeOK, TypeOK', StartInv, SentOncePerTrigger', NEW q \in Requests,
           Receive(q) \/ Answer(q)
    PROVE  Paid!Next \/ UNCHANGED Paid!startVars
<1>0. q \in Tasks
  BY DEF Tasks
<1>1. CASE Create(q)
  <2>1. PICK p \in Publics, status \in {"authorized", "pending"} :
            /\ pay[p] = "none"
            /\ pay' = [pay EXCEPT ![p] = status]
            /\ IF status = "authorized"
               THEN /\ paid' = paid \cup {p}
                    /\ triggers' = [triggers EXCEPT ![p] = @ + 1]
               ELSE UNCHANGED <<paid, triggers>>
    BY <1>1 DEF Create
  <2>2. Failed' = Failed \ {p} /\ Failed' = Failed
    BY <2>1, FailedLeft DEF Failed
  <2>3. CASE status = "authorized"
    <3>1. Due' = [Due EXCEPT ![p] = @ + 1]
      BY <1>1, <2>1, <2>3, DuePaid DEF Create
    <3>2. Paid!Pay(p)
      BY <1>1, <2>1, <2>2, <2>3, <3>1 DEF Create, Failed, Paid!Pay
    <3>3. QED
      BY <3>2 DEF Paid!Next
  <2>4. CASE status = "pending"
    <3>1. Due' = Due
      BY <1>1, <2>1, <2>4, DueKept DEF Create
    <3>2. QED
      BY <1>1, <2>1, <2>2, <2>4, <3>1 DEF Create, Failed, Paid!startVars
  <2>5. QED
    BY <2>1, <2>3, <2>4
<1>2. CASE StripePaid(q)
  <2>1. PICK p \in Publics :
            /\ pay' = [pay EXCEPT ![p] = "paid"]
            /\ paid' = paid \cup {p}
            /\ triggers' = [triggers EXCEPT ![p] = @ + 1]
    BY <1>2 DEF StripePaid
  <2>2. Failed' = Failed \ {p}
    BY <2>1, FailedLeft
  <2>3. Due' = [Due EXCEPT ![p] = @ + 1]
    BY <1>2, <2>1, DuePaid DEF StripePaid
  <2>4. Paid!Pay(p)
    BY <1>2, <2>1, <2>2, <2>3 DEF StripePaid, Failed, Paid!Pay
  <2>5. QED
    BY <2>4 DEF Paid!Next
<1>3. CASE HookWrite(q)
  <2>1. PICK p \in Publics, status \in Statuses :
            p = ctx[q].p /\ status = ctx[q].status /\ status # "remote_start_failed"
    BY <1>0, <1>3, FieldTypes DEF HookWrite, StartInv, TaskInv, RowKnown
  <2>2. /\ pay' = [pay EXCEPT ![p] = status]
        /\ paid' = IF status \in Paying THEN paid \cup {p} ELSE paid
        /\ \/ status \in Paying /\ triggers' = [triggers EXCEPT ![p] = @ + 1]
           \/ UNCHANGED triggers
        /\ UNCHANGED <<started, stopped, inbox, plug, txn, sends, overlaps, faults>>
    BY <1>3, <2>1 DEF HookWrite
  <2>3. Failed' = Failed \ {p}
    BY <2>1, <2>2, FailedLeft
  <2>4. CASE status \in Paying
    <3>1. Due' \in {Due, [Due EXCEPT ![p] = @ + 1]}
      BY <2>1, <2>2, DueKept, DuePaid
    <3>2. Paid!Pay(p)
      BY <2>2, <2>3, <2>4, <3>1 DEF Failed, Paid!Pay
    <3>3. QED
      BY <2>1, <3>2 DEF Paid!Next
  <2>5. CASE status \notin Paying
    <3>1. Due' = Due
      BY <2>2, <2>5, DueKept
    <3>2. Paid!Cancel(p)
      BY <2>2, <2>3, <2>5, <3>1 DEF Failed, Paid!Cancel
    <3>3. QED
      BY <2>1, <3>2 DEF Paid!Next
  <2>6. QED
    BY <2>4, <2>5
<1>4. CASE CancelWrite(q)
  <2>1. PICK p \in Publics : p = ctx[q].p
    BY <1>0, <1>4 DEF CancelWrite, StartInv, TaskInv, RowKnown
  <2>2. CASE p \in started
    BY <1>4, <2>1, <2>2, StutterIs DEF CancelWrite
  <2>3. CASE p \notin started
    <3>1. Failed' = Failed \ {p}
      BY <1>4, <2>1, <2>3, FailedLeft DEF CancelWrite
    <3>2. Due' = Due
      BY <1>4, DueKept DEF CancelWrite
    <3>3. Paid!Cancel(p)
      BY <1>4, <2>1, <2>3, <3>1, <3>2 DEF CancelWrite, Failed, Paid!Cancel
    <3>4. QED
      BY <2>1, <3>3 DEF Paid!Next
  <2>4. QED
    BY <2>2, <2>3
<1>5. CASE SendOnce(q) \/ HookSend(q)
  <2>1. ctx[q].p \in paid /\ ctx[q].p \in Publics
    BY <1>0, <1>5 DEF SendOnce, HookSend, StartInv, TaskInv, WorkWasPaid, TypeOK
  <2>2. CASE Sent(ctx[q].p)
    <3>1. Paid!Send(ctx[q].p)
      BY <1>5, <2>1, <2>2, SentIsSend DEF SendOnce, HookSend
    <3>2. QED
      BY <2>1, <3>1 DEF Paid!Next
  <2>3. CASE NotSent
    BY <1>5, <2>3, StutterIs DEF SendOnce, HookSend, NotSent
  <2>4. QED
    BY <1>5, <2>2, <2>3 DEF SendOnce, HookSend
<1>6. CASE Webhook(q) \/ Cancel(q) \/ HookQueue(q)
  BY <1>6, StutterIs DEF Webhook, Cancel, HookQueue
<1>7. QED
  BY <1>1, <1>2, <1>3, <1>4, <1>5, <1>6 DEF Receive, Answer

\* Every step of a task sends, excuses a start that another task also has, marks a
\* session as failed, or is none of the contract's business.
LEMMA ProcMaps ==
    ASSUME TypeOK, TypeOK', StartInv, SentOncePerTrigger', NEW t \in Procs, Process(t)
    PROVE  Paid!Next \/ UNCHANGED Paid!startVars
<1>0. t \in Tasks
  BY DEF Tasks
<1>1. CASE GetKey(t)
  <2>1. PICK p \in ctx[t].todo :
            UNCHANGED overlaps \/ overlaps' = [overlaps EXCEPT ![p] = @ + 1]
    BY <1>1 DEF GetKey, Look
  <2>2. p \in Publics
    BY <1>0, FieldTypes
  <2>3. UNCHANGED <<pay, paid, started, stopped, sends, triggers, faults, inbox, plug, txn>>
    BY <1>1 DEF GetKey, Look
  <2>4. CASE UNCHANGED overlaps
    BY <2>3, <2>4, StutterIs
  <2>5. CASE overlaps' = [overlaps EXCEPT ![p] = @ + 1]
    <3>1. overlaps'[p] = overlaps[p] + 1 /\ \A k \in Publics \ {p} : overlaps'[k] = overlaps[k]
      BY <2>2, <2>5 DEF TypeOK
    <3>2. \A k \in Publics : Due'[k] = IF k \in {p} THEN Due[k] + 1 ELSE Due[k]
      BY <2>3, <3>1, Mapped
    <3>3. Due' = [k \in Publics |-> IF k \in {p} THEN Due[k] + 1 ELSE Due[k]]
      BY <3>2, Mapped
    <3>4. Paid!Excuse({p})
      BY <2>3, <3>3 DEF Paid!Excuse
    <3>5. {p} \in SUBSET Publics
      BY <2>2
    <3>6. QED
      BY <3>4, <3>5 DEF Paid!Next
  <2>6. QED
    BY <2>1, <2>4, <2>5
<1>2. CASE PendingSend(t)
  <2>1. ctx[t].p \in paid /\ ctx[t].p \in Publics
    BY <1>0, <1>2 DEF PendingSend, StartInv, TaskInv, WorkWasPaid, TypeOK
  <2>2. CASE Sent(ctx[t].p)
    <3>1. Paid!Send(ctx[t].p)
      BY <1>2, <2>1, <2>2, SentIsSend DEF PendingSend
    <3>2. QED
      BY <2>1, <3>1 DEF Paid!Next
  <2>3. CASE NotSent
    BY <1>2, <2>3, StutterIs DEF PendingSend, NotSent
  <2>4. QED
    BY <1>2, <2>2, <2>3 DEF PendingSend
<1>3. CASE FailRow(t)
  <2>1. PICK p \in Publics : p = ctx[t].p /\ p \in paid
    BY <1>0, <1>3 DEF FailRow, StartInv, TaskInv, WorkWasPaid, TypeOK
  <2>2. CASE p \in started
    BY <1>3, <2>1, <2>2, StutterIs DEF FailRow
  <2>3. CASE p \notin started
    <3>1. Failed' = Failed \cup {p}
      BY <1>3, <2>1, <2>3 DEF FailRow, Failed, TypeOK
    <3>2. Due' = Due
      BY <1>3, DueKept DEF FailRow
    <3>3. Paid!Fail(p)
      BY <1>3, <2>1, <2>3, <3>1, <3>2 DEF FailRow, Failed, Paid!Fail
    <3>4. QED
      BY <2>1, <3>3 DEF Paid!Next
  <2>4. QED
    BY <2>2, <2>3
<1>4. CASE Spawn(t) \/ DeleteKey(t) \/ Requeue(t) \/ GiveUp(t)
  BY <1>4, StutterIs DEF Spawn, DeleteKey, Requeue, GiveUp
<1>5. QED
  BY <1>1, <1>2, <1>3, <1>4 DEF Process

\* The charger's steps are those of the contract, and a failure is an excuse.
LEMMA OtherMaps ==
    ASSUME TypeOK, TypeOK',
           \/ \E t \in Tasks : Fault(t)
           \/ \E p \in Publics : Accept(p) \/ Expire(p)
           \/ Link \/ Stop \/ Crash \/ UNCHANGED vars
    PROVE  Paid!Next \/ UNCHANGED Paid!startVars
<1>1. CASE (\E t \in Tasks : Fault(t)) \/ (\E p \in Publics : Expire(p)) \/ Crash
  <2>1. Paid!Excuse(Publics)
    BY <1>1, FaultIsExcuse DEF Fault, Expire, Crash
  <2>2. QED
    BY <2>1 DEF Paid!Next
<1>2. ASSUME NEW p \in Publics, Accept(p) PROVE Paid!Next
  <2>1. Due' = Due
    BY <1>2, DueKept DEF Accept
  <2>2. Paid!Start(p)
    BY <1>2, <2>1 DEF Accept, Paid!Start
  <2>3. QED
    BY <2>2 DEF Paid!Next
<1>3. CASE Link
  <2>1. Due' = Due
    BY <1>3, DueKept DEF Link
  <2>2. QED
    BY <1>3, <2>1 DEF Link, Paid!Adopt, Paid!Next
<1>4. CASE Stop
  <2>1. Due' = Due
    BY <1>4, DueKept DEF Stop
  <2>2. QED
    BY <1>4, <2>1 DEF Stop, Paid!Stop, Paid!Next
<1>5. CASE UNCHANGED vars
  BY <1>5, StutterIs DEF vars
<1>6. QED
  BY <1>1, <1>2, <1>3, <1>4, <1>5

-----------------------------------------------------------------------------
(* How a start leaves the queue *)

\* A task that is about to delete a key has sent the start.
DeletesSent == \A t \in Tasks : pc[t] = "delete" => sends[ctx[t].p] > 0

\* A key goes when the start was sent, when a task gives it up and is about to mark
\* its session as failed, or when something failed.
KeyGoesSettled ==
    \A p \in Publics :
        queue[p] # {} /\ queue'[p] = {} =>
            \/ sends[p] > 0
            \/ \E t \in Procs : pc[t] = "give_up" /\ pc'[t] = "fail_row" /\ ctx'[t].p = p
            \/ faults' = faults + 1

\* A task that is about to delete a key was so before, or has just sent.
JustSent(u) == Sent(ctx[u].p) /\ ctx[u].p \in Publics

LEMMA DeleteReached ==
    ASSUME TypeOK, StartInv, [Next]_vars, NEW u \in Tasks, pc'[u] = "delete"
    PROVE  ctx'[u] = ctx[u] /\ (pc[u] = "delete" \/ JustSent(u))
<1>1. ASSUME NEW q \in Requests, Receive(q) \/ Answer(q)
      PROVE  pc[u] = "delete" /\ ctx'[u] = ctx[u]
  <2>0. q \in Tasks /\ pc[u] \in RequestSteps \cup ProcSteps
    BY DEF Tasks, TypeOK
  <2>1. CASE Create(q)
    BY <2>0, <2>1 DEF Create, Serve, TypeOK
  <2>2. CASE StripePaid(q) \/ Webhook(q) \/ Cancel(q)
    BY <2>0, <2>2 DEF StripePaid, Webhook, Cancel, Serve, TypeOK
  <2>3. CASE Answer(q)
    <3>1. \/ Finish(q)
          \/ Goto(q, "hook_queue")
          \/ SendNext(q, ctx[q].p)
      BY <2>3 DEF Answer, SendOnce, HookWrite, HookSend, HookQueue, CancelWrite
    <3>2. QED
      BY <2>0, <3>1, GoOnTo
  <2>4. QED
    BY <1>1, <2>1, <2>2, <2>3 DEF Receive
<1>2. ASSUME NEW t \in Tasks, (t \in Procs /\ Process(t)) \/ Fault(t)
      PROVE  ctx'[u] = ctx[u] /\ (pc[u] = "delete" \/ JustSent(u))
  <2>1. CASE PendingSend(t) /\ Sent(ctx[t].p) /\ Goto(t, "delete")
    <3>1. ctx[t].p \in Publics
      BY <2>1 DEF PendingSend, StartInv, TaskInv, WorkWasPaid, TypeOK
    <3>2. ctx' = ctx /\ (u # t => pc'[u] = pc[u])
      BY <2>1, GoOnTo DEF Goto
    <3>3. QED
      BY <2>1, <3>1, <3>2 DEF JustSent
  <2>2. CASE Spawn(t)
    BY <2>2 DEF Spawn, TypeOK
  <2>3. CASE GetKey(t)
    <3>1. u # t => pc'[u] = pc[u] /\ ctx'[u] = ctx[u]
      BY <2>3 DEF GetKey, Look, NextKey, TypeOK
    <3>2. pc'[t] # "delete"
      BY <2>3 DEF GetKey, Look, NextKey, TypeOK
    <3>3. QED
      BY <3>1, <3>2
  <2>4. CASE NextKey(t, ctx[t].todo) \/ Finish(t) \/ Goto(t, "requeue") \/ Goto(t, "fail_row")
    BY <2>4, GoOnTo
  <2>5. QED
    BY <1>2, <2>1, <2>2, <2>3, <2>4
       DEF Process, PendingSend, DeleteKey, Requeue, GiveUp, FailRow, Fault
<1>3. CASE Crash
  BY <1>3 DEF Crash
<1>4. CASE \/ \E p \in Publics : Accept(p) \/ Expire(p)
           \/ Link \/ Stop \/ UNCHANGED vars
  BY <1>4 DEF Accept, Expire, Link, Stop, vars
<1>5. QED
  BY <1>1, <1>2, <1>3, <1>4 DEF Next, Tasks

\* What was sent stays sent.
LEMMA SendsGrow ==
    ASSUME TypeOK, [Next]_vars, NEW p \in Publics
    PROVE  sends[p] \in Nat /\ sends'[p] \in Nat /\ sends[p] <= sends'[p]
<1>0. sends \in [Publics -> Nat]
  BY DEF TypeOK
<1>1. CASE sends' = sends
  BY <1>0, <1>1
<1>2. CASE \E s : sends' = [sends EXCEPT ![s] = @ + 1]
  BY <1>0, <1>2
<1>3. ASSUME NEW q \in Requests, Receive(q) \/ Answer(q)
      PROVE  sends' = sends \/ \E s : sends' = [sends EXCEPT ![s] = @ + 1]
  BY <1>3 DEF Receive, Create, StripePaid, Webhook, Cancel, Answer, SendOnce, HookWrite,
              HookSend, HookQueue, CancelWrite, Sent, NotSent
<1>4. ASSUME NEW t \in Procs, Process(t)
      PROVE  sends' = sends \/ \E s : sends' = [sends EXCEPT ![s] = @ + 1]
  BY <1>4 DEF Process, Spawn, GetKey, Look, PendingSend, DeleteKey, Requeue, GiveUp,
              FailRow, Sent, NotSent
<1>5. CASE \/ \E t \in Tasks : Fault(t)
           \/ \E r \in Publics : Accept(r) \/ Expire(r)
           \/ Link \/ Stop \/ Crash \/ UNCHANGED vars
  BY <1>1, <1>5 DEF Fault, Accept, Expire, Link, Stop, Crash, vars
<1>6. QED
  BY <1>1, <1>2, <1>3, <1>4, <1>5 DEF Next, Tasks

LEMMA DeletesSentStep ==
    TypeOK /\ StartInv /\ DeletesSent /\ [Next]_vars => DeletesSent'
<1> SUFFICES ASSUME TypeOK, StartInv, DeletesSent, [Next]_vars,
                    NEW u \in Tasks, pc'[u] = "delete"
             PROVE  sends'[ctx'[u].p] > 0
  BY DEF DeletesSent
<1>1. ctx'[u] = ctx[u] /\ (pc[u] = "delete" \/ JustSent(u))
  BY DeleteReached
<1>2. CASE pc[u] = "delete"
  <2>1. ctx[u].p \in Publics
    BY <1>2 DEF StartInv, TaskInv, WorkWasPaid, TypeOK
  <2>2. QED
    BY <1>1, <1>2, <2>1, SendsGrow DEF DeletesSent
<1>3. CASE JustSent(u)
  BY <1>1, <1>3 DEF JustSent, Sent, TypeOK
<1>4. QED
  BY <1>1, <1>2, <1>3

\* Only the deletion after a send, the giving up of a start, and an expiry empty a key.
LEMMA KeyGoesStep ==
    TypeOK /\ StartInv /\ DeletesSent /\ [Next]_vars => KeyGoesSettled
<1> SUFFICES ASSUME TypeOK, StartInv, DeletesSent, [Next]_vars, NEW p \in Publics,
                    queue[p] # {}, queue'[p] = {}
             PROVE  \/ sends[p] > 0
                    \/ \E t \in Procs : pc[t] = "give_up" /\ pc'[t] = "fail_row" /\ ctx'[t].p = p
                    \/ faults' = faults + 1
  BY DEF KeyGoesSettled
<1>0. queue' # queue
  OBVIOUS
<1>1. ASSUME NEW q \in Requests, Receive(q) \/ Answer(q) PROVE FALSE
  <2>1. CASE HookQueue(q)
    BY <2>1 DEF HookQueue, TypeOK
  <2>2. QED
    BY <1>0, <1>1, <2>1 DEF Receive, Create, StripePaid, Webhook, Cancel, Answer, SendOnce,
                            HookWrite, HookSend, CancelWrite, row
<1>2. ASSUME NEW t \in Procs, Process(t)
      PROVE  \/ sends[p] > 0
             \/ pc[t] = "give_up" /\ pc'[t] = "fail_row" /\ ctx'[t].p = p
  <2>0. t \in Tasks
    BY DEF Tasks
  <2>1. CASE DeleteKey(t)
    <3>1. ctx[t].p = p
      BY <2>1 DEF DeleteKey, TypeOK
    <3>2. QED
      BY <2>0, <2>1, <3>1 DEF DeleteKey, DeletesSent
  <2>2. CASE GiveUp(t)
    <3>1. ctx[t].p = p
      BY <2>2 DEF GiveUp, TypeOK
    <3>2. pc'[t] = "fail_row" /\ ctx'[t] = ctx[t]
      BY <2>0, <2>2, GoOnTo DEF GiveUp
    <3>3. QED
      BY <2>2, <3>1, <3>2 DEF GiveUp
  <2>3. CASE Requeue(t)
    BY <2>3 DEF Requeue, TypeOK
  <2>4. QED
    BY <1>0, <1>2, <2>1, <2>2, <2>3 DEF Process, Spawn, GetKey, Look, PendingSend, FailRow, row
<1>3. ASSUME \E t \in Tasks : Fault(t) PROVE FALSE
  BY <1>0, <1>3 DEF Fault
<1>4. ASSUME NEW r \in Publics, Expire(r) PROVE faults' = faults + 1
  BY <1>4 DEF Expire
<1>5. CASE \/ \E r \in Publics : Accept(r)
           \/ Link \/ Stop \/ Crash \/ UNCHANGED vars
  BY <1>0, <1>5 DEF Accept, Link, Stop, Crash, vars
<1>6. QED
  BY <1>1, <1>2, <1>3, <1>4, <1>5 DEF Next, Tasks

-----------------------------------------------------------------------------
(* Theorems *)

\* The invariant holds for all the time.
LEMMA StartCorrect == Spec => [](TypeOK /\ StartInv)
<1>1. Init => TypeOK /\ StartInv
  <2>1. SUFFICES ASSUME Init PROVE TypeOK /\ StartInv
    OBVIOUS
  <2>2. TypeOK
    BY <2>1, LocalsType, BoundsAssumption DEF Init, TypeOK, Statuses, RequestSteps
  <2>3. ChargedWasPaid
    BY <2>1, NamesAssumption DEF Init, ChargedWasPaid
  <2>4. QED
    BY <2>1, <2>2, <2>3, ShapeFields DEF Init, StartInv, TaskInv, RetryLeft, RowKnown, WorkWasPaid
<1>2. TypeOK /\ StartInv /\ [Next]_vars => (TypeOK /\ StartInv)'
  BY TypeStep, StartStep
<1>3. QED
  BY <1>1, <1>2, PTL DEF Spec

\* Every variable keeps its type: the retries in a key never exceed the limit,
\* however the tasks overlap.
THEOREM TypeCorrect == Spec => []TypeOK
BY StartCorrect, PTL

\* No session is charged, on its way to the charger, or in the queue that was
\* never paid or authorized.
THEOREM OnlyPaidIsCharged == Spec => []ChargedWasPaid
<1>1. TypeOK /\ StartInv => ChargedWasPaid
  BY DEF StartInv
<1>2. QED
  BY <1>1, StartCorrect, PTL

\* Cancellations and given-up starts leave started sessions alone.
THEOREM StartedIsKept == Spec => StartedRunsOn
<1>1. TypeOK /\ StartInv /\ [Next]_vars =>
        [\A p \in started :
           /\ p \in started'
           /\ p \in stopped' \ stopped => plug = p /\ txn = "own" /\ plug' = Free
           /\ pay'[p] = "remote_start_failed" => pay[p] = "remote_start_failed"]_vars
  BY StartedStep
<1>2. QED
  BY <1>1, StartCorrect, PTL DEF Spec, StartedRunsOn

\* The counts hold for all the time.
LEMMA CountCorrect == Spec => []CountInv
<1>1. Init => CountInv
  <2>1. SUFFICES ASSUME Init, NEW p \in Publics PROVE Counted(p)
    BY DEF CountInv
  <2>2. Owed(p) = {} /\ ~At("requeue", p)
    BY <2>1 DEF Init, Owed, Owing, At, Tasks
  <2>3. IsFiniteSet(Owed(p)) /\ Cardinality(Owed(p)) = 0
    BY <2>2, FS_EmptySet
  <2>4. SendsCovered(p)
    BY <2>1, <2>2, <2>3 DEF Init, SendsCovered, KeyWaits, One
  <2>5. SoleHolder(p) /\ AttemptsCovered(p)
    BY <2>1, <2>2 DEF Init, SoleHolder, AttemptsCovered, Holds, Tasks
  <2>6. QED
    BY <2>3, <2>4, <2>5 DEF Counted
<1>2. TypeOK /\ TypeOK' /\ StartInv /\ CountInv /\ [Next]_vars => CountInv'
  BY CountStep
<1>3. QED
  BY <1>1, <1>2, StartCorrect, PTL DEF Spec

\* However many webhooks, retries and tasks there are, a start is sent at most once for
\* each payment or creation, and once more for each failure and each time that a task
\* reads its key while another one has it (send_remote_start, _process_pending_starts).
THEOREM EachStartSentOnce == Spec => []SentOncePerTrigger
<1>1. TypeOK /\ CountInv => SentOncePerTrigger
  <2>1. SUFFICES ASSUME TypeOK, CountInv, NEW p \in Publics
                 PROVE  sends[p] <= triggers[p] + faults + overlaps[p]
    BY DEF SentOncePerTrigger
  <2>2. SendsCovered(p) /\ Cardinality(Owed(p)) \in Nat
    BY <2>1, FS_CardinalityType DEF CountInv, Counted
  <2>3. QED
    BY <2>1, <2>2, CountTypes DEF SendsCovered, One
<1>2. QED
  BY <1>1, StartCorrect, CountCorrect, PTL

\* A queued start whose key no two tasks held at once fails at most as often as retries
\* are allowed, and once more for each failure before the count is written back.
THEOREM RetriesAreBounded == Spec => []RetriesBounded
<1>1. CountInv => RetriesBounded
  BY DEF CountInv, Counted, AttemptsCovered, RetriesBounded
<1>2. QED
  BY <1>1, CountCorrect, PTL

\* RemoteStart implements PaidStart: each step of a request, a task or the charger is a
\* step of the contract or changes nothing it speaks of.  No start is sent that is not
\* due (create_session, the webhooks and _process_pending_starts together).
THEOREM ImplementsPaidStart == Spec => StartSpec
<1>1. Init => Paid!Init
  <2>1. SUFFICES ASSUME Init PROVE Paid!Init
    OBVIOUS
  <2>2. Due = [p \in Publics |-> 0]
    BY <2>1 DEF Init, Due
  <2>3. Failed = {}
    BY <2>1 DEF Init, Failed
  <2>4. QED
    BY <2>1, <2>2, <2>3 DEF Init, Failed, Paid!Init
<1>2. TypeOK /\ TypeOK' /\ StartInv /\ SentOncePerTrigger' /\ [Next]_vars
        => [Paid!Next]_(Paid!startVars)
  <2> SUFFICES ASSUME TypeOK, TypeOK', StartInv, SentOncePerTrigger', [Next]_vars
               PROVE  Paid!Next \/ UNCHANGED Paid!startVars
    OBVIOUS
  <2>1. ASSUME NEW q \in Requests, Receive(q) \/ Answer(q)
        PROVE  Paid!Next \/ UNCHANGED Paid!startVars
    BY <2>1, RequestMaps
  <2>2. ASSUME NEW t \in Procs, Process(t) PROVE Paid!Next \/ UNCHANGED Paid!startVars
    BY <2>2, ProcMaps
  <2>3. CASE \/ \E t \in Tasks : Fault(t)
             \/ \E p \in Publics : Accept(p) \/ Expire(p)
             \/ Link \/ Stop \/ Crash \/ UNCHANGED vars
    BY <2>3, OtherMaps
  <2>4. QED
    BY <2>1, <2>2, <2>3 DEF Next, Tasks
<1>3. QED
  BY <1>1, <1>2, StartCorrect, EachStartSentOnce, PTL DEF Spec, StartSpec, Paid!Spec

\* A start that waits in the queue leaves it only once it has been sent, or when the
\* task that gives it up goes on to mark the session as failed, unless something failed
\* or the key expired: the part of QueuedIsSettled that no fairness is needed for
\* (_process_pending_starts, _fail_pending_start).
THEOREM KeysLeaveSettled == Spec => [][KeyGoesSettled]_vars
<1>1. Init => DeletesSent
  BY DEF Init, DeletesSent
<1>2. TypeOK /\ StartInv /\ DeletesSent /\ [Next]_vars => DeletesSent'
  BY DeletesSentStep
<1>3. TypeOK /\ StartInv /\ DeletesSent /\ [Next]_vars => [KeyGoesSettled]_vars
  BY KeyGoesStep
<1>4. QED
  BY <1>1, <1>2, <1>3, StartCorrect, PTL DEF Spec
==============================================================================
