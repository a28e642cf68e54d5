----------------------------- MODULE RemoteStart -----------------------------
(***************************************************************************)
(* From a driver's payment to the charger's StartTransaction: the public   *)
(* API (api/public_sessions.py, api/public.py, api/payments.py), the queue *)
(* of starts in Redis, the tasks that boot and heartbeat start to work it  *)
(* off (ocpp16/handler_helpers.py), and the charger that gets the          *)
(* RemoteStartTransactions.                                                *)
(*                                                                         *)
(* All sessions are for one connector of one charger.  An action is what a *)
(* request or a task does between two awaits.                              *)
(***************************************************************************)
EXTENDS Naturals, FiniteSets

CONSTANTS
    Publics,    \* charge-app sessions; their tags APP_<prefix> are distinct
    Requests,   \* API requests being served at the same time
    Procs,      \* tasks running _process_pending_starts
    Free,       \* the connector without a transaction
    MaxCalls,   \* bound on API requests
    MaxCount,   \* counters of messages and failed attempts stop here
    MaxFaults,  \* bound on failed statements and expiries
    MaxOverlaps \* bound on the times that two tasks have the same key in hand

ASSUME NamesAssumption == Free \notin Publics /\ Requests \cap Procs = {}
ASSUME BoundsAssumption ==
    MaxCalls \in Nat /\ MaxCount \in Nat \ {0} /\ MaxFaults \in Nat /\ MaxOverlaps \in Nat

VARIABLES
    pay,        \* ocpp.public_sessions: payment_status, "none" without a row
    started,    \* the sessions with started_at
    stopped,    \* the sessions with stopped_at
    queue,      \* Redis pending_start:<cp>:<id>: the retries in it, {} without key
    pc,         \* the next step of a request or task
    ctx,        \* its local variables
    inbox,      \* RemoteStartTransactions the charger has not acted on
    plug,       \* whose transaction runs on the connector
    txn,        \* that transaction: "new" until handle_start_transaction ends,
                \* then the session's "own", or "stray"; "stray" without one
    sends,      \* RemoteStartTransactions written for a session
    triggers,   \* how often a payment or creation called for one
    attempts,   \* failed attempts since the start was last queued
    paid,       \* sessions that were ever paid or authorized
    overlaps,   \* how often a task read the key while another one had it in hand
    made,       \* API requests so far
    faults      \* failures and expiries so far

row == <<pay, started, stopped>>
chargerVars == <<inbox, plug, txn>>
history == <<triggers, attempts, paid, overlaps, made, faults>>
vars == <<row, queue, pc, ctx, chargerVars, sends, history>>

MaxRetries == 3
Paying == {"paid", "authorized"}
Statuses == {"none", "pending", "cancelled", "remote_start_failed"} \cup Paying

RequestSteps == {"idle", "send", "hook_write", "hook_send", "hook_queue",
                 "cancel_write"}
ProcSteps == {"idle", "scan", "pending_send", "delete", "requeue", "give_up", "fail_row"}
Tasks == Requests \cup Procs

\* p is the session at hand, status and prev are payment statuses, retries the
\* count read from the key, todo the keys a task has still to look at.
Locals == [p : Publics \cup {Free}, status : Statuses, prev : Statuses,
           retries : 0..MaxRetries, todo : SUBSET Publics]

RequestLocals(p, status, prev) ==
    [p |-> p, status |-> status, prev |-> prev, retries |-> 0, todo |-> {}]
ProcLocals(p, retries, todo) ==
    [p |-> p, status |-> "none", prev |-> "none", retries |-> retries, todo |-> todo]
NoLocals == ProcLocals(Free, 0, {})

TypeOK ==
    /\ pay \in [Publics -> Statuses]
    /\ started \subseteq Publics
    /\ stopped \subseteq Publics
    /\ queue \in [Publics -> {{}} \cup {{r} : r \in 0..MaxRetries}]
    /\ pc \in [Tasks -> RequestSteps \cup ProcSteps]
    /\ ctx \in [Tasks -> Locals]
    /\ inbox \in [Publics -> 0..MaxCount]
    /\ plug \in Publics \cup {Free}
    /\ txn \in {"new", "own", "stray"}
    /\ sends \in [Publics -> Nat]
    /\ triggers \in [Publics -> Nat]
    /\ attempts \in [Publics -> 0..MaxCount]
    /\ paid \subseteq Publics
    /\ overlaps \in [Publics -> Nat]
    /\ made \in Nat
    /\ faults \in Nat

Init ==
    /\ pay = [p \in Publics |-> "none"]
    /\ started = {}
    /\ stopped = {}
    /\ queue = [p \in Publics |-> {}]
    /\ pc = [t \in Tasks |-> "idle"]
    /\ ctx = [t \in Tasks |-> NoLocals]
    /\ inbox = [p \in Publics |-> 0]
    /\ plug = Free
    /\ txn = "stray"
    /\ sends = [p \in Publics |-> 0]
    /\ triggers = [p \in Publics |-> 0]
    /\ attempts = [p \in Publics |-> 0]
    /\ paid = {}
    /\ overlaps = [p \in Publics |-> 0]
    /\ made = 0
    /\ faults = 0

-----------------------------------------------------------------------------
(* Helpers *)

\* The operators named Wrong... are what a slip in the definition that follows
\* would make of it; the specification does not use them.

Capped(n) == IF n < MaxCount THEN n + 1 ELSE MaxCount

Goto(t, next) == pc' = [pc EXCEPT ![t] = next] /\ UNCHANGED ctx
Finish(t) == pc' = [pc EXCEPT ![t] = "idle"] /\ ctx' = [ctx EXCEPT ![t] = NoLocals]

\* On to the next of the keys in todo; the task ends with the last one.
NextKey(t, todo) ==
    /\ pc' = [pc EXCEPT ![t] = IF todo = {} THEN "idle" ELSE "scan"]
    /\ ctx' = [ctx EXCEPT ![t] = ProcLocals(Free, 0, todo)]

\* A new request arrives.
Serve(q) == pc[q] = "idle" /\ made < MaxCalls /\ made' = made + 1

\* send_remote_start returns a message id, or None when send_to finds no connection
\* it can write to: that may be so at any time (see ConnectionRegistry).
Sent(p) ==
    /\ sends' = [sends EXCEPT ![p] = @ + 1]
    /\ inbox' = [inbox EXCEPT ![p] = Capped(@)]
    /\ UNCHANGED <<plug, txn>>

NotSent == UNCHANGED <<sends, chargerVars>>

-----------------------------------------------------------------------------
(* POST /sessions *)

\* The guard against duplicates looks for an open session of the last two minutes
\* and returns that one, changing nothing.  Any session may be older than that, so
\* a new one may come up at any time.  It is "pending" when a Stripe checkout was
\* made for it.  Nobody knows its id before the INSERT, so all of the request up to
\* that is one step.
Create(q) ==
    /\ Serve(q)
    /\ \E p \in Publics, status \in {"authorized", "pending"} :
        /\ pay[p] = "none"
        /\ pay' = [pay EXCEPT ![p] = status]
        /\ IF status = "authorized"
           THEN /\ pc' = [pc EXCEPT ![q] = "send"]
                /\ ctx' = [ctx EXCEPT ![q] = RequestLocals(p, "none", "none")]
                /\ paid' = paid \cup {p}
                /\ triggers' = [triggers EXCEPT ![p] = @ + 1]
           ELSE UNCHANGED <<pc, ctx, paid, triggers>>
    /\ UNCHANGED <<started, stopped, queue, chargerVars, sends, attempts, overlaps, faults>>

\* Sent, or only a warning is logged: neither create_session nor stripe_webhook
\* queues the start.
SendOnce(q) ==
    /\ pc[q] = "send"
    /\ Sent(ctx[q].p) \/ NotSent
    /\ Finish(q)
    /\ UNCHANGED <<row, queue, history>>

-----------------------------------------------------------------------------
(* POST /webhook/stripe and POST /api/payments/webhook *)

\* The row is only read to see that it is there.
StripePaid(q) ==
    /\ Serve(q)
    /\ \E p \in Publics :
        /\ pay[p] # "none"
        /\ pay' = [pay EXCEPT ![p] = "paid"]
        /\ paid' = paid \cup {p}
        /\ triggers' = [triggers EXCEPT ![p] = @ + 1]
        /\ ctx' = [ctx EXCEPT ![q] = RequestLocals(p, "none", "none")]
    /\ pc' = [pc EXCEPT ![q] = "send"]
    /\ UNCHANGED <<started, stopped, queue, chargerVars, sends, attempts, overlaps, faults>>

\* payment_webhook reads the previous status.  The body may name any status: "authorized"
\* is treated as "paid" is, here and wherever the row is read, and every other one as
\* "cancelled".
Webhook(q) ==
    /\ Serve(q)
    /\ \E p \in Publics, status \in {"paid", "cancelled"} :
        /\ pay[p] # "none"
        /\ ctx' = [ctx EXCEPT ![q] = RequestLocals(p, status, pay[p])]
    /\ pc' = [pc EXCEPT ![q] = "hook_write"]
    /\ UNCHANGED <<row, queue, chargerVars, sends, triggers, attempts, paid, overlaps, faults>>

\* The statuses are not used any more.
SendNext(q, p) ==
    /\ pc' = [pc EXCEPT ![q] = "hook_send"]
    /\ ctx' = [ctx EXCEPT ![q] = RequestLocals(p, "none", "none")]

\* The start goes out though the payment is never written.
WrongHookWrite(q) ==
    LET p == ctx[q].p IN
    /\ pc[q] = "hook_write"
    /\ IF ctx[q].status \in Paying /\ ctx[q].prev \notin Paying
       THEN SendNext(q, p) /\ triggers' = [triggers EXCEPT ![p] = @ + 1]
       ELSE Finish(q) /\ UNCHANGED triggers
    /\ UNCHANGED <<row, queue, chargerVars, sends, attempts, paid, overlaps, made, faults>>

HookWrite(q) ==
    LET p == ctx[q].p
        status == ctx[q].status IN
    /\ pc[q] = "hook_write"
    /\ pay' = [pay EXCEPT ![p] = status]
    /\ paid' = IF status \in Paying THEN paid \cup {p} ELSE paid
    /\ IF status \in Paying /\ ctx[q].prev \notin Paying
       THEN SendNext(q, p) /\ triggers' = [triggers EXCEPT ![p] = @ + 1]
       ELSE Finish(q) /\ UNCHANGED triggers
    /\ UNCHANGED <<started, stopped, queue, chargerVars, sends, attempts, overlaps, made, faults>>

\* _trigger_remote_start
HookSend(q) ==
    /\ pc[q] = "hook_send"
    /\ \/ Sent(ctx[q].p) /\ Finish(q)
       \/ NotSent /\ Goto(q, "hook_queue")
    /\ UNCHANGED <<row, queue, history>>

\* A fresh key, over whatever key the session has.
HookQueue(q) ==
    LET p == ctx[q].p IN
    /\ pc[q] = "hook_queue"
    /\ queue' = [queue EXCEPT ![p] = {0}]
    /\ attempts' = [attempts EXCEPT ![p] = 0]
    /\ Finish(q)
    /\ UNCHANGED <<row, chargerVars, sends, triggers, paid, overlaps, made, faults>>

-----------------------------------------------------------------------------
(* POST /sessions/{id}/cancel *)

Cancel(q) ==
    /\ Serve(q)
    /\ \E p \in Publics :
        /\ pay[p] # "none" /\ p \notin started
        /\ ctx' = [ctx EXCEPT ![q] = RequestLocals(p, "none", "none")]
    /\ pc' = [pc EXCEPT ![q] = "cancel_write"]
    /\ UNCHANGED <<row, queue, chargerVars, sends, triggers, attempts, paid, overlaps, faults>>

\* The UPDATE without started_at IS NULL.
WrongCancelWrite(q) ==
    /\ pc[q] = "cancel_write"
    /\ pay' = [pay EXCEPT ![ctx[q].p] = "cancelled"]
    /\ stopped' = stopped \cup {ctx[q].p}
    /\ Finish(q)
    /\ UNCHANGED <<started, queue, chargerVars, sends, history>>

CancelWrite(q) ==
    LET p == ctx[q].p IN
    /\ pc[q] = "cancel_write"
    /\ IF p \in started
       THEN UNCHANGED <<pay, stopped>>
       ELSE /\ pay' = [pay EXCEPT ![p] = "cancelled"]
            /\ stopped' = stopped \cup {p}
    /\ Finish(q)
    /\ UNCHANGED <<started, queue, chargerVars, sends, history>>

-----------------------------------------------------------------------------
(* _process_pending_starts *)

\* Task t is between reading the key of p and its last write to it.
Holds(t, p) ==
    pc[t] \in {"pending_send", "delete", "requeue", "give_up"} /\ ctx[t].p = p

\* BootNotification or a heartbeat, also on a connection that send_to does not
\* find (see ConnectionRegistry).
Spawn(t) ==
    LET keys == {p \in Publics : queue[p] # {}} IN
    /\ pc[t] = "idle"
    /\ keys # {}
    /\ ctx' = [ctx EXCEPT ![t] = ProcLocals(Free, 0, keys)]
    /\ pc' = [pc EXCEPT ![t] = "scan"]
    /\ UNCHANGED <<row, queue, chargerVars, sends, history>>

\* The next key: gone, exhausted after limit retries, or to be tried once more,
\* two seconds later.
Look(t, limit) ==
    /\ pc[t] = "scan"
    /\ \E p \in ctx[t].todo :
        \/ /\ queue[p] = {}
           /\ NextKey(t, ctx[t].todo \ {p})
           /\ UNCHANGED overlaps
        \/ \E r \in queue[p] :
           /\ ctx' = [ctx EXCEPT ![t] = ProcLocals(p, r, ctx[t].todo \ {p})]
           /\ pc' = [pc EXCEPT ![t] = IF r >= limit THEN "give_up" ELSE "pending_send"]
           /\ \/ (\A k \in Procs : ~Holds(k, p)) /\ UNCHANGED overlaps
              \/ /\ \E k \in Procs : Holds(k, p)
                 /\ overlaps[p] < MaxOverlaps
                 /\ overlaps' = [overlaps EXCEPT ![p] = @ + 1]
    /\ UNCHANGED <<row, queue, chargerVars, sends, triggers, attempts, paid, made, faults>>

\* One retry more than the limit.
WrongGetKey(t) == Look(t, MaxRetries + 1)

GetKey(t) == Look(t, MaxRetries)

PendingSend(t) ==
    LET p == ctx[t].p IN
    /\ pc[t] = "pending_send"
    /\ \/ Sent(p) /\ Goto(t, "delete") /\ UNCHANGED attempts
       \/ NotSent /\ Goto(t, "requeue") /\ attempts' = [attempts EXCEPT ![p] = Capped(@)]
    /\ UNCHANGED <<row, queue, triggers, paid, overlaps, made, faults>>

\* Leaves the key to its expiry.
WrongDeleteKey(t) ==
    /\ pc[t] = "delete"
    /\ NextKey(t, ctx[t].todo)
    /\ UNCHANGED <<row, queue, chargerVars, sends, history>>

DeleteKey(t) ==
    /\ pc[t] = "delete"
    /\ queue' = [queue EXCEPT ![ctx[t].p] = {}]
    /\ NextKey(t, ctx[t].todo)
    /\ UNCHANGED <<row, chargerVars, sends, history>>

\* The old count is written back.
WrongRequeue(t) ==
    /\ pc[t] = "requeue"
    /\ queue' = [queue EXCEPT ![ctx[t].p] = {ctx[t].retries}]
    /\ NextKey(t, ctx[t].todo)
    /\ UNCHANGED <<row, chargerVars, sends, history>>

Requeue(t) ==
    /\ pc[t] = "requeue"
    /\ queue' = [queue EXCEPT ![ctx[t].p] = {ctx[t].retries + 1}]
    /\ NextKey(t, ctx[t].todo)
    /\ UNCHANGED <<row, chargerVars, sends, history>>

GiveUp(t) ==
    /\ pc[t] = "give_up"
    /\ queue' = [queue EXCEPT ![ctx[t].p] = {}]
    /\ Goto(t, "fail_row")
    /\ UNCHANGED <<row, chargerVars, sends, history>>

\* _fail_pending_start
FailRow(t) ==
    LET p == ctx[t].p IN
    /\ pc[t] = "fail_row"
    /\ pay' = IF p \in started THEN pay ELSE [pay EXCEPT ![p] = "remote_start_failed"]
    /\ NextKey(t, ctx[t].todo)
    /\ UNCHANGED <<started, stopped, queue, chargerVars, sends, history>>

-----------------------------------------------------------------------------
(* The charger, failures *)

\* The charger starts, and sends StartTransaction with the tag of the session.  It
\* may also refuse, forget or never see a start: then that one stays in inbox.
Accept(p) ==
    /\ inbox[p] > 0 /\ plug = Free
    /\ inbox' = [inbox EXCEPT ![p] = @ - 1]
    /\ plug' = p
    /\ txn' = "new"
    /\ UNCHANGED <<row, queue, pc, ctx, sends, history>>

\* The end of handle_start_transaction: a session that no transaction has started
\* yet gets this one, whatever its payment status.
Link ==
    /\ plug # Free /\ txn = "new"
    /\ txn' = IF plug \in started THEN "stray" ELSE "own"
    /\ started' = started \cup {plug}
    /\ UNCHANGED <<pay, stopped, queue, pc, ctx, inbox, plug, sends, history>>

\* StopTransaction closes the session that has this transaction.  (The charger
\* learns the transaction's number from the answer, which follows Link.)
Stop ==
    /\ plug # Free /\ txn # "new"
    /\ plug' = Free
    /\ stopped' = IF txn = "own" THEN stopped \cup {plug} ELSE stopped
    /\ txn' = "stray"
    /\ UNCHANGED <<pay, started, queue, pc, ctx, inbox, sends, history>>

\* A statement raises and the task ends.  (A failure in _fail_pending_start is
\* caught, and the task goes on with the next key.)
Fault(t) ==
    /\ pc[t] # "idle"
    /\ faults < MaxFaults
    /\ faults' = faults + 1
    /\ IF pc[t] = "fail_row" THEN NextKey(t, ctx[t].todo) ELSE Finish(t)
    /\ UNCHANGED <<row, queue, chargerVars, sends, triggers, attempts, paid, overlaps, made>>

\* The process dies and is started again; Postgres, Redis and the charger go on.
Crash ==
    /\ faults < MaxFaults
    /\ faults' = faults + 1
    /\ pc' = [t \in Tasks |-> "idle"]
    /\ ctx' = [t \in Tasks |-> NoLocals]
    /\ UNCHANGED <<row, queue, inbox, plug, txn, sends, triggers, attempts, paid, overlaps, made>>

\* 120 seconds have passed since the key was written.
Expire(p) ==
    /\ queue[p] # {}
    /\ faults < MaxFaults
    /\ faults' = faults + 1
    /\ queue' = [queue EXCEPT ![p] = {}]
    /\ UNCHANGED <<row, pc, ctx, chargerVars, sends, triggers, attempts, paid, overlaps, made>>

Receive(q) == Create(q) \/ StripePaid(q) \/ Webhook(q) \/ Cancel(q)

Answer(q) ==
    \/ SendOnce(q) \/ HookWrite(q) \/ HookSend(q) \/ HookQueue(q)
    \/ CancelWrite(q)

Process(t) ==
    \/ Spawn(t) \/ GetKey(t)
    \/ PendingSend(t) \/ DeleteKey(t) \/ Requeue(t)
    \/ GiveUp(t) \/ FailRow(t)

Next ==
    \/ \E q \in Requests : Receive(q) \/ Answer(q) \/ Fault(q)
    \/ \E t \in Procs : Process(t) \/ Fault(t)
    \/ \E p \in Publics : Accept(p) \/ Expire(p)
    \/ Link \/ Stop \/ Crash

Spec == Init /\ [][Next]_vars

\* The event loop resumes requests and tasks, and the charger sends heartbeats.
FairSpec ==
    /\ Spec
    /\ \A q \in Requests : WF_vars(Answer(q))
    /\ \A t \in Procs : WF_vars(Process(t))

-----------------------------------------------------------------------------
(* Properties *)

\* The connector charges, a start waits or is on its way to the charger only for
\* a session that has been paid or authorized at some time: no order of the
\* webhooks, of cancellations and retries starts one that never was.
ChargedWasPaid ==
    \A p \in Publics : queue[p] # {} \/ inbox[p] > 0 \/ plug = p => p \in paid

\* A payment or a new session sends the charger at most one
\* RemoteStartTransaction, however often the start is retried and whatever the
\* webhooks queue meanwhile.  A failure between the write to the charger and the
\* deletion of the key sends one more, and so does every task that reads the key
\* while another one has it in hand (a boot and a heartbeat less than the two
\* seconds of the pause apart).
SentOncePerTrigger ==
    \A p \in Publics : sends[p] <= triggers[p] + faults + overlaps[p]

\* "Each pending start has a max of 3 retries": unless two tasks hold its key at
\* once, a start that is queued fails at most three times before it is given up.
\* (A failure before the count is written back makes it one more.)
RetriesBounded ==
    \A p \in Publics : overlaps[p] = 0 => attempts[p] <= MaxRetries + faults

\* The starts that may still be sent for a session.
Due == [p \in Publics |-> (triggers[p] + faults + overlaps[p]) - sends[p]]

Paid == INSTANCE PaidStart
    WITH due <- Due, closed <- stopped,
         failed <- {p \in Publics : pay[p] = "remote_start_failed"}

\* Whatever the order of webhooks, cancellations, retries and failures, a driver gets
\* what PaidStart promises: a start is sent only for a session that was paid and one
\* that is due; once the charger has started it, a cancellation that read the row
\* before, or a start given up late, does not touch it, and only the StopTransaction of
\* its own transaction closes it.
StartSpec == Paid!Spec

\* Once the charger has started a session, a cancellation that read the row
\* before, or a start given up late, does not touch it: the session is closed
\* only by the StopTransaction of its own transaction, and is not reported as
\* one that failed to start.
StartedRunsOn ==
    [][\A p \in started :
        /\ p \in started'
        /\ p \in stopped' \ stopped => plug = p /\ txn = "own" /\ plug' = Free
        /\ pay'[p] = "remote_start_failed" => pay[p] = "remote_start_failed"]_vars

\* A start in the queue leaves it, sent or with the session marked failed, even
\* when the charger stays away from the registry: while heartbeats come, no
\* driver waits for ever.  (Not when a task failed half-way or two tasks held the
\* key: then the key may go without either.)
QueuedIsSettled ==
    \A p \in Publics :
        queue[p] # {} ~>
            \/ queue[p] = {} /\ (sends[p] > 0 \/ pay[p] = "remote_start_failed")
            \/ overlaps[p] > 0 \/ faults > 0

\* stripe_webhook "Authorizes session and triggers RemoteStartTransaction"
\* (payments.py:84), and create_session logs "RemoteStart queued or charger not
\* ready" (public_sessions.py:190): the start of a session that is authorized or
\* paid is sent, or waits in the queue, or the session is closed in another way.
AuthorizedNotForgotten ==
    \A p \in Publics :
        pay[p] \in Paying ~>
            sends[p] > 0 \/ queue[p] # {} \/ pay[p] \notin Paying \/ faults > 0
==============================================================================
