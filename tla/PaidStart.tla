------------------------------ MODULE PaidStart ------------------------------
(***************************************************************************)
(* What the driver may rely on between a payment and the end of charging,  *)
(* with no word on requests, queues, retries or crashes.  A payment allows *)
(* one RemoteStartTransaction, and something that went wrong on the way    *)
(* excuses one more; the connector charges only for a session whose start  *)
(* was sent; the first transaction of a session is its own and alone       *)
(* closes it; only what was paid and never started may be called failed.   *)
(*                                                                         *)
(* RemoteStart implements this module (see StartSpec there).               *)
(***************************************************************************)
EXTENDS Naturals

CONSTANTS Publics, Free

VARIABLES
    paid,       \* sessions that were ever paid or authorized
    due,        \* due[p]: how many starts may still be sent for p
    inbox,      \* how many the charger may still act on
    plug,       \* whose transaction runs on the connector
    txn,        \* that transaction: "new", the session's "own" or "stray"
    started,    \* sessions that have a transaction
    closed,     \* sessions that were cancelled or whose transaction has stopped
    failed      \* sessions of which the driver is told that the start failed

charger == <<inbox, plug, txn>>
startVars == <<paid, due, charger, started, closed, failed>>

Init ==
    /\ paid = {} /\ started = {} /\ closed = {} /\ failed = {}
    /\ due = [p \in Publics |-> 0]
    /\ inbox = [p \in Publics |-> 0]
    /\ plug = Free /\ txn = "stray"

\* A payment that was known already calls for no further start.
Pay(p) ==
    /\ paid' = paid \cup {p}
    /\ due' \in {due, [due EXCEPT ![p] = @ + 1]}
    /\ failed' = failed \ {p}
    /\ UNCHANGED <<charger, started, closed>>

\* Something went wrong with the starts of these sessions.
Excuse(S) ==
    /\ due' = [p \in Publics |-> IF p \in S THEN due[p] + 1 ELSE due[p]]
    /\ UNCHANGED <<paid, charger, started, closed, failed>>

\* It may get lost on the way.
Send(p) ==
    /\ p \in paid /\ due[p] > 0
    /\ due' = [due EXCEPT ![p] = @ - 1]
    /\ inbox' \in {inbox, [inbox EXCEPT ![p] = @ + 1]}
    /\ UNCHANGED <<paid, plug, txn, started, closed, failed>>

Start(p) ==
    /\ inbox[p] > 0 /\ plug = Free
    /\ inbox' = [inbox EXCEPT ![p] = @ - 1]
    /\ plug' = p /\ txn' = "new"
    /\ UNCHANGED <<paid, due, started, closed, failed>>

Adopt ==
    /\ plug # Free /\ txn = "new"
    /\ txn' = IF plug \in started THEN "stray" ELSE "own"
    /\ started' = started \cup {plug}
    /\ UNCHANGED <<paid, due, inbox, plug, closed, failed>>

Stop ==
    /\ plug # Free /\ txn # "new"
    /\ plug' = Free /\ txn' = "stray"
    /\ closed' = IF txn = "own" THEN closed \cup {plug} ELSE closed
    /\ UNCHANGED <<paid, due, inbox, started, failed>>

\* The payment is withdrawn, which closes the session unless it has started.
Cancel(p) ==
    /\ failed' = failed \ {p}
    /\ closed' \in {closed, IF p \in started THEN closed ELSE closed \cup {p}}
    /\ UNCHANGED <<paid, due, charger, started>>

Fail(p) ==
    /\ p \in paid \ started
    /\ failed' = failed \cup {p}
    /\ UNCHANGED <<paid, due, charger, started, closed>>

Next ==
    \/ \E p \in Publics : Pay(p) \/ Send(p) \/ Start(p) \/ Cancel(p) \/ Fail(p)
    \/ \E S \in SUBSET Publics : Excuse(S)
    \/ Adopt \/ Stop

Spec == Init /\ [][Next]_startVars
==============================================================================
