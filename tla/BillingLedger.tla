---------------------------- MODULE BillingLedger ----------------------------
(***************************************************************************)
(* What the charging core promises its billing department, with no word on *)
(* connections, transactions or caches.  A session is opened once, accrues *)
(* energy while it is open, is closed once with a final amount, and is     *)
(* billed at most once, for exactly that final amount.                     *)
(*                                                                         *)
(* ChargingSession implements this module (see LedgerSpec there).          *)
(***************************************************************************)
EXTENDS Naturals, Sequences

CONSTANT Sessions

VARIABLES
    phase,   \* phase[s]  : "none", "open" or "closed"
    amount,  \* amount[s] : energy accrued so far, or the final amount
    bills    \* bills[s]  : the amounts session s was billed for, in order

ledgerVars == <<phase, amount, bills>>

Init ==
    /\ phase = [s \in Sessions |-> "none"]
    /\ amount = [s \in Sessions |-> 0]
    /\ bills = [s \in Sessions |-> <<>>]

\* Only the sessions of S may change their amount.
AmountsOutsideKept(S) ==
    /\ amount' \in [Sessions -> Nat]
    /\ \A s \in Sessions \ S : amount'[s] = amount[s]

Open(s) ==
    /\ phase[s] = "none"
    /\ phase' = [phase EXCEPT ![s] = "open"]
    /\ UNCHANGED <<amount, bills>>

Accrue(s) ==
    /\ phase[s] = "open"
    /\ AmountsOutsideKept({s})
    /\ amount'[s] >= amount[s]
    /\ UNCHANGED <<phase, bills>>

\* Several sessions may close in one step: the database closes every row its
\* UPDATE matches.
Close(S) ==
    /\ S # {}
    /\ \A s \in S : phase[s] = "open"
    /\ phase' = [s \in Sessions |-> IF s \in S THEN "closed" ELSE phase[s]]
    /\ AmountsOutsideKept(S)
    /\ UNCHANGED bills

Bill(s) ==
    /\ phase[s] = "closed"
    /\ bills[s] = <<>>
    /\ bills' = [bills EXCEPT ![s] = <<amount[s]>>]
    /\ UNCHANGED <<phase, amount>>

Next ==
    \/ \E s \in Sessions : Open(s) \/ Accrue(s) \/ Bill(s)
    \/ \E S \in SUBSET Sessions : Close(S)

Spec == Init /\ [][Next]_ledgerVars
==============================================================================
