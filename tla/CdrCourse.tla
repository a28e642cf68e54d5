------------------------------ MODULE CdrCourse ------------------------------
(***************************************************************************)
(* What the event bus and the billing consumer promise about a CDR, with   *)
(* no word on batches, replies, crashes or processes.  A CDR is stored,    *)
(* handed over once, posted to Lago at most once and after all earlier     *)
(* posts, and settled (acknowledged) only when it was posted.  One that    *)
(* was handed over and is not posted stays open for an operator to claim;  *)
(* one that is never handed over was trimmed, the oldest first.            *)
(*                                                                         *)
(* EventDelivery implements this module (see CourseSpec there).            *)
(***************************************************************************)
EXTENDS Naturals, Sequences

VARIABLES
    fate,   \* fate[i]: how far the i-th event has come, "other" if it is not to be billed
    billed  \* the events Lago accepted

courseVars == <<fate, billed>>

Events == 1..Len(fate)

At(stage) == {i \in Events : fate[i] = stage}

\* S holds the oldest of the stored CDRs.
OldestStored(S) ==
    /\ S \subseteq At("stored")
    /\ \A i \in S, j \in At("stored") \ S : i < j

Move(S, stage) == [i \in Events |-> IF i \in S THEN stage ELSE fate[i]]

Init == fate = <<>> /\ billed = {}

\* A new event, for which some old ones may have to go.
Offer(S, stage) ==
    /\ OldestStored(S)
    /\ fate' = Append(Move(S, "trimmed"), stage)
    /\ UNCHANGED billed

HandOver(S) ==
    /\ S # {}
    /\ OldestStored(S)
    /\ fate' = Move(S, "open")
    /\ UNCHANGED billed

\* Lago may accept it or not.
Post(i) ==
    /\ fate[i] = "open"
    /\ \A j \in At("posted") \cup At("settled") : j < i
    /\ fate' = Move({i}, "posted")
    /\ billed' \in {billed, billed \cup {i}}

Settle(i) ==
    /\ fate[i] = "posted"
    /\ fate' = Move({i}, "settled")
    /\ UNCHANGED billed

Next ==
    \/ \E S \in SUBSET At("stored") :
          Offer(S, "stored") \/ Offer(S, "other") \/ HandOver(S)
    \/ \E i \in Events : Post(i) \/ Settle(i)

Spec == Init /\ [][Next]_courseVars
==============================================================================
