-------------------------- MODULE MCChargingSession --------------------------
(* Values of ChargingSession's constants for TLC, and a specification in which  *)
(* one charger serves a driver, or two chargers serve cards.                  *)
EXTENDS ChargingSession, TLC

CONSTANTS a, b, l1, l2, s1, s2, s3, p1

\* A charger that reconnected while its old connection was still being served.
OverlappingLoops == l1 :> a @@ l2 :> a
\* Two chargers, one connection each.
TwoChargers == l1 :> a @@ l2 :> b
\* One charger, one connection.
OneCharger == l1 :> a

SessionSymmetry == Permutations(Sessions)
\* Loops of the same charger are interchangeable.
OverlapSymmetry == Permutations(Sessions) \cup Permutations(Loops)

-----------------------------------------------------------------------------
(* Two chargers, or one charger and a driver: what arrives is restricted, what *)
(* a handler does with it is not.                                            *)

ByDriver ==
    \/ \E p \in Publics : public[p].own # NoSession
    \/ \E l \in Loops : ctx[l].tag \in Publics

Started(l) == pc[l] = "start_commit" \/ \E s \in Sessions : session[s].cp = CpOf[l]

\* The second charger sends something only when the first has started a session with a
\* card, and only when nothing fails.
SecondJoins == pc[l2] # "idle" \/ Started(l2) => Started(l1) /\ ~ByDriver /\ fails = 0

\* Ids are interchangeable: the first is given first.
FirstIdFirst ==
    \A l \in Loops : pc[l] = "idle" /\ pc'[l] = "start_commit" /\ ctx'[l].s = s2 =>
        session[s1].status # "absent" \/ \E k \in Loops : ctx[k].s = s1

\* What a handler does with a message is as in Next.
JoinedNext ==
    \/ \E l \in Loops : Receive(l) /\ SecondJoins' /\ FirstIdFirst
    \/ \E l \in Loops : Fail(l) /\ SecondJoins'
    \/ \E l \in Loops : Continue(l)
    \/ \E cp \in ChargePoints : Deliver(cp)

JoinedInit == Init /\ register[b] = 1

JoinedSpec ==
    /\ JoinedInit
    /\ [][JoinedNext]_vars
    /\ \A l \in Loops : WF_vars(Continue(l))
==============================================================================
