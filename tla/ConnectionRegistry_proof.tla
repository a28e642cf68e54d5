----------------------- MODULE ConnectionRegistry_proof -----------------------
(***************************************************************************)
(* Proofs about ConnectionRegistry: type correctness, the invariant        *)
(* RegistryInv, and that a charger that is gone is offline or about to be, *)
(* for any number of connections and commands.                             *)
(***************************************************************************)
EXTENDS ConnectionRegistry, TLAPS

\* No connection has the number that stands for none.
LEMMA NoneIsNoConn == None \notin Conns
BY BoundsAssumption DEF None, Conns

\* Every step keeps the types.
LEMMA TypeStep == TypeOK /\ [Next]_vars => TypeOK'
<1> SUFFICES ASSUME TypeOK, [Next]_vars PROVE TypeOK'
  OBVIOUS
<1> USE DEF TypeOK, LoopSteps, CleanUpSteps, Places
<1>1. ASSUME NEW c \in Conns, Connect(c) PROVE TypeOK'
  BY <1>1 DEF Connect
<1>2. ASSUME NEW c \in Conns, Drop(c) PROVE TypeOK'
  BY <1>2 DEF Drop, registries
<1>3. ASSUME NEW c \in Conns, Boot(c) \/ Heartbeat(c) PROVE TypeOK'
  BY <1>3 DEF Boot, Heartbeat, Write, registries
<1>4. ASSUME NEW c \in Conns, Continue(c) PROVE TypeOK'
  <2>1. CASE Leave(c)
    BY <2>1 DEF Leave
  <2>2. CASE BootRedis(c) \/ BootEvent(c) \/ BeatDb(c) \/ BeatEvent(c)
    BY <2>2 DEF BootRedis, BootEvent, BeatDb, BeatEvent, Write, registries
  <2>3. CASE OffRedis(c) \/ OffDb(c) \/ OffEvent(c)
    BY <2>3 DEF OffRedis, OffDb, OffEvent, Write, registries
  <2>4. QED BY <1>4, <2>1, <2>2, <2>3 DEF Continue
<1>5. ASSUME NEW c \in Conns, Fail(c) PROVE TypeOK'
  BY <1>5 DEF Fail, registries
<1>6. ASSUME NEW m \in Calls, Send(m) PROVE TypeOK'
  BY <1>6 DEF Send, registries
<1>7. ASSUME NEW m \in Calls, NEW c \in Conns, Answer(c, m) PROVE TypeOK'
  BY <1>7 DEF Answer, registries
<1>8. CASE Restart
  BY <1>8 DEF Restart
<1>9. CASE UNCHANGED vars
  BY <1>9 DEF vars, registries
<1>10. QED
  BY <1>1, <1>2, <1>3, <1>4, <1>5, <1>6, <1>7, <1>8, <1>9 DEF Next

\* A step that leaves the registries and the set of served connections alone
\* keeps what the invariant says about them.
LEMMA RegistriesKept ==
    ASSUME TypeOK, RegistryInv, UNCHANGED <<connections, handlers, overlapped>>, Served' = Served
    PROVE  RegistriesAgree' /\ RegisteredIsServed' /\ ReachableUnlessOverlapped'
BY DEF RegistryInv, RegistriesAgree, RegisteredIsServed, ReachableUnlessOverlapped

\* Every step keeps the registries' invariant.
LEMMA RegistryStep == TypeOK /\ RegistryInv /\ [Next]_vars => RegistryInv'
<1> SUFFICES ASSUME TypeOK, RegistryInv, [Next]_vars PROVE RegistryInv'
  OBVIOUS
<1> USE NoneIsNoConn
<1>1. ASSUME NEW c \in Conns, Connect(c) PROVE RegistryInv'
  <2>1. connections' = c /\ handlers' = c /\ UNCHANGED <<calls, wire>>
    BY <1>1 DEF Connect
  <2>2. Served' = Served \cup {c}
    BY <1>1 DEF Connect, Served, TypeOK, LoopSteps
  <2>3. ~overlapped' => Served = {}
    BY <1>1 DEF Connect
  <2>4. QED
    BY <2>1, <2>2, <2>3 DEF RegistryInv, RegistriesAgree, RegisteredIsServed,
         AnswersAreTracked, ReachableUnlessOverlapped
<1>2. ASSUME NEW c \in Conns, Leave(c) PROVE RegistryInv'
  <2>1. connections' = None /\ handlers' = None /\ UNCHANGED <<calls, wire, overlapped>>
    BY <1>2 DEF Leave
  <2>2. c \in Served /\ Served' = Served \ {c}
    BY <1>2 DEF Leave, Served, TypeOK, LoopSteps, CleanUpSteps
  <2>3. ~overlapped => Served = {c}
    BY <2>2 DEF RegistryInv, ReachableUnlessOverlapped, Served
  <2>4. QED
    BY <2>1, <2>2, <2>3 DEF RegistryInv, RegistriesAgree, RegisteredIsServed,
         AnswersAreTracked, ReachableUnlessOverlapped
<1>3. ASSUME NEW m \in Calls, Send(m) PROVE RegistryInv'
  <2>1. Served' = Served /\ UNCHANGED <<connections, handlers, overlapped>>
    BY <1>3 DEF Send, Served, registries
  <2>2. AnswersAreTracked'
    BY <1>3 DEF Send, RegistryInv, RegistriesAgree, AnswersAreTracked, TypeOK
  <2>3. QED BY <2>1, <2>2, RegistriesKept DEF RegistryInv
<1>4. ASSUME NEW m \in Calls, NEW c \in Conns, Answer(c, m) PROVE RegistryInv'
  <2>1. Served' = Served /\ UNCHANGED <<connections, handlers, overlapped>>
    BY <1>4 DEF Answer, Served, registries
  <2>2. AnswersAreTracked'
    BY <1>4 DEF Answer, RegistryInv, AnswersAreTracked, TypeOK
  <2>3. QED BY <2>1, <2>2, RegistriesKept DEF RegistryInv
<1>5. CASE Restart
  <2>1. Served' = {}
    BY <1>5 DEF Restart, Served, LoopSteps
  <2>2. QED
    BY <1>5, <2>1 DEF Restart, RegistryInv, RegistriesAgree, RegisteredIsServed,
         AnswersAreTracked, ReachableUnlessOverlapped
<1>6. ASSUME Served' = Served, UNCHANGED <<connections, handlers, calls, wire, overlapped>>
      PROVE  RegistryInv'
  BY <1>6, RegistriesKept DEF RegistryInv, AnswersAreTracked
<1>7. ASSUME NEW c \in Conns, Drop(c) \/ Boot(c) \/ Heartbeat(c) \/ Fail(c) PROVE RegistryInv'
  <2>1. Served' = Served
    BY <1>7 DEF Drop, Boot, Heartbeat, Fail, Write, Served, LoopSteps, CleanUpSteps, TypeOK
  <2>2. QED
    BY <1>6, <1>7, <2>1 DEF Drop, Boot, Heartbeat, Fail, Write, registries
<1>8. ASSUME NEW c \in Conns, Continue(c) PROVE RegistryInv'
  <2>1. CASE Leave(c)
    BY <1>2, <2>1
  <2>2. CASE ~Leave(c)
    <3>1. Served' = Served
      BY <1>8, <2>2 DEF Continue, BootRedis, BootEvent, BeatDb, BeatEvent, OffRedis, OffDb,
           OffEvent, Write, Served, LoopSteps, CleanUpSteps, TypeOK
    <3>2. QED
      BY <1>6, <1>8, <2>2, <3>1 DEF Continue, BootRedis, BootEvent, BeatDb, BeatEvent,
           OffRedis, OffDb, OffEvent, Write, registries
  <2>3. QED BY <2>1, <2>2
<1>9. CASE UNCHANGED vars
  BY <1>6, <1>9 DEF vars, registries, Served
<1>10. QED
  BY <1>1, <1>3, <1>4, <1>5, <1>7, <1>8, <1>9 DEF Next

\* Every reachable state is well typed and satisfies the registries' invariant.
LEMMA Invariants == Spec => [](TypeOK /\ RegistryInv)
<1>1. Init => TypeOK /\ RegistryInv
  <2> SUFFICES ASSUME Init PROVE TypeOK /\ RegistryInv
    OBVIOUS
  <2>1. TypeOK
    BY DEF Init, TypeOK, LoopSteps, CleanUpSteps, Places
  <2>2. Served = {}
    BY DEF Init, Served, LoopSteps
  <2>3. RegistryInv
    BY <2>2, NoneIsNoConn DEF Init, RegistryInv, RegistriesAgree, RegisteredIsServed,
         AnswersAreTracked, ReachableUnlessOverlapped
  <2>4. QED BY <2>1, <2>3
<1>2. TypeOK /\ RegistryInv /\ [Next]_vars => TypeOK' /\ RegistryInv'
  BY TypeStep, RegistryStep
<1>3. QED BY <1>1, <1>2, PTL DEF Spec

\* The state of every connection, of the registries and of the status has its type.
THEOREM TypeCorrect == Spec => []TypeOK
BY Invariants, PTL

\* No command is written to a connection whose message loop has ended.
THEOREM NoDeadConnection == Spec => []RegisteredIsServed
<1>1. RegistryInv => RegisteredIsServed
  BY DEF RegistryInv
<1>2. QED BY <1>1, Invariants, PTL

\* Every command in flight is known to the handler that will read its answer.
THEOREM CallsTracked == Spec => []AnswersAreTracked
<1>1. RegistryInv => AnswersAreTracked
  BY DEF RegistryInv
<1>2. QED BY <1>1, Invariants, PTL

\* A charger that never overlaps its connections is reachable exactly while it is
\* served.
THEOREM ServedIsReachable == Spec => []ReachableUnlessOverlapped
<1>1. RegistryInv => ReachableUnlessOverlapped
  BY DEF RegistryInv
<1>2. QED BY <1>1, Invariants, PTL

-----------------------------------------------------------------------------
(* A charger that is gone is offline, or a clean-up is on its way to say so *)

\* The steps of the clean-up that come before, or are, the write to a place.
StillWrites(p) ==
    CASE p = "redis"  -> {"off_redis"}
      [] p = "db"     -> {"off_redis", "off_db"}
      [] p = "events" -> CleanUpSteps

\* When no loop is left of a charger that never overlapped its connections, each place
\* says offline or there is a clean-up that will still write it there.
OfflineUnderWay ==
    ~overlapped /\ fails = 0 /\ Served = {} /\ (\E c \in Conns : pc[c] # "none") =>
        \A p \in Places : status[p] = "offline" \/ \E c \in Conns : pc[c] \in StillWrites(p)

\* A connection has a task as soon as it has a socket.
SocketsHaveTasks == \A c \in Conns : pc[c] = "none" => sock[c] = "unused"

\* A clean-up that goes on has written the place or has it still to write.
LEMMA CleanUpGoesOn ==
    ASSUME TypeOK, NEW c \in Conns, OffRedis(c) \/ OffDb(c) \/ OffEvent(c),
           NEW p \in Places, status[p] = "offline" \/ \E k \in Conns : pc[k] \in StillWrites(p)
    PROVE  status'[p] = "offline" \/ \E k \in Conns : pc'[k] \in StillWrites(p)
<1> USE DEF TypeOK, Places, StillWrites, CleanUpSteps
<1>1. CASE status[p] = "offline"
  BY <1>1 DEF OffRedis, OffDb, OffEvent, Write
<1>2. ASSUME NEW k \in Conns, pc[k] \in StillWrites(p), k # c
      PROVE  pc'[k] \in StillWrites(p)
  BY <1>2 DEF OffRedis, OffDb, OffEvent, Write
<1>3. ASSUME pc[c] \in StillWrites(p)
      PROVE  status'[p] = "offline" \/ pc'[c] \in StillWrites(p)
  BY <1>3 DEF OffRedis, OffDb, OffEvent, Write
<1>4. QED BY <1>1, <1>2, <1>3

\* Every step keeps it that a charger that is gone is offline or about to be.
LEMMA OfflineStep ==
    TypeOK /\ RegistryInv /\ OfflineUnderWay /\ [Next]_vars => OfflineUnderWay'
<1> SUFFICES ASSUME TypeOK, RegistryInv, OfflineUnderWay, [Next]_vars,
                    ~overlapped', fails' = 0, Served' = {}, NEW d \in Conns, pc'[d] # "none",
                    NEW p \in Places
             PROVE  status'[p] = "offline" \/ \E c \in Conns : pc'[c] \in StillWrites(p)
  BY DEF OfflineUnderWay
<1> DEFINE Done == status'[p] = "offline" \/ \E c \in Conns : pc'[c] \in StillWrites(p)
<1>1. ASSUME NEW c \in Conns, pc'[c] \in LoopSteps PROVE FALSE
  BY <1>1 DEF Served
<1>2. ASSUME UNCHANGED <<pc, status, overlapped, fails>> PROVE Done
  BY <1>2 DEF OfflineUnderWay, Served
<1>3. ASSUME NEW c \in Conns, Connect(c) \/ Boot(c) \/ Heartbeat(c) PROVE FALSE
  <2>1. pc'[c] \in LoopSteps
    BY <1>3 DEF Connect, Boot, Heartbeat, Write, TypeOK, LoopSteps
  <2>2. QED BY <1>1, <2>1
<1>4. ASSUME NEW c \in Conns, Fail(c) \/ Restart PROVE FALSE
  BY <1>4 DEF Fail, Restart, TypeOK
<1>5. ASSUME NEW c \in Conns, Continue(c) PROVE Done
  <2>1. CASE BootRedis(c) \/ BootEvent(c) \/ BeatDb(c) \/ BeatEvent(c)
    <3>1. pc'[c] \in LoopSteps
      BY <2>1 DEF BootRedis, BootEvent, BeatDb, BeatEvent, Write, TypeOK, LoopSteps
    <3>2. QED BY <1>1, <3>1
  <2>2. CASE Leave(c)
    <3>1. c \in Served /\ ~overlapped
      BY <2>2 DEF Leave, Served, LoopSteps
    <3>2. handlers = c /\ c # None
      BY <3>1, NoneIsNoConn DEF RegistryInv, RegistriesAgree, ReachableUnlessOverlapped
    <3>3. pc'[c] = "off_redis"
      BY <2>2, <3>2 DEF Leave, TypeOK
    <3>4. QED BY <3>3 DEF StillWrites, CleanUpSteps, Places
  <2>3. CASE OffRedis(c) \/ OffDb(c) \/ OffEvent(c)
    <3>1. UNCHANGED <<overlapped, fails>>
      BY <2>3 DEF OffRedis, OffDb, OffEvent, Write
    <3>2. pc[c] # "none" /\ Served = {}
      <4>1. pc[c] \in CleanUpSteps /\ pc'[c] \notin LoopSteps
            /\ \A k \in Conns \ {c} : pc'[k] = pc[k]
        BY <2>3 DEF OffRedis, OffDb, OffEvent, Write, TypeOK, CleanUpSteps, LoopSteps
      <4>2. QED BY <4>1, <1>1 DEF Served, CleanUpSteps, LoopSteps
    <3>3. status[p] = "offline" \/ \E k \in Conns : pc[k] \in StillWrites(p)
      BY <3>1, <3>2 DEF OfflineUnderWay
    <3>4. QED BY <2>3, <3>3, CleanUpGoesOn
  <2>4. QED BY <1>5, <2>1, <2>2, <2>3 DEF Continue
<1>6. ASSUME NEW c \in Conns, Drop(c) PROVE Done
  BY <1>2, <1>6 DEF Drop
<1>7. ASSUME NEW m \in Calls, Send(m) \/ \E c \in Conns : Answer(c, m) PROVE Done
  BY <1>2, <1>7 DEF Send, Answer
<1>8. CASE UNCHANGED vars
  BY <1>2, <1>8 DEF vars
<1>9. QED BY <1>3, <1>4, <1>5, <1>6, <1>7, <1>8 DEF Next

\* A step gives a connection its socket together with its task.
LEMMA SocketStep == TypeOK /\ SocketsHaveTasks /\ [Next]_vars => SocketsHaveTasks'
<1> SUFFICES ASSUME TypeOK, SocketsHaveTasks, [Next]_vars PROVE SocketsHaveTasks'
  OBVIOUS
<1> USE DEF SocketsHaveTasks, TypeOK
<1>1. ASSUME NEW c \in Conns, Connect(c) \/ Drop(c) PROVE SocketsHaveTasks'
  BY <1>1 DEF Connect, Drop
<1>2. ASSUME NEW c \in Conns, Boot(c) \/ Heartbeat(c) \/ Continue(c) \/ Fail(c)
      PROVE  SocketsHaveTasks'
  BY <1>2 DEF Boot, Heartbeat, Continue, Leave, BootRedis, BootEvent, BeatDb, BeatEvent,
     OffRedis, OffDb, OffEvent, Fail, Write
<1>3. ASSUME NEW m \in Calls, Send(m) \/ \E c \in Conns : Answer(c, m)
      PROVE  SocketsHaveTasks'
  BY <1>3 DEF Send, Answer
<1>4. CASE Restart
  BY <1>4 DEF Restart
<1>5. CASE UNCHANGED vars
  BY <1>5 DEF vars
<1>6. QED BY <1>1, <1>2, <1>3, <1>4, <1>5 DEF Next

\* A clean-up is not lost: without overlapping connections and failures, whatever the next
\* connection's boot and the former one's clean-up do to each other's writes, the last
\* loop to end is followed by its clean-up (on_disconnect).
THEOREM OfflineIsUnderWay == Spec => []OfflineUnderWay
<1>1. Init => OfflineUnderWay
  BY DEF Init, OfflineUnderWay
<1>2. QED BY <1>1, OfflineStep, Invariants, PTL DEF Spec

\* A charger that is gone, with no task of its connections left, is shown offline
\* everywhere, if it opened one connection at a time: what GoneShownUnlessOverlapped says
\* of the end of a clean-up (on_disconnect).
THEOREM GoneIsSettled ==
    Spec => [](Gone /\ (\A c \in Conns : pc[c] \in {"none", "done"})
                    /\ ~overlapped /\ fails = 0 => ShownOffline)
<1>1. Init => SocketsHaveTasks
  BY DEF Init, SocketsHaveTasks
<1>2. OfflineUnderWay /\ SocketsHaveTasks =>
          (Gone /\ (\A c \in Conns : pc[c] \in {"none", "done"})
                /\ ~overlapped /\ fails = 0 => ShownOffline)
  <2> SUFFICES ASSUME OfflineUnderWay, SocketsHaveTasks, Gone, ~overlapped, fails = 0,
                      \A c \in Conns : pc[c] \in {"none", "done"}
               PROVE  ShownOffline
    OBVIOUS
  <2>1. Served = {}
    BY DEF Served, LoopSteps
  <2>2. \E c \in Conns : pc[c] # "none"
    BY DEF Gone, SocketsHaveTasks
  <2>3. QED
    BY <2>1, <2>2 DEF OfflineUnderWay, ShownOffline, StillWrites, CleanUpSteps, Places
<1>3. QED BY <1>1, <1>2, SocketStep, OfflineIsUnderWay, TypeCorrect, PTL DEF Spec
==============================================================================
