------------------------- MODULE EventDelivery_proof -------------------------
(***************************************************************************)
(* The delivery invariant of EventDelivery, for every stream length, batch *)
(* size and number of events and faults.                                   *)
(***************************************************************************)
EXTENDS EventDelivery, SequenceTheorems, TLAPS

\* The batch a read delivers: what follows the last delivered entry, or the trimmed
\* ones after it, up to an entry the stream has.
LEMMA BatchBounds ==
    ASSUME TypeOK, Unread <= Len(log)
    PROVE  /\ Unread \in Nat \ {0} /\ Unread > last /\ Unread >= first
           /\ BatchEnd \in Nat /\ BatchEnd >= Unread /\ BatchEnd <= Len(log)
           /\ \A i \in (last + 1)..BatchEnd : i < first \/ i \in Unread..BatchEnd
  BY SizesAssumption DEF TypeOK, Unread, BatchEnd

\* A sequence of entries stays one when more entries are delivered, and when one
\* of them is posted.
LEMMA PostsGrow ==
    ASSUME NEW m \in Nat, NEW n \in Nat, m <= n, NEW q \in Seq(1..m), NEW e \in 1..n
    PROVE  q \in Seq(1..n) /\ Append(q, e) \in Seq(1..n)
  <1>1. 1..m \subseteq 1..n OBVIOUS
  <1>2. q \in Seq(1..n) BY <1>1
  <1>3. QED BY <1>2

\* Every step keeps the types.
LEMMA TypeStep ==
    ASSUME TypeOK, DeliveryInv, [Next]_vars
    PROVE  TypeOK'
  <1> USE DEF TypeOK, streamVars, groupVars, lagoVars
  <1>1. ASSUME NEW kind \in Kinds, Publish(kind) PROVE TypeOK'
    BY <1>1 DEF Publish
  <1>2. ASSUME Deliver, at' \in 0..last', UNCHANGED <<streamVars, lagoVars>>,
               pc' \in Steps, boots' \in Nat, faults' \in Nat
        PROVE  TypeOK'
    <2>1. last' \in 0..Len(log) /\ last <= last' /\ pending' \subseteq 1..last'
      <3>1. last' = BatchEnd /\ pending' = pending \cup (Unread..BatchEnd) /\ Unread <= Len(log)
        BY <1>2 DEF Deliver
      <3>2. pending \subseteq 1..BatchEnd /\ Unread..BatchEnd \subseteq 1..BatchEnd
        BY <3>1, BatchBounds
      <3>3. BatchEnd \in 0..Len(log) /\ last <= BatchEnd
        BY <3>1, BatchBounds
      <3>4. QED BY <3>1, <3>2, <3>3
    <2>2. posts' \in Seq(1..last')
      <3>1. 1..last \subseteq 1..last' BY <2>1
      <3>2. posts' = posts /\ posts \in Seq(1..last) BY <1>2
      <3>3. last \in Nat /\ last' \in Nat /\ last <= last' BY <2>1
      <3>4. CASE last' = 0 BY <3>2, <3>3, <3>4
      <3>5. CASE last' # 0
        <4>1. last' \in 1..last' BY <3>3, <3>5
        <4>2. QED BY <3>2, <3>3, <4>1, PostsGrow
      <3>6. QED BY <3>4, <3>5
    <2>3. QED BY <1>2, <2>1, <2>2
  <1>3. CASE Read
    <2>1. at' \in 0..last' BY <1>3, BatchBounds DEF Read, Deliver
    <2>2. QED BY <1>2, <1>3, <2>1 DEF Read, Steps
  <1>4. CASE ReadLost
    <2>1. at' \in 0..last' BY <1>4, BatchBounds DEF ReadLost, Deliver
    <2>2. QED BY <1>2, <1>4, <2>1 DEF ReadLost, Fault
  <1>5. CASE Take
    <2>1. log[at'] \in Kinds BY <1>5 DEF Take
    <2>2. QED BY <1>5, <2>1 DEF Take, Kinds, Steps
  <1>6. CASE BatchDone \/ JoinGroup
    <2>1. pc' \in Steps BY <1>6 DEF BatchDone, JoinGroup, Steps
    <2>2. UNCHANGED <<streamVars, groupVars, at, lagoVars, boots, faults>>
      BY <1>6 DEF BatchDone, JoinGroup
    <2>3. QED BY <2>1, <2>2
  <1>7. CASE Resolve BY <1>7 DEF Resolve, Steps
  <1>8. CASE ResolveRaises \/ GroupRaises
    <2>1. pc' \in Steps /\ faults' \in Nat BY <1>8 DEF ResolveRaises, GroupRaises, Fault, Steps
    <2>2. UNCHANGED <<streamVars, groupVars, at, lagoVars, boots>>
      BY <1>8 DEF ResolveRaises, GroupRaises
    <2>3. QED BY <2>1, <2>2
  <1>9. CASE Post \/ PostFails
    <2>1. at \in 1..last BY <1>9 DEF Post, PostFails, DeliveryInv, InMemoryPending
    <2>2. posts' = Append(posts, at) /\ UNCHANGED <<log, first, last, pending, at, boots>>
      BY <1>9 DEF Post, PostFails
    <2>3. posts' \in Seq(1..last) BY <2>1, <2>2
    <2>4. lago' \subseteq 1..last /\ pc' \in Steps /\ faults' \in Nat
      <3>1. lago' \subseteq lago \cup {at} BY <1>9 DEF Post, PostFails
      <3>2. pc' = "ack" BY <1>9 DEF Post, PostFails
      <3>3. faults' \in Nat BY <1>9 DEF Post, PostFails, Fault
      <3>4. QED BY <2>1, <3>1, <3>2, <3>3 DEF Steps
    <2>5. QED BY <2>2, <2>3, <2>4
  <1>10. CASE Ack \/ AckFails
    <2>1. pending' \subseteq pending /\ pc' \in Steps /\ faults' \in Nat
      BY <1>10 DEF Ack, AckFails, Fault, Steps
    <2>2. UNCHANGED <<log, first, last, at, posts, lago, boots>>
      BY <1>10 DEF Ack, AckFails
    <2>3. QED BY <2>1, <2>2
  <1>11. CASE Restart BY <1>11 DEF Restart, Fault, Steps
  <1>12. CASE UNCHANGED vars BY <1>12 DEF vars
  <1>13. QED BY <1>1, <1>3, <1>4, <1>5, <1>6, <1>7, <1>8, <1>9, <1>10, <1>11, <1>12
             DEF Next, Consume

\* What is in memory stays pending until it is acknowledged.
LEMMA MemoryStep ==
    ASSUME TypeOK, DeliveryInv, [Next]_vars
    PROVE  InMemoryPending'
  <1> USE DEF TypeOK, InMemoryPending, DeliveryInv, streamVars, groupVars, lagoVars
  <1>1. ASSUME NEW kind \in Kinds, Publish(kind) PROVE InMemoryPending'
    BY <1>1 DEF Publish
  <1>2. CASE Read BY <1>2, BatchBounds DEF Read, Deliver
  <1>3. CASE ReadLost BY <1>3, BatchBounds DEF ReadLost, Deliver
  <1>4. CASE Take
    <2>1. pc' \in {"take", "resolve", "ack"}
      <3>1. log[at'] \in Kinds BY <1>4 DEF Take
      <3>2. QED BY <1>4, <3>1 DEF Take, Kinds
    <2>2. QED BY <1>4, <2>1 DEF Take
  <1>5. CASE BatchDone \/ JoinGroup BY <1>5 DEF BatchDone, JoinGroup
  <1>6. CASE Resolve BY <1>6 DEF Resolve
  <1>7. CASE ResolveRaises \/ GroupRaises BY <1>7 DEF ResolveRaises, GroupRaises
  <1>8. CASE Post \/ PostFails BY <1>8 DEF Post, PostFails
  <1>9. CASE Ack \/ AckFails BY <1>9 DEF Ack, AckFails
  <1>10. CASE Restart BY <1>10 DEF Restart
  <1>11. CASE UNCHANGED vars BY <1>11 DEF vars
  <1>12. QED BY <1>1, <1>2, <1>3, <1>4, <1>5, <1>6, <1>7, <1>8, <1>9, <1>10, <1>11
             DEF Next, Consume

\* Posting the entry being handled.
LEMMA PostExtends ==
    ASSUME TypeOK, DeliveryInv, Post \/ PostFails
    PROVE  /\ Len(posts') = Len(posts) + 1
           /\ posts'[Len(posts) + 1] = at
           /\ \A i \in 1..Len(posts) : posts'[i] = posts[i] /\ posts[i] < at
           /\ Posted' = Posted \cup {at}
  <1>1. posts' = Append(posts, at) /\ posts \in Seq(1..last) /\ pc = "post"
    BY DEF Post, PostFails, TypeOK
  <1>2. at \in 1..last
    BY <1>1 DEF DeliveryInv, InMemoryPending
  <1>3. /\ Len(posts) \in Nat /\ Len(posts') = Len(posts) + 1
        /\ posts'[Len(posts) + 1] = at
        /\ \A i \in 1..Len(posts) : posts'[i] = posts[i]
    BY <1>1, <1>2
  <1>4. \A i \in 1..Len(posts) : posts[i] \in 1..last /\ posts[i] <= at /\ posts[i] # at
    BY <1>1 DEF DeliveryInv, PostsBehind, Posted, TypeOK
  <1>5. \A i \in 1..Len(posts) : posts[i] < at
    BY <1>2, <1>4 DEF TypeOK
  <1>6. Posted' = Posted \cup {at}
    BY <1>3 DEF Posted
  <1>7. QED BY <1>3, <1>5, <1>6

\* Every step keeps what is known of the posted entries.
LEMMA PostsStep ==
    ASSUME TypeOK, DeliveryInv, [Next]_vars
    PROVE  PostsBehind' /\ PostedOnceInOrder'
  <1> USE DEF TypeOK, PostsBehind, DeliveryInv, streamVars, groupVars, lagoVars
  <1>1. CASE Post \/ PostFails
    <2>1. PostsBehind'
      <3>1. pc' = "ack" /\ UNCHANGED <<log, at, last>> BY <1>1 DEF Post, PostFails
      <3>2. at \in Posted' BY <1>1, PostExtends
      <3>3. \A i \in 1..Len(posts') : posts'[i] <= at'
        <4>1. Len(posts) \in Nat /\ at \in Nat OBVIOUS
        <4>2. SUFFICES ASSUME NEW i \in 1..Len(posts') PROVE posts'[i] <= at
          BY <3>1
        <4>3. CASE i = Len(posts) + 1 BY <1>1, <4>1, <4>3, PostExtends
        <4>4. CASE i \in 1..Len(posts)
          <5>1. posts'[i] = posts[i] /\ posts[i] <= at BY <1>1, <4>4, PostExtends
          <5>2. QED BY <5>1
        <4>5. QED BY <1>1, <4>1, <4>3, <4>4, PostExtends
      <3>4. QED BY <3>1, <3>2, <3>3
    <2>2. PostedOnceInOrder'
      <3>1. Len(posts) \in Nat /\ Len(posts') = Len(posts) + 1 BY <1>1, PostExtends
      <3>2. SUFFICES ASSUME NEW i \in 1..Len(posts'), NEW j \in 1..Len(posts'), i < j
                     PROVE  posts'[i] < posts'[j]
        BY DEF PostedOnceInOrder
      <3>3. i \in 1..Len(posts) /\ posts'[i] = posts[i] /\ posts[i] < at
        BY <1>1, <3>1, <3>2, PostExtends
      <3>4. CASE j = Len(posts) + 1 BY <1>1, <3>3, <3>4, PostExtends
      <3>5. CASE j \in 1..Len(posts)
        <4>1. posts'[j] = posts[j] BY <1>1, <3>5, PostExtends
        <4>2. posts[i] < posts[j] BY <3>2, <3>3, <3>5 DEF PostedOnceInOrder
        <4>3. QED BY <3>3, <4>1, <4>2
      <3>6. QED BY <3>1, <3>4, <3>5
    <2>3. QED BY <2>1, <2>2
  <1>2. ASSUME UNCHANGED posts PROVE Posted' = Posted /\ PostedOnceInOrder'
    BY <1>2 DEF Posted, PostedOnceInOrder
  <1>3. ASSUME NEW kind \in Kinds, Publish(kind) PROVE PostsBehind'
    <2>1. pc \in {"resolve", "post", "ack"} => log'[at] = log[at]
      BY <1>3 DEF Publish, InMemoryPending
    <2>2. QED BY <1>2, <1>3, <2>1 DEF Publish
  <1>4. CASE Read \/ ReadLost
    <2>1. at <= at' /\ pc' \in {"take", "read"} BY <1>4, BatchBounds DEF Read, ReadLost, Deliver
    <2>2. UNCHANGED posts BY <1>4 DEF Read, ReadLost
    <2>3. \A i \in 1..Len(posts) : posts[i] \in Nat OBVIOUS
    <2>4. at \in Nat /\ at' \in Nat BY <1>4, BatchBounds DEF Read, ReadLost, Deliver
    <2>5. \A i \in 1..Len(posts) : posts[i] <= at' BY <2>1, <2>3, <2>4
    <2>6. QED BY <1>2, <2>1, <2>2, <2>5
  <1>5. CASE Take
    <2>1. log[at'] \in Kinds BY <1>5 DEF Take
    <2>2. \A i \in 1..Len(posts) : posts[i] \in Nat /\ posts[i] <= at OBVIOUS
    <2>3. at' \notin Posted BY <1>5, <2>2 DEF Take, Posted
    <2>4. pc' \in {"take", "resolve", "ack"} /\ (pc' = "ack" => log[at'] # "cdr")
      BY <1>5, <2>1 DEF Take, Kinds
    <2>5. \A i \in 1..Len(posts) : posts[i] <= at' BY <1>5, <2>2 DEF Take
    <2>6. UNCHANGED <<posts, log>> BY <1>5 DEF Take
    <2>7. QED BY <1>2, <2>3, <2>4, <2>5, <2>6
  <1>6. CASE BatchDone \/ JoinGroup BY <1>2, <1>6 DEF BatchDone, JoinGroup
  <1>7. CASE Resolve BY <1>2, <1>7 DEF Resolve
  <1>8. CASE ResolveRaises \/ GroupRaises BY <1>2, <1>8 DEF ResolveRaises, GroupRaises
  <1>9. CASE Ack \/ AckFails BY <1>2, <1>9 DEF Ack, AckFails
  <1>10. CASE Restart
    <2>1. \A i \in 1..Len(posts) : posts[i] \in 1..last OBVIOUS
    <2>2. QED BY <1>2, <1>10, <2>1 DEF Restart
  <1>11. CASE UNCHANGED vars BY <1>2, <1>11 DEF vars
  <1>12. UNCHANGED posts \/ Post \/ PostFails
    BY DEF Next, Consume, Publish, JoinGroup, GroupRaises, Read, ReadLost, Take, BatchDone,
           Resolve, ResolveRaises,
           Ack, AckFails, Restart, vars
  <1>13. QED BY <1>1, <1>2, <1>3, <1>4, <1>5, <1>6, <1>7, <1>8, <1>9, <1>10, <1>11, <1>12
             DEF Next, Consume

\* Every delivered CDR keeps its trace.
LEMMA TraceStep ==
    ASSUME TypeOK, DeliveryInv, [Next]_vars
    PROVE  NoneVanishes'
  <1> USE DEF TypeOK, DeliveryInv, streamVars, groupVars, lagoVars
  <1> SUFFICES ASSUME NEW i \in 1..last', log'[i] = "cdr"
               PROVE  i \in Posted' \/ i \in pending' \/ i < first'
    BY DEF NoneVanishes
  <1>1. Posted \subseteq Posted'
    <2>1. CASE Post \/ PostFails BY <2>1, PostExtends
    <2>2. CASE UNCHANGED posts BY <2>2 DEF Posted
    <2>3. QED
      BY <2>1, <2>2
      DEF Next, Consume, Publish, JoinGroup, GroupRaises, Read, ReadLost, Take, BatchDone, Resolve,
             ResolveRaises, Ack, AckFails, Restart, vars
  <1>2. ASSUME NEW kind \in Kinds, Publish(kind) PROVE i \in Posted' \/ i \in pending' \/ i < first'
    <2>1. i \in 1..last /\ log[i] = "cdr" /\ first' >= first
      BY <1>2 DEF Publish
    <2>2. QED BY <1>1, <1>2, <2>1 DEF Publish, NoneVanishes
  <1>3. CASE Read \/ ReadLost
    <2>1. /\ first' = first /\ log' = log /\ Unread <= Len(log)
          /\ last' = BatchEnd /\ pending' = pending \cup (Unread..BatchEnd)
      BY <1>3 DEF Read, ReadLost, Deliver
    <2>2. CASE i <= last BY <1>1, <2>1, <2>2 DEF NoneVanishes
    <2>3. CASE i > last BY <2>1, <2>3, BatchBounds
    <2>4. QED BY <2>2, <2>3
  <1>4. CASE Ack \/ AckFails
    <2>1. i \in 1..last /\ log[i] = "cdr" /\ first' = first
      BY <1>4 DEF Ack, AckFails
    <2>2. pending \ {at} \subseteq pending' /\ (log[at] = "cdr" => at \in Posted)
      BY <1>4 DEF Ack, AckFails, PostsBehind
    <2>3. QED BY <1>1, <2>1, <2>2 DEF NoneVanishes
  <1>5. CASE Take \/ BatchDone \/ JoinGroup \/ GroupRaises \/ Resolve \/ ResolveRaises
             \/ Post \/ PostFails \/ Restart
             \/ UNCHANGED vars
    <2>1. UNCHANGED <<log, first, last, pending>>
      BY <1>5 DEF Take, BatchDone, JoinGroup, GroupRaises, Resolve, ResolveRaises, Post,
             PostFails, Restart, vars
    <2>2. QED BY <1>1, <2>1 DEF NoneVanishes
  <1>6. QED BY <1>2, <1>3, <1>4, <1>5 DEF Next, Consume

\* The types and the delivery invariant hold in every reachable state.
THEOREM DeliveryCorrect == Spec => [](TypeOK /\ DeliveryInv)
  <1>1. Init => TypeOK /\ DeliveryInv
    BY DEF Init, TypeOK, DeliveryInv, InMemoryPending, PostsBehind, PostedOnceInOrder,
           NoneVanishes, Steps, Posted
  <1>2. TypeOK /\ DeliveryInv /\ [Next]_vars => TypeOK' /\ DeliveryInv'
    BY TypeStep, MemoryStep, PostsStep, TraceStep DEF DeliveryInv
  <1>3. QED BY <1>1, <1>2, PTL DEF Spec

\* The stream, the group's pending list, what is in memory and what was posted keep
\* their types: nothing is delivered or posted that the stream did not have.
THEOREM TypeCorrect == Spec => []TypeOK
  BY DeliveryCorrect, PTL

\* However often the consumer crashes or a call fails, no CDR is posted twice and
\* none out of order.
THEOREM NoRepostedCdr == Spec => []PostedOnceInOrder
  <1>1. DeliveryInv => PostedOnceInOrder BY DEF DeliveryInv
  <1>2. QED BY <1>1, DeliveryCorrect, PTL

\* A delivered CDR was posted, is still pending, or was trimmed from the stream.
THEOREM CdrKeepsTrace == Spec => []NoneVanishes
  <1>1. DeliveryInv => NoneVanishes BY DEF DeliveryInv
  <1>2. QED BY <1>1, DeliveryCorrect, PTL

-----------------------------------------------------------------------------
(* The course of a CDR *)

\* The stream is never trimmed past its newest entry.
FirstWithin == first <= Len(log) + 1

LEMMA FirstStep == TypeOK /\ FirstWithin /\ [Next]_vars => FirstWithin'
  <1> SUFFICES ASSUME TypeOK, FirstWithin, [Next]_vars PROVE FirstWithin'
    OBVIOUS
  <1>1. ASSUME NEW kind \in Kinds, Publish(kind) PROVE FirstWithin'
    BY <1>1 DEF Publish, FirstWithin, TypeOK
  <1>2. CASE UNCHANGED <<log, first>>
    BY <1>2 DEF FirstWithin
  <1>3. QED
    BY <1>1, <1>2
    DEF Next, Consume, JoinGroup, GroupRaises, Read, ReadLost, Take, BatchDone, Resolve, ResolveRaises,
       Post, PostFails, Ack, AckFails, Restart, streamVars, vars

\* What each stage says of an event.
LEMMA FateMeans ==
    ASSUME TypeOK, NEW i \in 1..Len(log)
    PROVE  /\ Fate(i) = "other" <=> log[i] # "cdr"
           /\ Fate(i) = "stored" <=> log[i] = "cdr" /\ i > last /\ i >= first
           /\ Fate(i) = "open" <=> log[i] = "cdr" /\ i \in pending /\ i \notin Posted
           /\ Fate(i) = "posted" <=> log[i] = "cdr" /\ i \in pending /\ i \in Posted
           /\ Fate(i) = "settled" <=> log[i] = "cdr" /\ i \notin pending /\ i \in Posted
           /\ Fate(i) \in {"other", "stored", "open", "posted", "settled", "trimmed"}
  <1>1. Posted \subseteq 1..last /\ pending \subseteq 1..last
    BY DEF TypeOK, Posted
  <1>2. i \in Nat /\ last \in Nat /\ first \in Nat
    BY DEF TypeOK
  <1>3. i > last => i \notin Posted /\ i \notin pending
    BY <1>1, <1>2
  <1>4. QED BY <1>2, <1>3 DEF Fate

\* Only entries that were delivered are pending or posted.
LEMMA OnlyDelivered ==
    ASSUME TypeOK
    PROVE  Posted \subseteq 1..last /\ pending \subseteq 1..last
  BY DEF TypeOK, Posted

\* The fate of an event of which nothing changes.
LEMMA FateKept ==
    ASSUME UNCHANGED <<last, first>>, NEW i, log'[i] = log[i],
           i \in Posted' <=> i \in Posted, i \in pending' <=> i \in pending
    PROVE  Fate(i)' = Fate(i)
  BY DEF Fate

\* The mapped events are those of the stream.
LEMMA CourseEvents ==
    ASSUME TypeOK
    PROVE  /\ Len(log) \in Nat /\ Course!Events = 1..Len(log)
           /\ \A stage : Course!At(stage) = {i \in 1..Len(log) : Fate(i) = stage}
  <1>1. Len(log) \in Nat BY DEF TypeOK
  <1>2. Len(Fates) = Len(log) BY <1>1 DEF Fates
  <1>3. QED BY <1>1, <1>2 DEF Course!Events, Course!At, Fates

\* When no event comes or goes, the mapped fates move as the events do.
LEMMA FatesMove ==
    ASSUME TypeOK, log' = log, NEW S, NEW stage,
           \A i \in 1..Len(log) : Fate(i)' = IF i \in S THEN stage ELSE Fate(i)
    PROVE  Fates' = Course!Move(S, stage)
  <1>1. Fates' = [i \in 1..Len(log) |-> IF i \in S THEN stage ELSE Fate(i)]
    BY DEF Fates
  <1>2. Course!Move(S, stage) = [i \in 1..Len(log) |-> IF i \in S THEN stage ELSE Fate(i)]
    BY CourseEvents DEF Course!Move, Fates
  <1>3. QED BY <1>1, <1>2

LEMMA FatesKept ==
    ASSUME UNCHANGED <<log, first, last, pending, posts>>
    PROVE  Fates' = Fates
  <1>1. Posted' = Posted BY DEF Posted
  <1>2. \A i \in 1..Len(log) : Fate(i)' = Fate(i) BY <1>1 DEF Fate
  <1>3. QED BY <1>2 DEF Fates

\* Publishing offers an event, and trims the oldest of those not yet read.
LEMMA PublishOffers ==
    ASSUME TypeOK, TypeOK', FirstWithin, NEW kind \in Kinds, Publish(kind)
    PROVE  \E S \in SUBSET Course!At("stored") :
               Course!Offer(S, "stored") \/ Course!Offer(S, "other")
  <1> DEFINE n == Len(log)
             gone == {i \in 1..n : Fate(i) = "stored" /\ i < first'}
             stage == IF kind = "cdr" THEN "stored" ELSE "other"
  <1>1. /\ n \in Nat /\ log' = Append(log, kind) /\ Len(log') = n + 1 /\ log'[n + 1] = kind
        /\ \A i \in 1..n : log'[i] = log[i]
    BY DEF Publish, TypeOK
  <1>2. /\ first \in Nat /\ first' \in Nat /\ first <= first' /\ first' <= n + 1
        /\ last \in 0..n /\ UNCHANGED <<last, pending, posts, lago>>
    BY <1>1 DEF Publish, TypeOK, FirstWithin, groupVars, lagoVars
  <1>3. Posted' = Posted BY <1>2 DEF Posted
  <1>4. ASSUME NEW i \in 1..n PROVE Fate(i)' = IF i \in gone THEN "trimmed" ELSE Fate(i)
    <2>1. log'[i] = log[i] /\ i \in Nat BY <1>1
    <2>2. CASE Fate(i) = "stored"
      <3>1. log[i] = "cdr" /\ i > last /\ i \notin Posted \cup pending
        <4>1. Posted \subseteq 1..last /\ pending \subseteq 1..last BY OnlyDelivered
        <4>2. QED BY <1>2, <2>2, <4>1, FateMeans
      <3>2. QED BY <1>2, <1>3, <2>1, <2>2, <3>1 DEF Fate
    <2>3. CASE Fate(i) # "stored"
      <3>1. log[i] = "cdr" => ~(i > last /\ i >= first) BY <2>3, FateMeans
      <3>2. i \notin gone BY <2>3
      <3>3. QED BY <1>2, <1>3, <2>1, <3>1, <3>2 DEF Fate
    <2>4. QED BY <2>2, <2>3
  <1>5. PICK new \in Nat : new = n + 1
    BY <1>1
  <1>6. Fate(new)' = stage
    <2>1. log'[new] = kind /\ new > last' /\ new >= first' BY <1>1, <1>2, <1>5
    <2>2. new \notin Posted' \cup pending'
      <3>1. Posted \subseteq 1..last /\ pending \subseteq 1..last BY OnlyDelivered
      <3>2. QED BY <1>2, <1>3, <1>5, <3>1
    <2>3. QED BY <2>1, <2>2 DEF Fate
  <1>7. Course!Move(gone, "trimmed") = [i \in 1..n |-> IF i \in gone THEN "trimmed" ELSE Fate(i)]
    BY CourseEvents DEF Course!Move, Fates
  <1>8. Fates' = [i \in 1..new |-> Fate(i)']
    BY <1>1, <1>5 DEF Fates
  <1>9. Fates' = Append(Course!Move(gone, "trimmed"), stage)
    <2> DEFINE old == Course!Move(gone, "trimmed")
               Stages == {"other", "stored", "open", "posted", "settled", "trimmed"}
    <2>1. old \in Seq(Stages) /\ Len(old) = n /\ stage \in Stages
          /\ \A i \in 1..n : old[i] = Fate(i)'
      <3>1. \A i \in 1..n : Fate(i) \in Stages BY FateMeans
      <3>2. old \in [1..n -> Stages] BY <1>7, <3>1
      <3>3. old \in Seq(Stages) /\ Len(old) = n BY <1>1, <3>2
      <3>4. \A i \in 1..n : old[i] = Fate(i)' BY <1>4, <1>7
      <3>5. QED BY <3>3, <3>4
    <2>2. Fates' \in Seq(Stages) /\ Len(Fates') = new
          /\ \A i \in 1..new : Fates'[i] = Fate(i)'
      <3>1. \A i \in 1..new : Fate(i)' \in Stages
        <4>1. \A i \in 1..n : old[i] \in Stages BY <1>1, <2>1
        <4>2. ASSUME NEW i \in 1..new PROVE i \in 1..n \/ i = new BY <1>1, <1>5
        <4>3. QED BY <1>6, <2>1, <4>1, <4>2
      <3>2. Fates' \in [1..new -> Stages] BY <1>8, <3>1
      <3>3. QED BY <1>5, <1>8, <3>2
    <2> HIDE DEF old, stage, n, Stages
    <2> DEFINE now == Fates'
    <2>3. /\ Append(old, stage) \in Seq(Stages) /\ Len(Append(old, stage)) = n + 1
          /\ \A i \in 1..n : Append(old, stage)[i] = old[i]
          /\ Append(old, stage)[n + 1] = stage
      BY <2>1, AppendProperties
    <2>4. now \in Seq(Stages) /\ Len(now) = n + 1
          /\ \A i \in 1..(n + 1) : now[i] = Append(old, stage)[i]
      <3>1. ASSUME NEW i \in 1..(n + 1) PROVE Fates'[i] = Append(old, stage)[i]
        <4>1. n \in Nat BY <1>1
        <4>2. CASE i \in 1..n BY <1>5, <2>1, <2>2, <2>3, <4>2
        <4>3. CASE i = new BY <1>5, <1>6, <2>2, <2>3, <4>3
        <4>4. i \in 1..n \/ i = new BY <1>5, <4>1
        <4>5. QED BY <4>2, <4>3, <4>4
      <3>2. QED BY <1>5, <2>2, <3>1
    <2> HIDE DEF now
    <2>5. now = Append(old, stage)
      BY <2>3, <2>4, SeqEqual
    <2>6. QED BY <2>5 DEF now, old
  <1>10. gone \subseteq Course!At("stored") /\ Course!OldestStored(gone)
    <2>1. Course!At("stored") = {i \in 1..n : Fate(i) = "stored"} BY CourseEvents
    <2>2. QED BY <1>1, <1>2, <2>1 DEF Course!OldestStored
  <1>11. Course!Offer(gone, stage)
    BY <1>2, <1>9, <1>10 DEF Course!Offer
  <1>12. QED BY <1>10, <1>11

\* A read hands over the CDRs of its batch, whether or not the reply arrives.
LEMMA DeliverHandsOver ==
    ASSUME TypeOK, TypeOK', Deliver, UNCHANGED <<streamVars, lagoVars>>
    PROVE  \/ \E S \in SUBSET Course!At("stored") : Course!HandOver(S)
           \/ UNCHANGED Course!courseVars
  <1> DEFINE n == Len(log)
             batch == {i \in Unread..BatchEnd : log[i] = "cdr"}
  <1>1. /\ n \in Nat /\ last \in 0..n /\ first \in Nat /\ Unread \in Nat /\ BatchEnd \in Nat
        /\ Unread <= n /\ Unread > last /\ Unread >= first /\ BatchEnd >= Unread /\ BatchEnd <= n
        /\ \A i \in (last + 1)..BatchEnd : i < first \/ i \in Unread..BatchEnd
        /\ last' = BatchEnd /\ pending' = pending \cup (Unread..BatchEnd)
        /\ UNCHANGED <<log, first, posts, lago>>
    <2>1. n \in Nat /\ last \in 0..n /\ first \in Nat BY DEF TypeOK
    <2>2. /\ Unread <= n /\ last' = BatchEnd /\ pending' = pending \cup (Unread..BatchEnd)
          /\ UNCHANGED <<log, first, posts, lago>>
      BY DEF Deliver, streamVars, lagoVars
    <2>3. /\ Unread \in Nat /\ BatchEnd \in Nat
          /\ Unread > last /\ Unread >= first /\ BatchEnd >= Unread /\ BatchEnd <= n
          /\ \A i \in (last + 1)..BatchEnd : i < first \/ i \in Unread..BatchEnd
      BY <2>2, BatchBounds
    <2>4. QED BY <2>1, <2>2, <2>3
  <1>2. Posted' = Posted /\ Posted \subseteq 1..last /\ pending \subseteq 1..last
    BY <1>1 DEF Posted, TypeOK
  <1>3. \A i \in batch : i \in 1..n /\ Fate(i) = "stored"
    BY <1>1, FateMeans
  <1> DEFINE taken == Unread..BatchEnd
  <1>4. taken \subseteq 1..n /\ \A i \in taken : i > last /\ i >= first /\ i \notin Posted
    BY <1>1, <1>2
  <1>5. pending' = pending \cup taken /\ batch = {i \in taken : log[i] = "cdr"}
    BY <1>1
  <1>6. ASSUME NEW i \in 1..n, i \notin taken
        PROVE  i > last /\ i >= first <=> i > last' /\ i >= first
    <2>1. /\ i \in Nat /\ last \in Nat /\ first \in Nat /\ Unread \in Nat /\ BatchEnd \in Nat
          /\ Unread > last /\ BatchEnd >= Unread /\ last' = BatchEnd
      BY <1>1
    <2>2. i > last /\ i >= first => i >= Unread
      BY <2>1 DEF Unread
    <2>3. i < Unread \/ i > BatchEnd
      BY <1>6, <2>1
    <2> QED
      BY <2>1, <2>2, <2>3
  <1> HIDE DEF taken, batch
  <1>7. ASSUME NEW i \in 1..n PROVE Fate(i)' = IF i \in batch THEN "open" ELSE Fate(i)
    <2>1. CASE i \in taken
      BY <1>1, <1>2, <1>4, <1>5, <2>1 DEF Fate
    <2>2. CASE i \notin taken
      <3>1. i \in pending' <=> i \in pending BY <1>5, <2>2
      <3>2. i \in Nat /\ last \in Nat /\ last' \in Nat BY <1>1
      <3>3. i \notin batch BY <1>5, <2>2
      <3>4. QED BY <1>1, <1>2, <1>6, <2>2, <3>1, <3>2, <3>3 DEF Fate
    <2>3. QED BY <2>1, <2>2
  <1>8. Fates' = Course!Move(batch, "open")
    BY <1>1, <1>7, FatesMove
  <1>9. batch \subseteq Course!At("stored") /\ Course!OldestStored(batch)
    <2>1. Course!At("stored") = {i \in 1..n : Fate(i) = "stored"} BY CourseEvents
    <2>2. ASSUME NEW j \in 1..n, Fate(j) = "stored", j \notin batch PROVE j > BatchEnd
      <3>1. j \in Nat /\ j > last /\ j >= first /\ log[j] = "cdr" BY <1>1, <2>2, FateMeans
      <3>2. j \notin taken BY <1>5, <2>2, <3>1
      <3>3. QED BY <1>1, <1>6, <3>1, <3>2
    <2>3. \A i \in batch : i \in Nat /\ i <= BatchEnd BY <1>1, <1>5 DEF taken
    <2>4. batch \subseteq Course!At("stored") BY <1>3, <2>1
    <2>5. \A i \in batch, j \in Course!At("stored") \ batch : i < j
      BY <1>1, <2>1, <2>2, <2>3
    <2>6. QED BY <2>4, <2>5 DEF Course!OldestStored
  <1>10. CASE batch = {}
    <2>1. \A i \in 1..n : Fate(i)' = Fate(i) BY <1>7, <1>10
    <2>2. Fates' = Fates BY <1>1, <2>1 DEF Fates
    <2>3. QED BY <1>1, <2>2 DEF Course!courseVars
  <1>11. CASE batch # {}
    BY <1>1, <1>8, <1>9, <1>11 DEF Course!HandOver
  <1>12. QED BY <1>10, <1>11

\* Whether Lago answers or not, a post is of an open CDR and follows all earlier posts.
LEMMA PostPosts ==
    ASSUME TypeOK, TypeOK', DeliveryInv, Post \/ PostFails
    PROVE  at \in Course!Events /\ Course!Post(at)
  <1>1. /\ at \in 1..last /\ at \in pending /\ at \notin Posted /\ log[at] = "cdr"
        /\ \A i \in 1..Len(posts) : posts[i] <= at
    BY DEF Post, PostFails, DeliveryInv, InMemoryPending, PostsBehind
  <1>2. /\ UNCHANGED <<log, first, last, pending>> /\ Posted' = Posted \cup {at}
        /\ lago' \in {lago, lago \cup {at}}
    BY PostExtends DEF Post, PostFails, streamVars, groupVars
  <1>3. at \in 1..Len(log) /\ at \in Nat
    BY <1>1 DEF TypeOK
  <1>4. ASSUME NEW i \in 1..Len(log)
        PROVE  Fate(i)' = IF i \in {at} THEN "posted" ELSE Fate(i)
    <2>1. CASE i = at
      <3>1. i \in Posted' /\ i \in pending' /\ log'[i] = "cdr" BY <1>1, <1>2, <2>1
      <3>2. QED BY <2>1, <3>1 DEF Fate
    <2>2. CASE i # at
      <3>1. i \in Posted' <=> i \in Posted BY <1>2, <2>2
      <3>2. QED BY <1>2, <2>2, <3>1, FateKept
    <2>3. QED BY <2>1, <2>2
  <1>5. Fates' = Course!Move({at}, "posted")
    BY <1>2, <1>4, FatesMove
  <1>6. Fates[at] = "open"
    BY <1>1, <1>3, FateMeans DEF Fates
  <1>7. \A j \in Course!At("posted") \cup Course!At("settled") : j < at
    <2>1. SUFFICES ASSUME NEW j \in 1..Len(log), Fate(j) \in {"posted", "settled"} PROVE j < at
      BY CourseEvents
    <2>2. j \in Posted BY <2>1, FateMeans
    <2>3. j <= at /\ j # at /\ j \in Nat BY <1>1, <2>2 DEF Posted
    <2>4. QED BY <1>3, <2>3
  <1>8. QED
    BY <1>2, <1>3, <1>5, <1>6, <1>7, CourseEvents DEF Course!Post

\* An acknowledged CDR was posted.
LEMMA AckSettles ==
    ASSUME TypeOK, TypeOK', DeliveryInv, Ack \/ AckFails
    PROVE  \/ at \in Course!Events /\ Course!Settle(at)
           \/ UNCHANGED Course!courseVars
  <1>1. /\ UNCHANGED <<log, first, last, posts, lago>> /\ pc = "ack"
        /\ pending' \in {pending, pending \ {at}}
    BY DEF Ack, AckFails, streamVars, lagoVars
  <1>2. at \in 1..last /\ at \in pending /\ (log[at] = "cdr" => at \in Posted)
    BY <1>1 DEF DeliveryInv, InMemoryPending, PostsBehind
  <1>3. at \in 1..Len(log) /\ Posted' = Posted
    BY <1>1, <1>2 DEF TypeOK, Posted
  <1>4. CASE pending' = pending
    BY <1>1, <1>4, FatesKept DEF Course!courseVars
  <1>5. CASE log[at] # "cdr"
    <2>1. ASSUME NEW i \in 1..Len(log) PROVE Fate(i)' = Fate(i)
      <3>1. CASE i = at BY <1>1, <1>5, <3>1 DEF Fate
      <3>2. CASE i # at
        <4>1. i \in pending' <=> i \in pending BY <1>1, <3>2
        <4>2. QED BY <1>1, <1>3, <4>1, FateKept
      <3>3. QED BY <3>1, <3>2
    <2>2. QED BY <1>1, <2>1 DEF Fates, Course!courseVars
  <1>6. CASE log[at] = "cdr" /\ pending' = pending \ {at}
    <2>1. ASSUME NEW i \in 1..Len(log)
          PROVE  Fate(i)' = IF i \in {at} THEN "settled" ELSE Fate(i)
      <3>1. CASE i = at
        <4>1. i \in Posted' /\ i \notin pending' /\ log'[i] = "cdr"
          BY <1>1, <1>2, <1>3, <1>6, <3>1
        <4>2. QED BY <3>1, <4>1 DEF Fate
      <3>2. CASE i # at
        <4>1. i \in pending' <=> i \in pending BY <1>6, <3>2
        <4>2. QED BY <1>1, <1>3, <3>2, <4>1, FateKept
      <3>3. QED BY <3>1, <3>2
    <2>2. Fates' = Course!Move({at}, "settled")
      BY <1>1, <2>1, FatesMove
    <2>3. Fates[at] = "posted"
      BY <1>2, <1>3, <1>6, FateMeans DEF Fates
    <2>4. QED BY <1>1, <1>3, <2>2, <2>3, CourseEvents DEF Course!Settle
  <1>7. QED BY <1>1, <1>4, <1>5, <1>6

\* Whatever fails, a CDR is handed over once, posted at most once and in order, and
\* acknowledged only when it was posted: the bus and the consumer implement CdrCourse.
THEOREM ImplementsCourse == Spec => CourseSpec
  <1>1. Init => Course!Init /\ FirstWithin
    <2> SUFFICES ASSUME Init PROVE Course!Init /\ FirstWithin
      OBVIOUS
    <2>1. Len(log) = 0 /\ FirstWithin BY DEF Init, FirstWithin
    <2>2. Fates = <<>> BY <2>1 DEF Fates
    <2>3. QED BY <2>1, <2>2 DEF Init, Course!Init
  <1>2. TypeOK /\ TypeOK' /\ DeliveryInv /\ FirstWithin /\ [Next]_vars
            => [Course!Next]_(Course!courseVars)
    <2> SUFFICES ASSUME TypeOK, TypeOK', DeliveryInv, FirstWithin, [Next]_vars
                 PROVE  Course!Next \/ UNCHANGED Course!courseVars
      OBVIOUS
    <2>1. ASSUME NEW kind \in Kinds, Publish(kind) PROVE Course!Next
      BY <2>1, PublishOffers DEF Course!Next
    <2>2. CASE Read \/ ReadLost
      BY <2>2, DeliverHandsOver DEF Read, ReadLost, Course!Next
    <2>3. CASE Post \/ PostFails
      BY <2>3, PostPosts DEF Course!Next
    <2>4. CASE Ack \/ AckFails
      BY <2>4, AckSettles DEF Course!Next
    <2>5. CASE Take \/ BatchDone \/ JoinGroup \/ GroupRaises \/ Resolve \/ ResolveRaises
               \/ Restart \/ UNCHANGED vars
      <3>1. UNCHANGED <<log, first, last, pending, posts, lago>>
        BY <2>5 DEF Take, BatchDone, JoinGroup, GroupRaises, Resolve, ResolveRaises, Restart,
           vars, streamVars,
           groupVars, lagoVars
      <3>2. QED BY <3>1, FatesKept DEF Course!courseVars
    <2>6. QED BY <2>1, <2>2, <2>3, <2>4, <2>5 DEF Next, Consume
  <1>3. TypeOK /\ FirstWithin /\ [Next]_vars => FirstWithin' BY FirstStep
  <1>4. QED
    BY <1>1, <1>2, <1>3, DeliveryCorrect, PTL DEF Spec, CourseSpec, Course!Spec
==============================================================================
