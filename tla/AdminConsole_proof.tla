-------------------------- MODULE AdminConsole_proof --------------------------
(***************************************************************************)
(* Proofs about AdminConsole, for every page whose mutations refetch what  *)
(* they change: what the user was told has been saved is shown, or on its  *)
(* way; and the types.                                                     *)
(***************************************************************************)
EXTENDS AdminConsole, TLAPS

\* Whatever is in flight belongs to the mounted page.
Mounted ==
    /\ page # None => page \in DOMAIN Pages /\ watch \in Queries(page)
    /\ call # NoCall => /\ page # None
                        /\ call = [mutation |-> call.mutation, step |-> call.step]
                        /\ call.mutation \in Mutations(page)

\* Once the user has been told, no answer from before the change is in flight any more,
\* unless the next poll makes up for it.
NoLateAnswer == said => fetch # "before" \/ Watched.polls

ConsoleInv == Mounted /\ NoLateAnswer /\ OwnWritesShown

\* Refetching sends a request that reads the database after the change.
LEMMA InvalidateSends ==
    ASSUME NEW refetched \in BOOLEAN, Invalidate(refetched)
    PROVE  /\ refetched => fetch' = "sent" /\ ~failed'
           /\ ~refetched => UNCHANGED <<fetch, failed>>
BY DEF Invalidate

\* The contents as other people's changes leave them.
LEMMA AfterTypes ==
    /\ \A c : AfterOther(c) = "before" <=> c = "before"
    /\ \A c \in {"sent", "since", "now"} : AfterOther(c) \in {"sent", "since", "now"}
BY DEF AfterOther

LEMMA InitConsole == Init => ConsoleInv
BY DEF Init, ConsoleInv, Mounted, NoLateAnswer, OwnWritesShown

LEMMA StepMounted == ConsoleInv /\ [Next]_vars => Mounted'
<1> SUFFICES ASSUME ConsoleInv, [Next]_vars PROVE Mounted'
  OBVIOUS
<1>0. Mounted
  BY DEF ConsoleInv
<1>1. CASE UNCHANGED <<page, watch, call>>
  BY <1>0, <1>1 DEF Mounted, Queries, Mutations
<1>2. ASSUME NEW p \in DOMAIN Pages, NEW q \in Queries(p), page = None, Mount(p, q)
      PROVE  Mounted'
  BY <1>0, <1>2 DEF Mounted, Mount, Queries
<1>3. ASSUME page # None, NEW m \in Mutations(page), Send(m) PROVE Mounted'
  BY <1>0, <1>3 DEF Mounted, Send, Queries, Mutations
<1>4. CASE Perform \/ Refuse
  <2>1. call # NoCall
    BY <1>4 DEF Perform, Refuse, NoCall, None
  <2>2. call'.mutation = call.mutation /\ call' = [mutation |-> call'.mutation, step |-> call'.step]
    BY <1>0, <1>4, <2>1 DEF Mounted, Perform, Refuse
  <2> QED
    BY <1>0, <1>4, <2>1, <2>2 DEF Mounted, Perform, Refuse, Queries, Mutations
<1>5. CASE Succeed \/ Fail
  BY <1>0, <1>5 DEF Mounted, Succeed, Fail, Queries
<1> QED
  BY <1>1, <1>2, <1>3, <1>4, <1>5
  DEF Next, vars, Poll, Focus, StartFetch, LiveEvent, Read, Arrive, FetchFails, OpenDialog,
      EditFromDetails, CloseDialog, OtherWrites

\* A change of the user's that the watched query shows is refetched when it succeeds,
\* or the query polls.
LEMMA SuccessRefetches ==
    ASSUME Mounted, Succeed, Affects(call.mutation, watch),
           <<call.mutation, watch>> \notin Forgotten
    PROVE  watch \in Sent.refetches \/ Watched.polls
<1>1. call # NoCall
  BY DEF Succeed, NoCall, None
<1>2. page \in DOMAIN Pages /\ watch \in Queries(page) /\ call.mutation \in Mutations(page)
  BY <1>1 DEF Mounted
<1> QED
  BY <1>2, RefetchAssumption DEF Affects, Queries, Mutations, Sent, Watched

LEMMA StepShown ==
    ConsoleInv /\ [Next]_vars => NoLateAnswer' /\ OwnWritesShown'
<1> SUFFICES ASSUME ConsoleInv, [Next]_vars PROVE NoLateAnswer' /\ OwnWritesShown'
  OBVIOUS
<1>0. Mounted /\ NoLateAnswer /\ OwnWritesShown
  BY DEF ConsoleInv
<1> USE DEF NoLateAnswer, OwnWritesShown
<1>1. CASE UNCHANGED <<page, watch, shown, fetch, failed, said>>
  BY <1>0, <1>1 DEF Watched
<1>2. ASSUME NEW p \in DOMAIN Pages, NEW q \in Queries(p), page = None, Mount(p, q)
      PROVE  NoLateAnswer' /\ OwnWritesShown'
  BY <1>2 DEF Mount
<1>3. CASE StartFetch
  BY <1>0, <1>3 DEF StartFetch, Watched
<1>4. CASE LiveEvent
  BY <1>0, <1>4, InvalidateSends DEF LiveEvent, Watched
<1>5. CASE Read
  BY <1>0, <1>5 DEF Read, Watched
<1>6. CASE Arrive
  BY <1>0, <1>6 DEF Arrive, Watched, Contents
<1>7. CASE FetchFails
  BY <1>0, <1>7 DEF FetchFails, Watched
<1>8. CASE Perform
  <2>1. CASE ~Affects(call.mutation, watch)
    BY <1>0, <1>8, <2>1 DEF Perform, Watched
  <2>2. CASE Affects(call.mutation, watch) /\ <<call.mutation, watch>> \in Forgotten
    BY <1>0, <1>8, <2>2, AfterTypes DEF Perform, Watched
  <2>3. CASE Affects(call.mutation, watch) /\ <<call.mutation, watch>> \notin Forgotten
    BY <1>8, <2>3 DEF Perform
  <2> QED
    BY <2>1, <2>2, <2>3
<1>9. CASE Succeed
  <2>1. UNCHANGED <<page, watch, shown>>
    BY <1>9 DEF Succeed
  <2>2. CASE watch \in Sent.refetches
    BY <1>9, <2>2, InvalidateSends DEF Succeed
  <2>3. CASE watch \notin Sent.refetches
    <3>1. UNCHANGED <<fetch, failed>>
      BY <1>9, <2>3 DEF Succeed, Invalidate
    <3>2. said' => said \/ Watched.polls
      BY <1>0, <1>9, <2>3, SuccessRefetches DEF Succeed
    <3> QED
      BY <1>0, <2>1, <3>1, <3>2 DEF Watched
  <2> QED
    BY <2>2, <2>3
<1>10. CASE OtherWrites
  BY <1>0, <1>10, AfterTypes DEF OtherWrites, Watched
<1> QED
  BY <1>1, <1>2, <1>3, <1>4, <1>5, <1>6, <1>7, <1>8, <1>9, <1>10
  DEF Next, vars, Poll, Focus, OpenDialog, EditFromDetails, CloseDialog, Send, Refuse, Fail

\* When the user has been told that a change succeeded and the page still shows what
\* was before it, an answer with the change is on its way, loading has failed, or the
\* query polls, whatever polls, events and other people's changes come in between
\* (invalidateQueries in the onSuccess handlers).
THEOREM OwnWritesGetShown == Spec => []OwnWritesShown
<1>1. ConsoleInv /\ [Next]_vars => ConsoleInv'
  BY StepMounted, StepShown DEF ConsoleInv
<1>2. ConsoleInv => OwnWritesShown
  BY DEF ConsoleInv
<1> QED
  BY InitConsole, <1>1, <1>2, PTL DEF Spec

-----------------------------------------------------------------------------
(* The types *)

\* Without a page there is no dialog and no mutation.
PageInv == TypeOK /\ (page = None => dialog = None /\ call = NoCall)

LEMMA PageInit == Init => PageInv
BY DEF Init, PageInv, TypeOK, Contents, None, NoCall

\* A mutation under way is one of the page.
LEMMA SentTyped ==
    ASSUME PageInv, call.step \in {"sent", "done", "refused"}
    PROVE  call # NoCall /\ page # None /\ call.mutation \in Mutations(page)
BY DEF PageInv, TypeOK, NoCall, None

\* Every step keeps the types.
LEMMA PageStep == PageInv /\ [Next]_vars => PageInv'
<1> SUFFICES ASSUME PageInv, [Next]_vars PROVE PageInv'
  OBVIOUS
<1> USE DEF PageInv, TypeOK
<1>1. CASE UNCHANGED vars
  BY <1>1 DEF vars, Queries, Mutations
<1>2. ASSUME NEW p \in DOMAIN Pages, NEW q \in Queries(p), page = None, Mount(p, q)
      PROVE  PageInv'
  BY <1>2, DialogsAssumption DEF Mount, Queries, Contents, None
<1>3. CASE StartFetch
  BY <1>3 DEF StartFetch, Queries, Mutations
<1>4. CASE LiveEvent
  <2>1. fetch' \in Contents \cup {"idle", "sent"} /\ retried' \in BOOLEAN /\ failed' \in BOOLEAN
    BY <1>4 DEF LiveEvent, Invalidate
  <2> QED
    BY <1>4, <2>1 DEF LiveEvent, Queries, Mutations
<1>5. CASE Read \/ Arrive
  BY <1>5 DEF Read, Arrive, Contents, Queries, Mutations
<1>6. CASE FetchFails
  <2>1. /\ fetch' \in Contents \cup {"idle", "sent"} /\ retried' \in BOOLEAN
        /\ failed' \in BOOLEAN /\ shown' \in Contents \cup {"nothing", "empty"}
    BY <1>6 DEF FetchFails
  <2> QED
    BY <1>6, <2>1 DEF FetchFails, Queries, Mutations
<1>7. ASSUME page # None, NEW d \in DOMAIN Pages[page].dialogs, OpenDialog(d) PROVE PageInv'
  BY <1>7 DEF OpenDialog, Queries, Mutations
<1>8. CASE EditFromDetails
  BY <1>8, DialogsAssumption DEF EditFromDetails, Queries, Mutations
<1>9. CASE CloseDialog
  BY <1>9 DEF CloseDialog, Queries, Mutations
<1>10. ASSUME page # None, NEW m \in Mutations(page), Send(m) PROVE PageInv'
  BY <1>10 DEF Send, Queries, Mutations
<1>11. CASE Perform
  <2>1. call # NoCall /\ page # None /\ call.mutation \in Mutations(page)
    BY <1>11, SentTyped DEF Perform
  <2>2. call'.mutation = call.mutation /\ call'.step = "done"
    BY <1>11, <2>1 DEF Perform
  <2>3. /\ shown' \in Contents \cup {"nothing", "empty"} /\ fetch' \in Contents \cup {"idle", "sent"}
        /\ said' \in BOOLEAN
    BY <1>11 DEF Perform, AfterOther, AfterOwn, Contents
  <2> QED
    BY <1>11, <2>1, <2>2, <2>3 DEF Perform, Queries, Mutations
<1>12. CASE Refuse
  <2>1. call # NoCall /\ page # None /\ call.mutation \in Mutations(page)
    BY <1>12, SentTyped DEF Refuse
  <2>2. call'.mutation = call.mutation /\ call'.step = "refused"
    BY <1>12, <2>1 DEF Refuse
  <2> QED
    BY <1>12, <2>1, <2>2 DEF Refuse, Queries, Mutations
<1>13. CASE Succeed
  <2>1. fetch' \in Contents \cup {"idle", "sent"} /\ retried' \in BOOLEAN /\ failed' \in BOOLEAN
    BY <1>13 DEF Succeed, Invalidate
  <2>2. dialog' = None \/ dialog' = dialog
    BY <1>13 DEF Succeed
  <2>3. said' \in BOOLEAN
    BY <1>13 DEF Succeed
  <2> QED
    BY <1>13, <2>1, <2>2, <2>3 DEF Succeed, Queries, Mutations
<1>14. CASE Fail
  BY <1>14 DEF Fail, Queries, Mutations
<1>15. CASE OtherWrites
  BY <1>15 DEF OtherWrites, AfterOther, Contents, Queries, Mutations
<1> QED
  BY <1>1, <1>2, <1>3, <1>4, <1>5, <1>6, <1>7, <1>8, <1>9, <1>10, <1>11, <1>12, <1>13, <1>14, <1>15
  DEF Next, Poll, Focus

\* The mounted page, its query, its dialog and its mutation have their types: a dialog
\* belongs to the page that opened it, and so does the mutation in flight.
THEOREM ConsoleTypeCorrect == Spec => []TypeOK
<1>1. PageInv => TypeOK
  BY DEF PageInv
<1> QED
  BY <1>1, PageInit, PageStep, PTL DEF Spec
==============================================================================
