-------------------------- MODULE AdminSession_proof --------------------------
(***************************************************************************)
(* Proofs about AdminSession: type correctness, and that no request of a   *)
(* tab is left waiting for a refresh that does not come.                   *)
(***************************************************************************)
EXTENDS AdminSession, TLAPS

Waits(t, q) == requests[t][q].step \in {"parked", "refreshing"}

\* The flag is up exactly while the refresh is in flight, so that whoever finds it up
\* may wait.
FlagTells == \A t \in Tabs : isRefreshing[t] <=> refresh[t] = "sent"

SessionInv == TypeOK /\ FlagTells /\ NoneStranded

LEMMA IdleType == Idle \in [step : Steps, token : Tokens]
BY DEF Idle, Steps, Tokens

\* Replacing one request of a tab by one of the right shape.
LEMMA BecomesType ==
    ASSUME TypeOK, NEW t \in Tabs, NEW q \in Slots,
           NEW r \in [step : Steps, token : Tokens],
           requests' = [requests EXCEPT ![t][q] = r]
    PROVE  /\ requests' \in [Tabs -> [Slots -> [step : Steps, token : Tokens]]]
           /\ requests'[t][q] = r
           /\ \A u \in Tabs, p \in Slots :
                  u # t \/ p # q => requests'[u][p] = requests[u][p]
BY DEF TypeOK

\* The empty storage has nothing that waits.
LEMMA InitSession == Init => SessionInv
<1> SUFFICES ASSUME Init PROVE SessionInv
  OBVIOUS
<1>1. TypeOK
  BY IdleType DEF Init, TypeOK, Tokens
<1>2. FlagTells
  BY DEF Init, FlagTells
<1>3. NoneStranded
  BY DEF Init, NoneStranded, Idle
<1> QED
  BY <1>1, <1>2, <1>3 DEF SessionInv

LEMMA StepType == SessionInv /\ [Next]_sessionVars => TypeOK'
<1> SUFFICES ASSUME SessionInv, [Next]_sessionVars PROVE TypeOK'
  OBVIOUS
<1>0. TypeOK
  BY DEF SessionInv
<1>a. \A s \in Steps, k \in Tokens : [step |-> s, token |-> k] \in [step : Steps, token : Tokens]
  OBVIOUS
<1>1. CASE UNCHANGED sessionVars
  BY <1>0, <1>1 DEF TypeOK, sessionVars
<1>2. CASE Expire
  <2>1. \A t \in Tabs, q \in Slots :
            [requests[t][q] EXCEPT !.token = "expired"] \in [step : Steps, token : Tokens]
    <3>1. \A r \in [step : Steps, token : Tokens] :
              [r EXCEPT !.token = "expired"] \in [step : Steps, token : Tokens]
      BY DEF Tokens
    <3> QED
      BY <1>0, <3>1 DEF TypeOK
  <2>2. requests' \in [Tabs -> [Slots -> [step : Steps, token : Tokens]]]
    BY <1>0, <1>2, <2>1 DEF TypeOK, Expire
  <2> QED
    BY <1>0, <1>2, <2>2 DEF TypeOK, Expire, Tokens
<1>3. ASSUME NEW t \in Tabs,
             LogIn(t) \/ LogOut(t) \/ Redirect(t)
      PROVE  TypeOK'
  BY <1>0, <1>3 DEF TypeOK, LogIn, LogOut, Redirect, Forget, Tokens
<1>4. ASSUME NEW t \in Tabs, Unload(t) PROVE TypeOK'
  BY <1>0, <1>4, IdleType DEF TypeOK, Unload
<1>5. ASSUME NEW t \in Tabs, Refreshed(t) PROVE TypeOK'
  <2>1. requests' \in [Tabs -> [Slots -> [step : Steps, token : Tokens]]]
    BY <1>0, <1>5 DEF TypeOK, Refreshed, Resume, Steps, Tokens
  <2> QED
    BY <1>0, <1>5, <2>1 DEF TypeOK, Refreshed, Tokens
<1>6. ASSUME NEW t \in Tabs, RefreshFails(t) PROVE TypeOK'
  <2>1. requests' \in [Tabs -> [Slots -> [step : Steps, token : Tokens]]]
    BY <1>0, <1>6, IdleType DEF TypeOK, RefreshFails
  <2> QED
    BY <1>0, <1>6, <2>1 DEF TypeOK, RefreshFails, Forget, Tokens
<1>7. ASSUME NEW t \in Tabs, NEW q \in Slots,
             Send(t, q) \/ StartRefresh(t, q) \/ Park(t, q)
      PROVE  TypeOK'
  <2>1. \E s \in Steps, k \in Tokens :
            requests' = [requests EXCEPT ![t][q] = [step |-> s, token |-> k]]
    BY <1>0, <1>7 DEF TypeOK, Send, StartRefresh, Park, Becomes, Steps, Tokens
  <2>2. requests' \in [Tabs -> [Slots -> [step : Steps, token : Tokens]]]
    BY <1>0, <1>a, <2>1, BecomesType
  <2> QED
    BY <1>0, <1>7, <2>2 DEF TypeOK, Send, StartRefresh, Park
<1>8. ASSUME NEW t \in Tabs, NEW q \in Slots,
             Answered(t, q) \/ GiveUp(t, q) \/ UploadUnauthorized(t, q)
      PROVE  TypeOK'
  <2>1. requests' = [requests EXCEPT ![t][q] = Idle]
    BY <1>8 DEF Answered, GiveUp, UploadUnauthorized
  <2>2. requests' \in [Tabs -> [Slots -> [step : Steps, token : Tokens]]]
    BY <1>0, <2>1, IdleType, BecomesType
  <2> QED
    BY <1>0, <1>8, <2>2 DEF TypeOK, Answered, GiveUp, UploadUnauthorized, Forget, Tokens
<1> QED
  BY <1>1, <1>2, <1>3, <1>4, <1>5, <1>6, <1>7, <1>8 DEF Next

\* Flag and request go up together in StartRefresh and down together in every action
\* that ends the refresh.
LEMMA StepFlag == SessionInv /\ [Next]_sessionVars => FlagTells'
<1> SUFFICES ASSUME SessionInv, [Next]_sessionVars PROVE FlagTells'
  OBVIOUS
<1>0. TypeOK /\ FlagTells
  BY DEF SessionInv
<1>1. CASE UNCHANGED <<isRefreshing, refresh>>
  BY <1>0, <1>1 DEF FlagTells
<1>2. ASSUME NEW t \in Tabs, Unload(t) \/ Refreshed(t) \/ RefreshFails(t) PROVE FlagTells'
  BY <1>0, <1>2 DEF TypeOK, FlagTells, Unload, Refreshed, RefreshFails
<1>3. ASSUME NEW t \in Tabs, NEW q \in Slots, StartRefresh(t, q) PROVE FlagTells'
  BY <1>0, <1>3 DEF TypeOK, FlagTells, StartRefresh
<1> QED
  BY <1>1, <1>2, <1>3
  DEF Next, sessionVars, Expire, LogIn, LogOut, Redirect, Send, Answered, GiveUp, Park,
      UploadUnauthorized

\* A request starts to wait only where the flag is up or goes up, and a refresh that
\* ends takes all that wait with it, or its tab leaves.
LEMMA StepStranded == SessionInv /\ [Next]_sessionVars => NoneStranded'
<1> SUFFICES ASSUME SessionInv, [Next]_sessionVars,
                    NEW u \in Tabs, NEW p \in Slots, Waits(u, p)'
             PROVE  ((isRefreshing[u] /\ refresh[u] = "sent") \/ place[u] = "leaving")'
  BY DEF NoneStranded, Waits
<1>0. TypeOK /\ FlagTells /\ NoneStranded
  BY DEF SessionInv
<1>a. Waits(u, p) => (isRefreshing[u] /\ refresh[u] = "sent") \/ place[u] = "leaving"
  BY <1>0 DEF NoneStranded, Waits
<1>1. CASE UNCHANGED sessionVars
  BY <1>a, <1>1 DEF sessionVars, Waits
<1>2. CASE Expire
  <2>1. requests'[u][p].step = requests[u][p].step
    BY <1>0, <1>2 DEF Expire, TypeOK
  <2> QED
    BY <1>a, <1>2, <2>1 DEF Expire, Waits
<1>3. ASSUME NEW t \in Tabs, LogIn(t) \/ LogOut(t) \/ Redirect(t)
      PROVE  ((isRefreshing[u] /\ refresh[u] = "sent") \/ place[u] = "leaving")'
  BY <1>0, <1>a, <1>3 DEF LogIn, LoginForm, LogOut, Redirect, TypeOK, Waits
<1>4. ASSUME NEW t \in Tabs, Unload(t)
      PROVE  ((isRefreshing[u] /\ refresh[u] = "sent") \/ place[u] = "leaving")'
  <2>1. u # t
    BY <1>0, <1>4 DEF Unload, TypeOK, Waits, Idle
  <2> QED
    BY <1>0, <1>a, <1>4, <2>1 DEF Unload, TypeOK, Waits
<1>5. ASSUME NEW t \in Tabs, Refreshed(t)
      PROVE  ((isRefreshing[u] /\ refresh[u] = "sent") \/ place[u] = "leaving")'
  <2>1. u # t
    BY <1>0, <1>5 DEF Refreshed, Resume, TypeOK, Waits
  <2> QED
    BY <1>0, <1>a, <1>5, <2>1 DEF Refreshed, Resume, TypeOK, Waits
<1>6. ASSUME NEW t \in Tabs, RefreshFails(t)
      PROVE  ((isRefreshing[u] /\ refresh[u] = "sent") \/ place[u] = "leaving")'
  BY <1>0, <1>a, <1>6 DEF RefreshFails, TypeOK, Waits
<1>7. ASSUME NEW t \in Tabs, NEW q \in Slots,
             Send(t, q) \/ StartRefresh(t, q) \/ Park(t, q)
      PROVE  ((isRefreshing[u] /\ refresh[u] = "sent") \/ place[u] = "leaving")'
  <2>1. CASE u = t /\ p = q
    BY <1>0, <1>7, <2>1 DEF Send, StartRefresh, Park, Becomes, TypeOK, FlagTells, Waits
  <2>2. CASE u # t \/ p # q
    <3>1. requests'[u][p] = requests[u][p]
      BY <1>0, <1>7, <2>2 DEF Send, StartRefresh, Park, Becomes, TypeOK
    <3> QED
      BY <1>0, <1>a, <1>7, <3>1 DEF Send, StartRefresh, Park, TypeOK, Waits
  <2> QED
    BY <2>1, <2>2
<1>8. ASSUME NEW t \in Tabs, NEW q \in Slots,
             Answered(t, q) \/ GiveUp(t, q) \/ UploadUnauthorized(t, q)
      PROVE  ((isRefreshing[u] /\ refresh[u] = "sent") \/ place[u] = "leaving")'
  <2>1. requests' = [requests EXCEPT ![t][q] = Idle]
    BY <1>8 DEF Answered, GiveUp, UploadUnauthorized
  <2>2. requests'[u][p] = requests[u][p]
    BY <1>0, <2>1, BecomesType, IdleType DEF Waits, Idle
  <2> QED
    BY <1>0, <1>a, <1>8, <2>2 DEF Answered, GiveUp, UploadUnauthorized, TypeOK, Waits
<1> QED
  BY <1>1, <1>2, <1>3, <1>4, <1>5, <1>6, <1>7, <1>8 DEF Next

LEMMA SessionInductive == Spec => []SessionInv
<1>1. SessionInv /\ [Next]_sessionVars => SessionInv'
  BY StepType, StepFlag, StepStranded DEF SessionInv
<1> QED
  BY InitSession, <1>1, PTL DEF Spec

\* Tokens, tabs and requests have their types (api-client.ts, AuthContext).
THEOREM SessionTypeCorrect == Spec => []TypeOK
<1>1. SessionInv => TypeOK
  BY DEF SessionInv
<1> QED
  BY SessionInductive, <1>1, PTL

\* However logins, logouts, expiries and refreshes of the tabs overlap, every request
\* that waits is behind a refresh in flight, or in a page about to be unloaded
\* (isRefreshing, refreshSubscribers).
THEOREM NoRequestStranded == Spec => []NoneStranded
<1>1. SessionInv => NoneStranded
  BY DEF SessionInv
<1> QED
  BY SessionInductive, <1>1, PTL
==============================================================================
