---------------------------- MODULE AdminSession ----------------------------
(***************************************************************************)
(* The admin console's session (api-client.ts, AuthContext, AppShell): the *)
(* tokens in localStorage, which all tabs of the browser share, and every  *)
(* tab's requests.  A request that is answered 401 refreshes the token; the *)
(* others of the tab that are answered 401 meanwhile are parked and sent   *)
(* again with the new token.                                               *)
(*                                                                         *)
(* A token is "none", "valid" or "expired".  Requests are independent of   *)
(* what they ask for.                                                      *)
(***************************************************************************)
CONSTANTS
    Tabs,           \* the tabs of the browser in which the console is open
    Slots           \* a slot for each request a tab has in flight

VARIABLES
    jwt,            \* the access token in localStorage
    refreshToken,   \* whether there is a refresh token
    place,          \* where each tab is: "app", "login", or "leaving" for the login page
    isRefreshing,   \* the flag of each tab's api-client
    refresh,        \* each tab's refresh request
    requests        \* each tab's requests

sessionVars == <<jwt, refreshToken, place, isRefreshing, refresh, requests>>

Tokens == {"none", "valid", "expired"}

\* A request waits for its answer, for a refresh it has started, in the queue, or for
\* the answer of its second attempt.
Steps == {"idle", "sent", "refreshing", "parked", "again"}
Idle == [step |-> "idle", token |-> "none"]

TypeOK ==
    /\ jwt \in Tokens
    /\ refreshToken \in BOOLEAN
    /\ place \in [Tabs -> {"app", "login", "leaving"}]
    /\ isRefreshing \in [Tabs -> BOOLEAN]
    /\ refresh \in [Tabs -> {"none", "sent"}]
    /\ requests \in [Tabs -> [Slots -> [step : Steps, token : Tokens]]]

Init ==
    /\ jwt = "none"
    /\ refreshToken = FALSE
    /\ place = [t \in Tabs |-> "login"]
    /\ isRefreshing = [t \in Tabs |-> FALSE]
    /\ refresh = [t \in Tabs |-> "none"]
    /\ requests = [t \in Tabs |-> [q \in Slots |-> Idle]]

-----------------------------------------------------------------------------

\* The sign-in form is on the login page only.
LoginForm(t) == place[t] = "login"

\* handleAuthSuccess.  A local token comes without a refresh token, and an old one stays.
LogIn(t) ==
    /\ LoginForm(t)
    /\ jwt' = "valid"
    /\ refreshToken' \in {refreshToken, TRUE}
    /\ place' = [place EXCEPT ![t] = "app"]
    /\ UNCHANGED <<isRefreshing, refresh, requests>>

Forget == jwt' = "none" /\ refreshToken' = FALSE

LogOut(t) ==
    /\ place[t] = "app"
    /\ Forget
    /\ place' = [place EXCEPT ![t] = "leaving"]
    /\ UNCHANGED <<isRefreshing, refresh, requests>>

\* AppShell finds no token when it renders: the router shows the login page, and what
\* is in flight stays in flight.
Redirect(t) ==
    /\ place[t] = "app" /\ jwt = "none"
    /\ place' = [place EXCEPT ![t] = "login"]
    /\ UNCHANGED <<jwt, refreshToken, isRefreshing, refresh, requests>>

\* The browser loads the login page: nothing of the tab is left but the storage.
Unload(t) ==
    /\ place[t] = "leaving"
    /\ place' = [place EXCEPT ![t] = "login"]
    /\ isRefreshing' = [isRefreshing EXCEPT ![t] = FALSE]
    /\ refresh' = [refresh EXCEPT ![t] = "none"]
    /\ requests' = [requests EXCEPT ![t] = [q \in Slots |-> Idle]]
    /\ UNCHANGED <<jwt, refreshToken>>

Expire ==
    /\ jwt = "valid"
    /\ jwt' = "expired"
    /\ requests' = [t \in Tabs |-> [q \in Slots |->
           IF requests[t][q].token = "valid"
           THEN [requests[t][q] EXCEPT !.token = "expired"]
           ELSE requests[t][q]]]
    /\ UNCHANGED <<refreshToken, place, isRefreshing, refresh>>

-----------------------------------------------------------------------------
(* request *)

Becomes(t, q, step, token) ==
    requests' = [requests EXCEPT ![t][q] = [step |-> step, token |-> token]]

Send(t, q) ==
    /\ place[t] = "app" /\ requests[t][q] = Idle
    /\ Becomes(t, q, "sent", jwt)
    /\ UNCHANGED <<jwt, refreshToken, place, isRefreshing, refresh>>

\* An answer other than 401, also on the login page, where 401 is an answer like any.
Answered(t, q) ==
    /\ requests[t][q].step \in {"sent", "again"}
    /\ requests' = [requests EXCEPT ![t][q] = Idle]
    /\ UNCHANGED <<jwt, refreshToken, place, isRefreshing, refresh>>

Unauthorized(t, q) ==
    /\ requests[t][q].step = "sent" /\ requests[t][q].token # "valid"
    /\ place[t] # "login"

\* The first 401 with a refresh token in the storage.
StartRefresh(t, q) ==
    /\ Unauthorized(t, q) /\ ~isRefreshing[t] /\ refreshToken
    /\ isRefreshing' = [isRefreshing EXCEPT ![t] = TRUE]
    /\ refresh' = [refresh EXCEPT ![t] = "sent"]
    /\ Becomes(t, q, "refreshing", "none")
    /\ UNCHANGED <<jwt, refreshToken, place>>

\* Without one, the tab leaves for the login page.
GiveUp(t, q) ==
    /\ Unauthorized(t, q) /\ ~isRefreshing[t] /\ ~refreshToken
    /\ Forget
    /\ place' = [place EXCEPT ![t] = "leaving"]
    /\ requests' = [requests EXCEPT ![t][q] = Idle]
    /\ UNCHANGED <<isRefreshing, refresh>>

\* The next 401 while the tab is refreshing.
Park(t, q) ==
    /\ Unauthorized(t, q) /\ isRefreshing[t]
    /\ Becomes(t, q, "parked", "none")
    /\ UNCHANGED <<jwt, refreshToken, place, isRefreshing, refresh>>

\* An upload neither refreshes nor waits for a refresh: 401 drops the access token and
\* leaves for the login page.
UploadUnauthorized(t, q) ==
    /\ Unauthorized(t, q)
    /\ jwt' = "none"
    /\ place' = [place EXCEPT ![t] = "leaving"]
    /\ requests' = [requests EXCEPT ![t][q] = Idle]
    /\ UNCHANGED <<refreshToken, isRefreshing, refresh>>

\* The operators named Wrong... are what a slip in the definition that follows
\* would make of it; the specification does not use them.

\* Only the request that refreshed goes on.
WrongResume(t) ==
    [requests EXCEPT ![t] = [q \in Slots |->
        IF requests[t][q].step = "refreshing"
        THEN [step |-> "again", token |-> "valid"]
        ELSE requests[t][q]]]

\* onRefreshed and what follows it: everything that waits is sent again.
Resume(t) ==
    [requests EXCEPT ![t] = [q \in Slots |->
        IF requests[t][q].step \in {"refreshing", "parked"}
        THEN [step |-> "again", token |-> "valid"]
        ELSE requests[t][q]]]

\* Whatever the storage holds by now, the new token replaces it.
Refreshed(t) ==
    /\ refresh[t] = "sent"
    /\ jwt' = "valid"
    /\ refreshToken' \in {refreshToken, TRUE}
    /\ isRefreshing' = [isRefreshing EXCEPT ![t] = FALSE]
    /\ refresh' = [refresh EXCEPT ![t] = "none"]
    /\ requests' = Resume(t)
    /\ UNCHANGED place

\* Whatever the storage holds by now, it is cleared, and the tab leaves.
RefreshFails(t) ==
    /\ refresh[t] = "sent"
    /\ Forget
    /\ isRefreshing' = [isRefreshing EXCEPT ![t] = FALSE]
    /\ refresh' = [refresh EXCEPT ![t] = "none"]
    /\ requests' = [requests EXCEPT ![t] = [q \in Slots |->
           IF requests[t][q].step = "refreshing" THEN Idle ELSE requests[t][q]]]
    /\ place' = [place EXCEPT ![t] = "leaving"]

Next ==
    \/ Expire
    \/ \E t \in Tabs :
        \/ LogIn(t) \/ LogOut(t) \/ Redirect(t) \/ Unload(t)
        \/ Refreshed(t) \/ RefreshFails(t)
        \/ \E q \in Slots :
            \/ Send(t, q) \/ Answered(t, q) \/ StartRefresh(t, q) \/ GiveUp(t, q)
            \/ Park(t, q) \/ UploadUnauthorized(t, q)

Spec == Init /\ [][Next]_sessionVars

-----------------------------------------------------------------------------
(* Properties *)

\* A request is parked only behind a refresh that will release it, or in a page that is
\* about to be unloaded: none is left waiting for ever (isRefreshing, refreshSubscribers).
NoneStranded ==
    \A t \in Tabs : \A q \in Slots :
        requests[t][q].step \in {"parked", "refreshing"} =>
            \/ isRefreshing[t] /\ refresh[t] = "sent"
            \/ place[t] = "leaving"
==============================================================================
