---------------------------- MODULE AdminConsole ----------------------------
(***************************************************************************)
(* A page of the admin console at work: the query cache between the page   *)
(* and the API (TanStack Query as App.tsx configures it), the mutation the *)
(* user sends, the dialogs, and everybody else who changes the database.   *)
(*                                                                         *)
(* Queries do not influence each other, so one query of the mounted page   *)
(* is watched at a time; which one is arbitrary.  The user has one         *)
(* mutation in flight.  What a query returns matters only as far as it     *)
(* contains the user's last change: content is "before" it, "since" it but *)
(* behind the database, or as the database is "now".                       *)
(***************************************************************************)
EXTENDS AdminPages

VARIABLES
    page,       \* the mounted page, "none" before the first
    watch,      \* the watched query
    shown,      \* what the page shows of it
    fetch,      \* its request: "idle", "sent", or the content of its answer
    retried,    \* that request is the second attempt
    failed,     \* the last request failed twice
    dialog,     \* the open dialog
    call,       \* the mutation in flight
    said        \* the user was told that the last change succeeded

vars == <<page, watch, shown, fetch, retried, failed, dialog, call, said>>

Contents == {"before", "since", "now"}
None == "none"
NoCall == [mutation |-> None, step |-> None]

Queries(p) == DOMAIN Pages[p].queries
Mutations(p) == DOMAIN Pages[p].mutations

TypeOK ==
    /\ page \in DOMAIN Pages \cup {None}
    /\ page # None => watch \in Queries(page)
    /\ shown \in Contents \cup {"nothing", "empty"}
    /\ fetch \in Contents \cup {"idle", "sent"}
    /\ retried \in BOOLEAN /\ failed \in BOOLEAN /\ said \in BOOLEAN
    /\ dialog = None \/ dialog \in DOMAIN Pages[page].dialogs
    /\ \/ call = NoCall
       \/ /\ call.mutation \in Mutations(page)
          /\ call.step \in {"sent", "done", "refused"}

Init ==
    /\ page = None
    /\ watch = None
    /\ shown = "nothing"
    /\ fetch = "idle"
    /\ retried = FALSE
    /\ failed = FALSE
    /\ dialog = None
    /\ call = NoCall
    /\ said = FALSE

Watched == Pages[page].queries[watch]
Sent == Pages[page].mutations[call.mutation]
Affects(m, q) ==
    Pages[page].mutations[m].writes \cap Pages[page].queries[q].reads # {}

\* The changes a page does not refetch: the groups' cards keep their token counts
\* when a token changes its group or test tokens are purged, and the tokens keep
\* the name of a group that was renamed or deleted.
Forgotten == {<<"updateToken", "groups">>, <<"purgeTest", "groups">>,
              <<"updateGroup", "tokens">>, <<"deleteGroup", "tokens">>}

\* But for these, the onSuccess of every mutation refetches what it changed, or the
\* query polls (invalidateQueries and refetchInterval in the pages).
ASSUME RefetchAssumption ==
    \A p \in DOMAIN Pages :
        \A m \in DOMAIN Pages[p].mutations, q \in DOMAIN Pages[p].queries :
            /\ Pages[p].mutations[m].writes \cap Pages[p].queries[q].reads # {}
            /\ <<m, q>> \notin Forgotten
            => q \in Pages[p].mutations[m].refetches \/ Pages[p].queries[q].polls

\* The details of a tariff lead to a dialog of their page.
ASSUME DialogsAssumption ==
    None \notin DOMAIN Pages /\ "tariff" \in DOMAIN Pages["tariffs"].dialogs

\* What content c is worth after a change of the user's, or of anyone else's.
AfterOwn(c) == IF c \in Contents THEN "before" ELSE c
AfterOther(c) == IF c = "now" THEN "since" ELSE c

-----------------------------------------------------------------------------
(* The query cache *)

\* The page mounts.  Data of an earlier visit younger than staleTime is shown as
\* it is; older data is shown while it is fetched again.
Mount(p, q) ==
    /\ page = None
    /\ page' = p
    /\ watch' = q
    /\ shown' \in {"nothing", "since", "now"}
    /\ fetch' \in IF shown' = "nothing" THEN {"sent"} ELSE {"idle", "sent"}
    /\ UNCHANGED <<retried, failed, dialog, call, said>>

StartFetch ==
    /\ page # None /\ fetch = "idle"
    /\ fetch' = "sent"
    /\ retried' = FALSE
    /\ UNCHANGED <<page, watch, shown, failed, dialog, call, said>>

\* refetchInterval; a poll finds a request under way and leaves it.
Poll == page # None /\ Watched.polls /\ StartFetch

\* The window gets the focus again and the data is older than staleTime.
Focus == StartFetch

\* The server reads the database for the request.
Read ==
    /\ fetch = "sent"
    /\ fetch' = "now"
    /\ UNCHANGED <<page, watch, shown, retried, failed, dialog, call, said>>

Arrive ==
    /\ fetch \in Contents
    /\ shown' = fetch
    /\ fetch' = "idle"
    /\ retried' = FALSE
    /\ failed' = FALSE
    /\ UNCHANGED <<page, watch, dialog, call, said>>

\* The request fails.  Queries are retried once; one that hides its failure has
\* an empty answer instead and nothing to retry.
FetchFails ==
    /\ fetch # "idle"
    /\ \/ /\ Watched.hides
          /\ fetch' = "idle" /\ shown' = "empty"
          /\ UNCHANGED <<retried, failed>>
       \/ /\ ~Watched.hides /\ ~retried
          /\ fetch' = "sent" /\ retried' = TRUE
          /\ UNCHANGED <<shown, failed>>
       \/ /\ ~Watched.hides /\ retried
          /\ fetch' = "idle" /\ retried' = FALSE /\ failed' = TRUE
          /\ UNCHANGED shown
    /\ UNCHANGED <<page, watch, dialog, call, said>>

\* The operators named Wrong... are what a slip in the definition that follows
\* would make of it; the specification does not use them.

\* A request under way is taken for the refetch.
WrongInvalidate(refetched) ==
    IF refetched /\ fetch = "idle"
    THEN fetch' = "sent" /\ retried' = FALSE /\ failed' = FALSE
    ELSE UNCHANGED <<fetch, retried, failed>>

\* invalidateQueries: a request under way is cancelled and sent anew.
Invalidate(refetched) ==
    IF refetched
    THEN fetch' = "sent" /\ retried' = FALSE /\ failed' = FALSE
    ELSE UNCHANGED <<fetch, retried, failed>>

\* useLiveEvents: an event about a charger's status.  The stream never carries the
\* other events the console listens for, and what it carried while it was disconnected
\* is not sent again.
LiveEvent ==
    /\ page # None /\ watch \in {"chargers", "dashChargers", "sites", "pkiChargers", "stations", "stats"}
    /\ Invalidate(TRUE)
    /\ UNCHANGED <<page, watch, shown, dialog, call, said>>

-----------------------------------------------------------------------------
(* The user *)

OpenDialog(d) ==
    /\ page # None /\ dialog = None
    /\ \E part \in Pages[page].parts : d \in part.opens
    /\ dialog' = d
    /\ UNCHANGED <<page, watch, shown, fetch, retried, failed, call, said>>

\* The Edit button of the tariff's details.
EditFromDetails ==
    /\ page = "tariffs" /\ dialog = "detail"
    /\ dialog' = "tariff"
    /\ UNCHANGED <<page, watch, shown, fetch, retried, failed, call, said>>

\* Cancel, also while a request of the dialog is in flight.
CloseDialog ==
    /\ dialog # None
    /\ dialog' = None
    /\ UNCHANGED <<page, watch, shown, fetch, retried, failed, call, said>>

Send(m) ==
    /\ page # None /\ call = NoCall
    /\ IF dialog = None
       THEN \E part \in Pages[page].parts : m \in part.sends
       ELSE m \in Pages[page].dialogs[dialog]
    /\ call' = [mutation |-> m, step |-> "sent"]
    /\ UNCHANGED <<page, watch, shown, fetch, retried, failed, dialog, said>>

-----------------------------------------------------------------------------
(* The API *)

\* The server commits the change.
Perform ==
    /\ call.step = "sent"
    /\ call' = [call EXCEPT !.step = "done"]
    /\ IF ~Affects(call.mutation, watch)
       THEN UNCHANGED <<shown, fetch, said>>
       ELSE IF <<call.mutation, watch>> \in Forgotten
       THEN shown' = AfterOther(shown) /\ fetch' = AfterOther(fetch) /\ UNCHANGED said
       ELSE shown' = AfterOwn(shown) /\ fetch' = AfterOwn(fetch) /\ said' = FALSE
    /\ UNCHANGED <<page, watch, retried, failed, dialog>>

\* The server refuses, or the request or its answer is lost.
Refuse ==
    /\ call.step \in {"sent", "done"}
    /\ call' = [call EXCEPT !.step = "refused"]
    /\ UNCHANGED <<page, watch, shown, fetch, retried, failed, dialog, said>>

\* onSuccess
Succeed ==
    /\ call.step = "done"
    /\ call' = NoCall
    /\ Invalidate(watch \in Sent.refetches)
    /\ dialog' = IF dialog \in Sent.closes THEN None ELSE dialog
    /\ said' = (said \/ /\ Affects(call.mutation, watch)
                        /\ <<call.mutation, watch>> \notin Forgotten)
    /\ UNCHANGED <<page, watch, shown>>

\* onError: a message.
Fail ==
    /\ call.step = "refused"
    /\ call' = NoCall
    /\ UNCHANGED <<page, watch, shown, fetch, retried, failed, dialog, said>>

\* Another user, a charger or a task changes what the watched query returns.
OtherWrites ==
    /\ page # None /\ "now" \in {shown, fetch}
    /\ shown' = AfterOther(shown)
    /\ fetch' = AfterOther(fetch)
    /\ UNCHANGED <<page, watch, retried, failed, dialog, call, said>>

Next ==
    \/ page = None /\ \E p \in DOMAIN Pages : \E q \in Queries(p) : Mount(p, q)
    \/ Poll \/ Focus \/ LiveEvent \/ Read \/ Arrive \/ FetchFails
    \/ page # None /\ \E d \in DOMAIN Pages[page].dialogs : OpenDialog(d)
    \/ EditFromDetails \/ CloseDialog
    \/ page # None /\ \E m \in Mutations(page) : Send(m)
    \/ Perform \/ Refuse \/ Succeed \/ Fail \/ OtherWrites

\* Polls and requests go on, and requests do not fail for ever.
Fairness == WF_vars(Poll) /\ SF_vars(Read) /\ SF_vars(Arrive)

Spec == Init /\ [][Next]_vars /\ Fairness

-----------------------------------------------------------------------------
(* Properties *)

\* When the user has been told that a change succeeded and the page does not show
\* it, an answer that contains it is on its way, or loading has failed, or the
\* query polls (the invalidations in every onSuccess).
OwnWritesShown ==
    said /\ shown = "before" =>
        fetch \in {"sent", "since", "now"} \/ failed \/ Watched.polls

\* A change the user was told of gets shown, unless loading fails twice in a query
\* that does not poll (retry: 1, refetchInterval).
AnnouncedIsShown ==
    (said /\ shown = "before") ~> (~said \/ shown # "before" \/ (failed /\ ~Watched.polls))
==============================================================================
