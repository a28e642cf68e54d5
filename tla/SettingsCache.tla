---------------------------- MODULE SettingsCache ----------------------------
(***************************************************************************)
(* The settings API and its cache.  Every group of settings is a row of    *)
(* the database, which the process keeps for a minute once it has read or  *)
(* written it.  A request gives way to the others at every await, so what  *)
(* it has read may be old when it writes.                                  *)
(*                                                                         *)
(* One setting of one group is watched, a secret or not: its value in the  *)
(* row, in the cache, and in the hands of the requests.                    *)
(***************************************************************************)

CONSTANTS
    RowValues,       \* the values of the setting, "default" among them, neither "nothing"
                    \* nor "masked"
    Puts            \* the requests that change the group and can be under way together

VARIABLES
    secret,     \* the setting is one of those the API masks
    stored,     \* its value in the row
    cached,     \* its value in the cached group, "nothing" without one
    puts,       \* the requests that change the group
    listing,    \* what GET /settings has read and not yet answered, or "nothing"
    upset       \* the cache, or what a request holds, may be older than the row

cacheVars == <<secret, stored, cached, puts, listing, upset>>

-----------------------------------------------------------------------------

Nothing == "nothing"

\* What a request can send of the setting: nothing, a value, or a secret's mask.
Sendable == RowValues \cup {Nothing} \cup (IF secret THEN {"masked"} ELSE {})

\* A request: what it sends of the setting, and what it has read or is going to write.
NoPut == [step |-> "none", sent |-> Nothing, held |-> Nothing]

\* It is between its reading of the group and the end of its work.
AtWork(p) == puts[p].step \in {"fill", "write", "refresh"}

TypeOK ==
    /\ secret \in BOOLEAN
    /\ stored \in RowValues
    /\ cached \in RowValues \cup {Nothing}
    /\ puts \in [Puts -> [step : {"none", "sent", "read", "fill", "write", "refresh"},
                          sent : RowValues \cup {Nothing, "masked"},
                          held : RowValues \cup {Nothing}]]
    /\ \A p \in Puts : AtWork(p) <=> puts[p].held # Nothing
    /\ listing \in RowValues \cup {Nothing}
    /\ upset \in BOOLEAN

\* The process starts with nothing cached; a group nobody has saved reads as its defaults.
Init ==
    /\ secret \in BOOLEAN
    /\ stored \in RowValues
    /\ cached = Nothing
    /\ puts = [p \in Puts |-> NoPut]
    /\ listing = Nothing
    /\ upset = FALSE

-----------------------------------------------------------------------------
(* PUT /settings/{key} and POST /settings/logo *)

\* A setting that is not sent stays, and so does a secret that comes back masked.
Keeps(v) == v = Nothing \/ (secret /\ v = "masked")

\* The operators named Wrong... are what a slip in the definition that follows
\* would make of it; the specification does not use them.

\* The mask replaces the secret.
WrongMerge(old, v) == IF v = Nothing THEN old ELSE v

Merge(old, v) == IF Keeps(v) THEN old ELSE v

\* Request p goes on, with v in its hands.
Goes(p, step, v) == puts' = [puts EXCEPT ![p].step = step, ![p].held = v]

\* The request is sent.
Ask(p, v) ==
    /\ puts[p] = NoPut
    /\ puts' = [puts EXCEPT ![p] = [step |-> "sent", sent |-> v, held |-> Nothing]]
    /\ UNCHANGED <<secret, stored, cached, listing, upset>>

\* get_setting finds the group in the cache, and the request goes on to its write.  What
\* the cache says is out of date while a writer has not refreshed it.
Hit(p) ==
    /\ puts[p].step = "sent" /\ cached # Nothing
    /\ Goes(p, "write", Merge(cached, puts[p].sent))
    /\ upset' = (upset \/ \E q \in Puts : puts[q].step = "refresh")
    /\ UNCHANGED <<secret, stored, cached, listing>>

Miss(p) ==
    /\ puts[p].step = "sent" /\ cached = Nothing
    /\ Goes(p, "read", Nothing)
    /\ UNCHANGED <<secret, stored, cached, listing, upset>>

\* _load_from_db reads the row,
ReadRow(p) ==
    /\ puts[p].step = "read"
    /\ Goes(p, "fill", stored)
    /\ UNCHANGED <<secret, stored, cached, listing, upset>>

\* and puts it into the cache and the merge.  A group nobody has saved has no row and is
\* not cached, which comes to the same as its Expire right after.
Fill(p) ==
    /\ puts[p].step = "fill"
    /\ cached' = puts[p].held
    /\ Goes(p, "write", Merge(puts[p].held, puts[p].sent))
    /\ UNCHANGED <<secret, stored, listing, upset>>

\* The reading fails, which is only logged: the defaults are merged instead.
RowUnread(p) ==
    /\ puts[p].step = "read"
    /\ Goes(p, "write", Merge("default", puts[p].sent))
    /\ upset' = TRUE
    /\ UNCHANGED <<secret, stored, cached, listing>>

\* put_setting writes the row.  Whoever is at work has read the one before.
Write(p) ==
    /\ puts[p].step = "write"
    /\ stored' = puts[p].held
    /\ Goes(p, "refresh", puts[p].held)
    /\ upset' = (upset \/ listing # Nothing \/ \E q \in Puts \ {p} : AtWork(q))
    /\ UNCHANGED <<secret, cached, listing>>

\* The cache keeps the group it had.
WrongRefresh(p) ==
    /\ puts[p].step = "refresh"
    /\ puts' = [puts EXCEPT ![p] = NoPut]
    /\ UNCHANGED <<secret, stored, cached, listing, upset>>

\* Then it refreshes the cache, and the request is answered.
Refresh(p) ==
    /\ puts[p].step = "refresh"
    /\ cached' = puts[p].held
    /\ puts' = [puts EXCEPT ![p] = NoPut]
    /\ UNCHANGED <<secret, stored, listing, upset>>

\* The request does not arrive, the write fails, or its outcome does not come back.
PutFails(p) ==
    /\ puts[p].step \in {"sent", "write", "refresh"}
    /\ puts' = [puts EXCEPT ![p] = NoPut]
    /\ upset' = (upset \/ puts[p].step = "refresh")
    /\ UNCHANGED <<secret, stored, cached, listing>>

-----------------------------------------------------------------------------
(* The other uses of the rows *)

\* GET /settings reads the rows, whatever is cached, and puts them into the cache with its
\* answer.  A call that needs a group that is not cached reads and fills it like that.
ListRows ==
    /\ listing = Nothing
    /\ listing' = stored
    /\ UNCHANGED <<secret, stored, cached, puts, upset>>

ListAnswer ==
    /\ listing # Nothing
    /\ cached' = listing
    /\ listing' = Nothing
    /\ UNCHANGED <<secret, stored, puts, upset>>

\* A minute has passed.  With nobody at work everything is read anew.
Expire ==
    /\ cached # Nothing
    /\ cached' = Nothing
    /\ upset' = (upset /\ (listing # Nothing \/ \E p \in Puts : AtWork(p)))
    /\ UNCHANGED <<secret, stored, puts, listing>>

\* A restored backup replaces the row and leaves the cache.
Restore ==
    /\ stored' \in RowValues
    /\ upset' = (\/ upset \/ cached # Nothing \/ listing # Nothing
                 \/ \E p \in Puts : AtWork(p))
    /\ UNCHANGED <<secret, cached, puts, listing>>

Next ==
    \/ \E p \in Puts :
           \/ \E v \in Sendable : Ask(p, v)
           \/ Hit(p) \/ Miss(p) \/ ReadRow(p) \/ Fill(p) \/ RowUnread(p)
           \/ Write(p) \/ Refresh(p) \/ PutFails(p)
    \/ ListRows \/ ListAnswer \/ Expire \/ Restore

Spec == Init /\ [][Next]_cacheVars

-----------------------------------------------------------------------------
(* Properties *)

\* What is not sent of a group, and a secret that comes back masked, stays in the row as
\* it is, unless the group was upset: the row was changed, or its change not yet cached,
\* while another request was at work with what it had read before; a backup was restored;
\* the row could not be read; or a write's outcome was lost.
KeptUnlessUpset ==
    [][ \A p \in Puts : Write(p) /\ Keeps(puts[p].sent) => upset \/ stored' = stored ]_cacheVars

\* Unless the group was upset, the cache says what the row says, but for the moment
\* between a write and its refresh.
CacheCurrent ==
    upset \/ cached \in {Nothing, stored} \/ \E p \in Puts : puts[p].step = "refresh"
==============================================================================
