---------------------------- MODULE SettingsForms ----------------------------
(***************************************************************************)
(* The settings page: six groups of settings, loaded by one query into one *)
(* set of drafts, and saved group by group from the tabs that show them.   *)
(* What the API makes of its requests is SettingsCache; here an answer may *)
(* bring any value, for others change the settings too, and a request may  *)
(* fail.                                                                   *)
(*                                                                         *)
(* Settings do not influence each other, so one is watched at a time.  Its *)
(* value is "blank", "std" (what the page starts with, if that is not the  *)
(* empty string), another "x", or "masked", as the API serves a secret     *)
(* that has a value.                                                       *)
(***************************************************************************)

CONSTANTS
    Settings,       \* the settings (SettingsFields): each with its group, the value it has
                    \* before anything is loaded, whether it has an input, is a secret, and
                    \* is loaded when empty
    Bodies,         \* the settings that the save of a group sends
    Logos           \* the settings an upload stores

VARIABLES
    setting,    \* the watched setting, "none" before the first
    draft,      \* what the page holds
    typed,      \* the user has changed that
    seen,       \* what the cached answer says of it, "nothing" without one
    fetch,      \* the query's request: "idle", "sent", or the value its answer carries
    call,       \* the save, upload or restore in flight, and what it sends of the setting
    test        \* the dialog that sends a test message

settingsVars == <<setting, draft, typed, seen, fetch, call, test>>

-----------------------------------------------------------------------------

Groups == DOMAIN Bodies
SentTo(x) == {g \in Groups : x \in Bodies[g]}

\* Settings with the same entry that the same saves send behave alike: one of each kind
\* is watched.
Alike(x, y) ==
    /\ Settings[x] = Settings[y] /\ SentTo(x) = SentTo(y)
    /\ (x \in Logos) <=> (y \in Logos)
Kinds == {CHOOSE y \in DOMAIN Settings : Alike(x, y) : x \in DOMAIN Settings}

Values == {"blank", "std", "x", "masked"}
Nothing == "nothing"
NoCall == [what |-> "none", sent |-> Nothing]

Watched == Settings[setting]
Group == Watched.group

TypeOK ==
    /\ setting \in DOMAIN Settings \cup {"none"}
    /\ draft \in Values
    /\ typed \in BOOLEAN
    /\ seen \in Values \cup {Nothing}
    /\ fetch \in Values \cup {"idle", "sent"}
    /\ call \in [what : {"none", "upload", "restore"} \cup Groups, sent : Values \cup {Nothing}]
    /\ test \in {"closed", "open", "sent", "shown", "late"}

Init ==
    /\ setting = "none"
    /\ draft = "blank"
    /\ typed = FALSE
    /\ seen = Nothing
    /\ fetch = "idle"
    /\ call = NoCall
    /\ test = "closed"

-----------------------------------------------------------------------------
(* Loading *)

\* The page mounts: the drafts start with the page's own values.
Mount(x) ==
    /\ setting = "none"
    /\ setting' = x
    /\ draft' = Settings[x].start
    /\ fetch' = "sent"
    /\ UNCHANGED <<typed, seen, call, test>>

\* The API masks a secret that has a value.
Served(v) == IF Watched.secret /\ v # "blank" THEN "masked" ELSE v

\* The API answers, after whatever it and other people have done to the setting.
Read ==
    /\ fetch = "sent"
    /\ \E v \in {"blank", "x", Watched.start} : fetch' = Served(v)
    /\ UNCHANGED <<setting, draft, typed, seen, call, test>>

\* The request fails: the answer is {}, which the effect takes nothing from.
FetchFails ==
    /\ fetch # "idle"
    /\ fetch' = "idle" /\ seen' = Nothing
    /\ UNCHANGED <<setting, draft, typed, call, test>>

\* if (x) setX(x): an empty value leaves the draft alone, unless the test is for undefined.
TakenOver(value) == value # "blank" \/ Watched.always

\* The operators named Wrong... are what a slip in the definition that follows
\* would make of it; the specification does not use them.

\* A secret is not put into its input.
WrongLoaded(value) == IF TakenOver(value) /\ value # "masked" THEN value ELSE draft

Loaded(value) == IF TakenOver(value) THEN value ELSE draft

\* The answer.  When any setting differs from the cached answer, all drafts are loaded
\* again, also those of other tabs that the user has changed.
Arrive ==
    /\ fetch \in Values
    /\ seen' = fetch
    /\ fetch' = "idle"
    /\ \/ /\ draft' = Loaded(fetch)
          /\ typed' = (typed /\ ~TakenOver(fetch))
       \/ seen = fetch /\ UNCHANGED <<draft, typed>>
    /\ UNCHANGED <<setting, call, test>>

\* The window gets the focus.
Refetch ==
    /\ setting # "none" /\ fetch = "idle"
    /\ fetch' = "sent"
    /\ UNCHANGED <<setting, draft, typed, seen, call, test>>

-----------------------------------------------------------------------------
(* The user *)

\* An open test dialog covers the page.
Covered == test \in {"open", "sent", "shown"}

\* Any tab can be opened at any time, so the open one is not kept.
Type(v) ==
    /\ setting # "none" /\ Watched.input /\ draft # v /\ ~Covered
    /\ setting \notin Logos
    /\ draft' = v
    /\ typed' = TRUE
    /\ UNCHANGED <<setting, seen, fetch, call, test>>

RemoveLogo ==
    /\ setting \in Logos /\ draft # "blank"
    /\ draft' = "blank"
    /\ typed' = TRUE
    /\ UNCHANGED <<setting, seen, fetch, call, test>>

\* The save buttons are disabled while a save is in flight.
Send(what, v) ==
    /\ setting # "none" /\ call = NoCall /\ ~Covered
    /\ call' = [what |-> what, sent |-> v]
    /\ UNCHANGED <<setting, draft, typed, seen, fetch, test>>

\* handleSaveOrg, handleSaveBranding and so on, one per tab.
Save(group) == Send(group, IF setting \in Bodies[group] THEN draft ELSE Nothing)

\* The logo is stored as soon as it is chosen.
UploadLogo == setting \in Logos /\ Send("upload", "x")

RestoreBackup == Send("restore", Nothing)

\* The answer: a save loads the settings again, an upload brings the logo the user has
\* chosen, and a restore loads only the list of backups.
Succeed ==
    /\ call # NoCall
    /\ call' = NoCall
    /\ CASE call.what = "upload" -> draft' = call.sent /\ typed' = TRUE /\ UNCHANGED fetch
         [] call.what = "restore" -> UNCHANGED <<draft, typed, fetch>>
         [] OTHER -> fetch' = "sent" /\ UNCHANGED <<draft, typed>>
    /\ UNCHANGED <<setting, seen, test>>

\* Refused, or the request or its answer is lost: a message.
Fail ==
    /\ call # NoCall
    /\ call' = NoCall
    /\ UNCHANGED <<setting, draft, typed, seen, fetch, test>>

-----------------------------------------------------------------------------
(* The test messages, watched together with the secret of their tab: an        *)
(* answer that comes late is shown when the dialog has been opened again.    *)

OpenTest ==
    /\ setting # "none" /\ Watched.secret /\ test \in {"closed", "late"}
    /\ test' = IF test = "late" THEN "sent" ELSE "open"
    /\ UNCHANGED <<setting, draft, typed, seen, fetch, call>>

SmtpTest ==
    /\ setting \in Bodies.smtp /\ test \in {"open", "shown"}
    /\ test' = "sent"
    /\ UNCHANGED <<setting, draft, typed, seen, fetch, call>>

SmsTest ==
    /\ setting \in Bodies.sms /\ test \in {"open", "shown"}
    /\ test' = "sent"
    /\ UNCHANGED <<setting, draft, typed, seen, fetch, call>>

TestAnswered ==
    /\ test \in {"sent", "late"}
    /\ test' = IF test = "sent" THEN "shown" ELSE "closed"
    /\ UNCHANGED <<setting, draft, typed, seen, fetch, call>>

CloseTest ==
    /\ test \in {"open", "sent", "shown"}
    /\ test' = IF test = "sent" THEN "late" ELSE "closed"
    /\ UNCHANGED <<setting, draft, typed, seen, fetch, call>>

Next ==
    \/ setting = "none" /\ \E x \in Kinds : Mount(x)
    \/ Read \/ FetchFails \/ Arrive \/ Refetch
    \/ \E v \in {"blank", "x"} : Type(v)
    \/ RemoveLogo
    \/ \E g \in Groups : Save(g)
    \/ UploadLogo \/ RestoreBackup
    \/ Succeed \/ Fail
    \/ OpenTest \/ SmtpTest \/ SmsTest \/ TestAnswered \/ CloseTest

Spec == Init /\ [][Next]_settingsVars

-----------------------------------------------------------------------------
(* Properties *)

\* Whatever has been loaded, typed, uploaded and loaded again before, a save sends of a
\* setting that the user has not touched since it was loaded what was loaded, which of a
\* secret is the mask.
SavesWhatWasLoaded ==
    [][ ~typed /\ seen # Nothing /\ TakenOver(seen) =>
            \A g \in SentTo(setting) :
                Save(g) => call'.sent = IF Watched.secret THEN "masked" ELSE seen ]_settingsVars
==============================================================================
