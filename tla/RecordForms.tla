---------------------------- MODULE RecordForms ----------------------------
(***************************************************************************)
(* The admin console's forms at work: a user opens a record in a form,     *)
(* types, saves, cancels and opens another one, while queries bring news   *)
(* and other users change the same records.                                *)
(*                                                                         *)
(* Fields do not influence each other, so one field of one form is watched *)
(* at a time, one of every kind.  What the user enters in the other fields  *)
(* is not kept: a request saves the watched field as it stands.            *)
(***************************************************************************)
EXTENDS FormValues

CONSTANT Forms      \* the forms and their fields: FormFields

VARIABLES
    form,       \* the form in use, "none" before the first
    field,      \* its watched field
    stored,     \* the field in the database, per record
    open,       \* the record in the form, "none" when it is closed
    base,       \* the value of that record the form has taken over
    draft,      \* the form's value
    typed,      \* what the user entered since then, "nothing" if nothing
    call        \* the request in flight, and what was typed or, if nothing, taken over

formVars == <<form, field, stored, open, base, draft, typed, call>>

Rows == {"r1", "r2"}
Nothing == "nothing"
NoRequest == [row |-> "none", value |-> Nothing, base |-> Nothing,
              typed |-> Nothing, step |-> "none"]

Inputs == Forms[form].inputs[field]
Loads == Forms[form].loads[field]
Sends == Forms[form].sends[field]
When == Forms[form].when

\* Fields that are entered, loaded, sent and stored in the same way behave alike: one
\* of each kind is watched.
Fields == UNION {{<<f, x>> : x \in DOMAIN Forms[f].inputs} : f \in DOMAIN Forms}
Kind(f, x) == <<Forms[f].inputs[x], Forms[f].loads[x], Forms[f].sends[x],
                Forms[f].when, Forms[f].store>>
Watchable == {CHOOSE b \in Fields : Kind(b[1], b[2]) = Kind(a[1], a[2]) : a \in Fields}

TypeOK ==
    /\ form \in DOMAIN Forms \cup {"none"}
    /\ form # "none" => field \in DOMAIN Forms[form].inputs
    /\ stored \in [Rows -> Values]
    /\ open \in Rows \cup {"none"}
    /\ draft \in Values
    /\ base \in Values
    /\ typed \in Values \cup {Nothing}
    /\ call.row \in Rows \cup {"none"}
    /\ call.step \in {"none", "sent", "done"}

Init ==
    /\ form = "none"
    /\ field = "none"
    /\ stored = [r \in Rows |-> "null"]
    /\ open = "none"
    /\ base = "null"
    /\ draft = "std"
    /\ typed = Nothing
    /\ call = NoRequest

-----------------------------------------------------------------------------

\* The operators named Wrong... are what a slip in the definition that follows
\* would make of it; the specification does not use them.

\* The effect does not depend on the record: the form keeps what it had.
WrongTakeOver(value) ==
    /\ draft' = draft
    /\ base' = value
    /\ typed' = Nothing

\* The effect that fills a form from its record.
TakeOver(value) ==
    /\ draft' = IF Loads[value] = "keep" THEN draft ELSE Loads[value]
    /\ base' = value
    /\ typed' = Nothing

\* What a record can hold: required inputs and a site's limit and strategy are NOT NULL.
Holds(f, x) ==
    {"x"} \cup (Forms[f].inputs[x] \cap {"zero"})
    \cup IF Forms[f].inputs[x] = Required \/ Forms[f].loads[x] = IfSet THEN {} ELSE {"null"}

\* The page with the form mounts, with two records that may differ in the field.  A form
\* that is filled once takes over that there is no record yet.
Mount(f, x) ==
    /\ form = "none"
    /\ form' = f
    /\ field' = x
    /\ \E v \in Holds(f, x) : stored' = [r1 |-> v, r2 |-> "y"]
    /\ draft' = IF Forms[f].when # "once" \/ Forms[f].loads[x]["null"] = "keep"
                THEN draft
                ELSE Forms[f].loads[x]["null"]
    /\ UNCHANGED <<open, base, typed, call>>

\* The user picks a record to edit.  Forms that are filled when they open, or when
\* their data changes, are; in the others the last draft is still there.
Open(r) ==
    /\ form # "none" /\ open = "none"
    /\ open' = r
    /\ IF When = "once"
       THEN base' = stored[r] /\ typed' = Nothing /\ UNCHANGED draft
       ELSE TakeOver(stored[r])
    /\ UNCHANGED <<form, field, stored, call>>

Type(v) ==
    /\ open # "none" /\ v \in Inputs
    /\ draft' = v
    /\ typed' = v
    /\ UNCHANGED <<form, field, stored, open, base, call>>

\* A refetch brings other data than the form was filled from.  The forms of the page
\* itself are filled again; a dialog is not.
DataArrives ==
    /\ open # "none" /\ When = "data" /\ stored[open] # base
    /\ TakeOver(stored[open])
    /\ UNCHANGED <<form, field, stored, open, call>>

\* Cancel, also while a request is in flight.
Close ==
    /\ open # "none"
    /\ open' = "none" /\ base' = "null" /\ typed' = Nothing
    /\ UNCHANGED <<form, field, stored, draft, call>>

\* A required input keeps the browser from submitting the form without it.
Submit ==
    /\ open # "none" /\ call = NoRequest
    /\ Inputs = Required => draft # "blank"
    /\ call' = [row |-> open, value |-> Sends[draft],
                base |-> IF typed = Nothing THEN base ELSE Nothing,
                typed |-> typed, step |-> "sent"]
    /\ UNCHANGED <<form, field, stored, open, base, draft, typed>>

\* What an absent or null value does to the row: nothing in the handlers that merge
\* (exclude_none, COALESCE), a default in those that replace the row.
MergedInto(old, value, store) ==
    IF value \notin {"omit", "null"} THEN value
    ELSE IF store = "replace" THEN "std"
    ELSE old

Merged(old, value) == MergedInto(old, value, Forms[form].store)

\* The record that is open by now gets the value.
WrongCommit ==
    /\ call.step = "sent"
    /\ stored' = [stored EXCEPT ![IF open = "none" THEN call.row ELSE open] = Merged(@, call.value)]
    /\ call' = [NoRequest EXCEPT !.row = call.row, !.step = "done"]
    /\ UNCHANGED <<form, field, open, base, draft, typed>>

Commit ==
    /\ call.step = "sent"
    /\ stored' = [stored EXCEPT ![call.row] = Merged(@, call.value)]
    /\ call' = [NoRequest EXCEPT !.row = call.row, !.step = "done"]
    /\ UNCHANGED <<form, field, open, base, draft, typed>>

\* The server refuses, or the request or its answer is lost: a message.
Fail ==
    /\ call.step \in {"sent", "done"}
    /\ call' = NoRequest
    /\ UNCHANGED <<form, field, stored, open, base, draft, typed>>

\* onSuccess closes the dialog, whichever record it shows by now.
Succeed ==
    /\ call.step = "done"
    /\ call' = NoRequest
    /\ IF When = "data"
       THEN UNCHANGED <<open, base, typed>>
       ELSE open' = "none" /\ base' = "null" /\ typed' = Nothing
    /\ UNCHANGED <<form, field, stored, draft>>

\* Another user, or the fleet's telematics.
OtherWrites(r) ==
    /\ form # "none" /\ stored[r] # "x"
    /\ stored' = [stored EXCEPT ![r] = "x"]
    /\ UNCHANGED <<form, field, open, base, draft, typed, call>>

Next ==
    \/ form = "none" /\ \E a \in Watchable : Mount(a[1], a[2])
    \/ \E r \in Rows : Open(r) \/ OtherWrites(r)
    \/ form # "none" /\ open # "none" /\ \E v \in Inputs : Type(v)
    \/ DataArrives \/ Close \/ Submit \/ Commit \/ Succeed \/ Fail

Spec == Init /\ [][Next]_formVars

-----------------------------------------------------------------------------
(* Properties *)

\* Where saving changes what the user did not touch.  The dates of a token move by
\* the offset of the user's time zone.  A site's upsert replaces its name, address,
\* configuration and buffer.  The forms that are filled once send the last draft.
OverwrittenIn(f, x) ==
    \/ f = "token" /\ x \in {"validFrom", "validUntil"}
    \/ f = "guardrails" /\ x \in {"siteName", "siteAddress", "siteConfig", "bufferPct"}
    \/ Forms[f].when = "once"

Overwritten == OverwrittenIn(form, field)

\* Saving a record leaves a field the user did not touch as it was when the form was
\* filled, or as it is by now; only a field without a value may get the form's
\* default (the load effects, handleSave, the PATCH handlers).
UntouchedKept ==
    [][ Commit /\ call.typed = Nothing /\ ~Overwritten =>
            \/ stored'[call.row] \in {stored[call.row], call.base}
            \/ call.base \in {"null", "blank", "zero"} /\ stored'[call.row] = "std" ]_formVars

\* Fields the form offers and the request does not carry: a token's type and a
\* tariff's currency.
NotSavedIn(f, x) == <<f, x>> \in {<<"token", "tokenType">>, <<"tariff", "currency">>}

NotSaved == NotSavedIn(form, field)

\* A value the user typed ends up in the record the user typed it for (Type, Submit,
\* Commit; typed is what was entered since the record was opened).
EditReachesRow ==
    [][ Commit /\ call.typed = "x" /\ ~NotSaved =>
            \/ stored'[call.row] = call.typed
            \/ Sends = Instant /\ stored'[call.row] = "moved" ]_formVars
==============================================================================
