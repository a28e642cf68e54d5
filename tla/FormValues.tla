----------------------------- MODULE FormValues -----------------------------
(***************************************************************************)
(* What the fields of the admin console's forms are described with: the    *)
(* values, what an input admits, what a form takes over from a record and  *)
(* what it sends.                                                          *)
(*                                                                         *)
(* A value is "null", "blank" (the empty string), "zero", "std" (the       *)
(* field's default in the form), "x" and "y" for all others, of which "x"  *)
(* is typed, or "moved": a point in time other than the one that was read. *)
(* A request may "omit" a field.                                           *)
(***************************************************************************)

Values == {"null", "blank", "zero", "std", "x", "y", "moved"}
Same == [v \in Values |-> v]

\* What can be entered.  A required input does not submit "", one with min="1" no 0.
Text == {"blank", "x"}
Required == {"x"}
Choice == {"std", "x"}
OptionalChoice == {"blank", "x"}
Positive == {"std", "x"}
NonNegative == {"zero", "std", "x"}
Locked == {}

\* How a record's value becomes the form's: x || '', x || d, x ?? d.  IfSet leaves the
\* form alone when there is none; Never does not look at the record.
Plain == [Same EXCEPT !["null"] = "blank"]
Default == [v \in Values |-> IF v \in {"null", "blank", "zero"} THEN "std" ELSE v]
Nullish == [Same EXCEPT !["null"] = "std"]
IfSet == [v \in Values |-> IF v \in {"null", "blank", "zero"} THEN "keep" ELSE v]
Never == [v \in Values |-> "keep"]

\* How the form's value becomes the request's: x, x.trim() || undefined,
\* Number(x) || d, parseFloat(x) || 0, x === '' ? null : x, new Date(x).toISOString()
\* of a UTC time that was shown as a local one, and not at all.
AsIs == Same
Trimmed == [Same EXCEPT !["blank"] = "omit"]
OrDefault == [v \in Values |-> IF v \in {"blank", "zero"} THEN "std" ELSE v]
OrZero == [Same EXCEPT !["blank"] = "zero"]
OrNull == [Same EXCEPT !["blank"] = "null"]
Instant == [v \in Values |-> IF v = "blank" THEN "omit" ELSE "moved"]
Dropped == [v \in Values |-> "omit"]

\* When a form takes the record over: whenever it opens ("opening"), when the query's
\* data changes ("data"), or never again after the page was mounted ("once").  A
\* "replace" stores defaults for what a request omits.
Form(inputs, loads, sends, when, store) ==
    [inputs |-> inputs, loads |-> loads, sends |-> sends, when |-> when, store |-> store]

\* The table that gives every field of S the value v, over the table f.
Over(f, S, v) == [x \in DOMAIN f \cup S |-> IF x \in S THEN v ELSE f[x]]
Nowhere == [x \in {} |-> {}]
All(S, v) == Over(Nowhere, S, v)
Join(f, g) == [x \in DOMAIN f \cup DOMAIN g |-> IF x \in DOMAIN f THEN f[x] ELSE g[x]]
==============================================================================
