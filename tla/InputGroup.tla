----------------------------- MODULE InputGroup ------------------------------
(***************************************************************************)
(* InputGroup and the validators of its fields, as operators on a form: a  *)
(* record with the text of each field, validStates and inputData.  The     *)
(* group has two ways to judge a field, and they differ: inputChanged      *)
(* wants every validator to accept the text, validate(field) only wants    *)
(* none to reject it, and leaves inputData alone.                          *)
(***************************************************************************)
EXTENDS ConsoleApp

CONSTANT
  Amounts  \* amounts a user types

\* A text that is none of the values of interest: the start of one, or another.
Part == "part"

Required(field) == field \in {"recipient", "amount", "coin_to_buy", "coin_to_sell"}

\* What the validators of a field make of a text, each in turn: the address and
\* the coin by their pattern, which half a text may still fulfil, the amount as a
\* number, the coin also by the index of the loaded coins.
Loaded(text) == IF HasCoin(text) THEN "Acceptable" ELSE "Invalid"
Pattern(text) == IF text \in {"", Part} THEN "Intermediate" ELSE "Acceptable"

\* The slip of a coin field without the second validator (used by nothing).
VerdictsUnloaded(field, text) == IF field = "payload" THEN {"Acceptable"} ELSE {Pattern(text)}

Verdicts(field, text) ==
  IF field = "payload" THEN {"Acceptable"}
  ELSE {Pattern(text)} \cup (IF field \in {"coin_to_buy", "coin_to_sell"} THEN {Loaded(text)} ELSE {})

Skipped(field, text) == ~Required(field) /\ text = ""

\* A new form's text and data, and validStates.
Blank(fields) == [f \in fields |-> ""]
OptionalValid(fields) == [f \in fields |-> ~Required(f)]

\* The slip of a form that judges a changed text as validate(field) does.
ChangedLeniently(form, field, text) ==
  LET ok == Skipped(field, text) \/ "Invalid" \notin Verdicts(field, text) IN
  [form EXCEPT !.text[field] = text, !.valid[field] = ok, !.data[field] = IF ok THEN text ELSE ""]

\* inputChanged, up to the signal formValid.
Changed(form, field, text) ==
  LET ok == Skipped(field, text) \/ Verdicts(field, text) \subseteq {"Acceptable"} IN
  [form EXCEPT !.text[field] = text,
               !.valid[field] = ok,
               !.data[field] = IF ok THEN text ELSE ""]

\* validate(field, true), up to the signal formValid.
Validated(form, field) ==
  LET text == form.text[field] IN
  [form EXCEPT !.valid[field] = Skipped(field, text) \/ "Invalid" \notin Verdicts(field, text)]

AllValid(form) == \A f \in DOMAIN form.valid : form.valid[f]

\* reset(): the required fields only.
Unvalidated(form) ==
  [form EXCEPT !.valid = [f \in DOMAIN form.valid |-> form.valid[f] /\ ~Required(f)]]
==============================================================================
