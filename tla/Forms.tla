--------------------------------- MODULE Forms ---------------------------------
(***************************************************************************)
(* Constraint validation and submission (src/src/js/forms.rs): what a      *)
(* control's attributes demand of its value, the message a script set by   *)
(* setCustomValidity, the matcher of pattern attributes, a form's answer   *)
(* for all its controls and the address requestSubmit navigates to.        *)
(*                                                                         *)
(* Texts are sequences of tokens, in which a scheme and a number are one.  *)
(***************************************************************************)
EXTENDS Integers, Sequences, FiniteSetsExt, Functions, TLC

CONSTANTS
  FormPages,                          \* documents: sequences of [parent, tag, attrs]
  Texts, Patterns,                    \* of value and pattern attributes, sequences of tokens
  NumberOf,                           \* the texts that are numbers, with the number
  Message                             \* custom messages

VARIABLE forms
(* forms.page: the page's nodes; forms.custom: CUSTOM_VALIDITY, by node;
   forms.sent: the address asked for, if any, [form, action, fields];
   nothing else happens on the page until it is gone, which what is sent does not tell apart. *)

Init == \E page \in FormPages : forms = [page |-> page, custom |-> <<>>, sent |-> <<>>]

Node == DOMAIN forms.page
Has(n, name) == name \in DOMAIN forms.page[n].attrs
Attr(n, name) == forms.page[n].attrs[name]
Children(n) == SelectSeq([c \in Node |-> c], LAMBDA c : forms.page[c].parent = n)

\* The value attribute, or nothing.
current_value(n) == IF Has(n, "value") THEN Attr(n, "value") ELSE <<>>

----------------------------------------------------------------------------
(* The pattern matcher. *)

Quantifier == {"*", "+", "?"}

\* parse_simple_regex: atoms, each with the quantifier behind it; one that has no atom in front
\* of it is an atom, brackets and anchors are nothing.
Parsed(pattern) ==
  LET p == SelectSeq(pattern, LAMBDA c : c \notin {"^", "$", "(", ")"})
      atoms[i \in 1..(Len(p) + 2)] ==
        IF i > Len(p) THEN <<>>
        ELSE IF i < Len(p) /\ p[i + 1] \in Quantifier
             THEN <<[atom |-> p[i], many |-> p[i + 1]]>> \o atoms[i + 2]
             ELSE <<[atom |-> p[i], many |-> ""]>> \o atoms[i + 1]
  IN atoms[1]

match_atom(atom, c) == atom = "." \/ atom = c

\* How many tokens from i on the atom takes, one after another.
Run(atom, s, i) ==
  Max({n \in 0..(Len(s) - i + 1) : \A k \in i..(i + n - 1) : match_atom(atom, s[k])})

\* match_seq: where the first match ends that is found, longest runs first; 0 if none is. A
\* plus gives back all it took too.
match_seq(re, s) ==
  LET f[k \in 1..(Len(re) + 1), i \in 1..(Len(s) + 1)] ==
        IF k > Len(re) THEN i
        ELSE LET run == Run(re[k].atom, s, i)
                 most == IF re[k].many \in {"*", "+"} THEN run ELSE IF run = 0 THEN 0 ELSE 1
                 takes == IF re[k].many = "" THEN {1} \cap {most}
                          ELSE IF re[k].many = "+" /\ run = 0 THEN {} ELSE 0..most
                 good == {n \in takes : f[k + 1, i + n] # 0}
             IN IF good = {} THEN 0 ELSE f[k + 1, i + Max(good)]
  IN f[1, 1]

\* The whole of the value.
pattern_matches(pattern, value) == match_seq(Parsed(pattern), value) = Len(value) + 1

----------------------------------------------------------------------------
(* Validity. *)

At(s, token) == {i \in DOMAIN s : s[i] = token}
looks_like_email(s) ==
  /\ Cardinality(At(s, "@")) = 1
  /\ \A i \in At(s, "@") : i > 1 /\ i < Len(s) /\ \E k \in At(s, ".") : k > i

looks_like_url(s) == s # <<>> /\ s[1] \in {"http://", "https://", "ftp://"}

TypeOf(n) == IF Has(n, "type") /\ forms.page[n].tag = "input" THEN Attr(n, "type") ELSE "text"
IsNumber(n) == TypeOf(n) \in {"number", "range"}
Low(n) == IF Has(n, "min") THEN Attr(n, "min") ELSE 0

\* What the attributes say of a value that is there.
Mismatches(n, v) ==
  LET number == IsNumber(n) /\ v \in DOMAIN NumberOf IN
  {flag \in {"typeMismatch", "badInput", "rangeUnderflow", "rangeOverflow", "stepMismatch",
             "patternMismatch", "tooLong", "tooShort"} :
     CASE flag = "typeMismatch" -> \/ TypeOf(n) = "email" /\ ~looks_like_email(v)
                                   \/ TypeOf(n) = "url" /\ ~looks_like_url(v)
       [] flag = "badInput" -> IsNumber(n) /\ ~number
       [] flag = "rangeUnderflow" -> number /\ Has(n, "min") /\ NumberOf[v] < Attr(n, "min")
       [] flag = "rangeOverflow" -> number /\ Has(n, "max") /\ NumberOf[v] > Attr(n, "max")
       [] flag = "stepMismatch" -> /\ number /\ Has(n, "step") /\ Attr(n, "step") > 0
                                   /\ (NumberOf[v] - Low(n)) % Attr(n, "step") # 0
       [] flag = "patternMismatch" -> Has(n, "pattern") /\ ~pattern_matches(Attr(n, "pattern"), v)
       [] flag = "tooLong" -> Has(n, "maxlength") /\ Len(v) > Attr(n, "maxlength")
       [] flag = "tooShort" -> Has(n, "minlength") /\ Len(v) < Attr(n, "minlength")}

validate_node(n) ==
  LET v == current_value(n) IN
  (IF n \in DOMAIN forms.custom THEN {"customError"} ELSE {})
    \cup (IF Has(n, "required") /\ v = <<>> THEN {"valueMissing"} ELSE {})
    \cup (IF v = <<>> THEN {} ELSE Mismatches(n, v))

\* The flags in the order in which one is told, the script's own message first.
Told == <<"customError", "valueMissing", "typeMismatch", "patternMismatch", "tooLong", "tooShort",
          "rangeUnderflow", "rangeOverflow", "stepMismatch", "badInput">>

build_message(n, flags) ==
  LET told == SelectSeq(Told, LAMBDA flag : flag \in flags) IN
  IF told = <<>> THEN "" ELSE IF told[1] = "customError" THEN forms.custom[n] ELSE told[1]

validationMessage(n) == build_message(n, validate_node(n))
check_validity(n) == validate_node(n) = {}

\* What a script reads of it, flag by flag.
validity(n) == LET flags == validate_node(n) IN [flag \in Range(Told) |-> flag \in flags]

\* The controls a form asks and sends: in the order of the stack, the last child first.
walk_form_controls(form) ==
  LET below[n \in Node] ==
        (IF n # form /\ forms.page[n].tag \in {"input", "select", "textarea"} THEN <<n>> ELSE <<>>)
          \o LET last[k \in 0..Len(Children(n))] ==
                   IF k = 0 THEN <<>> ELSE below[Children(n)[k]] \o last[k - 1]
             IN last[Len(Children(n))]
  IN below[form]

\* Disabled controls and hidden ones are asked too; buttons never.
form_check_validity(form) == \A n \in Range(walk_form_controls(form)) : check_validity(n)

----------------------------------------------------------------------------
(* What a script does. *)

SetAttribute(n, name, v) ==
  /\ forms.sent = <<>> /\ forms.page[n].tag \in {"input", "textarea"}
  /\ forms' = [forms EXCEPT !.page[n].attrs = (name :> v) @@ @]

setCustomValidity(n, message) ==
  /\ forms.sent = <<>> /\ forms.page[n].tag # "div"
  /\ forms' = [forms EXCEPT !.custom =
       IF message = "" THEN [m \in DOMAIN @ \ {n} |-> @[m]] ELSE (n :> message) @@ @]

\* Mutant of Fields: a control without a value is left out.
FieldsGiven(form) ==
  LET named == SelectSeq(walk_form_controls(form), LAMBDA n : Has(n, "name") /\ Has(n, "value"))
  IN [k \in DOMAIN named |-> <<Attr(named[k], "name"), current_value(named[k])>>]

\* The fields of controls with a name.
Fields(form) ==
  LET named == SelectSeq(walk_form_controls(form), LAMBDA n : Has(n, "name"))
  IN [k \in DOMAIN named |-> <<Attr(named[k], "name"), current_value(named[k])>>]

\* form_request_submit: it asks no validity and fires no event; a method that is not GET sends
\* no field.
requestSubmit(form) ==
  /\ forms.page[form].tag = "form" /\ Has(form, "action") /\ forms.sent = <<>>
  /\ forms' = [forms EXCEPT !.sent = Append(@,
       [form |-> form, action |-> Attr(form, "action"),
        fields |-> IF Has(form, "method") /\ Attr(form, "method") # "GET" THEN <<>>
                   ELSE Fields(form)])]

\* Another page: CUSTOM_VALIDITY is the thread's and stays.
Navigate(page) == forms' = [forms EXCEPT !.page = page, !.sent = <<>>]

Next ==
  \/ \E n \in Node :
       \/ \E v \in Texts : SetAttribute(n, "value", v)
       \/ \E p \in Patterns : SetAttribute(n, "pattern", p)
       \/ \E message \in Message \cup {""} : setCustomValidity(n, message)
       \/ requestSubmit(n)
  \/ \E page \in FormPages : Navigate(page)

Spec == Init /\ [][Next]_forms

----------------------------------------------------------------------------
(* Properties. *)

TypeOK ==
  /\ \A n \in Node : forms.page[n].parent \in 0..(n - 1)
  /\ \A n \in DOMAIN forms.custom : forms.custom[n] \in Message
  /\ Len(forms.sent) <= 1

\* Whether s is cut into the pieces that the atoms of re stand for, one after the other; an
\* atom with a plus stands for least characters or more, and matches the first one there.
Repeats(many, least, most) ==
  CASE many = "*" -> 0..most [] many = "+" -> least..most [] many = "?" -> {0, 1} [] OTHER -> {1}
Language(re, s, least) ==
  \E cut \in [0..Len(re) -> 0..Len(s)] :
    /\ cut[0] = 0 /\ cut[Len(re)] = Len(s)
    /\ \A k \in DOMAIN re :
         /\ cut[k] - cut[k - 1] \in Repeats(re[k].many, least, Len(s))
         /\ re[k].many = "+" => cut[k - 1] < Len(s) /\ match_atom(re[k].atom, s[cut[k - 1] + 1])
         /\ \A i \in (cut[k - 1] + 1)..cut[k] : match_atom(re[k].atom, s[i])

\* A value that a pattern stands for is accepted.  One that it does not stand for is accepted
\* only where a plus gives back the one character it must have: a+ab takes "ab"
\* (forms.rs 264), and nothing else is taken.
PatternsMatch ==
  \A n \in Node : Has(n, "pattern") =>
    LET re == Parsed(Attr(n, "pattern")) v == current_value(n)
        accepted == pattern_matches(Attr(n, "pattern"), v)
    IN (Language(re, v, 1) => accepted) /\ (accepted <=> Language(re, v, 0))

Below(form) ==
  LET up[n \in {0} \cup Node] == IF n = 0 THEN {} ELSE {n} \cup up[forms.page[n].parent] IN
  {n \in Node \ {form} : form \in up[n]}
Asked(form) == {n \in Below(form) : forms.page[n].tag \in {"input", "select", "textarea"}}
Named(form) == {n \in Asked(form) : Has(n, "name")}

\* A control has a message exactly when it is not valid; a form is valid exactly when all
\* controls under it are; and what it sends by GET is one field for every control that has
\* a name, with the value it had, whether the control is valid or not.
FormsAnswered ==
  /\ \A n \in Node :
       /\ (validationMessage(n) = "") <=> check_validity(n)
       /\ check_validity(n) <=> \A flag \in Range(Told) : ~validity(n)[flag]
  /\ \A form \in Node : form_check_validity(form) <=> \A n \in Asked(form) : check_validity(n)
  /\ \A sent \in Range(forms.sent) :
       IF Has(sent.form, "method") /\ Attr(sent.form, "method") # "GET" THEN sent.fields = <<>>
       ELSE /\ Len(sent.fields) = Cardinality(Named(sent.form))
            /\ \A n \in Named(sent.form) : <<Attr(n, "name"), current_value(n)>> \in Range(sent.fields)

================================================================================
