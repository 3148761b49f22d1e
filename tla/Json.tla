---------------------------------- MODULE Json ---------------------------------
(***************************************************************************)
(* libs/json: parsing a text in place (json_parse) and freeing the values. *)
(*                                                                         *)
(* The text is chosen as it is read, a character at a time: its last       *)
(* character is s[i], and "end" is the terminating NUL.  "1" stands for a  *)
(* digit, "x" for a character without a meaning of its own, "^" for a      *)
(* control character, "true" for any of the three words.  The recursion    *)
(* is a stack of values; the root is value 1.                              *)
(***************************************************************************)
EXTENDS Integers, FiniteSets, SequencesExt

CONSTANTS
  Forms  \* kinds of text: the characters outside and inside strings, and the
         \* largest length

ASSUME JsonAssumption ==
  \A f \in Forms : f.max \in Nat /\ "end" \notin f.outside \cup f.inside

VARIABLES
  form,     \* the kind of text
  text,     \* the text as it was passed, as far as it was read
  buf,      \* the same characters as the parser has changed them
  values,   \* the values made: type, members or elements
  levels,   \* values being parsed, the innermost last
  phase,    \* what comes next
  token,    \* where a string, number or word began; where the string's next
            \* character goes; whether it is a name
  strings,  \* history: where each string was read
  released  \* history: what was freed, in this order

jsonVars == <<form, text, buf, values, levels, phase, token, strings, released>>

Idle == [open |-> 0, to |-> 0, name |-> FALSE]

Numbers == {"sign", "digits", "point", "fraction", "exp", "expsign", "power"}

JsonTypeOK ==
  /\ form \in Forms /\ Len(text) \in 1..form.max + 1
  /\ ToSet(text) \subseteq form.outside \cup form.inside \cup {"end"}
  /\ DOMAIN buf = DOMAIN text
  /\ \A n \in DOMAIN values : ToSet(values[n].kids) \subseteq DOMAIN values
  /\ ToSet(levels) \subseteq DOMAIN values
  /\ phase \in Numbers \cup
       {"value", "brace", "member", "string", "escape", "colon", "before", "bracket",
        "word", "after", "comma", "root", "failing", "rejected", "accepted", "freed"}
  /\ token \in [open : 0..Len(text), to : 0..Len(text), name : BOOLEAN]

JsonValue == [type |-> "uninitialized", kids |-> <<>>]

JsonFrom(f, d) ==
  /\ form = f /\ text = <<d>> /\ buf = <<d>>
  /\ values = <<JsonValue>> /\ levels = <<1>> /\ phase = "value"
  /\ token = Idle /\ strings = {} /\ released = <<>>

JsonInit == \E f \in Forms : \E d \in f.outside \cup {"end"} : JsonFrom(f, d)

-----------------------------------------------------------------------------
\* s[i] and i.
Char == Last(text)

Here == Len(text)

Current == Last(levels)

\* i moves on to a character outside or inside a string; b is the text as it is
\* left behind.
Move(chars, b) ==
  \E d \in {"end"} \cup (IF Len(text) < form.max THEN chars ELSE {}) :
    text' = Append(text, d) /\ buf' = Append(b, d)

Outside(b) == Move(form.outside, b) /\ UNCHANGED <<form, released>>

Inside(b) == Move(form.inside, b) /\ UNCHANGED <<form, released>>

Stay == UNCHANGED <<form, text, buf, token, strings, released>>

Fail == phase' = "failing" /\ Stay /\ UNCHANGED <<values, levels>>

\* The value is complete, and a member of its object or an element of its array.
Complete ==
  LET parent == levels[Len(levels) - 1]
  IN /\ levels' = Front(levels)
     /\ values' = IF Len(levels) = 1 THEN values
                  ELSE [values EXCEPT ![parent].kids = Append(@, Current)]
     /\ phase' = IF Len(levels) = 1 THEN "root" ELSE "after"

\* skip_whitespace
SkipSpace ==
  /\ phase \in {"brace", "member", "colon", "before", "bracket", "after", "comma"}
  /\ Char = " " /\ Outside(buf)
  /\ phase' = IF phase = "brace" THEN "member" ELSE phase
  /\ UNCHANGED <<values, levels, token, strings>>

Holder == values[Current].type

Terminator == IF Holder = "object" THEN "}" ELSE "]"

\* A value is allocated before it is parsed.
NewValue ==
  /\ \/ phase = "before" /\ Char # " "
     \/ phase = "bracket" /\ Char \notin {" ", "]", "end"}
     \/ phase = "comma" /\ Holder = "array" /\ Char \notin {" ", "]", "end"}
  /\ values' = Append(values, JsonValue) /\ levels' = Append(levels, Len(values) + 1)
  /\ phase' = "value" /\ Stay

\* parse_value
StartValue(chars, t, next) ==
  /\ phase = "value" /\ Char \in chars
  /\ values' = [values EXCEPT ![Current].type = t] /\ phase' = next
  /\ token' = [open |-> Here, to |-> Here + 1, name |-> FALSE]
  /\ UNCHANGED <<levels, strings>>

ParseValue ==
  \/ StartValue({"{"}, "object", "brace") /\ Outside(buf)
  \/ StartValue({"["}, "array", "bracket") /\ Outside(buf)
  \/ StartValue({"Q"}, "string", "string") /\ Inside(buf)
  \/ StartValue({"true"}, "word", "word") /\ Outside(buf)
  \/ StartValue({"1"}, "number", "digits") /\ Outside(buf)
  \/ StartValue({"-"}, "number", "sign") /\ Outside(buf)

ExpectedValue ==
  phase = "value" /\ Char \notin {"{", "[", "Q", "true", "1", "-"} /\ Fail

\* parse_member starts with the quote of the name.
MemberName ==
  /\ phase \in {"brace", "member", "comma"} /\ Holder = "object"
  /\ IF Char = "Q"
       THEN /\ phase' = "string" /\ token' = [open |-> Here, to |-> Here + 1, name |-> TRUE]
            /\ Inside(buf) /\ UNCHANGED <<values, levels, strings>>
       ELSE /\ Char # " " /\ (phase # "member" => Char \notin {"}", "end"})
            /\ Fail

Colon ==
  /\ phase = "colon" /\ Char # " "
  /\ IF Char = ":"
       THEN phase' = "before" /\ Outside(buf) /\ UNCHANGED <<values, levels, token, strings>>
       ELSE Fail

\* The end of an object or an array.
Close ==
  /\ phase \in {"brace", "bracket", "after"} /\ Char = Terminator
  /\ Complete /\ Outside(buf) /\ UNCHANGED <<token, strings>>

\* skip_to_next_value
NextValue ==
  /\ phase = "after" /\ Char \notin {" ", Terminator}
  /\ IF Char = ","
       THEN phase' = "comma" /\ Outside(buf) /\ UNCHANGED <<values, levels, token, strings>>
       ELSE Fail

\* Mistake: the character that ends a list is not looked for after a comma.
TrailingCommaCloses ==
  \/ phase = "comma" /\ Char = Terminator /\ Complete /\ Outside(buf)
       /\ UNCHANGED <<token, strings>>
  \/ phase \in {"brace", "bracket", "comma"} /\ Char = "end" /\ Fail

\* A comma with nothing after it, a text that ends.
UnexpectedEnd ==
  \/ phase = "comma" /\ Char = Terminator /\ Fail
  \/ phase \in {"brace", "bracket", "comma"} /\ Char = "end" /\ Fail

\* escape
Escape == ("Q" :> "Q") @@ ("\\" :> "\\") @@ ("n" :> "newline")

\* Mistake: a character is left where it was, behind its backslash.
StringCharUnmoved(d) ==
  /\ Inside([buf EXCEPT ![Here] = d]) /\ phase' = "string"
  /\ token' = [token EXCEPT !.to = @ + 1] /\ UNCHANGED <<values, levels, strings>>

\* parse_string moves each character to where the string has got to.
StringChar(d) ==
  /\ Inside([buf EXCEPT ![token.to] = d]) /\ phase' = "string"
  /\ token' = [token EXCEPT !.to = @ + 1] /\ UNCHANGED <<values, levels, strings>>

ParseString ==
  \/ phase = "string" /\ Char \notin {"Q", "\\", "^", "end"} /\ StringChar(Char)
  \/ /\ phase = "string" /\ Char = "\\" /\ phase' = "escape" /\ Inside(buf)
     /\ UNCHANGED <<values, levels, token, strings>>
  \/ phase = "escape" /\ Char \in DOMAIN Escape /\ StringChar(Escape[Char])

StringClosed ==
  /\ phase = "string" /\ Char = "Q"
  /\ Outside([buf EXCEPT ![token.to] = "end"])
  /\ strings' = strings \cup {<<token.open, Here>>}
  /\ IF token.name THEN phase' = "colon" /\ UNCHANGED <<values, levels>> ELSE Complete
  /\ UNCHANGED token

StringFails ==
  \/ phase = "string" /\ Char \in {"^", "end"} /\ Fail
  \/ phase = "escape" /\ Char \notin DOMAIN Escape /\ Fail

\* is_valid_number: what each character of a number leads to.
NumberStep ==
  ({"sign", "digits"} \X {"1"} \X {"digits"})
    \cup ({"sign", "digits"} \X {"."} \X {"point"})
    \cup ({"point", "fraction"} \X {"1"} \X {"fraction"})
    \cup ({"sign", "digits", "point", "fraction"} \X {"e"} \X {"exp"})
    \cup {<<"exp", "-", "expsign">>}
    \cup ({"exp", "expsign", "power"} \X {"1"} \X {"power"})

Malformed ==
  \/ phase \in {"sign", "point", "exp", "expsign"} /\ Char = "end"
  \/ phase \in {"exp", "expsign", "power"} /\ Char = "."

ParseNumber ==
  /\ phase \in Numbers
  /\ \/ \E next \in Numbers :
          /\ <<phase, Char, next>> \in NumberStep /\ phase' = next
          /\ Outside(buf) /\ UNCHANGED <<values, levels, token, strings>>
     \/ Malformed /\ Fail
     \/ /\ ~Malformed /\ \A next \in Numbers : <<phase, Char, next>> \notin NumberStep
        /\ Complete /\ Stay

\* parse_truthy looks at what follows the word.
ParseTruthy ==
  /\ phase = "word"
  /\ IF Char \in {" ", ",", "]", "}", "end"} THEN Complete /\ Stay ELSE Fail

\* json_parse after the root.
ParseEnd ==
  /\ phase = "root"
  /\ IF Char = "end" THEN phase' = "accepted" /\ Stay /\ UNCHANGED <<values, levels>>
     ELSE Fail

-----------------------------------------------------------------------------
\* What is allocated for a value; strings belong to the text.
Made(n) ==
  {<<"value", n>>} \cup
    CASE values[n].type = "object" -> {<<"entries", n>>, <<"map", n>>, <<"object", n>>}
      [] values[n].type = "array" -> {<<"array", n>>}
      [] OTHER -> {}

\* json_free: the members or elements, then the value.
JsonFrees[n \in DOMAIN values] ==
  FlattenSeq([j \in DOMAIN values[n].kids |-> JsonFrees[values[n].kids[j]]])
    \o (CASE values[n].type = "object" -> <<<<"entries", n>>, <<"map", n>>, <<"object", n>>>>
          [] values[n].type = "array" -> <<<<"array", n>>>>
          [] OTHER -> <<>>)
    \o <<<<"value", n>>>>

JsonFree(n) == released' = released \o JsonFrees[n]

InParent(t) ==
  /\ phase = "failing" /\ Len(levels) > 1 /\ values[levels[Len(levels) - 1]].type = t
  /\ levels' = Front(levels) /\ UNCHANGED <<form, text, buf, phase, token, strings>>

\* A member that fails is freed at once, and is not added.
DropMember == InParent("object") /\ JsonFree(Current) /\ UNCHANGED values

\* Mistake: an element that fails is not added to its array.
ForgetElement == InParent("array") /\ UNCHANGED <<values, released>>

\* An element that fails is added all the same, and freed with its array.
KeepElement ==
  /\ InParent("array")
  /\ values' = [values EXCEPT ![levels[Len(levels) - 1]].kids = Append(@, Current)]
  /\ UNCHANGED released

\* json_parse frees the root it does not return, its caller the one it does.
FreeRoot ==
  /\ \/ phase = "failing" /\ Len(levels) <= 1 /\ phase' = "rejected"
     \/ phase = "accepted" /\ phase' = "freed"
  /\ JsonFree(1) /\ UNCHANGED <<form, text, buf, values, levels, token, strings>>

JsonNext ==
  \/ SkipSpace \/ NewValue \/ ParseValue \/ ExpectedValue
  \/ MemberName \/ Colon \/ Close \/ NextValue \/ UnexpectedEnd
  \/ ParseString \/ StringClosed \/ StringFails
  \/ ParseNumber \/ ParseTruthy \/ ParseEnd
  \/ DropMember \/ KeepElement \/ FreeRoot

JsonSpec == JsonInit /\ [][JsonNext]_jsonVars

-----------------------------------------------------------------------------
(***************************************************************************)
(* The grammar of RFC 8259: the texts of a form, found length by length.   *)
(***************************************************************************)
Cat(A, B) == {a \o b : a \in A, b \in B}

\* Numbers whose parts have this many digits or more.
NumberTexts(f, least) ==
  LET digits == {[i \in 1..n |-> "1"] : n \in least..f.max}
      whole == Cat({<<>>, <<"-">>}, digits)
      fraction == {<<>>} \cup Cat({<<".">>}, digits)
      exponent == {<<>>} \cup Cat({<<"e">>, <<"e", "-">>}, digits)
  IN {a \in Cat(whole, Cat(fraction, exponent)) :
        a # <<>> /\ Head(a) \in {"1", "-"} /\ Len(a) <= f.max /\ ToSet(a) \subseteq f.outside}

StringTexts(f) ==
  LET plain == {<<d>> : d \in f.inside \ {"Q", "\\", "^"}}
      escaped == {<<"\\", d>> : d \in DOMAIN Escape}
      units == {u \in plain \cup escaped : ToSet(u) \subseteq f.inside}
      longer(S) == S \cup {a \in Cat(S, units) : Len(a) <= f.max - 2}
      contents == FoldLeft(LAMBDA S, n : longer(S), {<<>>}, [n \in 1..f.max |-> n])
  IN IF "Q" \in f.outside THEN {<<"Q">> \o a \o <<"Q">> : a \in contents} ELSE {}

\* t holds the texts of fewer than n characters: t[m + 1], those of m characters.
TextsOfLength(f, scalars, t, n) ==
  LET one(d) == {<<d>>} \cap {<<b>> : b \in f.outside}
      spaced(A, kind) ==
        A \cup Cat(one(" "), t[n][kind]) \cup Cat(t[n][kind], one(" "))
      apart(k, d, l) ==
        UNION {Cat(t[m][k], Cat(one(d), t[n + 1 - m][l])) : m \in 1..n}
      within(a, A, b) == Cat(one(a), Cat(A, one(b)))
      sized == {a \in scalars : Len(a) = n}
      value == sized \cup
        IF n < 2 THEN {}
        ELSE within("[", t[n - 1].blank \cup t[n - 1].elements, "]")
               \cup within("{", t[n - 1].members \cup IF n = 2 THEN {<<>>} ELSE {}, "}")
      padded == spaced(value, "padded")
      pair == apart("name", ":", "padded")
  IN [value |-> value, padded |-> padded, pair |-> pair,
      blank |-> Cat(one(" "), t[n].blank),
      name |-> spaced({a \in sized : Head(a) = "Q"}, "name"),
      elements |-> padded \cup apart("padded", ",", "elements"),
      members |-> pair \cup apart("pair", ",", "members")]

\* Documents with nothing around the root and nothing in an empty object.
Documents(f, least) ==
  LET empty == [value |-> {}, padded |-> {}, pair |-> {}, blank |-> {<<>>}, name |-> {},
                elements |-> {}, members |-> {}]
      scalars == NumberTexts(f, least) \cup StringTexts(f)
                   \cup ({<<"true">>} \cap {<<b>> : b \in f.outside})
      texts == FoldLeft(LAMBDA t, n : Append(t, TextsOfLength(f, scalars, t, n)),
                        <<empty>>, [n \in 1..f.max |-> n])
  IN UNION {texts[m].value : m \in DOMAIN texts}

\* Numbers may lack digits where the grammar wants some (json.c:227-263).
Accepted == [f \in Forms |-> Documents(f, 0)]

Promised == [f \in Forms |-> Documents(f, 1)]

PromisedStarts == [f \in Forms |-> UNION {Prefixes(d) : d \in Promised[f]}]

\* What is accepted is a document but for its numbers; what is rejected is none and
\* begins none, other than one with whitespace around its root or in an empty
\* object (json.c:165, json.c:361).
VerdictRight ==
  /\ phase = "accepted" => Front(text) \in Accepted[form]
  /\ phase \in {"failing", "rejected"} =>
       IF Char = "end" THEN Front(text) \notin Promised[form]
       ELSE text \notin PromisedStarts[form]

\* The characters of a string without its escapes.
Unescaped(s) ==
  FoldLeft(LAMBDA u, d : IF u.escaped THEN [said |-> Append(u.said, Escape[d]), escaped |-> FALSE]
                         ELSE IF d = "\\" THEN [u EXCEPT !.escaped = TRUE]
                         ELSE [u EXCEPT !.said = Append(@, d)],
           [said |-> <<>>, escaped |-> FALSE], s).said

\* A name or a string stays where it was unescaped in place, with its NUL, whatever
\* is parsed after it.
StringsStand ==
  \A s \in strings :
    LET said == Unescaped(SubSeq(text, s[1] + 1, s[2] - 1))
    IN SubSeq(buf, s[1] + 1, s[1] + 1 + Len(said)) = Append(said, "end")

\* A text is understood as the grammar says.
TextUnderstood == VerdictRight /\ StringsStand

\* However deep parsing fails, every value is freed once.
ValuesFreedOnce ==
  phase \in {"rejected", "freed"} =>
    /\ ToSet(released) = UNION {Made(n) : n \in DOMAIN values}
    /\ IsInjective(released)
=============================================================================
