----------------------------- MODULE ConfigProofs -----------------------------
(***************************************************************************)
(* What reading and writing server.properties guarantees for every table   *)
(* of properties, whatever an operator writes and whenever the server dies *)
(* while it writes.                                                        *)
(***************************************************************************)
EXTENDS Config, FiniteSetTheorems, TLAPS

-----------------------------------------------------------------------------
(***************************************************************************)
(* The inductive invariant.                                                *)
(***************************************************************************)
AllLines == Lines \cup ToSet(DefaultLines)

Typed(p, v) ==
  /\ Type[p] = "num" => v \in Nat
  /\ Type[p] = "bool" => v \in BOOLEAN
  /\ Type[p] = "str" => v \in (Texts[p] \ {""}) \cup {NoString, Default[p]}
  /\ Type[p] = "estr" =>
       v \in {0} \cup {Mapping[p][i].value : i \in DOMAIN Mapping[p]}

\* The file has lines of the table and of the operator, and grows by one with each edit.
FileIs == file \in Seq(AllLines) /\ Len(file) <= Len(DefaultLines) + edits

FileTyped ==
  /\ file = Absent \/ FileIs
  /\ pc \in {"reading", "running"} => FileIs

\* A file that nobody touched is the one with the defaults.
Untouched ==
  edits = 0 /\ ~torn =>
    /\ file \in {Absent, DefaultLines}
    /\ pc \in {"reading", "running"} => file = DefaultLines

\* How many lines have been read.
LinesRead == IF pc = "reading" THEN next - 1 ELSE Len(file)

Counters ==
  /\ pc \in {"off", "reading", "running", "failed", "undefined"}
  /\ ended \in BOOLEAN /\ torn \in BOOLEAN
  /\ next \in 1..MaxEdits + Len(DefaultLines) + 1 /\ edits \in 0..MaxEdits
  /\ pc = "reading" => next <= Len(file) + 1

\* None of the lines read is rejected.
Accepted ==
  pc \in {"reading", "running"} => \A i \in 1..LinesRead : ~Rejected(file[i])

\* The lines read decide what the numbers and strings are, and the value of a mapping is
\* its first one as soon as it is named.
Decided ==
  pc \in {"reading", "running"} =>
    \A p \in Property :
      /\ Type[p] \in {"num", "str"} => Decide(LinesRead, p)
      /\ Type[p] = "estr" /\ (\E i \in 1..LinesRead : file[i].name = p) =>
           fields[p] = Mapping[p][1].value

Fields ==
  /\ \A p \in Property : Typed(p, fields[p])
  /\ pc = "off" => fields = Zero

IInv == FileTyped /\ Untouched /\ Counters /\ Accepted /\ Decided /\ Fields

-----------------------------------------------------------------------------
(***************************************************************************)
(* The table.                                                              *)
(***************************************************************************)

\* Every property has one of four types.
LEMMA TypeIs == \A p \in Property : Type[p] \in {"num", "bool", "str", "estr"}
  BY ConfigAssumption

\* The properties before anything is read.
LEMMA ZeroIs ==
  ASSUME NEW p \in Property
  PROVE  /\ Type[p] = "num" => Zero[p] = 0
         /\ Type[p] = "bool" => Zero[p] = FALSE
         /\ Type[p] = "str" => Zero[p] = NoString
         /\ Type[p] = "estr" => Zero[p] = 0
<1>1. Type[p] = "num" => Zero[p] = 0
  BY Zenon DEF Zero
<1>2. Type[p] = "bool" => Zero[p] = FALSE
  BY Zenon DEF Zero
<1>3. Type[p] = "str" => Zero[p] = NoString
  BY Zenon DEF Zero
<1>4. Type[p] = "estr" => Zero[p] = 0
  BY Zenon DEF Zero
<1> QED
  BY <1>1, <1>2, <1>3, <1>4

\* They have their types.
LEMMA ZeroTyped ==
  ASSUME NEW p \in Property
  PROVE  Typed(p, Zero[p])
<1>1. CASE Type[p] = "num"
  <2>1. Zero[p] \in Nat
    <3>1. Zero[p] = 0
      BY <1>1, ZeroIs
    <3> QED
      BY <3>1
  <2> QED
    BY <1>1, <2>1 DEF Typed
<1>2. CASE Type[p] = "bool"
  BY <1>2, ZeroIs DEF Typed
<1>3. CASE Type[p] = "str"
  BY <1>3, ZeroIs DEF Typed
<1>4. CASE Type[p] = "estr"
  BY <1>4, ZeroIs DEF Typed
<1> QED
  BY <1>1, <1>2, <1>3, <1>4, TypeIs

\* The text of a default.
LEMMA TextIs ==
  ASSUME NEW p \in Property
  PROVE  /\ Type[p] = "num" =>
              TextOf(p) \in DOMAIN NumberOf /\ NumberOf[TextOf(p)] = Default[p]
         /\ Type[p] = "str" =>
              TextOf(p) = IF Default[p] = NoString THEN "" ELSE Default[p]
         /\ Type[p] = "estr" => TextOf(p) = Mapping[p][1].name
<1>1. ASSUME Type[p] = "num"
      PROVE  TextOf(p) \in DOMAIN NumberOf /\ NumberOf[TextOf(p)] = Default[p]
  <2>1. TextOf(p) = CHOOSE t \in DOMAIN NumberOf : NumberOf[t] = Default[p]
    BY <1>1 DEF TextOf
  <2>2. \E t \in DOMAIN NumberOf : NumberOf[t] = Default[p]
    BY <1>1, ConfigAssumption
  <2> QED
    BY <2>1, <2>2
<1>2. ASSUME Type[p] = "str"
      PROVE  TextOf(p) = IF Default[p] = NoString THEN "" ELSE Default[p]
  BY <1>2, Zenon DEF TextOf
<1>3. ASSUME Type[p] = "estr"
      PROVE  TextOf(p) = Mapping[p][1].name
  BY <1>3, Zenon DEF TextOf
<1> QED
  BY <1>1, <1>2, <1>3

\* The defaults have their types.
LEMMA DefaultsTyped ==
  ASSUME NEW p \in Property
  PROVE  /\ Typed(p, Defaults[p])
         /\ Type[p] = "estr" => Defaults[p] = Mapping[p][1].value
         /\ Type[p] # "estr" => Defaults[p] = Default[p]
<1>1. Defaults[p] = IF Type[p] = "estr" THEN Mapping[p][1].value ELSE Default[p]
  BY DEF Defaults
<1>2. CASE Type[p] = "num"
  <2>1. Default[p] \in Nat
    BY <1>2, ConfigAssumption
  <2> QED
    BY <1>1, <1>2, <2>1 DEF Typed
<1>3. CASE Type[p] = "bool"
  BY <1>1, <1>3, ConfigAssumption DEF Typed
<1>4. CASE Type[p] = "str"
  BY <1>1, <1>4 DEF Typed
<1>5. CASE Type[p] = "estr"
  BY <1>1, <1>5, ConfigAssumption DEF Typed
<1> QED
  BY <1>2, <1>3, <1>4, <1>5, TypeIs

\* The lines with the defaults: one for each property, and no other.
LEMMA DefaultLinesIs ==
  /\ DefaultLines \in Seq(AllLines) /\ Len(DefaultLines) \in Nat
  /\ \A i \in 1..Len(DefaultLines) :
       \E p \in Property : DefaultLines[i] = Assignment(p, TextOf(p))
  /\ \A p \in Property :
       \E i \in 1..Len(DefaultLines) : DefaultLines[i] = Assignment(p, TextOf(p))
  /\ \A i, j \in 1..Len(DefaultLines) :
       DefaultLines[i].name = DefaultLines[j].name => i = j
<1> DEFINE S == {Assignment(p, TextOf(p)) : p \in Property}
           n == Cardinality(S)
           D == DefaultLines
           f == [p \in Property |-> Assignment(p, TextOf(p))]
<1>1. IsFiniteSet(S)
  <2>1. f \in Surjection(Property, S)
    BY DEF Surjection
  <2> QED
    BY <2>1, FS_Surjection, ConfigAssumption
<1>2. n \in Nat /\ ExistsBijection(1..n, S)
  BY <1>1, FS_CardinalityType
<1>3. \E g \in [1..n -> S] : IsInjective(g)
  BY <1>2 DEF ExistsBijection, Bijection, Injection, IsInjective
<1>4. D = CHOOSE g \in [1..n -> S] : IsInjective(g)
  BY DEF DefaultLines, SetToSeq
<1> HIDE DEF S, n, D, f
<1>5. D \in [1..n -> S] /\ IsInjective(D)
  BY <1>3, <1>4
<1>6. D \in Injection(1..n, S)
  BY <1>5 DEF Injection, IsInjective
<1>7. IsFiniteSet(1..n) /\ Cardinality(1..n) = n
  BY <1>2, FS_Interval
<1>8. D \in Surjection(1..n, S)
  BY <1>1, <1>6, <1>7, FS_Injection DEF n
<1>9. D \in Seq(S) /\ Len(D) = n
  BY <1>2, <1>5
<1>10. \A i \in 1..n : \E p \in Property : D[i] = Assignment(p, TextOf(p))
  BY <1>5 DEF S
<1>11. \A p \in Property : \E i \in 1..n : D[i] = Assignment(p, TextOf(p))
  BY <1>8 DEF S, Surjection
<1>12. ASSUME NEW i \in 1..n, NEW j \in 1..n, D[i].name = D[j].name
       PROVE  i = j
  <2>1. PICK p \in Property : D[i] = Assignment(p, TextOf(p))
    BY <1>10
  <2>2. PICK q \in Property : D[j] = Assignment(q, TextOf(q))
    BY <1>10
  <2>3. p = q
    BY <1>12, <2>1, <2>2 DEF Assignment
  <2> QED
    BY <1>5, <2>1, <2>2, <2>3 DEF IsInjective
<1>13. D \in Seq(AllLines)
  <2>1. \A i \in 1..n : D[i] \in AllLines
    BY <1>9, <1>5 DEF AllLines, ToSet, D
  <2> QED
    BY <1>2, <1>9, <2>1
<1> QED
  BY <1>2, <1>9, <1>10, <1>11, <1>12, <1>13 DEF D

-----------------------------------------------------------------------------
(***************************************************************************)
(* What a line stores.                                                     *)
(***************************************************************************)

\* A line for a string has a text of an operator, or the default.
LEMMA LineIs ==
  ASSUME NEW l \in AllLines, NEW p \in Property, l.name = p, Type[p] = "str"
  PROVE  l.text \in Texts[p] \cup {"", Default[p]}
<1>1. CASE l = NoName
  BY <1>1, ConfigAssumption DEF NoName
<1>2. CASE l = Assignment("unknown", "")
  <2>1. l.text = ""
    BY <1>2, Zenon DEF Assignment
  <2> QED
    BY <2>1
<1>3. CASE \E q \in Property : \E t \in Texts[q] : l = Assignment(q, t)
  <2>1. PICK q \in Property : \E t \in Texts[q] : l = Assignment(q, t)
    BY <1>3
  <2>2. PICK t \in Texts[q] : l = Assignment(q, t)
    BY <2>1
  <2>3. l.name = q /\ l.text = t
    BY <2>2 DEF Assignment
  <2> QED
    BY <2>2, <2>3
<1>4. CASE \E q \in Property : l = Assignment(q, TextOf(q))
  <2>1. l.text = TextOf(p)
    BY <1>4 DEF Assignment
  <2>2. TextOf(p) = IF Default[p] = NoString THEN "" ELSE Default[p]
    BY TextIs
  <2> QED
    BY <2>1, <2>2
<1>5. l \in Lines =>
        \/ l = NoName \/ l = Assignment("unknown", "")
        \/ \E q \in Property : \E t \in Texts[q] : l = Assignment(q, t)
  BY DEF Lines
<1>6. l \in ToSet(DefaultLines) => \E q \in Property : l = Assignment(q, TextOf(q))
  <2>1. DOMAIN DefaultLines = 1..Len(DefaultLines)
    BY DefaultLinesIs
  <2> QED
    BY <2>1, DefaultLinesIs DEF ToSet
<1> QED
  BY <1>1, <1>2, <1>3, <1>4, <1>5, <1>6 DEF AllLines

\* The table does not change.
LEMMA TableStays ==
  /\ AllLines' = AllLines /\ DefaultLines' = DefaultLines
  /\ Zero' = Zero /\ Defaults' = Defaults
<1>1. DefaultLines' = DefaultLines
  BY DEF DefaultLines, SetToSeq, IsInjective, Assignment, TextOf
<1>2. Zero' = Zero
  BY DEF Zero
<1>3. Defaults' = Defaults
  BY DEF Defaults
<1>4. Lines' = Lines
  BY DEF Lines, NoName, Assignment
<1>5. ToSet(DefaultLines)' = ToSet(DefaultLines)
  BY <1>1 DEF ToSet
<1> QED
  BY <1>1, <1>2, <1>3, <1>4, <1>5 DEF AllLines

\* The bounds are numbers.
LEMMA Bounds == Len(DefaultLines) \in Nat /\ MaxEdits \in Nat
  BY DefaultLinesIs, ConfigAssumption

\* What a line stores has the type of its property; a number or a string is what the
\* line says when it has a value, and what it was when it has none.
LEMMA ReadIs ==
  ASSUME NEW l \in AllLines, NEW p \in Property, l.name = p, Typed(p, fields[p])
  PROVE  /\ Typed(p, Read(p, l.text))
         /\ Type[p] \in {"num", "str"} =>
              Read(p, l.text) = IF HasValue(p, l.text) THEN ValueOf(p, l.text)
                                ELSE fields[p]
         /\ Type[p] = "estr" => Read(p, l.text) = Mapping[p][1].value
<1> DEFINE t == l.text
<1>1. CASE Type[p] = "num"
  <2>1. Read(p, t) = ReadNumber(p, t)
    BY <1>1, Zenon DEF Read
  <2>2. Read(p, t) = IF t \in DOMAIN NumberOf THEN NumberOf[t] ELSE fields[p]
    BY <2>1 DEF ReadNumber
  <2>3. fields[p] \in Nat
    BY <1>1 DEF Typed
  <2>4. Read(p, t) \in Nat
    BY <2>2, <2>3, ConfigAssumption
  <2>5. Typed(p, Read(p, t))
    BY <1>1, <2>4 DEF Typed
  <2>6. Read(p, t) = IF HasValue(p, t) THEN ValueOf(p, t) ELSE fields[p]
    BY <1>1, <2>2 DEF HasValue, ValueOf
  <2> QED
    BY <1>1, <2>5, <2>6
<1>2. CASE Type[p] = "bool"
  <2>1. Read(p, t) = ReadBool(t)
    BY <1>2, Zenon DEF Read
  <2>2. Read(p, t) \in BOOLEAN
    BY <2>1 DEF ReadBool
  <2>3. Typed(p, Read(p, t))
    BY <1>2, <2>2 DEF Typed
  <2> QED
    BY <1>2, <2>3
<1>3. CASE Type[p] = "str"
  <2>1. Read(p, t) = ReadString(p, t)
    BY <1>3, Zenon DEF Read
  <2>2. Read(p, t) = IF t = "" THEN fields[p] ELSE t
    BY <2>1 DEF ReadString
  <2>3. t \in Texts[p] \cup {"", Default[p]}
    BY <1>3, LineIs
  <2>4. fields[p] \in (Texts[p] \ {""}) \cup {NoString, Default[p]}
    BY <1>3 DEF Typed
  <2>5. Read(p, t) \in (Texts[p] \ {""}) \cup {NoString, Default[p]}
    BY <2>2, <2>3, <2>4
  <2>6. Typed(p, Read(p, t))
    BY <1>3, <2>5 DEF Typed
  <2>7. Read(p, t) = IF HasValue(p, t) THEN ValueOf(p, t) ELSE fields[p]
    BY <1>3, <2>2 DEF HasValue, ValueOf
  <2> QED
    BY <1>3, <2>6, <2>7
<1>4. CASE Type[p] = "estr"
  <2>1. Read(p, t) = Mapping[p][1].value
    BY <1>4, Zenon DEF Read
  <2>2. Typed(p, Read(p, t))
    BY <1>4, <2>1, ConfigAssumption DEF Typed
  <2> QED
    BY <1>4, <2>1, <2>2
<1> QED
  BY <1>1, <1>2, <1>3, <1>4, TypeIs

\* One more line decides, when it has a value, and changes nothing when it has none.
LEMMA DecideGrows ==
  ASSUME NEW p \in Property, Type[p] \in {"num", "str"}, NEW n \in Nat,
         Decide(n, p), file' = file,
         IF Gives(n + 1, p) THEN fields'[p] = ValueOf(p, file[n + 1].text)
                            ELSE fields'[p] = fields[p]
  PROVE  Decide(n + 1, p)'
<1>1. \A i : Gives(i, p)' <=> Gives(i, p)
  BY DEF Gives
<1>2. CASE Gives(n + 1, p)
  <2>1. n + 1 \in 1..n + 1 /\ \A j \in (n + 1) + 1..n + 1 : ~Gives(j, p)
    OBVIOUS
  <2> QED
    BY <1>1, <1>2, <2>1 DEF Decide
<1>3. CASE ~Gives(n + 1, p)
  <2>1. \A j \in 1..n + 1 : j \in 1..n \/ j = n + 1
    OBVIOUS
  <2>2. CASE fields[p] = Zero[p] /\ \A i \in 1..n : ~Gives(i, p)
    BY <1>1, <1>3, <2>1, <2>2 DEF Decide
  <2>3. ASSUME NEW i \in 1..n, Gives(i, p), \A j \in i + 1..n : ~Gives(j, p),
               fields[p] = ValueOf(p, file[i].text)
        PROVE  Decide(n + 1, p)'
    <3>1. i \in 1..n + 1 /\ \A j \in i + 1..n + 1 : j \in i + 1..n \/ j = n + 1
      OBVIOUS
    <3>2. \A j \in i + 1..n + 1 : ~Gives(j, p)
      BY <1>3, <2>3, <3>1
    <3>3. fields'[p] = ValueOf(p, file'[i].text)
      BY <1>3, <2>3
    <3> QED
      BY <1>1, <2>3, <3>1, <3>2, <3>3 DEF Decide
  <2> QED
    BY <2>2, <2>3 DEF Decide
<1> QED
  BY <1>2, <1>3

-----------------------------------------------------------------------------
(***************************************************************************)
(* The steps.                                                              *)
(***************************************************************************)

\* The initial state.
LEMMA InvInit == Init => IInv
<1> SUFFICES ASSUME Init PROVE IInv
  OBVIOUS
<1>1. FileTyped /\ Untouched /\ Accepted /\ Decided
  BY DEF Init, FileTyped, Untouched, Accepted, Decided
<1>2. Counters
  <2>1. Len(DefaultLines) \in Nat /\ MaxEdits \in Nat
    BY Bounds
  <2>2. 1 \in 1..MaxEdits + Len(DefaultLines) + 1 /\ 0 \in 0..MaxEdits
    BY <2>1
  <2> QED
    BY <2>2 DEF Init, Counters
<1>3. Fields
  BY ZeroTyped DEF Init, Fields
<1> QED
  BY <1>1, <1>2, <1>3 DEF IInv

\* The file with the defaults gives what is stored along with it.
LEMMA InvWriteDefaults ==
  ASSUME IInv, WriteDefaults
  PROVE  IInv'
<1> DEFINE D == DefaultLines
<1>1. /\ file' = D /\ fields' = Defaults /\ pc' = "running"
      /\ UNCHANGED <<ended, next, edits, torn>>
  BY DEF WriteDefaults
<1>2. /\ D \in Seq(AllLines) /\ Len(D) \in Nat /\ edits \in Nat
  <2>1. edits \in 0..MaxEdits /\ MaxEdits \in Nat
    BY ConfigAssumption DEF IInv, Counters
  <2> QED
    BY <2>1, DefaultLinesIs
<1>3. FileTyped'
  <2>1. Len(D) <= Len(D) + edits
    BY <1>2
  <2> QED
    BY <1>1, <1>2, <2>1, TableStays DEF FileTyped, FileIs
<1>4. Untouched' /\ Counters'
  BY <1>1, TableStays DEF Untouched, Counters, IInv
<1>5. LinesRead' = Len(D)
  BY <1>1 DEF LinesRead
<1>6. Accepted'
  <2>1. SUFFICES ASSUME NEW i \in 1..Len(D) PROVE ~Rejected(D[i])
    BY <1>1, <1>5 DEF Accepted, Rejected, Names
  <2>2. PICK p \in Property : D[i] = Assignment(p, TextOf(p))
    BY DefaultLinesIs
  <2>3. D[i].name = p /\ D[i].text = TextOf(p)
    BY <2>2 DEF Assignment
  <2>4. p # ""
    BY ConfigAssumption
  <2>5. Type[p] = "estr" => TextOf(p) \in Names(p)
    BY TextIs, ConfigAssumption DEF Names
  <2> QED
    BY <2>3, <2>4, <2>5 DEF Rejected
<1>7. ASSUME NEW p \in Property
      PROVE  /\ Type[p] \in {"num", "str"} => Decide(LinesRead, p)'
             /\ Type[p] = "estr" => fields'[p] = Mapping[p][1].value
  <2>1. PICK i \in 1..Len(D) : D[i] = Assignment(p, TextOf(p))
    BY DefaultLinesIs
  <2>2. D[i].name = p /\ D[i].text = TextOf(p)
    BY <2>1 DEF Assignment
  <2>3. \A j \in 1..Len(D) : D[j].name = p => j = i
    BY <2>2, DefaultLinesIs
  <2>4. Type[p] # "estr" => fields'[p] = Default[p]
    BY <1>1, DefaultsTyped
  <2> HIDE DEF D
  <2>5. \A j \in 1..Len(D) : Gives(j, p)' => j = i
    BY <1>1, <2>3 DEF Gives
  <2>6. ASSUME HasValue(p, TextOf(p)), Default[p] = ValueOf(p, TextOf(p)),
               Type[p] \in {"num", "str"}
        PROVE  Decide(LinesRead, p)'
    <3>1. Gives(i, p)'
      BY <1>1, <2>2, <2>6 DEF Gives
    <3>2. \A j \in i + 1..Len(D) : j \in 1..Len(D) /\ j # i
      BY <1>2
    <3>3. fields'[p] = ValueOf(p, file'[i].text)
      BY <1>1, <2>2, <2>4, <2>6
    <3>4. \A j \in i + 1..Len(D) : ~Gives(j, p)'
      BY <2>5, <3>2
    <3> QED
      BY <1>5, <3>1, <3>3, <3>4 DEF Decide
  <2>7. CASE Type[p] = "num"
    BY <2>6, <2>7, TextIs DEF HasValue, ValueOf
  <2>8. CASE Type[p] = "str" /\ Default[p] # NoString
    BY <2>6, <2>8, TextIs, ConfigAssumption DEF HasValue, ValueOf
  <2>9. CASE Type[p] = "str" /\ Default[p] = NoString
    <3>1. ~HasValue(p, TextOf(p))
      BY <2>9, TextIs DEF HasValue
    <3>2. \A j \in 1..Len(D) : ~Gives(j, p)'
      BY <1>1, <2>2, <2>5, <3>1 DEF Gives
    <3>3. fields'[p] = Zero[p]
      BY <2>4, <2>9, ZeroIs
    <3> QED
      BY <1>5, <2>9, <3>2, <3>3 DEF Decide, Zero
  <2>10. Type[p] = "estr" => fields'[p] = Mapping[p][1].value
    BY <1>1, DefaultsTyped
  <2> QED
    BY <2>7, <2>8, <2>9, <2>10
<1>8. Decided'
  BY <1>1, <1>7 DEF Decided
<1>9. Fields'
  BY <1>1, DefaultsTyped DEF Fields, Typed
<1> QED
  BY <1>3, <1>4, <1>6, <1>8, <1>9 DEF IInv

\* Dying while the file is written leaves some of the lines, and nothing stored.
LEMMA InvWriteTorn ==
  ASSUME IInv, WriteTorn
  PROVE  IInv'
<1>1. PICK n \in 0..Len(DefaultLines) - 1 : file' = SubSeq(DefaultLines, 1, n)
  BY DEF WriteTorn
<1>2. /\ pc = "off" /\ ended' \in BOOLEAN /\ torn' = TRUE
      /\ UNCHANGED <<fields, pc, next, edits>>
  BY DEF WriteTorn
<1>3. DefaultLines \in Seq(AllLines) /\ Len(DefaultLines) \in Nat /\ edits \in Nat
  <2>1. edits \in 0..MaxEdits /\ MaxEdits \in Nat
    BY ConfigAssumption DEF IInv, Counters
  <2> QED
    BY <2>1, DefaultLinesIs
<1>4. FileTyped'
  <2> DEFINE S == AllLines
             D == DefaultLines
  <2> HIDE DEF S, D
  <2>1. D \in Seq(S) /\ n \in 0..Len(D) - 1 /\ Len(D) \in Nat
    BY <1>3 DEF S, D
  <2>2. SubSeq(D, 1, n) \in Seq(S) /\ Len(SubSeq(D, 1, n)) = n
    BY <2>1
  <2>3. Len(SubSeq(D, 1, n)) <= Len(D) + edits
    BY <1>3, <2>1, <2>2
  <2> QED
    BY <1>1, <1>2, <2>2, <2>3, TableStays DEF FileTyped, FileIs, S, D
<1>5. Untouched' /\ Accepted' /\ Decided'
  BY <1>2 DEF Untouched, Accepted, Decided
<1>6. Counters'
  BY <1>2, TableStays DEF IInv, Counters
<1>7. Fields'
  BY <1>2, TableStays DEF IInv, Fields, Typed
<1> QED
  BY <1>4, <1>5, <1>6, <1>7 DEF IInv

\* A step that leaves the file and what is stored alone, and neither reads nor runs.
LEMMA InvRests ==
  ASSUME IInv, UNCHANGED <<file, ended, fields, next, edits, torn>>,
         pc' \in {"failed", "undefined"}
  PROVE  IInv'
<1>1. FileTyped'
  BY TableStays DEF IInv, FileTyped, FileIs
<1>2. Untouched' /\ Accepted' /\ Decided'
  BY TableStays DEF IInv, Untouched, Accepted, Decided
<1>3. Counters'
  BY TableStays DEF IInv, Counters
<1>4. Fields'
  BY DEF IInv, Fields, Typed
<1> QED
  BY <1>1, <1>2, <1>3, <1>4 DEF IInv

\* Nothing has been read yet.
LEMMA InvOpen ==
  ASSUME IInv, Open
  PROVE  IInv'
<1>1. /\ pc = "off" /\ file # Absent /\ pc' = "reading" /\ next' = 1
      /\ UNCHANGED <<file, ended, fields, edits, torn>>
  BY DEF Open
<1>2. FileIs /\ fields = Zero
  BY <1>1 DEF IInv, FileTyped, Fields
<1>3. FileTyped'
  BY <1>1, <1>2, TableStays DEF FileTyped, FileIs
<1>4. Untouched'
  BY <1>1, TableStays DEF IInv, Untouched
<1>5. Counters'
  <2>1. Len(file) \in Nat
    BY <1>2 DEF FileIs
  <2>2. 1 \in 1..MaxEdits + Len(DefaultLines) + 1 /\ 1 <= Len(file) + 1
    BY <2>1, Bounds
  <2> QED
    BY <1>1, <2>2, TableStays DEF IInv, Counters
<1>6. LinesRead' = 0
  BY <1>1 DEF LinesRead
<1>7. Accepted'
  BY <1>6 DEF Accepted
<1>8. Decided'
  BY <1>1, <1>2, <1>6 DEF Decided, Decide, Zero
<1>9. Fields'
  BY <1>1 DEF IInv, Fields, Typed
<1> QED
  BY <1>3, <1>4, <1>5, <1>7, <1>8, <1>9 DEF IInv

\* A line that is not rejected is stored.
LEMMA InvReadLine ==
  ASSUME IInv, ReadLine
  PROVE  IInv'
<1>1. pc = "reading" /\ next <= Len(file) /\ UNCHANGED <<file, ended, edits, torn>>
  BY DEF ReadLine
<1>2. CASE Rejected(file[next])
  <2>1. pc' = "failed" /\ UNCHANGED <<fields, next>>
    BY <1>2 DEF ReadLine
  <2> QED
    BY <1>1, <2>1, InvRests
<1>3. CASE ~Rejected(file[next])
  <2> DEFINE line == file[next]
  <2>1. /\ fields' = [p \in Property |->
                        IF p = line.name THEN Read(p, line.text) ELSE fields[p]]
        /\ next' = next + 1 /\ pc' = pc
    BY <1>3 DEF ReadLine
  <2>2. FileIs /\ FileIs'
    BY <1>1, TableStays DEF IInv, FileTyped, FileIs
  <2>3. Len(file) \in Nat /\ next \in 1..Len(file) /\ edits \in 0..MaxEdits
        /\ Len(DefaultLines) \in Nat /\ MaxEdits \in Nat
    <3>1. Len(file) \in Nat
      BY <2>2 DEF FileIs
    <3>2. next \in 1..MaxEdits + Len(DefaultLines) + 1 /\ edits \in 0..MaxEdits
      BY DEF IInv, Counters
    <3>3. Len(DefaultLines) \in Nat /\ MaxEdits \in Nat
      BY Bounds
    <3> QED
      BY <1>1, <3>1, <3>2, <3>3
  <2>4. line \in AllLines
    BY <2>2, <2>3 DEF FileIs
  <2>5. FileTyped'
    BY <2>2 DEF FileTyped
  <2>6. Untouched'
    BY <1>1, <2>1, TableStays DEF IInv, Untouched
  <2>7. Counters'
    <3>1. Len(file) <= Len(DefaultLines) + edits
      BY <2>2 DEF FileIs
    <3>2. next + 1 \in 1..MaxEdits + Len(DefaultLines) + 1 /\ next + 1 <= Len(file) + 1
      BY <2>3, <3>1
    <3> QED
      BY <1>1, <2>1, <3>2, TableStays DEF IInv, Counters
  <2>8. PICK n \in Nat : n + 1 = next
    <3>1. next - 1 \in Nat /\ (next - 1) + 1 = next
      BY <2>3
    <3> QED
      BY <3>1
  <2>9. LinesRead = n /\ LinesRead' = n + 1
    BY <1>1, <2>1, <2>3, <2>8 DEF LinesRead
  <2>10. \A i \in 1..n + 1 : i \in 1..n \/ i = n + 1
    OBVIOUS
  <2>11. Accepted'
    <3>1. \A i \in 1..n + 1 : ~Rejected(file[i])
      BY <1>1, <1>3, <2>8, <2>9, <2>10 DEF IInv, Accepted
    <3> QED
      BY <1>1, <2>9, <3>1 DEF Accepted, Rejected, Names
  <2>12. \A p \in Property : Typed(p, fields[p])
    BY DEF IInv, Fields
  <2>13. ASSUME NEW p \in Property, p = line.name
         PROVE  /\ Typed(p, Read(p, line.text))
                /\ Type[p] \in {"num", "str"} =>
                     Read(p, line.text) = IF HasValue(p, line.text)
                                            THEN ValueOf(p, line.text) ELSE fields[p]
                /\ Type[p] = "estr" => Read(p, line.text) = Mapping[p][1].value
    BY <2>4, <2>12, <2>13, ReadIs
  <2>14. Fields'
    <3>1. ASSUME NEW p \in Property PROVE Typed(p, fields'[p])
      <4>1. CASE p = line.name
        BY <2>1, <2>13, <4>1
      <4>2. CASE p # line.name
        BY <2>1, <2>12, <4>2
      <4> QED
        BY <4>1, <4>2
    <3> QED
      BY <1>1, <2>1, <3>1 DEF Fields, Typed
  <2>15. ASSUME NEW p \in Property, Type[p] \in {"num", "str"}
         PROVE  Decide(n + 1, p)'
    <3>1. Decide(n, p)
      BY <1>1, <2>9, <2>15 DEF IInv, Decided
    <3>2. Gives(n + 1, p) <=> line.name = p /\ HasValue(p, line.text)
      BY <2>8 DEF Gives
    <3>3. IF Gives(n + 1, p) THEN fields'[p] = ValueOf(p, file[n + 1].text)
                             ELSE fields'[p] = fields[p]
      <4>1. CASE p = line.name
        <5>1. fields'[p] = Read(p, line.text)
          BY <2>1, <4>1
        <5> QED
          BY <2>8, <2>13, <2>15, <3>2, <4>1, <5>1
      <4>2. CASE p # line.name
        BY <2>1, <3>2, <4>2
      <4> QED
        BY <4>1, <4>2
    <3> QED
      BY <1>1, <2>15, <3>1, <3>3, DecideGrows
  <2>16. ASSUME NEW p \in Property, Type[p] = "estr",
                NEW i \in 1..n + 1, file[i].name = p
         PROVE  fields'[p] = Mapping[p][1].value
    <3>1. CASE p = line.name
      BY <2>1, <2>13, <2>16, <3>1
    <3>2. CASE p # line.name
      <4>1. i \in 1..n
        BY <2>8, <2>10, <2>16, <3>2
      <4>2. fields[p] = Mapping[p][1].value
        BY <1>1, <2>9, <2>16, <4>1 DEF IInv, Decided
      <4> QED
        BY <2>1, <3>2, <4>2
    <3> QED
      BY <3>1, <3>2
  <2>17. Decided'
    <3>1. \A p \in Property :
            /\ Type[p] \in {"num", "str"} => Decide(LinesRead, p)'
            /\ Type[p] = "estr" /\ (\E i \in 1..n + 1 : file'[i].name = p) =>
                 fields'[p] = Mapping[p][1].value
      BY <1>1, <2>9, <2>15, <2>16 DEF Decide, Gives
    <3> QED
      BY <2>9, <3>1 DEF Decided
  <2> QED
    BY <2>5, <2>6, <2>7, <2>11, <2>14, <2>17 DEF IInv
<1> QED
  BY <1>2, <1>3

\* All lines have been read.
LEMMA InvEndOfFile ==
  ASSUME IInv, EndOfFile
  PROVE  IInv'
<1>1. /\ pc = "reading" /\ next > Len(file) /\ pc' = "running"
      /\ UNCHANGED <<file, ended, fields, next, edits, torn>>
  BY DEF EndOfFile
<1>2. FileIs /\ FileIs'
  BY <1>1, TableStays DEF IInv, FileTyped, FileIs
<1>3. LinesRead = Len(file) /\ LinesRead' = Len(file)
  <2>1. Len(file) \in Nat
    BY <1>2 DEF FileIs
  <2>2. next <= Len(file) + 1 /\ next \in Int
    <3>1. next \in 1..MaxEdits + Len(DefaultLines) + 1
      BY DEF IInv, Counters
    <3>2. next \in Int
      BY <3>1, Bounds
    <3> QED
      BY <1>1, <3>2 DEF IInv, Counters
  <2>3. next - 1 = Len(file)
    BY <1>1, <2>1, <2>2
  <2> QED
    BY <1>1, <2>3 DEF LinesRead
<1>4. FileTyped'
  BY <1>2 DEF FileTyped
<1>5. Untouched' /\ Counters'
  BY <1>1, TableStays DEF IInv, Untouched, Counters
<1>6. Accepted'
  BY <1>1, <1>3 DEF IInv, Accepted, Rejected, Names
<1>7. Decided'
  <2>1. PICK n : n = LinesRead
    OBVIOUS
  <2>2. \A p \in Property : Type[p] \in {"num", "str"} => Decide(n, p)
    BY <1>1, <2>1 DEF IInv, Decided
  <2>3. \A p \in Property : Type[p] \in {"num", "str"} => Decide(LinesRead, p)'
    BY <1>1, <1>3, <2>1, <2>2, TableStays DEF Decide, Gives
  <2> QED
    BY <1>1, <1>3, <2>3 DEF IInv, Decided
<1>8. Fields'
  BY <1>1 DEF IInv, Fields, Typed
<1> QED
  BY <1>4, <1>5, <1>6, <1>7, <1>8 DEF IInv

\* The next process starts from zero.
LEMMA InvStop ==
  ASSUME IInv, Stop
  PROVE  IInv'
<1>1. /\ pc' = "off" /\ fields' = Zero /\ UNCHANGED <<file, ended, next, edits, torn>>
  BY DEF Stop
<1>2. FileTyped'
  BY <1>1, TableStays DEF IInv, FileTyped, FileIs
<1>3. Untouched' /\ Counters' /\ Accepted' /\ Decided'
  BY <1>1, TableStays DEF IInv, Untouched, Counters, Accepted, Decided
<1>4. Fields'
  BY <1>1, ZeroTyped, TableStays DEF Fields, Typed
<1> QED
  BY <1>2, <1>3, <1>4 DEF IInv

\* An edit makes the file at most one line longer.
LEMMA InvEdit ==
  ASSUME IInv, Edit
  PROVE  IInv'
<1> DEFINE old == IF file = Absent THEN <<>> ELSE file
           S == AllLines
<1>1. /\ pc = "off" /\ edits < MaxEdits /\ edits' = edits + 1 /\ ended' \in BOOLEAN
      /\ UNCHANGED <<fields, pc, next, torn>>
      /\ \/ \E l \in Lines : file' = Append(old, l)
         \/ \E i \in DOMAIN old : file' = RemoveAt(old, i)
  BY DEF Edit
<1>2. edits \in Nat /\ MaxEdits \in Nat /\ Len(DefaultLines) \in Nat
  <2>1. edits \in 0..MaxEdits /\ MaxEdits \in Nat
    BY ConfigAssumption DEF IInv, Counters
  <2> QED
    BY <2>1, DefaultLinesIs
<1>3. old \in Seq(S) /\ Len(old) \in Nat /\ Len(old) <= Len(DefaultLines) + edits
  <2>1. CASE file = Absent
    <3>1. <<>> \in Seq(S) /\ Len(<<>>) = 0
      OBVIOUS
    <3> QED
      BY <1>2, <2>1, <3>1
  <2>2. CASE file # Absent
    <3>1. file \in Seq(S) /\ Len(file) <= Len(DefaultLines) + edits
      BY <2>2 DEF IInv, FileTyped, FileIs
    <3> QED
      BY <2>2, <3>1
  <2> QED
    BY <2>1, <2>2
<1> HIDE DEF old
<1>4. file' \in Seq(S) /\ Len(file') <= Len(old) + 1
  <2>1. ASSUME NEW l \in Lines, file' = Append(old, l)
        PROVE  file' \in Seq(S) /\ Len(file') <= Len(old) + 1
    <3>1. l \in S
      BY DEF AllLines
    <3> HIDE DEF S
    <3> QED
      BY <1>3, <2>1, <3>1
  <2>2. ASSUME NEW i \in DOMAIN old, file' = RemoveAt(old, i)
        PROVE  file' \in Seq(S) /\ Len(file') <= Len(old) + 1
    <3> HIDE DEF S
    <3> DEFINE n == Len(old)
    <3>1. n \in Nat /\ i \in 1..n /\ old \in Seq(S)
      BY <1>3
    <3> DEFINE a == SubSeq(old, 1, i - 1)
               b == SubSeq(old, i + 1, n)
    <3>2. a \in Seq(S) /\ Len(a) = i - 1
      BY <3>1
    <3>3. b \in Seq(S) /\ Len(b) = n - i
      <4>1. CASE i = n
        BY <3>1, <4>1
      <4>2. CASE i < n
        BY <3>1, <4>2
      <4> QED
        BY <3>1, <4>1, <4>2
    <3>4. file' = a \o b
      BY <2>2 DEF RemoveAt
    <3> HIDE DEF a, b, n
    <3>5. file' \in Seq(S) /\ Len(file') = Len(a) + Len(b)
      <4>1. a \in Seq(S) /\ b \in Seq(S)
        BY <3>2, <3>3
      <4>2. a \o b \in Seq(S) /\ Len(a \o b) = Len(a) + Len(b)
        BY <4>1
      <4> QED
        BY <3>4, <4>2
    <3>6. Len(file') <= n + 1
      BY <3>1, <3>2, <3>3, <3>5
    <3> QED
      BY <3>5, <3>6 DEF n
  <2> QED
    BY <1>1, <2>1, <2>2
<1>5. FileTyped'
  <2>1. Len(file') \in Nat
    BY <1>4
  <2>2. Len(file') <= Len(DefaultLines) + edits'
    BY <1>1, <1>2, <1>3, <1>4, <2>1
  <2> QED
    BY <1>4, <2>2, TableStays DEF FileTyped, FileIs
<1>6. Untouched'
  <2>1. edits' # 0
    BY <1>1, <1>2
  <2> QED
    BY <2>1 DEF Untouched
<1>7. Counters'
  <2>1. edits' \in 0..MaxEdits
    BY <1>1, <1>2
  <2> QED
    BY <1>1, <2>1, TableStays DEF IInv, Counters
<1>8. Accepted' /\ Decided'
  BY <1>1 DEF Accepted, Decided
<1>9. Fields'
  BY <1>1, TableStays DEF IInv, Fields, Typed
<1> QED
  BY <1>5, <1>6, <1>7, <1>8, <1>9 DEF IInv

\* Every step.
LEMMA InvNext == IInv /\ [Next]_vars => IInv'
<1> SUFFICES ASSUME IInv, [Next]_vars PROVE IInv'
  OBVIOUS
<1>1. CASE CannotWrite
  BY <1>1, InvRests DEF CannotWrite
<1>2. CASE ReadUnended
  BY <1>2, InvRests DEF ReadUnended
<1>3. CASE UNCHANGED vars
  <2>1. FileTyped' /\ Untouched' /\ Counters' /\ Fields'
    BY <1>3, TableStays DEF IInv, vars, FileTyped, FileIs, Untouched, Counters, Fields, Typed
  <2>2. Accepted'
    BY <1>3 DEF IInv, vars, Accepted, LinesRead, Rejected, Names
  <2>3. Decided'
    BY <1>3, TableStays DEF IInv, vars, Decided, LinesRead, Decide, Gives
  <2> QED
    BY <2>1, <2>2, <2>3 DEF IInv
<1> QED
  BY <1>1, <1>2, <1>3, InvWriteDefaults, InvWriteTorn, InvOpen, InvReadLine, InvEndOfFile,
     InvStop, InvEdit DEF Next

-----------------------------------------------------------------------------
(***************************************************************************)
(* The results.                                                            *)
(***************************************************************************)

\* In every state the lines that have been read decide what is stored, and none of them
\* is rejected.
THEOREM ConfigInvariant == Spec => []IInv
<1>1. Init => IInv
  BY InvInit
<1>2. IInv /\ [Next]_vars => IInv'
  BY InvNext
<1> QED
  BY <1>1, <1>2, PTL DEF Spec

\* A start from a file with a line that is no assignment, or a name that is not in its
\* mapping, never gets to run (config.c:187-199), and what is stored has its type.
THEOREM ConfigRunsOnlyAccepted == Spec => []RunsOnlyAccepted
<1>1. IInv => RunsOnlyAccepted
  <2> SUFFICES ASSUME IInv PROVE RunsOnlyAccepted
    OBVIOUS
  <2>1. file = Absent \/ ToSet(file) \subseteq Lines \cup ToSet(DefaultLines)
    <3>1. CASE FileIs
      <4>1. \A i \in DOMAIN file : file[i] \in AllLines
        BY <3>1 DEF FileIs
      <4> QED
        BY <4>1 DEF ToSet, AllLines
    <3> QED
      BY <3>1 DEF IInv, FileTyped
  <2>2. TypeOK
    BY <2>1 DEF IInv, TypeOK, Counters, Fields, Typed
  <2>3. ASSUME pc = "running" PROVE \A i \in DOMAIN file : ~Rejected(file[i])
    <3>1. LinesRead = Len(file) /\ FileIs
      BY <2>3 DEF LinesRead, IInv, FileTyped
    <3>2. DOMAIN file = 1..Len(file)
      BY <3>1 DEF FileIs
    <3> QED
      BY <2>3, <3>1, <3>2 DEF IInv, Accepted
  <2> QED
    BY <2>2, <2>3 DEF RunsOnlyAccepted
<1> QED
  BY <1>1, ConfigInvariant, PTL

\* What the server runs with is what its file says: the last line with a value decides
\* each number and string, and a file nobody touched gives the next start the properties
\* of the first one, but for booleans (config.c:121-252).
THEOREM ConfigFileDecides == Spec => []FileDecides
<1>1. IInv => LastLineWins
  <2> SUFFICES ASSUME IInv, pc = "running",
                      NEW p \in Property, Type[p] \in {"num", "str"}
               PROVE  Decide(Len(file), p)
    BY DEF LastLineWins
  <2>1. LinesRead = Len(file)
    BY DEF LinesRead
  <2> QED
    BY <2>1 DEF IInv, Decided
<1>2. IInv => RestartKeeps
  <2> DEFINE D == DefaultLines
  <2>1. SUFFICES ASSUME IInv, pc = "running", edits = 0, ~torn,
                        NEW p \in Property, Type[p] # "bool"
                 PROVE  fields[p] = Defaults[p]
    BY DEF RestartKeeps
  <2>2. file = D /\ LinesRead = Len(D)
    BY <2>1 DEF IInv, Untouched, LinesRead
  <2>3. PICK i \in 1..Len(D) : D[i] = Assignment(p, TextOf(p))
    BY DefaultLinesIs
  <2>4. D[i].name = p /\ D[i].text = TextOf(p)
    BY <2>3 DEF Assignment
  <2>5. \A j \in 1..Len(D) : D[j].name = p => j = i
    BY <2>4, DefaultLinesIs
  <2> HIDE DEF D
  <2>6. CASE Type[p] = "estr"
    BY <2>1, <2>2, <2>4, <2>6, DefaultsTyped DEF IInv, Decided
  <2>7. CASE Type[p] \in {"num", "str"}
    <3>1. Defaults[p] = Default[p]
      BY <2>7, DefaultsTyped
    <3>2. Decide(Len(D), p)
      BY <2>1, <2>2, <2>7 DEF IInv, Decided
    <3>3. \A j \in 1..Len(D) : Gives(j, p) => j = i
      BY <2>2, <2>5 DEF Gives
    <3>4. CASE HasValue(p, TextOf(p))
      <4>1. Gives(i, p)
        BY <2>2, <2>4, <3>4 DEF Gives
      <4>2. fields[p] = ValueOf(p, file[i].text)
        BY <3>2, <3>3, <4>1 DEF Decide
      <4>3. fields[p] = ValueOf(p, TextOf(p))
        BY <2>2, <2>4, <4>2
      <4>4. ValueOf(p, TextOf(p)) = Default[p]
        <5>1. CASE Type[p] = "num"
          BY <5>1, TextIs DEF ValueOf
        <5>2. CASE Type[p] = "str"
          BY <3>4, <5>2, TextIs DEF ValueOf, HasValue
        <5> QED
          BY <2>7, <5>1, <5>2
      <4> QED
        BY <3>1, <4>3, <4>4
    <3>5. CASE ~HasValue(p, TextOf(p))
      <4>1. \A j \in 1..Len(D) : ~Gives(j, p)
        BY <2>2, <2>4, <3>3, <3>5 DEF Gives
      <4>2. fields[p] = Zero[p]
        BY <3>2, <4>1 DEF Decide
      <4>3. Type[p] = "str" /\ Default[p] = NoString
        BY <2>7, <3>5, TextIs, ConfigAssumption DEF HasValue
      <4> QED
        BY <3>1, <4>2, <4>3, ZeroIs
    <3> QED
      BY <3>4, <3>5
  <2> QED
    BY <2>1, <2>6, <2>7, TypeIs
<1>3. IInv => FileDecides
  BY <1>1, <1>2 DEF FileDecides
<1> QED
  BY <1>3, ConfigInvariant, PTL
=============================================================================
