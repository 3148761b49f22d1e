-------------------------------- MODULE Config --------------------------------
(***************************************************************************)
(* server.properties (config.c): the server writes the file with its       *)
(* defaults when there is none, and reads it when there is one, also the   *)
(* one it wrote itself.                                                    *)
(*                                                                         *)
(* A line that assigns is the name and the text after it.                  *)
(***************************************************************************)
EXTENDS Integers, FiniteSets, SequencesExt

CONSTANTS
  Property,  \* config_mappings, by name
  Type,      \* Property |-> num, bool, str, estr
  Default,   \* Property |-> its default, as a value
  Mapping,   \* Property |-> for an estr, the sequence of names and values
  Texts,     \* Property |-> texts an operator writes
  NumberOf,  \* the numerals |-> their values
  Absent,    \* no file
  NoString,  \* a null pointer
  MaxEdits,  \* bound on the changes by an operator
  MayTear    \* whether the server may die while it writes the file

\* The table names every property and gives each a default of its type, which
\* for a string is a text or a null pointer; "%u" reads and writes what is not
\* negative.
ASSUME ConfigAssumption ==
  /\ IsFiniteSet(Property) /\ "" \notin Property
  /\ Type \in [Property -> {"num", "bool", "str", "estr"}]
  /\ \A t \in DOMAIN NumberOf : NumberOf[t] \in Nat
  /\ \A p \in Property :
       /\ Type[p] = "num" => \E t \in DOMAIN NumberOf : NumberOf[t] = Default[p]
       /\ Type[p] = "bool" => Default[p] \in BOOLEAN
       /\ Type[p] = "str" => Default[p] # ""
       /\ Type[p] = "estr" => 1 \in DOMAIN Mapping[p]
  /\ MaxEdits \in Nat /\ MayTear \in BOOLEAN

VARIABLES
  file,   \* the lines, or Absent
  ended,  \* whether the last line ends in a newline
  fields, \* server_properties
  pc,     \* off, reading, running, failed; undefined once
          \* the search for a newline leaves the buffer
  next,   \* the line that is read next
  edits,  \* history: how often the operator changed the file
  torn    \* history: the file was not written to its end

vars == <<file, ended, fields, pc, next, edits, torn>>

NoName == [name |-> "", text |-> ""]

Assignment(p, t) == [name |-> p, text |-> t]

\* server_properties before anything is read.
Zero ==
  [p \in Property |->
     CASE Type[p] = "num" -> 0 [] Type[p] = "bool" -> FALSE
       [] Type[p] = "str" -> NoString [] Type[p] = "estr" -> 0]

Init ==
  /\ file = Absent /\ ended = TRUE /\ fields = Zero
  /\ pc = "off" /\ next = 1 /\ edits = 0 /\ torn = FALSE

-----------------------------------------------------------------------------
\* What set_default_server_properties writes for a default.
TextOf(p) ==
  CASE Type[p] = "num" -> CHOOSE t \in DOMAIN NumberOf : NumberOf[t] = Default[p]
    [] Type[p] = "bool" -> IF Default[p] THEN "true" ELSE "false"
    [] Type[p] = "str" -> IF Default[p] = NoString THEN "" ELSE Default[p]
    [] Type[p] = "estr" -> Mapping[p][1].name

DefaultLines == SetToSeq({Assignment(p, TextOf(p)) : p \in Property})

Defaults == [p \in Property |->
               IF Type[p] = "estr" THEN Mapping[p][1].value ELSE Default[p]]

\* The names an estr accepts.
Names(p) == {Mapping[p][i].name : i \in DOMAIN Mapping[p]}

\* What CV_BOOL stores: strcmp is 0 for equal strings, so that the first test
\* holds for every text but "false".
ReadBool(t) == t = "false"

\* Mistake: a number that cannot be read is 0.
ReadNumberOrZero(p, t) == IF t \in DOMAIN NumberOf THEN NumberOf[t] ELSE 0

ReadNumber(p, t) == IF t \in DOMAIN NumberOf THEN NumberOf[t] ELSE fields[p]

\* Mistake: an empty string replaces the one there.
ReadStringAlways(p, t) == t

ReadString(p, t) == IF t = "" THEN fields[p] ELSE t

\* What process_value stores for a line it accepts: for a named value the first
\* of its mapping, whichever was named.
Read(p, t) ==
  CASE Type[p] = "num" -> ReadNumber(p, t)
    [] Type[p] = "bool" -> ReadBool(t)
    [] Type[p] = "str" -> ReadString(p, t)
    [] Type[p] = "estr" -> Mapping[p][1].value

\* process_value returns -1: no name, or a name that is not in the mapping.
Rejected(line) ==
  \/ line.name = ""
  \/ line.name \in Property /\ Type[line.name] = "estr" /\ line.text \notin Names(line.name)

WriteDefaults ==
  /\ pc = "off" /\ file = Absent
  /\ file' = DefaultLines /\ fields' = Defaults
  /\ pc' = "running" /\ UNCHANGED <<ended, next, edits, torn>>

\* The process dies while the file is written.
WriteTorn ==
  /\ MayTear /\ pc = "off" /\ file = Absent
  /\ \E n \in 0..Len(DefaultLines) - 1 : file' = SubSeq(DefaultLines, 1, n)
  /\ ended' \in BOOLEAN
  /\ torn' = TRUE /\ UNCHANGED <<fields, pc, next, edits>>

CannotWrite ==
  /\ pc = "off" /\ file = Absent
  /\ pc' = "failed" /\ UNCHANGED <<file, ended, fields, next, edits, torn>>

Open ==
  /\ pc = "off" /\ file # Absent
  /\ pc' = "reading" /\ next' = 1
  /\ UNCHANGED <<file, ended, fields, edits, torn>>

\* Mistake: only the last line decides whether the file is rejected.
ReadLineGoesOn ==
  /\ pc = "reading" /\ next <= Len(file)
  /\ LET line == file[next] IN
       /\ fields' = [p \in Property |->
                       IF p = line.name /\ ~Rejected(line) THEN Read(p, line.text)
                       ELSE fields[p]]
       /\ pc' = IF Rejected(line) /\ next = Len(file) THEN "failed" ELSE pc
  /\ next' = next + 1
  /\ UNCHANGED <<file, ended, edits, torn>>

\* Unknown names are reported and passed over.
ReadLine ==
  /\ pc = "reading" /\ next <= Len(file)
  /\ LET line == file[next]
     IN IF Rejected(line)
          THEN pc' = "failed" /\ UNCHANGED <<fields, next>>
          ELSE /\ fields' = [p \in Property |->
                               IF p = line.name THEN Read(p, line.text) ELSE fields[p]]
               /\ next' = next + 1 /\ UNCHANGED pc
  /\ UNCHANGED <<file, ended, edits, torn>>

\* The newline that ends a line is looked for beyond it when it has none, and
\* may be found in what the buffer held before.
ReadUnended ==
  /\ pc = "reading" /\ next = Len(file) /\ ~ended
  /\ pc' = "undefined" /\ UNCHANGED <<file, ended, fields, next, edits, torn>>

EndOfFile ==
  /\ pc = "reading" /\ next > Len(file)
  /\ pc' = "running" /\ UNCHANGED <<file, ended, fields, next, edits, torn>>

\* The process ends; nothing writes the properties back.
Stop ==
  /\ pc \in {"running", "failed"}
  /\ pc' = "off" /\ fields' = Zero /\ UNCHANGED <<file, ended, next, edits, torn>>

\* The operator adds a line or removes one.
Lines == {NoName, Assignment("unknown", "")}
         \cup UNION {{Assignment(p, t) : t \in Texts[p]} : p \in Property}

Edit ==
  /\ pc = "off" /\ edits < MaxEdits /\ edits' = edits + 1 /\ ended' \in BOOLEAN
  /\ LET old == IF file = Absent THEN <<>> ELSE file
     IN \/ \E l \in Lines : file' = Append(old, l)
        \/ \E i \in DOMAIN old : file' = RemoveAt(old, i)
  /\ UNCHANGED <<fields, pc, next, torn>>

Next ==
  \/ WriteDefaults \/ WriteTorn \/ CannotWrite
  \/ Open \/ ReadLine \/ ReadUnended \/ EndOfFile
  \/ Stop \/ Edit

Spec == Init /\ [][Next]_vars

-----------------------------------------------------------------------------
TypeOK ==
  /\ file = Absent \/ ToSet(file) \subseteq Lines \cup ToSet(DefaultLines)
  /\ pc \in {"off", "reading", "running", "failed", "undefined"}
  /\ ended \in BOOLEAN
  /\ next \in 1..MaxEdits + Len(DefaultLines) + 1 /\ edits \in 0..MaxEdits
  /\ torn \in BOOLEAN
  /\ \A p \in Property :
       /\ Type[p] = "num" => fields[p] \in Nat
       /\ Type[p] = "bool" => fields[p] \in BOOLEAN
       /\ Type[p] = "str" => fields[p] \in (Texts[p] \ {""}) \cup {NoString, Default[p]}
       /\ Type[p] = "estr" =>
            fields[p] \in {0} \cup {Mapping[p][i].value : i \in DOMAIN Mapping[p]}

\* A file that nobody touched gives the next start the properties of the first
\* one (config.c:204): numbers, strings, also those without a default, and the
\* first names of mappings.
RestartKeeps ==
  pc = "running" /\ edits = 0 /\ ~torn =>
    \A p \in Property : Type[p] # "bool" => fields[p] = Defaults[p]

\* config.h:55: the server "initializes server_properties with it's default
\* values and writes it out", so that it has them again after a restart.
RestartKeepsAll ==
  pc = "running" /\ edits = 0 /\ ~torn => fields = Defaults

\* The last line that has a value for a property decides, whatever stands
\* between, before or after it; without one the property is 0.
HasValue(p, t) == IF Type[p] = "num" THEN t \in DOMAIN NumberOf ELSE t # ""

ValueOf(p, t) == IF Type[p] = "num" THEN NumberOf[t] ELSE t

Gives(i, p) == file[i].name = p /\ HasValue(p, file[i].text)

\* The first n lines decide what p is.
Decide(n, p) ==
  \/ fields[p] = Zero[p] /\ \A i \in 1..n : ~Gives(i, p)
  \/ \E i \in 1..n :
       /\ Gives(i, p) /\ \A j \in i + 1..n : ~Gives(j, p)
       /\ fields[p] = ValueOf(p, file[i].text)

LastLineWins ==
  pc = "running" =>
    \A p \in Property : Type[p] \in {"num", "str"} => Decide(Len(file), p)

\* What the server runs with is what its file says, also when it wrote the file
\* itself or died while it did.
FileDecides == RestartKeeps /\ LastLineWins

\* A start from a file with a line that is no assignment, or a name that is
\* not in its mapping, never gets to run, wherever that line stands; what is
\* stored from the others has the type of its property.
RunsOnlyAccepted ==
  /\ TypeOK
  /\ pc = "running" => ~\E i \in DOMAIN file : Rejected(file[i])
=============================================================================
