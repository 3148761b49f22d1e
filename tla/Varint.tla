-------------------------------- MODULE Varint --------------------------------
(***************************************************************************)
(* The variable-length integers of the protocol (packet.c): groups of bits,*)
(* low groups first, each with a flag that says that another follows.      *)
(***************************************************************************)
EXTENDS Integers, Sequences, FiniteSetsExt

CONSTANT Radix \* 2^7: the values of one group

ASSUME VarintAssumption == Radix \in Nat \ {0, 1}

MostGroups == 5

\* What is left of v when its i lowest groups have been shifted out.
Shifted(v) ==
  LET left[i \in 0..MostGroups] == IF i = 0 THEN v ELSE left[i - 1] \div Radix
  IN left

\* The values of 32 bits: five groups hold them.
Varints == {v \in Nat : Shifted(v)[MostGroups] = 0}

\* The groups a value needs, at least one.
VarintLen(v) ==
  CHOOSE k \in 1..MostGroups :
    Shifted(v)[k] = 0 /\ \A i \in 1..k - 1 : Shifted(v)[i] # 0

\* Mistake: the last byte too announces another, when it is full.
WriteVarintFlagged(v) ==
  [i \in 1..VarintLen(v) |->
     [more |-> Shifted(v)[i] # 0 \/ Shifted(v)[i - 1] = Radix - 1,
      low |-> Shifted(v)[i - 1] % Radix]]

\* packet_write_varint
WriteVarint(v) ==
  [i \in 1..VarintLen(v) |->
     [more |-> Shifted(v)[i] # 0, low |-> Shifted(v)[i - 1] % Radix]]

TooLong == -2

\* One more byte is read: its bits go above those read before.
GroupRead(r, b) == [value |-> r.value + b.low * r.unit, unit |-> Radix * r.unit]

\* The value of the first n bytes of s.
ValueOf(s, n) ==
  LET read[i \in 0..n] == IF i = 0 THEN [value |-> 0, unit |-> 1]
                          ELSE GroupRead(read[i - 1], s[i])
  IN read[n].value

(***************************************************************************)
(* read_varint_gen on the bytes s: how many it takes, its value and what   *)
(* it returns.  It gives up after one byte more than MostGroups, and       *)
(* returns the 0 that a read at the end stores in the byte.                *)
(***************************************************************************)
ReadVarint(s) ==
  LET ends == {i \in 1..MostGroups : i <= Len(s) /\ ~s[i].more}
      n == IF ends # {} THEN Min(ends) ELSE Min({Len(s), MostGroups + 1})
  IN [taken |-> n, value |-> ValueOf(s, n),
      result |-> IF ends # {} THEN n ELSE IF n > MostGroups THEN TooLong ELSE 0]
=============================================================================
