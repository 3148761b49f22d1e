------------------------------- MODULE Hashmap -------------------------------
(***************************************************************************)
(* libs/hashmap: open addressing with linear probing, keyed by strings     *)
(* that the map owns.                                                      *)
(*                                                                         *)
(* The world's regions, the block table and every JSON object live in such *)
(* a map.  They add keys that are absent and never remove one; RemoveKey is*)
(* the rest of the library's interface.                                    *)
(***************************************************************************)
EXTENDS Integers, FiniteSets

CONSTANTS
  Key, Value,
  Hashes,     \* hash functions to consider
  None,       \* the null pointer
  Freed,      \* a pointer to a key that RemoveKey freed
  FirstLens,  \* entries_len of a new map
  MaxEntries  \* bound on entries_len

ASSUME HashmapAssumption ==
  /\ IsFiniteSet(Key) /\ Hashes \subseteq [Key -> Nat]
  /\ {None, Freed} \cap (Key \cup Value) = {} /\ None # Freed
  /\ MaxEntries \in Nat /\ FirstLens \subseteq 1..MaxEntries

VARIABLES
  hash,     \* the hash function, fixed
  entries,  \* index |-> [key, value, removed]
  occupied,
  status    \* running; aborted by an assertion; undefined once a freed key
            \* would be hashed

mapVars == <<hash, entries, occupied, status>>

Empty == [key |-> None, value |-> None, removed |-> FALSE]

Table(n) == [0..n - 1 -> [key : Key \cup {None, Freed}, value : Value \cup {None},
                          removed : BOOLEAN]]

MapTypeOK ==
  /\ hash \in Hashes
  /\ \E n \in 1..MaxEntries : entries \in Table(n)
  /\ occupied \in Nat
  /\ status \in {"running", "aborted", "undefined"}

\* hashmap_new.
NewMap(h, n) ==
  /\ hash = h
  /\ entries = [i \in 0..n - 1 |-> Empty]
  /\ occupied = 0 /\ status = "running"

MapInit == \E h \in Hashes, n \in FirstLens : NewMap(h, n)

-----------------------------------------------------------------------------
EntriesLen(t) == Cardinality(DOMAIN t)

Index(t, k) == hash[k] % EntriesLen(t)

\* Both loops of a search together: the first index of S going up from i and
\* around the end; -1 when they come back to i.
Probe(t, i, S) ==
  LET n == EntriesLen(t)
      hits == {d \in 0..n - 1 : (i + d) % n \in S}
  IN IF hits = {} THEN -1
     ELSE (i + CHOOSE d \in hits : \A e \in hits : d <= e) % n

Unkeyed(t) == {i \in DOMAIN t : t[i].key = None}

\* hashmap_get_index; -1 stands for entries_len, not found.
GetIndex(t, k) ==
  LET ends == {i \in DOMAIN t : ~t[i].removed /\ t[i].key \in {None, k}}
      j == Probe(t, Index(t, k), ends)
  IN IF j = -1 \/ t[j].key = None THEN -1 ELSE j

\* hashmap_get
Get(k) == LET j == GetIndex(entries, k)
          IN IF j = -1 THEN None ELSE entries[j].value

\* hashmap_add once the table is large enough.
Put(t, k, v) ==
  [t EXCEPT ![Probe(t, Index(t, k), Unkeyed(t))] =
     [key |-> k, value |-> v, removed |-> FALSE]]

\* Mistake: resized when only full.
MustResizeLate(t) == occupied >= EntriesLen(t) + 1

\* occupied >= entries_len * 0.8
MustResize(t) == 10 * occupied >= 8 * EntriesLen(t)

\* Mistake: entries are copied to their old places.
ResizedInPlace(t) ==
  [i \in 0..2 * EntriesLen(t) - 1 |-> IF i \in DOMAIN t THEN t[i] ELSE Empty]

\* hashmap_resize adds the entries with a key to a table twice as long.
Resized(t) ==
  LET copied[i \in 0..EntriesLen(t)] ==
        IF i = 0 THEN [j \in 0..2 * EntriesLen(t) - 1 |-> Empty]
        ELSE IF t[i - 1].key = None THEN copied[i - 1]
        ELSE Put(copied[i - 1], t[i - 1].key, t[i - 1].value)
  IN copied[EntriesLen(t)]

Keyed(t) == DOMAIN t \ Unkeyed(t)

\* Mistake: `occupied' is not reset before the entries are added again.
RecountOnTop(t) == occupied + Cardinality(Keyed(t))

Recount(t) == Cardinality(Keyed(t))

AddTo(t, k, v) ==
  IF Unkeyed(t) # {}
    THEN entries' = Put(t, k, v) /\ UNCHANGED status
    ELSE status' = "aborted" /\ entries' = t

\* Only absent keys are added.
Add(k, v) ==
  /\ status = "running" /\ Get(k) = None
  /\ ~MustResize(entries)
  /\ AddTo(entries, k, v)
  /\ occupied' = occupied + 1
  /\ UNCHANGED hash

AddResizing(k, v) ==
  /\ status = "running" /\ Get(k) = None
  /\ MustResize(entries) /\ 2 * EntriesLen(entries) <= MaxEntries
  /\ IF \E i \in DOMAIN entries : entries[i].removed
       THEN status' = "undefined" /\ UNCHANGED <<entries, occupied>>
       ELSE /\ AddTo(Resized(entries), k, v)
            /\ occupied' = Recount(entries) + 1
  /\ UNCHANGED hash

\* Mistakes: a key that is not there is counted as removed; the entry looks as
\* if it had never been used.
RemoveUnfound(k) ==
  /\ status = "running"
  /\ entries' = [i \in DOMAIN entries |->
                   IF i = GetIndex(entries, k)
                     THEN [key |-> Freed, value |-> None, removed |-> TRUE]
                     ELSE entries[i]]
  /\ occupied' = occupied - 1
  /\ UNCHANGED <<hash, status>>

RemoveClears(k) ==
  /\ status = "running" /\ Get(k) # None
  /\ entries' = [entries EXCEPT ![GetIndex(entries, k)] = Empty]
  /\ occupied' = occupied - 1
  /\ UNCHANGED <<hash, status>>

RemoveKey(k) ==
  /\ status = "running" /\ Get(k) # None
  /\ entries' = [entries EXCEPT ![GetIndex(entries, k)] =
                   [key |-> Freed, value |-> None, removed |-> TRUE]]
  /\ occupied' = occupied - 1
  /\ UNCHANGED <<hash, status>>

MapNext ==
  \E k \in Key :
    \/ RemoveKey(k)
    \/ \E v \in Value : Add(k, v) \/ AddResizing(k, v)

MapSpec == MapInit /\ [][MapNext]_mapVars

-----------------------------------------------------------------------------
\* The map keeps the promise of KeyValue for every hash function: no probe
\* sequence loses a key, neither through collisions, wrapping around the end,
\* holes of removed entries nor a resize that moves every entry.
Kept == INSTANCE KeyValue WITH map <- [k \in Key |-> Get(k)]

MapIsKeyValue == Kept!Spec

\* `occupied' is the number of keys in the map, which JSON reads as the number
\* of members (json.c:420), and the map counts right through resizes and removals.
CountsKeys ==
  status = "running" =>
    occupied = Cardinality({k \in Key : Get(k) # None})

\* hashmap_add asserts that its search found an empty entry (hashmap.c:100): it
\* does, until removed entries, which count as free but are not, fill the table.
FindsRoom ==
  status = "aborted" => \E i \in DOMAIN entries : entries[i].removed

\* The two together: what the load test of hashmap_add relies on.
LoadKnown == CountsKeys /\ FindsRoom
=============================================================================
