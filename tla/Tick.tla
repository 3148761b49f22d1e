---------------------------------- MODULE Tick ---------------------------------
(***************************************************************************)
(* The pace of the main loop (main.c): a tick that is done early sleeps    *)
(* for the rest of its 50 ms.  The code looks at the nanoseconds of the    *)
(* two clock readings only, not at their seconds.                          *)
(***************************************************************************)
EXTENDS Integers, FiniteSets

CONSTANTS
  TickLen,   \* TICK_LEN_NSEC
  Second,    \* a second, in the same unit
  Works,     \* how long the work of a tick may take
  TicksCount \* bound: how many ticks are looked at

ASSUME TickAssumption ==
  /\ TickLen \in Nat \ {0} /\ Second \in Nat /\ TickLen < Second
  /\ Works \subseteq Nat /\ TicksCount \in Nat

VARIABLES
  clock,     \* CLOCK_MONOTONIC
  tickStart, \* tick_start_time
  worked,    \* the work of this tick is done
  began,     \* history: when the first tick began
  paces      \* history: when each tick that has ended began, its work, its length

paceVars == <<clock, tickStart, worked, began, paces>>

TickTypeOK ==
  /\ clock \in Nat /\ tickStart \in 0..clock /\ worked \in BOOLEAN
  /\ began \in 0..Second - 1
  /\ paces \subseteq [from : Nat, work : Nat, lasted : Nat]
  /\ IsFiniteSet(paces) /\ Cardinality(paces) <= TicksCount

TickFrom(t) ==
  clock = t /\ tickStart = t /\ worked = FALSE /\ began = t /\ paces = {}

TickInit == \E t \in 0..Second - 1 : TickFrom(t)

-----------------------------------------------------------------------------
\* Accepting a connection, serving the players, sending messages.
TickWork(w) ==
  /\ ~worked /\ Cardinality(paces) < TicksCount
  /\ clock' = clock + w /\ worked' = TRUE
  /\ UNCHANGED <<tickStart, began, paces>>

\* Mistake: the whole tick is slept whatever the work took.
RestWhole == TickLen

\* The nanoseconds left of the tick, 0 for none.
Rest ==
  LET passed == (clock % Second) - (tickStart % Second)
  IN IF passed < TickLen THEN TickLen - passed ELSE 0

\* clock_nanosleep refuses to sleep for a second or more; then the next tick
\* begins.
TickEnd ==
  LET slept == IF Rest < Second THEN Rest ELSE 0
  IN /\ worked
     /\ clock' = clock + slept /\ tickStart' = clock' /\ worked' = FALSE
     /\ paces' = paces \cup {[from |-> tickStart, work |-> clock - tickStart,
                              lasted |-> clock' - tickStart]}
     /\ UNCHANGED began

TickNext == TickEnd \/ \E w \in Works : TickWork(w)

TickSpec == TickInit /\ [][TickNext]_paceVars

-----------------------------------------------------------------------------
Crosses(p) == p.from \div Second # (p.from + p.work) \div Second

\* A tick lasts as long as its work, and 50 ms at least.  One whose work crosses a
\* second is cut short when its work is light, and sleeps for up to a second
\* when it is not (main.c:154-161).
TickLasts ==
  \A p \in paces :
    /\ ~Crosses(p) => p.lasted = IF p.work > TickLen THEN p.work ELSE TickLen
    /\ Crosses(p) /\ p.work <= TickLen => p.lasted = p.work
    /\ p.lasted <= p.work + Second

AllLight == \A p \in paces : p.work <= TickLen

\* With light work, some twenty ticks a second follow each other: no more than one
\* is cut short for each second that passes.
TickPaced ==
  /\ TickLasts
  /\ AllLight =>
       LET elapsed == tickStart - began
           ticks == Cardinality(paces)
       IN /\ elapsed <= ticks * TickLen
          /\ elapsed >= (ticks - 1 - elapsed \div Second) * TickLen
=============================================================================
