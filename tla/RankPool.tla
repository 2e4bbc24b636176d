------------------------------- MODULE RankPool -------------------------------
(***************************************************************************)
(* What the users of LocHeap count on: a pool of objects from which pop    *)
(* takes one that no other outranks, and remove takes that very object.    *)
(* peek tells which one pop would take: it stays the same until another    *)
(* that outranks it is pushed, or it is taken out itself.                  *)
(***************************************************************************)
EXTENDS Integers

CONSTANTS
  Items,
  Nobody    \* NULL

VARIABLES
  rank,     \* LocRankable::ranks() orders the objects by this number
  pool,     \* the objects pushed and not taken out
  top,      \* the answer of peek
  last      \* the last call: its name, its object, the answer of remove

Init ==
  /\ rank \in [Items -> Int]
  /\ pool = {} /\ top = Nobody
  /\ last = <<"init">>

Highest(objects) == {x \in objects : \A y \in objects : rank[y] <= rank[x]}

Adds(x) ==
  /\ x \notin pool /\ pool' = pool \cup {x}
  /\ top' = IF pool = {} \/ rank[top] < rank[x] THEN x ELSE top

\* Which of several that rank the same comes to the top is left open.
TakesOut(x) ==
  /\ pool' = pool \ {x}
  /\ x # top => UNCHANGED top
  /\ x = top => IF pool' = {} THEN top' = Nobody ELSE top' \in Highest(pool')

push(x) == Adds(x) /\ last' = <<"push", x>>

pop ==
  \/ pool = {} /\ last' = <<"pop">> /\ UNCHANGED <<pool, top>>
  \/ top \in Highest(pool) /\ TakesOut(top) /\ last' = <<"pop", top>>

remove(x) == TakesOut(x) /\ last' = <<"remove", x, x \in pool>>

Next ==
  /\ pop \/ \E x \in Items : push(x) \/ remove(x)
  /\ UNCHANGED rank

Spec == Init /\ [][Next]_<<rank, pool, top, last>>
==============================================================================
