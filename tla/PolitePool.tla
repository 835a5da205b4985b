----------------------------- MODULE PolitePool -----------------------------
(***************************************************************************)
(* What the URL frontier promises to the scheduler's main loop: a pool of  *)
(* URLs from which each is given away as often as it was put in, and two   *)
(* of one domain at least Gap apart.                                       *)
(***************************************************************************)
EXTENDS Integers

CONSTANTS
    Items,
    Groups,
    GroupOf,    \* group of an item
    Gap         \* least time between two items of a group

VARIABLES
    pool,       \* pool[u]: how often u is in the pool
    age         \* age[g]: time since an item of g was given away, up to Gap

poolVars == <<pool, age>>

PoolInit ==
    /\ pool = [u \in Items |-> 0]
    /\ age = [g \in Groups |-> Gap]

Put(u) ==
    /\ pool' = [pool EXCEPT ![u] = @ + 1]
    /\ UNCHANGED age

Give(u) ==
    /\ pool[u] > 0
    /\ age[GroupOf[u]] = Gap
    /\ pool' = [pool EXCEPT ![u] = @ - 1]
    /\ age' = [age EXCEPT ![GroupOf[u]] = 0]

TimePasses ==
    /\ age' = [g \in Groups |-> IF age[g] < Gap THEN age[g] + 1 ELSE Gap]
    /\ UNCHANGED pool

PoolNext == TimePasses \/ \E u \in Items : Put(u) \/ Give(u)

PoolSpec == PoolInit /\ [][PoolNext]_poolVars
=============================================================================
