--------------------------- MODULE MCBattleSession ---------------------------
(* BattleSession on small instances.                                       *)
EXTENDS BattleSession, TLC

CONSTANTS fired, ended, a, b

Rows3(targets, units, projectiles) ==
    "targets" :> targets @@ "units" :> units @@ "projectiles" :> projectiles

\* Two reports of a battle.  The first sees both ships; the second, which ends it, has
\* one of them left, no target and one projectile.
Pair == {1, 2}
PairPayload ==
    1 :> [status |-> "running", events |-> {fired}, repeats |-> FALSE, state |-> TRUE,
          rows |-> Rows3({a}, {a, b}, {})] @@
    2 :> [status |-> "blue_victory", events |-> {ended}, repeats |-> FALSE, state |-> TRUE,
          rows |-> Rows3({}, {a}, {b})]

\* A report of a battle, a scan without a state, and a report that names a target twice.
Mixed == {1, 2, 3}
MixedPayload ==
    1 :> [status |-> "running", events |-> {fired}, repeats |-> FALSE, state |-> TRUE,
          rows |-> Rows3({a}, {a}, {})] @@
    2 :> [status |-> "", events |-> {}, repeats |-> FALSE, state |-> FALSE,
          rows |-> Rows3({b}, {}, {})] @@
    3 :> [status |-> "running", events |-> {ended}, repeats |-> TRUE, state |-> TRUE,
          rows |-> Rows3({a}, {a, b}, {})]

\* Beside the creation, at most so many requests of one behaviour.
MaxRequests == 3
FewRequests == Cardinality({p \in Deliveries \cup Stops : pc'[p] # "idle"}) <= MaxRequests

Symmetry == Permutations(Deliveries) \cup Permutations(Stops)
=============================================================================
