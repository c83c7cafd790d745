----------------------------- MODULE MCLiveOps ------------------------------
(* LiveOps with two posts and one stop.                                    *)
EXTENDS LiveOps, TLC

CONSTANTS fired, ended, d1, d2, s1, a

\* Two reports of a battle that goes on, for the probe and the smoke check, and one
\* that ends it, for the simulator: its session ends by the report, the stop or both.
Three == {1, 2, 3}
NoShots == [k \in Kinds |-> IF k = "projectiles" THEN {} ELSE {a}]
Shots == [k \in Kinds |-> {a}]
ThreePayload ==
    1 :> [status |-> "running", events |-> {}, repeats |-> FALSE, state |-> TRUE, rows |-> NoShots] @@
    2 :> [status |-> "running", events |-> {fired}, repeats |-> FALSE, state |-> TRUE, rows |-> Shots] @@
    3 :> [status |-> "blue_victory", events |-> {ended}, repeats |-> FALSE, state |-> TRUE, rows |-> Shots]

TwoPosts == <<d1, d2>>
TwoReports == <<1, 2>>

\* The default preview, a prune by age, and a prune by age and caps.
SomePolicies == {[apply |-> FALSE, age |-> TRUE, snapshots |-> 0, events |-> 0],
                 [apply |-> TRUE, age |-> TRUE, snapshots |-> 0, events |-> 0],
                 [apply |-> TRUE, age |-> FALSE, snapshots |-> 1, events |-> 1]}
=============================================================================
