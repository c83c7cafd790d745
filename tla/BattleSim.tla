------------------------------- MODULE BattleSim -------------------------------
(***************************************************************************)
(* The radar duel of the analytics service (app/battle_sim.py):            *)
(* BattleSimulation.step, which scans, fires, advances the projectiles,    *)
(* judges the battle and makes the report, called by run_battle_simulator  *)
(* until the battle is over.                                               *)
(*                                                                         *)
(* Places are left out: which enemies are in radar range, which of them    *)
(* are detected in weapon range and which projectiles reach their target   *)
(* in a step is any choice.  Times are in steps, hit points in units.      *)
(***************************************************************************)
EXTENDS Integers, Sequences, FiniteSets, Bags, SequencesExt

CONSTANTS Blue, Red,    \* the units of each side, in the order of self.units
          MaxHp,        \* max_hp
          Damages,      \* damage of a hit
          Cooldown,     \* cooldown_seconds, in steps
          Cap,          \* projectiles kept after a step, 80
          MaxShots,     \* bound: projectiles fired
          None

Fleet == Blue \o Red
Units == ToSet(Fleet)
Enemies(u) == IF u \in ToSet(Blue) THEN ToSet(Red) ELSE ToSet(Blue)

ASSUME ConstantsAssumption == /\ Blue \in Seq(Units) /\ Red \in Seq(Units)
                              /\ Len(Blue) > 0 /\ Len(Red) > 0
                              /\ Cardinality(Units) = Len(Blue) + Len(Red)
                              /\ MaxHp \in Nat \ {0}
                              /\ Damages \subseteq Nat \ {0}
                              /\ Cooldown \in Nat \ {0}
                              /\ Cap \in Nat \ {0}
                              /\ MaxShots \in Nat
                              /\ None \notin Units

VARIABLES units,            \* units[u]: hp, cooldown and status
          projectiles,      \* the projectiles, oldest first
          projectile_seq,   \* projectiles fired so far
          status,           \* of the battle
          repeats,          \* whether the last report lists a target twice
          told              \* history: the bag of the events of all reports

vars == <<units, projectiles, projectile_seq, status, repeats, told>>

Active(us, u) == us[u].status = "active"
SideDestroyed(us, side) == \A u \in ToSet(side) : ~Active(us, u)

Events == [type : {"WEAPON_FIRED", "PROJECTILE_HIT"}, of : 1 .. MaxShots]
          \cup [type : {"UNIT_DESTROYED"}, of : Units]
          \cup [type : {"BATTLE_ENDED"}, of : {None}]

TypeOK == /\ units \in [Units -> [hp : 0 .. MaxHp, cooldown : 0 .. Cooldown,
                                  status : {"active", "destroyed"}]]
          /\ projectiles \in Seq([id : 1 .. projectile_seq, source : Units, target : Units,
                                  status : {"flying", "hit", "expired"}])
          /\ Len(projectiles) <= Cap
          /\ projectile_seq \in 0 .. MaxShots
          /\ status \in {"running", "blue_victory", "red_victory"}
          /\ repeats \in BOOLEAN
          /\ IsABag(told) /\ BagToSet(told) \subseteq Events

Init == /\ units = [u \in Units |-> [hp |-> MaxHp, cooldown |-> 0, status |-> "active"]]
        /\ projectiles = <<>>
        /\ projectile_seq = 0
        /\ status = "running"
        /\ repeats = FALSE
        /\ told = EmptyBag
-----------------------------------------------------------------------------
TickCooldowns(us) == [u \in Units |-> [us[u] EXCEPT !.cooldown = IF @ > 0 THEN @ - 1 ELSE 0]]

\* What _scan can list: an active enemy once for each active unit that has it in range.
InSight(us) == {d \in Units \X Units : /\ d[2] \in Enemies(d[1])
                                       /\ Active(us, d[1])
                                       /\ Active(us, d[2])}

\* _fire: source.cooldown_remaining = source.cooldown_seconds
RestAfterShot(us, shooters) ==
    [u \in Units |-> IF u \in shooters THEN [us[u] EXCEPT !.cooldown = Cooldown] ELSE us[u]]

\* One round of _fire: u, if it shoots, at its target aim[u].
Fire(shots, u, aim) ==
    IF u \in DOMAIN aim
    THEN Append(shots, [id |-> projectile_seq + Len(shots) + 1, source |-> u, target |-> aim[u],
                        status |-> "flying"])
    ELSE shots

\* _fire: the projectiles of the units that shoot.
Salvo(aim) == FoldLeft(LAMBDA shots, u : Fire(shots, u, aim), <<>>, Fleet)

Flying(ps) == {p \in ToSet(ps) : p.status = "flying"}

Event(type, of) == [type |-> type, of |-> of]

FiredEvents(salvo) ==
    [i \in 1 .. Len(salvo) |-> Event("WEAPON_FIRED", salvo[i].id)]

Keep(acc, p, new) == [acc EXCEPT !.kept = Append(@, [p EXCEPT !.status = new])]

\* Mutant: a projectile that hit goes on flying.
HitFliesOn(acc, p, damage) ==
    LET t == p.target
        hp == IF acc.units[t].hp > damage THEN acc.units[t].hp - damage ELSE 0
        kill == hp = 0 /\ acc.units[t].status # "destroyed"
    IN  [units |-> [acc.units EXCEPT ![t].hp = hp,
                                     ![t].status = IF kill THEN "destroyed" ELSE @],
         kept |-> Keep(acc, p, "flying").kept,
         events |-> acc.events
                    \o <<Event("PROJECTILE_HIT", p.id)>>
                    \o (IF kill THEN <<Event("UNIT_DESTROYED", t)>> ELSE <<>>)]

\* The projectile hits its target, which that can destroy.
Hit(acc, p, damage) ==
    LET t == p.target
        hp == IF acc.units[t].hp > damage THEN acc.units[t].hp - damage ELSE 0
        kill == hp = 0 /\ acc.units[t].status # "destroyed"
    IN  [units |-> [acc.units EXCEPT ![t].hp = hp,
                                     ![t].status = IF kill THEN "destroyed" ELSE @],
         kept |-> Keep(acc, p, "hit").kept,
         events |-> acc.events
                    \o <<Event("PROJECTILE_HIT", p.id)>>
                    \o (IF kill THEN <<Event("UNIT_DESTROYED", t)>> ELSE <<>>)]

\* Mutant: a destroyed unit goes on being hit.
AdvanceHitsWrecks(acc, p, damage) ==
    CASE p.status # "flying" -> acc
      [] p.status = "flying" ->
            IF damage[p.id] = 0 THEN Keep(acc, p, "flying") ELSE Hit(acc, p, damage[p.id])

\* Mutant: a projectile whose target is gone is dropped unreported.
AdvanceForgets(acc, p, damage) ==
    CASE p.status # "flying" \/ ~Active(acc.units, p.target) -> acc
      [] p.status = "flying" /\ Active(acc.units, p.target) ->
            IF damage[p.id] = 0 THEN Keep(acc, p, "flying") ELSE Hit(acc, p, damage[p.id])

\* One round of the loop of _advance_projectiles: p hits with that damage or, with 0,
\* flies on.  One that ended in an earlier step is dropped, one whose target is gone
\* expires.
Advance(acc, p, damage) ==
    CASE p.status # "flying" -> acc
      [] p.status = "flying" /\ ~Active(acc.units, p.target) -> Keep(acc, p, "expired")
      [] p.status = "flying" /\ Active(acc.units, p.target) ->
            IF damage[p.id] = 0 THEN Keep(acc, p, "flying") ELSE Hit(acc, p, damage[p.id])

AdvanceAll(us, ps, damage) ==
    FoldLeft(LAMBDA acc, p : Advance(acc, p, damage),
             [units |-> us, kept |-> <<>>, events |-> <<>>], ps)

\* Mutant: the red side is looked at first.
VerdictRedFirst(us) == CASE SideDestroyed(us, Red) -> "blue_victory"
                         [] ~SideDestroyed(us, Red) /\ SideDestroyed(us, Blue) -> "red_victory"
                         [] OTHER -> status

\* The side that is looked at first loses when both are destroyed.
Verdict(us) == CASE SideDestroyed(us, Blue) -> "red_victory"
                 [] ~SideDestroyed(us, Blue) /\ SideDestroyed(us, Red) -> "blue_victory"
                 [] OTHER -> status

Ended(verdict) ==
    IF verdict = "running" THEN <<>> ELSE <<Event("BATTLE_ENDED", None)>>

\* The report of a step is added to what was told.
Tell(bag, news) == FoldLeft(LAMBDA before, event : before (+) SetToBag({event}), bag, news)

\* Mutant: the list is not cut.
KeptAll(ps) == ps

\* The last Cap projectiles: active[-80:]
Kept(ps) == SubSeq(ps, IF Len(ps) > Cap THEN Len(ps) - Cap + 1 ELSE 1, Len(ps))

Repeats(scan) == \E d, e \in scan : d # e /\ d[2] = e[2]

\* step, once the units have moved: of the units that are ready, some have an enemy
\* in sight and shoot; then every projectile is advanced, the new ones too.  Damage is
\* what each projectile in flight does in this step.
Step ==
    LET ready == TickCooldowns(units)
    IN  \E shooters \in SUBSET {u \in Units : ready[u].cooldown = 0} :
        \E aim \in [shooters -> Units] :
          LET shots == {<<u, aim[u]>> : u \in shooters}
              salvo == Salvo(aim)
              inFlight == Flying(projectiles \o salvo)
          IN  /\ shots \subseteq InSight(units)
              /\ projectile_seq + Len(salvo) <= MaxShots
              /\ projectile_seq' = projectile_seq + Len(salvo)
              /\ repeats' \in {Repeats(shots \cup more) : more \in SUBSET InSight(units)}
              /\ \E damage \in [{p.id : p \in inFlight} -> Damages \cup {0}] :
                   LET end == AdvanceAll(RestAfterShot(ready, shooters), projectiles \o salvo, damage)
                   IN  /\ units' = end.units
                       /\ projectiles' = Kept(end.kept)
                       /\ status' = Verdict(end.units)
                       /\ told' = Tell(told, FiredEvents(salvo) \o end.events \o Ended(status'))

\* run_battle_simulator leaves its loop when the status is not "running".
Next == status = "running" /\ Step

Spec == Init /\ [][Next]_vars
-----------------------------------------------------------------------------
(* Properties.                                                             *)

Copies(bag, event) == IF BagIn(event, bag) THEN bag[event] ELSE 0
Told(type, of) == Copies(told, Event(type, of))

\* The events tell the battle as it went: each shot is told once and each projectile
\* hits at most once, a unit is told destroyed once, and just when it is, and the end
\* of the battle is told once, and just when it is over (_fire, _advance_projectiles
\* and the verdict of step).
EventsTellBattle ==
    /\ \A n \in 1 .. projectile_seq : /\ Told("WEAPON_FIRED", n) = 1
                                       /\ Told("PROJECTILE_HIT", n) \in {0, 1}
    /\ \A u \in Units :
          Told("UNIT_DESTROYED", u) = IF units[u].status = "destroyed" THEN 1 ELSE 0
    /\ Told("BATTLE_ENDED", None) = IF status = "running" THEN 0 ELSE 1

\* A blue victory leaves a blue unit standing and no red one; every other end leaves
\* no blue unit, the end where the last units of both sides destroy each other in one
\* step too; and the battle is not over while both sides stand (step).
WinnerStands ==
    /\ status = "blue_victory" <=> SideDestroyed(units, Red) /\ ~SideDestroyed(units, Blue)
    /\ status = "red_victory" <=> SideDestroyed(units, Blue)

\* While the battle goes on, a projectile that was reported in flight stays in the
\* reports until the one that tells its end; only the limit on the list can cut it off
\* (active.append in every branch of _advance_projectiles).  One that flies in the
\* last report is not told of again.
FlightsAreClosed ==
    [][\A p \in Flying(projectiles) :
          \/ Len(projectiles') = Cap
          \/ \E q \in ToSet(projectiles') : q.id = p.id]_vars

\* A destroyed unit is out: it is not hit, it does not shoot, and it stays destroyed;
\* projectiles it fired before fly on (the status checks of _scan and
\* _advance_projectiles).
WrecksStayOut ==
    [][\A u \in Units : units[u].status = "destroyed" =>
          /\ units'[u].status = "destroyed"
          /\ \A p \in ToSet(projectiles') :
                /\ p.source = u => p.id <= projectile_seq
                /\ p.target = u => p.id <= projectile_seq /\ p.status # "hit"]_vars

\* openapi.yaml:547 "Radar report accepted": the rows a report inserts into
\* radar_targets in one statement, ON CONFLICT DO UPDATE, have different keys, or the
\* database refuses them all (_scan lists a target for each unit that sees it).
ReportHasNoRepeats == ~repeats
=============================================================================
