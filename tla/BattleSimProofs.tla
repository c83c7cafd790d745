--------------------------- MODULE BattleSimProofs ---------------------------
(***************************************************************************)
(* Proofs about BattleSim.                                                 *)
(*                                                                         *)
(* A step folds three loops over sequences of any length: the salvo over   *)
(* the fleet, the advance over the projectiles, the telling over the       *)
(* events.  A fold of the community modules is a CHOOSE of a recursive     *)
(* function on sets of indices; the first part shows for each of the three *)
(* that it is the end of a run, a function on 0..n that begins with the    *)
(* first value and makes one round per step.  No operator can be passed to *)
(* a lemma here, so the argument is made once for each loop.  Induction    *)
(* along a run is then by the least number that is not good (Least,        *)
(* Inductive), with the good numbers given as a set.                       *)
(*                                                                         *)
(* RoundHolds is the invariant of the loop that advances the projectiles,  *)
(* SimInv that of the battle.  SimInv adds LineHolds to the properties:    *)
(* the projectiles of the list are different ones, and one that flies was  *)
(* not told of as a hit.                                                   *)
(***************************************************************************)
EXTENDS BattleSim, SequenceTheorems, FiniteSetTheorems, WellFoundedInduction, TLAPS

\* A non-empty set of naturals has a least element.
LEMMA Least ==
    ASSUME NEW S, S \subseteq Nat, S # {}
    PROVE  \E x \in S : \A y \in S : x <= y
<1> DEFINE R == OpToRel(<, Nat)
<1>1. PICK x \in S : \A y \in S : ~ (<<y, x>> \in R)
  <2>1. IsWellFoundedOn(R, Nat)
    BY NatLessThanWellFounded
  <2> HIDE DEF R
  <2> QED  BY <2>1, WFMin, Zenon
<1>2. ASSUME NEW y \in S PROVE x <= y
  <2>1. x \in Nat /\ y \in Nat
    OBVIOUS
  <2>2. y < x => <<y, x>> \in R
    BY <2>1 DEF OpToRel
  <2>3. ~ (y < x)
    BY <1>1, <2>2
  <2> QED  BY <2>1, <2>3
<1> QED  BY <1>2

\* Max, of a set up to k with k in it.
LEMMA MaxTop ==
    ASSUME NEW k \in Nat, NEW s \in SUBSET (1 .. k), k \in s
    PROVE  Max(s) = k
<1>1. \A y \in s : k >= y
  OBVIOUS
<1>2. \A x \in s : (\A y \in s : x >= y) => x = k
  OBVIOUS
<1>3. Max(s) \in s /\ \A y \in s : Max(s) >= y
  BY <1>1 DEF Max
<1> QED  BY <1>2, <1>3

\* Induction up to n, for a set that holds the good numbers.
LEMMA Inductive ==
    ASSUME NEW n \in Nat, NEW Good, 0 \in Good, \A k \in 1 .. n : k - 1 \in Good => k \in Good
    PROVE  \A k \in 0 .. n : k \in Good
<1> SUFFICES ASSUME NEW j \in 0 .. n, j \notin Good PROVE FALSE
  OBVIOUS
<1> DEFINE bad == {k \in 0 .. n : k \notin Good}
<1>1. PICK k \in bad : \A i \in bad : k <= i
  <2>1. bad \subseteq Nat /\ bad # {}
    OBVIOUS
  <2> HIDE DEF bad
  <2> QED  BY <2>1, Least
<1>2. k \in 1 .. n /\ k - 1 \in 0 .. n
  <2>1. k \in 0 .. n /\ k # 0
    OBVIOUS
  <2> QED  BY <2>1
<1>3. k - 1 \in Good
  BY <1>1, <1>2
<1> QED  BY <1>2, <1>3

\* A function on the subsets of 1 .. n that takes the largest member off each: what a
\* fold over a sequence of length n is defined with.
LEMMA TopOff ==
    ASSUME NEW k \in Nat \ {0}, NEW s \in SUBSET (1 .. k), k \notin s
    PROVE  s \in SUBSET (1 .. (k - 1)) /\ (s # {} => Max(s) \in s /\ s \ {Max(s)} \in SUBSET (1 .. (k - 1)))
<1>1. s \in SUBSET (1 .. (k - 1))
  OBVIOUS
<1>2. ASSUME s # {} PROVE \E x \in s : \A y \in s : x >= y
  <2> DEFINE up == {k - y : y \in s}
  <2>1. up \subseteq Nat /\ up # {}
    <3>1. s \in SUBSET (1 .. k)
      OBVIOUS
    <3>2. \A y \in s : k - y \in Nat
      OBVIOUS
    <3> QED  BY <1>2, <3>2
  <2>2. PICK z \in up : \A y \in up : z <= y
    <3> HIDE DEF up
    <3> QED  BY <2>1, Least
  <2>3. PICK x \in s : z = k - x
    OBVIOUS
  <2>4. ASSUME NEW y \in s PROVE x >= y
    BY <2>2, <2>3
  <2> QED  BY <2>4
<1>3. s # {} => Max(s) \in s
  BY <1>2 DEF Max
<1> QED  BY <1>1, <1>3

\* 1 .. i is 1 .. (i - 1) with i on top.
LEMMA UpTo ==
    ASSUME NEW i \in Nat \ {0}
    PROVE  (1 .. i) # {} /\ (1 .. i) \ {i} = 1 .. (i - 1) /\ Max(1 .. i) = i
<1>1. \A j \in Int : j \in (1 .. i) \ {i} <=> j \in 1 .. (i - 1)
  OBVIOUS
<1>2. (1 .. i) \ {i} = 1 .. (i - 1)
  <2>1. \A j \in (1 .. i) \ {i} : j \in Int
    OBVIOUS
  <2>2. \A j \in 1 .. (i - 1) : j \in Int
    OBVIOUS
  <2> QED  BY <1>1, <2>1, <2>2, Zenon
<1>3. i \in 1 .. i
  OBVIOUS
<1> QED  BY <1>2, <1>3, MaxTop

-----------------------------------------------------------------------------
(* What the folds of the model compute, place by place.                    *)

\* The recursive function whose value at 1 .. n is the fold.
AtStart(us) == [units |-> us, kept |-> <<>>, events |-> <<>>]
AdvanceFold(us, ps, damage, n, g) ==
    g = [s \in SUBSET (1 .. n) |->
            IF s = {} THEN AtStart(us) ELSE Advance(g[s \ {Max(s)}], ps[Max(s)], damage)]

\* There is such a function: that up to k extends that up to k - 1.
LEMMA AdvanceFoldExists ==
    ASSUME NEW us, NEW ps, NEW damage, NEW n \in Nat
    PROVE  \A k \in 0 .. n : \E g : AdvanceFold(us, ps, damage, k, g)
<1> DEFINE Good == {k \in 0 .. n : \E g : AdvanceFold(us, ps, damage, k, g)}
<1>1. 0 \in Good
  <2> DEFINE g == [s \in SUBSET (1 .. 0) |-> AtStart(us)]
  <2>1. \A s \in SUBSET (1 .. 0) : s = {}
    OBVIOUS
  <2>2. AdvanceFold(us, ps, damage, 0, g)
    BY <2>1, Zenon DEF AdvanceFold
  <2> HIDE DEF g
  <2> QED  BY <2>2
<1>2. ASSUME NEW k \in 1 .. n, k - 1 \in Good PROVE k \in Good
  <2>1. PICK g : AdvanceFold(us, ps, damage, k - 1, g)
    BY <1>2
  <2> DEFINE h == [s \in SUBSET (1 .. k) |->
                      IF k \in s THEN Advance(g[s \ {k}], ps[k], damage) ELSE g[s]]
             F(f, s) == IF s = {} THEN AtStart(us) ELSE Advance(f[s \ {Max(s)}], ps[Max(s)], damage)
  <2>2. ASSUME NEW s \in SUBSET (1 .. k) PROVE h[s] = F(h, s)
    <3>1. CASE k \in s
      <4>1. Max(s) = k /\ s # {} /\ s \ {k} \in SUBSET (1 .. k) /\ k \notin s \ {k}
        BY <3>1, MaxTop
      <4>2. h[s] = Advance(g[s \ {k}], ps[k], damage) /\ h[s \ {k}] = g[s \ {k}]
        BY <3>1, <4>1
      <4> HIDE DEF h
      <4> QED  BY <4>1, <4>2
    <3>2. CASE k \notin s
      <4>1. s \in SUBSET (1 .. (k - 1)) /\ (s # {} => s \ {Max(s)} \in SUBSET (1 .. (k - 1)))
        BY <3>2, TopOff
      <4>2. h[s] = g[s]
        BY <3>2
      <4>3. g[s] = F(g, s)
        BY <2>1, <4>1 DEF AdvanceFold
      <4>4. s # {} => h[s \ {Max(s)}] = g[s \ {Max(s)}]
        BY <4>1, <3>2
      <4> HIDE DEF h
      <4> QED  BY <4>2, <4>3, <4>4
    <3> QED  BY <3>1, <3>2
  <2>3. AdvanceFold(us, ps, damage, k, h)
    <3>1. h = [s \in SUBSET (1 .. k) |-> h[s]]
      OBVIOUS
    <3> HIDE DEF h
    <3> QED  BY <2>2, <3>1 DEF AdvanceFold
  <2> HIDE DEF h
  <2> QED  BY <2>3
<1> HIDE DEF Good
<1>3. \A k \in 0 .. n : k \in Good
  BY <1>1, <1>2, Inductive
<1> QED  BY <1>3 DEF Good

\* The loop of _advance_projectiles, one round after the other.
AdvanceRun(us, ps, damage, n, run) == /\ run[0] = AtStart(us)
                                      /\ \A i \in 1 .. n : run[i] = Advance(run[i - 1], ps[i], damage)
                                      /\ AdvanceAll(us, ps, damage) = run[n]

\* The fold is the end of such a run.
LEMMA AdvanceRuns ==
    ASSUME NEW us, NEW ps, NEW damage, NEW n \in Nat, DOMAIN ps = 1 .. n
    PROVE  \E run : AdvanceRun(us, ps, damage, n, run)
<1> DEFINE g == CHOOSE g : AdvanceFold(us, ps, damage, n, g)
           run == [i \in 0 .. n |-> g[1 .. i]]
<1>1. AdvanceFold(us, ps, damage, n, g)
  <2>1. n \in 0 .. n
    OBVIOUS
  <2>2. \E f : AdvanceFold(us, ps, damage, n, f)
    BY <2>1, AdvanceFoldExists
  <2> QED  BY <2>2, Zenon
<1>2. AdvanceAll(us, ps, damage) = g[1 .. n]
  BY DEF AdvanceAll, FoldLeft, MapThenFoldSet, AdvanceFold, AtStart
<1> HIDE DEF g
<1>3. run[0] = AtStart(us)
  <2>1. 1 .. 0 = {} /\ {} \in SUBSET (1 .. n)
    OBVIOUS
  <2> QED  BY <1>1, <2>1 DEF AdvanceFold
<1>4. ASSUME NEW i \in 1 .. n PROVE run[i] = Advance(run[i - 1], ps[i], damage)
  <2>1. (1 .. i) \in SUBSET (1 .. n)
    OBVIOUS
  <2>2. (1 .. i) # {} /\ (1 .. i) \ {i} = 1 .. (i - 1) /\ Max(1 .. i) = i
    <3>1. i \in Nat \ {0}
      OBVIOUS
    <3> QED  BY <3>1, UpTo, Zenon
  <2>3. g[1 .. i] = Advance(g[1 .. (i - 1)], ps[i], damage)
    BY <1>1, <2>1, <2>2 DEF AdvanceFold
  <2> QED  BY <2>3
<1>5. run[n] = g[1 .. n]
  OBVIOUS
<1> HIDE DEF run
<1> QED  BY <1>2, <1>3, <1>4, <1>5 DEF AdvanceRun

\* The same of the events told.
Add(bag, x) == bag (+) SetToBag({x})
TellFold(bag, news, n, g) ==
    g = [s \in SUBSET (1 .. n) |->
            IF s = {} THEN bag ELSE Add(g[s \ {Max(s)}], news[Max(s)])]

\* The function of the telling exists.
LEMMA TellFoldExists ==
    ASSUME NEW bag, NEW news, NEW n \in Nat
    PROVE  \A k \in 0 .. n : \E g : TellFold(bag, news, k, g)
<1> DEFINE Good == {k \in 0 .. n : \E g : TellFold(bag, news, k, g)}
<1>1. 0 \in Good
  <2> DEFINE g == [s \in SUBSET (1 .. 0) |-> bag]
  <2>1. \A s \in SUBSET (1 .. 0) : s = {}
    OBVIOUS
  <2>2. TellFold(bag, news, 0, g)
    BY <2>1, Zenon DEF TellFold
  <2> HIDE DEF g
  <2> QED  BY <2>2
<1>2. ASSUME NEW k \in 1 .. n, k - 1 \in Good PROVE k \in Good
  <2>1. PICK g : TellFold(bag, news, k - 1, g)
    BY <1>2
  <2> DEFINE h == [s \in SUBSET (1 .. k) |->
                      IF k \in s THEN Add(g[s \ {k}], news[k]) ELSE g[s]]
             F(f, s) == IF s = {} THEN bag ELSE Add(f[s \ {Max(s)}], news[Max(s)])
  <2>2. ASSUME NEW s \in SUBSET (1 .. k) PROVE h[s] = F(h, s)
    <3>1. CASE k \in s
      <4>1. Max(s) = k /\ s # {} /\ s \ {k} \in SUBSET (1 .. k) /\ k \notin s \ {k}
        BY <3>1, MaxTop
      <4>2. h[s] = Add(g[s \ {k}], news[k]) /\ h[s \ {k}] = g[s \ {k}]
        BY <3>1, <4>1
      <4> HIDE DEF h
      <4> QED  BY <4>1, <4>2
    <3>2. CASE k \notin s
      <4>1. s \in SUBSET (1 .. (k - 1)) /\ (s # {} => s \ {Max(s)} \in SUBSET (1 .. (k - 1)))
        BY <3>2, TopOff
      <4>2. h[s] = g[s]
        BY <3>2
      <4>3. g[s] = F(g, s)
        BY <2>1, <4>1 DEF TellFold
      <4>4. s # {} => h[s \ {Max(s)}] = g[s \ {Max(s)}]
        BY <4>1, <3>2
      <4> HIDE DEF h
      <4> QED  BY <4>2, <4>3, <4>4
    <3> QED  BY <3>1, <3>2
  <2>3. TellFold(bag, news, k, h)
    <3>1. h = [s \in SUBSET (1 .. k) |-> h[s]]
      OBVIOUS
    <3> HIDE DEF h
    <3> QED  BY <2>2, <3>1 DEF TellFold
  <2> HIDE DEF h
  <2> QED  BY <2>3
<1> HIDE DEF Good
<1>3. \A k \in 0 .. n : k \in Good
  BY <1>1, <1>2, Inductive
<1> QED  BY <1>3 DEF Good

\* The events of a report, told one after the other.
TellRun(bag, news, n, run) == /\ run[0] = bag
                              /\ \A i \in 1 .. n : run[i] = Add(run[i - 1], news[i])
                              /\ Tell(bag, news) = run[n]

\* What is told is the end of such a run.
LEMMA TellRuns ==
    ASSUME NEW bag, NEW news, NEW n \in Nat, DOMAIN news = 1 .. n
    PROVE  \E run : TellRun(bag, news, n, run)
<1> DEFINE g == CHOOSE g : TellFold(bag, news, n, g)
           run == [i \in 0 .. n |-> g[1 .. i]]
<1>1. TellFold(bag, news, n, g)
  <2>1. n \in 0 .. n
    OBVIOUS
  <2>2. \E f : TellFold(bag, news, n, f)
    BY <2>1, TellFoldExists
  <2> QED  BY <2>2, Zenon
<1>2. Tell(bag, news) = g[1 .. n]
  BY DEF Tell, Add, FoldLeft, MapThenFoldSet, TellFold
<1> HIDE DEF g
<1>3. run[0] = bag
  <2>1. 1 .. 0 = {} /\ {} \in SUBSET (1 .. n)
    OBVIOUS
  <2> QED  BY <1>1, <2>1 DEF TellFold
<1>4. ASSUME NEW i \in 1 .. n PROVE run[i] = Add(run[i - 1], news[i])
  <2>1. (1 .. i) \in SUBSET (1 .. n)
    OBVIOUS
  <2>2. (1 .. i) # {} /\ (1 .. i) \ {i} = 1 .. (i - 1) /\ Max(1 .. i) = i
    <3>1. i \in Nat \ {0}
      OBVIOUS
    <3> QED  BY <3>1, UpTo, Zenon
  <2>3. g[1 .. i] = Add(g[1 .. (i - 1)], news[i])
    BY <1>1, <2>1, <2>2 DEF TellFold
  <2> QED  BY <2>3
<1>5. run[n] = g[1 .. n]
  OBVIOUS
<1> HIDE DEF run
<1> QED  BY <1>2, <1>3, <1>4, <1>5 DEF TellRun

\* The same of the salvo.
SalvoFold(aim, n, g) ==
    g = [s \in SUBSET (1 .. n) |->
            IF s = {} THEN <<>> ELSE Fire(g[s \ {Max(s)}], Fleet[Max(s)], aim)]

\* The function of the salvo exists.
LEMMA SalvoFoldExists ==
    ASSUME NEW aim, NEW n \in Nat
    PROVE  \A k \in 0 .. n : \E g : SalvoFold(aim, k, g)
<1> DEFINE Good == {k \in 0 .. n : \E g : SalvoFold(aim, k, g)}
<1>1. 0 \in Good
  <2> DEFINE g == [s \in SUBSET (1 .. 0) |-> <<>>]
  <2>1. \A s \in SUBSET (1 .. 0) : s = {}
    OBVIOUS
  <2>2. SalvoFold(aim, 0, g)
    BY <2>1, Zenon DEF SalvoFold
  <2> HIDE DEF g
  <2> QED  BY <2>2
<1>2. ASSUME NEW k \in 1 .. n, k - 1 \in Good PROVE k \in Good
  <2>1. PICK g : SalvoFold(aim, k - 1, g)
    BY <1>2
  <2> DEFINE h == [s \in SUBSET (1 .. k) |->
                      IF k \in s THEN Fire(g[s \ {k}], Fleet[k], aim) ELSE g[s]]
             F(f, s) == IF s = {} THEN <<>> ELSE Fire(f[s \ {Max(s)}], Fleet[Max(s)], aim)
  <2>2. ASSUME NEW s \in SUBSET (1 .. k) PROVE h[s] = F(h, s)
    <3>1. CASE k \in s
      <4>1. Max(s) = k /\ s # {} /\ s \ {k} \in SUBSET (1 .. k) /\ k \notin s \ {k}
        BY <3>1, MaxTop
      <4>2. h[s] = Fire(g[s \ {k}], Fleet[k], aim) /\ h[s \ {k}] = g[s \ {k}]
        BY <3>1, <4>1
      <4> HIDE DEF h
      <4> QED  BY <4>1, <4>2
    <3>2. CASE k \notin s
      <4>1. s \in SUBSET (1 .. (k - 1)) /\ (s # {} => s \ {Max(s)} \in SUBSET (1 .. (k - 1)))
        BY <3>2, TopOff
      <4>2. h[s] = g[s]
        BY <3>2
      <4>3. g[s] = F(g, s)
        BY <2>1, <4>1 DEF SalvoFold
      <4>4. s # {} => h[s \ {Max(s)}] = g[s \ {Max(s)}]
        BY <4>1, <3>2
      <4> HIDE DEF h
      <4> QED  BY <4>2, <4>3, <4>4
    <3> QED  BY <3>1, <3>2
  <2>3. SalvoFold(aim, k, h)
    <3>1. h = [s \in SUBSET (1 .. k) |-> h[s]]
      OBVIOUS
    <3> HIDE DEF h
    <3> QED  BY <2>2, <3>1 DEF SalvoFold
  <2> HIDE DEF h
  <2> QED  BY <2>3
<1> HIDE DEF Good
<1>3. \A k \in 0 .. n : k \in Good
  BY <1>1, <1>2, Inductive
<1> QED  BY <1>3 DEF Good

\* The loop of _fire, one unit after the other.
SalvoRun(aim, n, run) == /\ run[0] = <<>>
                         /\ \A i \in 1 .. n : run[i] = Fire(run[i - 1], Fleet[i], aim)
                         /\ Salvo(aim) = run[n]

\* The salvo is the end of such a run.
LEMMA SalvoRuns ==
    ASSUME NEW aim, NEW n \in Nat, DOMAIN Fleet = 1 .. n
    PROVE  \E run : SalvoRun(aim, n, run)
<1> DEFINE g == CHOOSE g : SalvoFold(aim, n, g)
           run == [i \in 0 .. n |-> g[1 .. i]]
<1>1. SalvoFold(aim, n, g)
  <2>1. n \in 0 .. n
    OBVIOUS
  <2>2. \E f : SalvoFold(aim, n, f)
    BY <2>1, SalvoFoldExists
  <2> QED  BY <2>2, Zenon
<1>2. Salvo(aim) = g[1 .. n]
  BY DEF Salvo, FoldLeft, MapThenFoldSet, SalvoFold
<1> HIDE DEF g
<1>3. run[0] = <<>>
  <2>1. 1 .. 0 = {} /\ {} \in SUBSET (1 .. n)
    OBVIOUS
  <2> QED  BY <1>1, <2>1 DEF SalvoFold
<1>4. ASSUME NEW i \in 1 .. n PROVE run[i] = Fire(run[i - 1], Fleet[i], aim)
  <2>1. (1 .. i) \in SUBSET (1 .. n)
    OBVIOUS
  <2>2. (1 .. i) # {} /\ (1 .. i) \ {i} = 1 .. (i - 1) /\ Max(1 .. i) = i
    <3>1. i \in Nat \ {0}
      OBVIOUS
    <3> QED  BY <3>1, UpTo, Zenon
  <2>3. g[1 .. i] = Fire(g[1 .. (i - 1)], Fleet[i], aim)
    BY <1>1, <2>1, <2>2 DEF SalvoFold
  <2> QED  BY <2>3
<1>5. run[n] = g[1 .. n]
  OBVIOUS
<1> HIDE DEF run
<1> QED  BY <1>2, <1>3, <1>4, <1>5 DEF SalvoRun

-----------------------------------------------------------------------------
(* Sequences: their members, and that none comes twice.                    *)

Distinct(s) == \A i, j \in DOMAIN s : s[i] = s[j] => i = j
DistinctIds(s) == \A i, j \in DOMAIN s : s[i].id = s[j].id => i = j

\* One more member.
LEMMA AppendMembers ==
    ASSUME NEW T, NEW s \in Seq(T), NEW x \in T
    PROVE  /\ Append(s, x) \in Seq(T) /\ ToSet(Append(s, x)) = ToSet(s) \cup {x}
           /\ Distinct(s) /\ x \notin ToSet(s) => Distinct(Append(s, x))
<1> DEFINE t == Append(s, x)
<1>1. /\ t \in Seq(T) /\ Len(s) \in Nat /\ DOMAIN s = 1 .. Len(s) /\ DOMAIN t = 1 .. (Len(s) + 1)
      /\ \A i \in 1 .. Len(s) : t[i] = s[i]
      /\ t[Len(s) + 1] = x
  BY AppendProperties
<1> HIDE DEF t
<1>2. DOMAIN t = DOMAIN s \cup {Len(s) + 1} /\ Len(s) + 1 \notin DOMAIN s
  BY <1>1
<1>3. ToSet(t) = ToSet(s) \cup {x}
  <2>1. \A y \in ToSet(t) : y \in ToSet(s) \cup {x}
    BY <1>1, <1>2 DEF ToSet
  <2>2. \A y \in ToSet(s) : y \in ToSet(t)
    BY <1>1, <1>2 DEF ToSet
  <2>3. x \in ToSet(t)
    <3>1. Len(s) + 1 \in DOMAIN t
      BY <1>2
    <3> QED  BY <1>1, <3>1 DEF ToSet
  <2> QED  BY <2>1, <2>2, <2>3
<1>4. Distinct(s) /\ x \notin ToSet(s) => Distinct(t)
  BY <1>1, <1>2 DEF Distinct, ToSet
<1> QED  BY <1>1, <1>3, <1>4 DEF t

\* The members of both; nothing comes twice if the two share nothing.
LEMMA ConcatMembers ==
    ASSUME NEW T, NEW s \in Seq(T), NEW t \in Seq(T)
    PROVE  /\ s \o t \in Seq(T) /\ ToSet(s \o t) = ToSet(s) \cup ToSet(t)
           /\ Distinct(s) /\ Distinct(t) /\ ToSet(s) \cap ToSet(t) = {} => Distinct(s \o t)
<1> DEFINE u == s \o t
           m == Len(s)
           n == Len(t)
<1>1. /\ u \in Seq(T) /\ m \in Nat /\ n \in Nat
      /\ DOMAIN s = 1 .. m /\ DOMAIN t = 1 .. n /\ DOMAIN u = 1 .. (m + n)
      /\ \A i \in 1 .. (m + n) : u[i] = IF i <= m THEN s[i] ELSE t[i - m]
  BY ConcatProperties
<1> HIDE DEF u, m, n
<1>2. /\ \A i \in 1 .. m : i \in DOMAIN u /\ u[i] = s[i]
      /\ \A i \in 1 .. n : i + m \in DOMAIN u /\ u[i + m] = t[i]
  BY <1>1
<1>3. \A i \in DOMAIN u : (i \in 1 .. m /\ u[i] = s[i]) \/ (i - m \in 1 .. n /\ u[i] = t[i - m])
  BY <1>1
<1>4. ToSet(u) = ToSet(s) \cup ToSet(t)
  <2>1. \A y \in ToSet(u) : y \in ToSet(s) \cup ToSet(t)
    BY <1>1, <1>3 DEF ToSet
  <2>2. ASSUME NEW y \in ToSet(s) PROVE y \in ToSet(u)
    BY <1>1, <1>2 DEF ToSet
  <2>3. ASSUME NEW y \in ToSet(t) PROVE y \in ToSet(u)
    <3>1. PICK i \in 1 .. n : y = t[i]
      BY <1>1 DEF ToSet
    <3>2. i + m \in DOMAIN u /\ u[i + m] = y
      BY <1>2, <3>1
    <3> QED  BY <3>2 DEF ToSet
  <2> QED  BY <2>1, <2>2, <2>3
<1>5. ASSUME Distinct(s), Distinct(t), ToSet(s) \cap ToSet(t) = {} PROVE Distinct(u)
  <2> SUFFICES ASSUME NEW i \in DOMAIN u, NEW j \in DOMAIN u, u[i] = u[j] PROVE i = j
    BY DEF Distinct
  <2>1. CASE i \in 1 .. m /\ j \in 1 .. m
    BY <2>1, <1>1, <1>2, <1>5 DEF Distinct
  <2>2. CASE i \notin 1 .. m /\ j \notin 1 .. m
    <3>1. i - m \in 1 .. n /\ j - m \in 1 .. n /\ t[i - m] = t[j - m]
      BY <2>2, <1>3
    <3>2. i - m = j - m
      BY <3>1, <1>1, <1>5 DEF Distinct
    <3> QED  BY <3>2, <1>1
  <2>3. CASE (i \in 1 .. m) # (j \in 1 .. m)
    <3>1. u[i] \in ToSet(s) /\ u[i] \in ToSet(t)
      BY <2>3, <1>1, <1>3 DEF ToSet
    <3> QED  BY <3>1, <1>5
  <2> QED  BY <2>1, <2>2, <2>3
<1> QED  BY <1>1, <1>4, <1>5 DEF u

-----------------------------------------------------------------------------
(* What is told.                                                           *)

\* One more event adds one copy of it and nothing else.
LEMMA TellOne ==
    ASSUME NEW bag, IsABag(bag), NEW x
    PROVE  /\ IsABag(Add(bag, x)) /\ DOMAIN (Add(bag, x)) = DOMAIN bag \cup {x}
           /\ \A e : Copies(Add(bag, x), e) = Copies(bag, e) + (IF e = x THEN 1 ELSE 0)
<1> DEFINE more == Add(bag, x)
<1>1. \A e \in DOMAIN bag : bag[e] \in Nat /\ bag[e] > 0
  BY DEF IsABag
<1>2. more = [e \in DOMAIN bag \cup {x} |-> (IF e \in DOMAIN bag THEN bag[e] ELSE 0) + (IF e = x THEN 1 ELSE 0)]
  BY DEF Add, (+), SetToBag
<1> HIDE DEF more
<1>3. IsABag(more) /\ DOMAIN more = DOMAIN bag \cup {x}
  BY <1>1, <1>2 DEF IsABag
<1>4. ASSUME NEW e PROVE Copies(more, e) = Copies(bag, e) + (IF e = x THEN 1 ELSE 0)
  BY <1>1, <1>2, <1>3 DEF Copies, BagIn, BagToSet
<1> QED  BY <1>3, <1>4 DEF more

\* A list of different events adds one copy of each.
LEMMA TellAdds ==
    ASSUME NEW bag, IsABag(bag), NEW T, NEW news \in Seq(T), Distinct(news)
    PROVE  /\ IsABag(Tell(bag, news)) /\ DOMAIN Tell(bag, news) = DOMAIN bag \cup ToSet(news)
           /\ \A e \in T : Copies(Tell(bag, news), e) = Copies(bag, e) + (IF e \in ToSet(news) THEN 1 ELSE 0)
<1> DEFINE n == Len(news)
<1>1. n \in Nat /\ DOMAIN news = 1 .. n
  BY LenProperties
<1> HIDE DEF n
<1>2. PICK run : TellRun(bag, news, n, run)
  BY <1>1, TellRuns
<1> DEFINE first(k) == {news[i] : i \in 1 .. k}
           Good == {k \in 0 .. n : /\ IsABag(run[k]) /\ DOMAIN run[k] = DOMAIN bag \cup first(k)
                                   /\ \A e \in T : Copies(run[k], e) = Copies(bag, e) + (IF e \in first(k) THEN 1 ELSE 0)}
<1>3. \A e : Copies(bag, e) \in Nat
  BY DEF IsABag, Copies, BagIn, BagToSet
<1>4. 0 \in Good
  <2>1. first(0) = {}
    OBVIOUS
  <2> HIDE DEF first
  <2> QED  BY <1>1, <1>2, <1>3, <2>1 DEF TellRun
<1>5. ASSUME NEW k \in 1 .. n, k - 1 \in Good PROVE k \in Good
  <2>1. /\ IsABag(run[k - 1]) /\ DOMAIN run[k - 1] = DOMAIN bag \cup first(k - 1)
        /\ \A e \in T : Copies(run[k - 1], e) = Copies(bag, e) + (IF e \in first(k - 1) THEN 1 ELSE 0)
    BY <1>5
  <2>2. first(k) = first(k - 1) \cup {news[k]}
    <3>1. 1 .. k = (1 .. (k - 1)) \cup {k}
      BY <1>1
    <3> QED  BY <3>1
  <2>3. news[k] \notin first(k - 1)
    BY <1>1 DEF Distinct
  <2>4. run[k] = Add(run[k - 1], news[k])
    BY <1>2 DEF TellRun
  <2>5. /\ IsABag(run[k]) /\ DOMAIN run[k] = DOMAIN run[k - 1] \cup {news[k]}
        /\ \A e : Copies(run[k], e) = Copies(run[k - 1], e) + (IF e = news[k] THEN 1 ELSE 0)
    <3> DEFINE b == run[k - 1]
               x == news[k]
    <3>1. IsABag(b) /\ run[k] = Add(b, x)
      BY <2>1, <2>4
    <3> HIDE DEF b, x
    <3>2. IsABag(Add(b, x))
      BY <3>1, TellOne
    <3>3. DOMAIN Add(b, x) = DOMAIN b \cup {x}
      BY <3>1, TellOne
    <3>4. \A e : Copies(Add(b, x), e) = Copies(b, e) + (IF e = x THEN 1 ELSE 0)
      BY <3>1, TellOne
    <3> QED  BY <3>1, <3>2, <3>3, <3>4 DEF b, x
  <2> HIDE DEF first
  <2>6. ASSUME NEW e \in T PROVE Copies(run[k], e) = Copies(bag, e) + (IF e \in first(k) THEN 1 ELSE 0)
    BY <1>3, <2>1, <2>2, <2>3, <2>5
  <2>7. DOMAIN run[k] = DOMAIN bag \cup first(k)
    BY <2>1, <2>2, <2>5
  <2> QED  BY <2>5, <2>6, <2>7
<1>6. n \in Good
  <2> HIDE DEF Good
  <2>1. \A k \in 0 .. n : k \in Good
    BY <1>1, <1>4, <1>5, Inductive
  <2> QED  BY <1>1, <2>1
<1>7. first(n) = ToSet(news)
  BY <1>1 DEF ToSet
<1> HIDE DEF first
<1> QED  BY <1>2, <1>6, <1>7 DEF TellRun

-----------------------------------------------------------------------------
(* One step: what is fired, and how the projectiles fly on.                *)

UnitStates == [hp : 0 .. MaxHp, cooldown : 0 .. Cooldown, status : {"active", "destroyed"}]
Missiles(n) == [id : 1 .. n, source : Units, target : Units, status : {"flying", "hit", "expired"}]

LEMMA FleetTypes == Fleet \in Seq(Units)
  BY ConstantsAssumption, ConcatProperties DEF Fleet

\* The projectiles that are fired get the next numbers, one each, and come from the
\* units that shoot.
LEMMA SalvoHolds ==
    ASSUME projectile_seq \in Nat, NEW shooters \in SUBSET Units, NEW aim \in [shooters -> Units]
    PROVE  /\ Salvo(aim) \in Seq(Missiles(projectile_seq + Len(Salvo(aim))))
           /\ \A i \in 1 .. Len(Salvo(aim)) :
                 /\ Salvo(aim)[i].id = projectile_seq + i
                 /\ Salvo(aim)[i].source \in shooters
                 /\ Salvo(aim)[i].target = aim[Salvo(aim)[i].source]
                 /\ Salvo(aim)[i].status = "flying"
<1> DEFINE n == Len(Fleet)
           Shots == {m \in [id : Nat, source : shooters, target : Units, status : {"flying"}] :
                        m.target = aim[m.source]}
<1>1. n \in Nat /\ DOMAIN Fleet = 1 .. n /\ \A k \in 1 .. n : Fleet[k] \in Units
  BY FleetTypes, LenProperties, ElementOfSeq
<1> HIDE DEF n
<1>2. PICK run : SalvoRun(aim, n, run)
  BY <1>1, SalvoRuns
<1> DEFINE Good == {k \in 0 .. n : /\ run[k] \in Seq(Shots)
                                   /\ \A i \in 1 .. Len(run[k]) : run[k][i].id = projectile_seq + i}
<1>3. 0 \in Good
  <2>1. run[0] = <<>>
    BY <1>2 DEF SalvoRun
  <2> HIDE DEF Shots
  <2>2. run[0] \in Seq(Shots) /\ Len(run[0]) = 0
    BY <2>1, EmptySeq
  <2> QED  BY <1>1, <2>2
<1>4. ASSUME NEW k \in 1 .. n, k - 1 \in Good PROVE k \in Good
  <2> DEFINE shots == run[k - 1]
             u == Fleet[k]
             shot == [id |-> projectile_seq + Len(shots) + 1, source |-> u, target |-> aim[u],
                      status |-> "flying"]
  <2>1. /\ shots \in Seq(Shots) /\ Len(shots) \in Nat
        /\ \A i \in 1 .. Len(shots) : shots[i].id = projectile_seq + i
    BY <1>4, LenProperties
  <2>2. run[k] = Fire(shots, u, aim)
    BY <1>2 DEF SalvoRun
  <2>3. CASE u \in shooters
    <3>1. shot \in Shots /\ shot.id = projectile_seq + (Len(shots) + 1)
      BY <2>1, <2>3
    <3>2. run[k] = Append(shots, shot)
      BY <2>2, <2>3 DEF Fire
    <3> HIDE DEF shots, u, shot, Shots
    <3>3. /\ run[k] \in Seq(Shots) /\ Len(run[k]) = Len(shots) + 1
          /\ \A i \in 1 .. Len(shots) : run[k][i] = shots[i]
          /\ run[k][Len(shots) + 1] = shot
      BY <2>1, <3>1, <3>2, AppendProperties
    <3>4. ASSUME NEW i \in 1 .. Len(run[k]) PROVE run[k][i].id = projectile_seq + i
      <4>1. i \in 1 .. Len(shots) \/ i = Len(shots) + 1
        BY <2>1, <3>3
      <4> QED  BY <2>1, <3>1, <3>3, <4>1
    <3> QED  BY <3>3, <3>4
  <2>4. CASE u \notin shooters
    <3>1. run[k] = shots
      BY <2>2, <2>4 DEF Fire
    <3> HIDE DEF shots, Shots
    <3> QED  BY <2>1, <3>1
  <2> QED  BY <2>3, <2>4
<1>5. n \in Good
  <2> HIDE DEF Good
  <2>1. \A k \in 0 .. n : k \in Good
    BY <1>1, <1>3, <1>4, Inductive
  <2> QED  BY <1>1, <2>1
<1>6. Salvo(aim) = run[n]
  BY <1>2 DEF SalvoRun
<1> DEFINE salvo == Salvo(aim)
<1>7. salvo \in Seq(Shots) /\ \A i \in 1 .. Len(salvo) : salvo[i].id = projectile_seq + i
  BY <1>5, <1>6
<1> HIDE DEF salvo, Good
<1>8. Len(salvo) \in Nat /\ DOMAIN salvo = 1 .. Len(salvo) /\ salvo = [i \in 1 .. Len(salvo) |-> salvo[i]]
  BY <1>7, LenProperties
<1>9. \A i \in 1 .. Len(salvo) : salvo[i] \in Shots
  BY <1>7, ElementOfSeq
<1>10. \A i \in 1 .. Len(salvo) : salvo[i] \in Missiles(projectile_seq + Len(salvo))
  BY <1>7, <1>8, <1>9 DEF Missiles
<1>11. salvo \in Seq(Missiles(projectile_seq + Len(salvo)))
  <2> DEFINE M == Missiles(projectile_seq + Len(salvo))
  <2>1. \A i \in 1 .. Len(salvo) : salvo[i] \in M
    BY <1>10
  <2> HIDE DEF M
  <2>2. salvo \in Seq(M)
    BY <1>8, <2>1, IsASeq
  <2> QED  BY <2>2 DEF M
<1> QED  BY <1>7, <1>9, <1>11 DEF salvo

\* The loop of _advance_projectiles after k rounds: one line of kept projectiles, of those
\* that flew; a hit is told of one that is kept as one that hit, whose target stood before;
\* and a unit's end is told just when it came in this step.
RoundHolds(acc, k, us, ps, n) ==
    /\ acc \in [units : [Units -> UnitStates], kept : Seq(Missiles(n)), events : Seq(Events)]
    /\ Distinct(acc.events)
    /\ DistinctIds(acc.kept)
    /\ \A q \in ToSet(acc.kept) :
          /\ \E j \in 1 .. k : /\ q.id = ps[j].id /\ q.source = ps[j].source
                               /\ q.target = ps[j].target /\ ps[j].status = "flying"
          /\ q.status = "hit" => us[q.target].status = "active"
    /\ \A j \in 1 .. k : ps[j].status = "flying" => \E q \in ToSet(acc.kept) : q.id = ps[j].id
    /\ \A e \in ToSet(acc.events) :
          \/ /\ e.type = "PROJECTILE_HIT"
             /\ \E q \in ToSet(acc.kept) : q.id = e.of /\ q.status = "hit"
          \/ /\ e.type = "UNIT_DESTROYED"
             /\ us[e.of].status = "active" /\ acc.units[e.of].status = "destroyed"
    /\ \A u \in Units :
          /\ us[u].status = "active" /\ acc.units[u].status = "destroyed" =>
                Event("UNIT_DESTROYED", u) \in ToSet(acc.events)
          /\ us[u].status = "destroyed" => acc.units[u].status = "destroyed"

\* A round that keeps its projectile with a new status and tells what it did.
LEMMA RoundKeeps ==
    ASSUME NEW n \in 0 .. MaxShots, NEW us \in [Units -> UnitStates],
           NEW ps \in Seq(Missiles(n)), DistinctIds(ps),
           NEW k \in 1 .. Len(ps), ps[k].status = "flying",
           NEW acc, RoundHolds(acc, k - 1, us, ps, n),
           NEW us2 \in [Units -> UnitStates], NEW new \in {"flying", "hit", "expired"},
           NEW news \in Seq(Events), Distinct(news),
           new = "hit" => acc.units[ps[k].target].status = "active",
           \A e \in ToSet(news) :
              \/ new = "hit" /\ e.type = "PROJECTILE_HIT" /\ e.of = ps[k].id
              \/ /\ e.type = "UNIT_DESTROYED"
                 /\ acc.units[e.of].status = "active" /\ us2[e.of].status = "destroyed",
           \A u \in Units :
              /\ acc.units[u].status = "destroyed" => us2[u].status = "destroyed"
              /\ acc.units[u].status = "active" /\ us2[u].status = "destroyed" =>
                    Event("UNIT_DESTROYED", u) \in ToSet(news)
    PROVE  RoundHolds([units |-> us2, kept |-> Append(acc.kept, [ps[k] EXCEPT !.status = new]),
                       events |-> acc.events \o news], k, us, ps, n)
<1> DEFINE p == [ps[k] EXCEPT !.status = new]
           kept == Append(acc.kept, p)
           events == acc.events \o news
           end == [units |-> us2, kept |-> kept, events |-> events]
<1>1. /\ acc \in [units : [Units -> UnitStates], kept : Seq(Missiles(n)), events : Seq(Events)]
      /\ acc.kept \in Seq(Missiles(n)) /\ acc.events \in Seq(Events)
      /\ Distinct(acc.events) /\ DistinctIds(acc.kept)
  BY DEF RoundHolds
<1>2. k \in Nat /\ DOMAIN ps = 1 .. Len(ps) /\ 1 .. k = (1 .. (k - 1)) \cup {k} /\ k \notin 1 .. (k - 1)
      /\ \A j \in 1 .. k : j \in DOMAIN ps
  BY LenProperties
<1>3. ps[k] \in Missiles(n)
  BY ElementOfSeq
<1>4. /\ p \in Missiles(n) /\ p.id = ps[k].id /\ p.source = ps[k].source
      /\ p.target = ps[k].target /\ p.status = new
  BY <1>3 DEF Missiles
<1> HIDE DEF p
<1>5. \A q \in ToSet(acc.kept) : q.id # p.id
  <2>1. \A j \in 1 .. (k - 1) : ps[j].id # ps[k].id
    BY <1>2 DEF DistinctIds
  <2> QED  BY <1>4, <2>1 DEF RoundHolds
<1>6. kept \in Seq(Missiles(n)) /\ ToSet(kept) = ToSet(acc.kept) \cup {p}
  BY <1>1, <1>4, AppendMembers
<1>7. DistinctIds(kept)
  <2>1. /\ Len(acc.kept) \in Nat /\ DOMAIN acc.kept = 1 .. Len(acc.kept)
        /\ DOMAIN kept = 1 .. (Len(acc.kept) + 1)
        /\ \A i \in 1 .. Len(acc.kept) : kept[i] = acc.kept[i] /\ kept[i] \in ToSet(acc.kept)
        /\ kept[Len(acc.kept) + 1] = p
    BY <1>1, <1>4, AppendProperties, LenProperties DEF ToSet
  <2> HIDE DEF kept
  <2> SUFFICES ASSUME NEW i \in DOMAIN kept, NEW j \in DOMAIN kept, kept[i].id = kept[j].id
               PROVE  i = j
    BY DEF DistinctIds
  <2>2. CASE i \in 1 .. Len(acc.kept) /\ j \in 1 .. Len(acc.kept)
    BY <1>1, <2>1, <2>2 DEF DistinctIds
  <2>3. CASE i = Len(acc.kept) + 1 \/ j = Len(acc.kept) + 1
    BY <1>5, <2>1, <2>3, SMTT(20)
  <2>4. \A l \in 1 .. (Len(acc.kept) + 1) : l \in 1 .. Len(acc.kept) \/ l = Len(acc.kept) + 1
    BY <2>1
  <2> QED  BY <2>1, <2>2, <2>3, <2>4, Zenon
<1>8. ToSet(acc.events) \cap ToSet(news) = {}
  <2> SUFFICES ASSUME NEW e \in ToSet(acc.events), e \in ToSet(news) PROVE FALSE
    OBVIOUS
  <2>1. \/ /\ e.type = "PROJECTILE_HIT"
           /\ \E q \in ToSet(acc.kept) : q.id = e.of /\ q.status = "hit"
        \/ e.type = "UNIT_DESTROYED" /\ acc.units[e.of].status = "destroyed"
    BY DEF RoundHolds
  <2>2. \/ e.type = "PROJECTILE_HIT" /\ e.of = ps[k].id
        \/ e.type = "UNIT_DESTROYED" /\ acc.units[e.of].status = "active"
    OBVIOUS
  <2> QED  BY <1>4, <1>5, <2>1, <2>2
<1>9. events \in Seq(Events) /\ ToSet(events) = ToSet(acc.events) \cup ToSet(news) /\ Distinct(events)
  BY <1>1, <1>8, ConcatMembers
<1> HIDE DEF kept, events
<1>10. end \in [units : [Units -> UnitStates], kept : Seq(Missiles(n)), events : Seq(Events)]
       /\ end.units = us2 /\ end.kept = kept /\ end.events = events
  BY <1>6, <1>9
<1> HIDE DEF end
<1>11. \A u \in Units : acc.units[u].status \in {"active", "destroyed"}
  BY <1>1 DEF UnitStates
<1>12. \A u \in Units : us[u].status \in {"active", "destroyed"}
  BY DEF UnitStates
<1>13. ASSUME NEW q \in ToSet(kept)
       PROVE  /\ \E j \in 1 .. k : /\ q.id = ps[j].id /\ q.source = ps[j].source
                                   /\ q.target = ps[j].target /\ ps[j].status = "flying"
              /\ q.status = "hit" => us[q.target].status = "active"
  <2>1. CASE q \in ToSet(acc.kept)
    <3>1. PICK j \in 1 .. (k - 1) : /\ q.id = ps[j].id /\ q.source = ps[j].source
                                     /\ q.target = ps[j].target /\ ps[j].status = "flying"
      BY <2>1 DEF RoundHolds
    <3>2. j \in 1 .. k
      BY <1>2
    <3>3. q.status = "hit" => us[q.target].status = "active"
      BY <2>1 DEF RoundHolds
    <3> QED  BY <3>1, <3>2, <3>3
  <2>2. CASE q = p
    <3>1. p.status = "hit" => us[p.target].status = "active"
      <4>1. p.target \in Units
        BY <1>4 DEF Missiles
      <4> QED  BY <1>4, <1>12, <4>1 DEF RoundHolds
    <3> QED  BY <1>2, <1>4, <2>2, <3>1
  <2> QED  BY <1>6, <2>1, <2>2
<1>14. ASSUME NEW j \in 1 .. k, ps[j].status = "flying" PROVE \E q \in ToSet(kept) : q.id = ps[j].id
  <2>1. CASE j = k
    BY <1>4, <1>6, <2>1
  <2>2. CASE j \in 1 .. (k - 1)
    BY <1>6, <1>14, <2>2 DEF RoundHolds
  <2> QED  BY <1>2, <2>1, <2>2
<1>15. ASSUME NEW e \in ToSet(events)
       PROVE  \/ /\ e.type = "PROJECTILE_HIT"
                 /\ \E q \in ToSet(kept) : q.id = e.of /\ q.status = "hit"
              \/ /\ e.type = "UNIT_DESTROYED"
                 /\ us[e.of].status = "active" /\ us2[e.of].status = "destroyed"
  <2>1. e \in Events
    <3>1. DOMAIN events = 1 .. Len(events) /\ \A i \in 1 .. Len(events) : events[i] \in Events
      BY <1>9, LenProperties, ElementOfSeq
    <3> QED  BY <3>1 DEF ToSet
  <2>2. e.type = "UNIT_DESTROYED" => e.of \in Units
    BY <2>1 DEF Events
  <2>3. CASE e \in ToSet(acc.events)
    BY <1>6, <2>2, <2>3 DEF RoundHolds
  <2>4. CASE e \in ToSet(news)
    BY <1>4, <1>6, <1>12, <2>2, <2>4 DEF RoundHolds
  <2> QED  BY <1>9, <2>3, <2>4
<1>16. ASSUME NEW u \in Units
       PROVE  /\ us[u].status = "active" /\ us2[u].status = "destroyed" =>
                    Event("UNIT_DESTROYED", u) \in ToSet(events)
              /\ us[u].status = "destroyed" => us2[u].status = "destroyed"
  BY <1>9, <1>11 DEF RoundHolds
<1>17. RoundHolds(end, k, us, ps, n)
  BY <1>7, <1>9, <1>10, <1>13, <1>14, <1>15, <1>16 DEF RoundHolds
<1> QED  BY <1>17 DEF end, kept, events, p

\* A hit: its event, and that of the target's end if it comes to that.
LEMMA HitKeeps ==
    ASSUME NEW n \in 0 .. MaxShots, NEW us \in [Units -> UnitStates],
           NEW ps \in Seq(Missiles(n)), DistinctIds(ps),
           NEW k \in 1 .. Len(ps), ps[k].status = "flying",
           NEW acc, RoundHolds(acc, k - 1, us, ps, n), Active(acc.units, ps[k].target),
           NEW damage \in Nat
    PROVE  RoundHolds(Hit(acc, ps[k], damage), k, us, ps, n)
<1> DEFINE p == ps[k]
           t == p.target
           hp == IF acc.units[t].hp > damage THEN acc.units[t].hp - damage ELSE 0
           kill == hp = 0 /\ acc.units[t].status # "destroyed"
           us2 == [acc.units EXCEPT ![t].hp = hp, ![t].status = IF kill THEN "destroyed" ELSE @]
           hit == Event("PROJECTILE_HIT", p.id)
           last == IF kill THEN <<Event("UNIT_DESTROYED", t)>> ELSE <<>>
           news == <<hit>> \o last
<1>1. p \in Missiles(n) /\ p.id \in 1 .. MaxShots /\ t \in Units
  <2>1. p \in Missiles(n)
    BY ElementOfSeq
  <2> QED  BY <2>1, ConstantsAssumption DEF Missiles
<1>2. /\ acc \in [units : [Units -> UnitStates], kept : Seq(Missiles(n)), events : Seq(Events)]
      /\ acc.units \in [Units -> UnitStates] /\ acc.events \in Seq(Events)
  BY DEF RoundHolds
<1>3. acc.units[t].status = "active" /\ acc.units[t] \in UnitStates
  BY <1>1, <1>2 DEF Active
<1>4. hp \in 0 .. MaxHp
  <2>1. acc.units[t].hp \in 0 .. MaxHp /\ MaxHp \in Nat
    BY <1>3, ConstantsAssumption DEF UnitStates
  <2> HIDE DEF t
  <2> QED  BY <2>1, SMTT(20)
<1> HIDE DEF hp
<1>5. /\ us2 \in [Units -> UnitStates]
      /\ us2[t].status = IF hp = 0 THEN "destroyed" ELSE "active"
      /\ \A u \in Units \ {t} : us2[u] = acc.units[u]
  <2> DEFINE unit == [acc.units[t] EXCEPT !.hp = hp, !.status = IF kill THEN "destroyed" ELSE @]
  <2>1. unit \in UnitStates /\ unit.status = IF hp = 0 THEN "destroyed" ELSE "active"
    BY <1>3, <1>4 DEF UnitStates
  <2>2. us2 = [acc.units EXCEPT ![t] = unit]
    BY <1>1, <1>2
  <2> HIDE DEF unit, us2
  <2> QED  BY <1>1, <1>2, <2>1, <2>2
<1>6. /\ hit \in Events /\ Event("UNIT_DESTROYED", t) \in Events
      /\ hit.type = "PROJECTILE_HIT" /\ hit.of = p.id
  BY <1>1 DEF Event, Events
<1>7. /\ news \in Seq(Events) /\ Distinct(news)
      /\ ToSet(news) = {hit} \cup (IF hp = 0 THEN {Event("UNIT_DESTROYED", t)} ELSE {})
  <2>1. /\ <<hit>> \in Seq(Events) /\ Distinct(<<hit>>) /\ ToSet(<<hit>>) = {hit}
        /\ <<>> \in Seq(Events) /\ Distinct(<<>>) /\ ToSet(<<>>) = {}
    BY <1>6 DEF Distinct, ToSet
  <2>2. LET end == Event("UNIT_DESTROYED", t)
        IN  <<end>> \in Seq(Events) /\ Distinct(<<end>>) /\ ToSet(<<end>>) = {end}
    BY <1>6 DEF Distinct, ToSet
  <2>3. /\ last \in Seq(Events) /\ Distinct(last)
        /\ ToSet(last) = IF hp = 0 THEN {Event("UNIT_DESTROYED", t)} ELSE {}
    BY <1>3, <2>1, <2>2
  <2>4. hit # Event("UNIT_DESTROYED", t)
    BY DEF Event
  <2> HIDE DEF hit, last
  <2>5. ToSet(<<hit>>) \cap ToSet(last) = {}
    BY <2>1, <2>3, <2>4
  <2> DEFINE first == <<hit>>
  <2>6. first \in Seq(Events) /\ Distinct(first) /\ ToSet(first) = {hit} /\ ToSet(first) \cap ToSet(last) = {}
    BY <2>1, <2>5
  <2> HIDE DEF first
  <2>7. /\ first \o last \in Seq(Events) /\ Distinct(first \o last)
        /\ ToSet(first \o last) = ToSet(first) \cup ToSet(last)
    BY <2>3, <2>6, ConcatMembers
  <2> QED  BY <2>3, <2>6, <2>7 DEF first
<1>8. \A e \in ToSet(news) :
         \/ e.type = "PROJECTILE_HIT" /\ e.of = ps[k].id
         \/ /\ e.type = "UNIT_DESTROYED"
            /\ acc.units[e.of].status = "active" /\ us2[e.of].status = "destroyed"
  BY <1>3, <1>5, <1>6, <1>7, SMTT(20) DEF Event
<1>9. \A u \in Units :
         /\ acc.units[u].status = "destroyed" => us2[u].status = "destroyed"
         /\ acc.units[u].status = "active" /\ us2[u].status = "destroyed" =>
               Event("UNIT_DESTROYED", u) \in ToSet(news)
  BY <1>3, <1>5, <1>7
<1>10. Hit(acc, p, damage) = [units |-> us2, kept |-> Append(acc.kept, [p EXCEPT !.status = "hit"]),
                              events |-> acc.events \o news]
  <2>1. <<hit>> \in Seq(Events) /\ last \in Seq(Events)
    BY <1>6
  <2>2. (acc.events \o <<hit>>) \o last = acc.events \o news
    <3> HIDE DEF hit, last
    <3> QED  BY <1>2, <2>1, ConcatAssociative, SMTT(20)
  <2>3. Keep(acc, p, "hit").kept = Append(acc.kept, [p EXCEPT !.status = "hit"])
    BY <1>2 DEF Keep
  <2> QED  BY <2>2, <2>3 DEF Hit, hp
<1> HIDE DEF us2, news
<1>11. RoundHolds([units |-> us2, kept |-> Append(acc.kept, [ps[k] EXCEPT !.status = "hit"]),
                   events |-> acc.events \o news], k, us, ps, n)
  BY <1>3, <1>5, <1>7, <1>8, <1>9, RoundKeeps
<1> QED  BY <1>10, <1>11

\* A round that tells nothing.
LEMMA KeepKeeps ==
    ASSUME NEW n \in 0 .. MaxShots, NEW us \in [Units -> UnitStates],
           NEW ps \in Seq(Missiles(n)), DistinctIds(ps),
           NEW k \in 1 .. Len(ps), ps[k].status = "flying",
           NEW acc, RoundHolds(acc, k - 1, us, ps, n), NEW new \in {"flying", "expired"}
    PROVE  RoundHolds(Keep(acc, ps[k], new), k, us, ps, n)
<1>1. /\ acc \in [units : [Units -> UnitStates], kept : Seq(Missiles(n)), events : Seq(Events)]
      /\ acc.units \in [Units -> UnitStates] /\ acc.events \in Seq(Events)
  BY DEF RoundHolds
<1>2. <<>> \in Seq(Events) /\ Distinct(<<>>) /\ ToSet(<<>>) = {} /\ acc.events \o <<>> = acc.events
  BY <1>1, ConcatEmptySeq DEF Distinct, ToSet
<1>3. \A u \in Units : acc.units[u].status # "active" \/ acc.units[u].status # "destroyed"
  OBVIOUS
<1>4. RoundHolds([units |-> acc.units, kept |-> Append(acc.kept, [ps[k] EXCEPT !.status = new]),
                  events |-> acc.events \o <<>>], k, us, ps, n)
  BY <1>1, <1>2, <1>3, RoundKeeps
<1>5. Keep(acc, ps[k], new) = [units |-> acc.units, kept |-> Append(acc.kept, [ps[k] EXCEPT !.status = new]),
                               events |-> acc.events]
  <2> DEFINE kept == Append(acc.kept, [ps[k] EXCEPT !.status = new])
  <2>1. Keep(acc, ps[k], new) = [acc EXCEPT !.kept = kept]
    BY DEF Keep
  <2> HIDE DEF kept
  <2>2. [acc EXCEPT !.kept = kept] = [units |-> acc.units, kept |-> kept, events |-> acc.events]
    BY <1>1
  <2> QED  BY <2>1, <2>2 DEF kept
<1> QED  BY <1>2, <1>4, <1>5

\* One round of the loop.
LEMMA AdvanceKeeps ==
    ASSUME NEW n \in 0 .. MaxShots, NEW us \in [Units -> UnitStates],
           NEW ps \in Seq(Missiles(n)), DistinctIds(ps),
           NEW k \in 1 .. Len(ps),
           NEW acc, RoundHolds(acc, k - 1, us, ps, n),
           NEW damage, ps[k].status = "flying" => damage[ps[k].id] \in Nat
    PROVE  RoundHolds(Advance(acc, ps[k], damage), k, us, ps, n)
<1>1. CASE ps[k].status # "flying"
  <2>1. Advance(acc, ps[k], damage) = acc
    BY <1>1 DEF Advance
  <2>2. \A j \in 1 .. (k - 1) : j \in 1 .. k
    OBVIOUS
  <2>3. \A j \in 1 .. k : ps[j].status = "flying" => j \in 1 .. (k - 1)
    BY <1>1
  <2> QED  BY <2>1, <2>2, <2>3 DEF RoundHolds
<1>2. CASE ps[k].status = "flying" /\ ~Active(acc.units, ps[k].target)
  BY <1>2, KeepKeeps DEF Advance
<1>3. CASE ps[k].status = "flying" /\ Active(acc.units, ps[k].target)
  <2>1. Advance(acc, ps[k], damage) = IF damage[ps[k].id] = 0 THEN Keep(acc, ps[k], "flying")
                                      ELSE Hit(acc, ps[k], damage[ps[k].id])
    BY <1>3 DEF Advance
  <2>2. RoundHolds(Keep(acc, ps[k], "flying"), k, us, ps, n)
    BY <1>3, KeepKeeps
  <2>3. RoundHolds(Hit(acc, ps[k], damage[ps[k].id]), k, us, ps, n)
    BY <1>3, HitKeeps
  <2> QED  BY <2>1, <2>2, <2>3
<1> QED  BY <1>1, <1>2, <1>3

\* The whole loop.
LEMMA AdvanceHolds ==
    ASSUME NEW n \in 0 .. MaxShots, NEW us \in [Units -> UnitStates],
           NEW ps \in Seq(Missiles(n)), DistinctIds(ps), NEW damage,
           \A k \in 1 .. Len(ps) : ps[k].status = "flying" => damage[ps[k].id] \in Nat
    PROVE  RoundHolds(AdvanceAll(us, ps, damage), Len(ps), us, ps, n)
<1> DEFINE m == Len(ps)
<1>1. m \in Nat /\ DOMAIN ps = 1 .. m
  BY LenProperties
<1>2. PICK run : AdvanceRun(us, ps, damage, m, run)
  <2> HIDE DEF m
  <2> QED  BY <1>1, AdvanceRuns
<1> DEFINE Good == {k \in 0 .. m : RoundHolds(run[k], k, us, ps, n)}
<1>3. 0 \in Good
  <2>1. run[0] = [units |-> us, kept |-> <<>>, events |-> <<>>]
    BY <1>2 DEF AdvanceRun, AtStart
  <2>2. /\ <<>> \in Seq(Events) /\ <<>> \in Seq(Missiles(n)) /\ Distinct(<<>>) /\ DistinctIds(<<>>)
        /\ ToSet(<<>>) = {}
    BY DEF Distinct, DistinctIds, ToSet
  <2>3. 1 .. 0 = {}
    OBVIOUS
  <2>4. \A u \in Units : us[u].status # "active" \/ us[u].status # "destroyed"
    OBVIOUS
  <2>5. RoundHolds(run[0], 0, us, ps, n)
    BY <2>1, <2>2, <2>3, <2>4 DEF RoundHolds
  <2> QED  BY <1>1, <2>5
<1>4. ASSUME NEW k \in 1 .. m, k - 1 \in Good PROVE k \in Good
  <2>1. RoundHolds(run[k - 1], k - 1, us, ps, n)
    BY <1>4
  <2>2. run[k] = Advance(run[k - 1], ps[k], damage)
    BY <1>2 DEF AdvanceRun
  <2>3. RoundHolds(Advance(run[k - 1], ps[k], damage), k, us, ps, n)
    BY <2>1, AdvanceKeeps
  <2> QED  BY <2>2, <2>3
<1>5. m \in Good
  <2> HIDE DEF Good
  <2>1. \A k \in 0 .. m : k \in Good
    BY <1>1, <1>3, <1>4, Inductive
  <2> QED  BY <1>1, <2>1
<1> QED  BY <1>2, <1>5 DEF AdvanceRun

\* The list is cut from the front, and to Cap.
LEMMA KeptHolds ==
    ASSUME NEW T, NEW s \in Seq(T)
    PROVE  /\ Kept(s) \in Seq(T) /\ Len(Kept(s)) <= Cap /\ ToSet(Kept(s)) \subseteq ToSet(s)
           /\ Kept(s) = s \/ Len(Kept(s)) = Cap
           /\ DistinctIds(s) => DistinctIds(Kept(s))
<1> DEFINE l == Len(s)
           a == IF l > Cap THEN l - Cap + 1 ELSE 1
           t == Kept(s)
<1>1. l \in Nat /\ DOMAIN s = 1 .. l /\ Cap \in Nat \ {0}
  BY LenProperties, ConstantsAssumption
<1>2. t = SubSeq(s, a, l)
  BY DEF Kept
<1>3. CASE l > Cap
  <2>1. a = l - Cap + 1 /\ a \in 1 .. l
    BY <1>1, <1>3
  <2> HIDE DEF a, t, l
  <2>2. /\ t \in Seq(T) /\ Len(t) = Cap
        /\ \A i \in 1 .. Cap : t[i] = s[i + (l - Cap)]
    <3>1. a \in 1 .. Len(s) + 1 /\ l \in a - 1 .. Len(s)
      BY <1>1, <2>1 DEF l
    <3>2. /\ t \in Seq(T) /\ Len(t) = l - a + 1
          /\ \A i \in 1 .. (l - a + 1) : t[i] = s[a + i - 1]
      BY <1>2, <3>1, SubSeqProperties
    <3> QED  BY <1>1, <2>1, <3>2
  <2>3. DOMAIN t = 1 .. Cap
    BY <2>2, LenProperties
  <2>4. \A i \in 1 .. Cap : i + (l - Cap) \in 1 .. l
    BY <1>1, <1>3
  <2>5. ToSet(t) \subseteq ToSet(s)
    <3> SUFFICES ASSUME NEW i \in 1 .. Cap PROVE t[i] \in ToSet(s)
      BY <2>3 DEF ToSet
    <3>1. t[i] = s[i + (l - Cap)] /\ i + (l - Cap) \in DOMAIN s
      BY <1>1, <2>2, <2>4
    <3> QED  BY <3>1 DEF ToSet
  <2>6. ASSUME DistinctIds(s), NEW i \in DOMAIN t, NEW j \in DOMAIN t, t[i].id = t[j].id PROVE i = j
    <3>1. /\ s[i + (l - Cap)].id = s[j + (l - Cap)].id
          /\ i + (l - Cap) \in DOMAIN s /\ j + (l - Cap) \in DOMAIN s
      BY <1>1, <2>2, <2>3, <2>4, <2>6
    <3>2. i + (l - Cap) = j + (l - Cap)
      BY <2>6, <3>1, Zenon DEF DistinctIds
    <3> QED  BY <1>1, <2>3, <3>2
  <2> QED  BY <1>1, <2>2, <2>5, <2>6 DEF t, DistinctIds
<1>4. CASE ~(l > Cap)
  <2>1. t = s
    BY <1>2, <1>4, SubSeqFull
  <2> QED  BY <1>1, <1>4, <2>1
<1> QED  BY <1>3, <1>4

\* The projectiles of the list are different ones; one that flies has not been told of as
\* a hit; and nothing is told of projectiles that were not fired yet.
LineHolds ==
    /\ DistinctIds(projectiles)
    /\ \A p \in Flying(projectiles) : Event("PROJECTILE_HIT", p.id) \notin BagToSet(told)
    /\ \A e \in BagToSet(told) : e.type \in {"WEAPON_FIRED", "PROJECTILE_HIT"} => e.of <= projectile_seq

\* The inductive invariant.
SimInv == TypeOK /\ EventsTellBattle /\ WinnerStands /\ LineHolds

\* What a step is made of: the units us after the salvo, and what the loop over all
\* projectiles makes of them.
StepMakes(salvo, us, end) ==
    /\ salvo \in Seq(Missiles(projectile_seq'))
    /\ projectile_seq' = projectile_seq + Len(salvo) /\ projectile_seq' \in 0 .. MaxShots
    /\ \A i \in 1 .. Len(salvo) :
          /\ salvo[i].id = projectile_seq + i /\ salvo[i].status = "flying"
          /\ Active(units, salvo[i].source) /\ Active(units, salvo[i].target)
    /\ us \in [Units -> UnitStates] /\ \A u \in Units : us[u].status = units[u].status
    /\ projectiles \o salvo \in Seq(Missiles(projectile_seq')) /\ DistinctIds(projectiles \o salvo)
    /\ RoundHolds(end, Len(projectiles \o salvo), us, projectiles \o salvo, projectile_seq')
    /\ units' = end.units
    /\ projectiles' = Kept(end.kept)
    /\ status' = Verdict(end.units)
    /\ told' = Tell(told, FiredEvents(salvo) \o end.events \o Ended(status'))

\* The list with the salvo at its end: new numbers, and nothing else changes.
LEMMA LineAndSalvo ==
    ASSUME SimInv, NEW n \in 0 .. MaxShots, NEW salvo \in Seq(Missiles(n)), n = projectile_seq + Len(salvo),
           \A i \in 1 .. Len(salvo) : salvo[i].id = projectile_seq + i
    PROVE  /\ projectiles \o salvo \in Seq(Missiles(n)) /\ DistinctIds(projectiles \o salvo)
           /\ ToSet(projectiles \o salvo) = ToSet(projectiles) \cup ToSet(salvo)
<1> DEFINE m == Len(projectiles)
           l == Len(salvo)
           ps == projectiles \o salvo
<1>1. projectiles \in Seq(Missiles(projectile_seq)) /\ projectile_seq \in Nat
  BY ConstantsAssumption DEF SimInv, TypeOK, Missiles
<1>2. m \in Nat /\ l \in Nat /\ DOMAIN projectiles = 1 .. m /\ DOMAIN salvo = 1 .. l
  BY <1>1, LenProperties
<1>3. projectiles \in Seq(Missiles(n))
  <2>1. Missiles(projectile_seq) \subseteq Missiles(n)
    BY <1>1, <1>2 DEF Missiles
  <2> QED  BY <1>1, <2>1, SeqMonotonic
<1>4. /\ ps \in Seq(Missiles(n)) /\ DOMAIN ps = 1 .. (m + l)
      /\ \A i \in 1 .. (m + l) : ps[i] = IF i <= m THEN projectiles[i] ELSE salvo[i - m]
  BY <1>3, ConcatProperties
<1>5. \A i \in 1 .. m : projectiles[i].id \in 1 .. projectile_seq
  <2>1. \A i \in 1 .. m : projectiles[i] \in Missiles(projectile_seq)
    BY <1>1, ElementOfSeq
  <2> QED  BY <2>1 DEF Missiles
<1> HIDE DEF ps, m, l
<1>6. DistinctIds(ps)
  <2> SUFFICES ASSUME NEW i \in 1 .. (m + l), NEW j \in 1 .. (m + l), ps[i].id = ps[j].id PROVE i = j
    BY <1>4 DEF DistinctIds
  <2>1. \A x \in 1 .. (m + l) : \/ x \in 1 .. m /\ ps[x] = projectiles[x] /\ ps[x].id \in 1 .. projectile_seq
                                \/ x \notin 1 .. m /\ ps[x].id = projectile_seq + (x - m)
    <3> TAKE x \in 1 .. (m + l)
    <3>1. CASE x <= m
      BY <1>2, <1>4, <1>5, <3>1
    <3>2. CASE ~(x <= m)
      <4>1. x - m \in 1 .. l /\ ps[x] = salvo[x - m]
        BY <1>2, <1>4, <3>2
      <4> QED  BY <1>2, <3>2, <4>1 DEF l
    <3> QED  BY <3>1, <3>2
  <2>2. CASE i \in 1 .. m /\ j \in 1 .. m
    BY <1>2, <2>1, <2>2 DEF SimInv, LineHolds, DistinctIds
  <2>3. CASE ~(i \in 1 .. m /\ j \in 1 .. m)
    BY <1>1, <1>2, <2>1, <2>3, SMTT(20)
  <2> QED  BY <2>2, <2>3
<1>7. ToSet(ps) = ToSet(projectiles) \cup ToSet(salvo)
  BY <1>3, ConcatMembers DEF ps
<1> QED  BY <1>4, <1>6, <1>7 DEF ps

\* The step in which these shooters take that aim.
Shoot(shooters, aim) ==
    LET shots == {<<u, aim[u]>> : u \in shooters}
        salvo == Salvo(aim)
        inFlight == Flying(projectiles \o salvo)
    IN  /\ shots \subseteq InSight(units)
        /\ projectile_seq + Len(salvo) <= MaxShots
        /\ projectile_seq' = projectile_seq + Len(salvo)
        /\ \E damage \in [{p.id : p \in inFlight} -> Damages \cup {0}] :
             LET end == AdvanceAll(RestAfterShot(TickCooldowns(units), shooters), projectiles \o salvo, damage)
             IN  /\ units' = end.units
                 /\ projectiles' = Kept(end.kept)
                 /\ status' = Verdict(end.units)
                 /\ told' = Tell(told, FiredEvents(salvo) \o end.events \o Ended(status'))

\* A step is made so.
LEMMA StepFacts ==
    ASSUME SimInv, Step
    PROVE  \E salvo, us, end : StepMakes(salvo, us, end)
<1> DEFINE ready == TickCooldowns(units)
<1>0. PICK shooters \in SUBSET {u \in Units : ready[u].cooldown = 0} :
         \E aim \in [shooters -> Units] : Shoot(shooters, aim)
  BY DEF Step, Shoot
<1>1. PICK aim \in [shooters -> Units] : Shoot(shooters, aim)
  BY <1>0
<1> DEFINE salvo == Salvo(aim)
           ps == projectiles \o salvo
           us == RestAfterShot(ready, shooters)
           n == projectile_seq + Len(salvo)
<1>2. PICK damage \in [{p.id : p \in Flying(ps)} -> Damages \cup {0}] :
         LET end == AdvanceAll(us, ps, damage)
         IN  /\ units' = end.units
             /\ projectiles' = Kept(end.kept)
             /\ status' = Verdict(end.units)
             /\ told' = Tell(told, FiredEvents(salvo) \o end.events \o Ended(status'))
  BY <1>1 DEF Shoot
<1>3. projectile_seq \in Nat /\ shooters \in SUBSET Units /\ projectile_seq \in 0 .. MaxShots /\ MaxShots \in Nat
  BY ConstantsAssumption DEF SimInv, TypeOK
<1>4. \A u \in shooters : Active(units, u) /\ Active(units, aim[u])
  <2>1. \A u \in shooters : <<u, aim[u]>> \in InSight(units)
    BY <1>1 DEF Shoot
  <2>2. \A u, v : <<u, v>> \in InSight(units) => Active(units, u) /\ Active(units, v)
    BY DEF InSight
  <2> QED  BY <2>1, <2>2
<1>5. salvo \in Seq(Missiles(n))
  BY <1>3, SalvoHolds
<1>6. \A i \in 1 .. Len(salvo) :
         /\ salvo[i].id = projectile_seq + i /\ salvo[i].source \in shooters
         /\ salvo[i].target = aim[salvo[i].source] /\ salvo[i].status = "flying"
  BY <1>3, SalvoHolds
<1>7. Len(salvo) \in Nat /\ n <= MaxShots /\ projectile_seq' = n
  BY <1>1, <1>5, LenProperties DEF Shoot
<1>8. n \in 0 .. MaxShots
  BY <1>3, <1>7
<1>9. us \in [Units -> UnitStates] /\ \A u \in Units : us[u].status = units[u].status
  <2>1. units \in [Units -> UnitStates] /\ Cooldown \in Nat \ {0}
    BY ConstantsAssumption DEF SimInv, TypeOK, UnitStates
  <2>2. \A u \in Units : ready[u] \in UnitStates /\ ready[u].status = units[u].status
    BY <2>1 DEF TickCooldowns, UnitStates
  <2>3. \A u \in Units : us[u] \in UnitStates /\ us[u].status = ready[u].status
    <3> HIDE DEF ready
    <3> QED  BY <2>1, <2>2 DEF RestAfterShot, UnitStates
  <2>4. us = [u \in Units |-> us[u]]
    BY DEF RestAfterShot
  <2> HIDE DEF us, ready
  <2> QED  BY <2>2, <2>3, <2>4
<1> HIDE DEF salvo, us, n, ready
<1>10. ps \in Seq(Missiles(n)) /\ DistinctIds(ps)
  BY <1>5, <1>6, <1>8, LineAndSalvo DEF n
<1>11. \A k \in 1 .. Len(ps) : ps[k].status = "flying" => damage[ps[k].id] \in Nat
  <2>1. DOMAIN ps = 1 .. Len(ps)
    BY <1>10, LenProperties
  <2>2. Damages \cup {0} \subseteq Nat
    BY ConstantsAssumption
  <2> HIDE DEF ps
  <2>3. \A k \in 1 .. Len(ps) : ps[k].status = "flying" => ps[k] \in Flying(ps)
    BY <2>1 DEF Flying, ToSet
  <2> QED  BY <2>2, <2>3
<1> DEFINE end == AdvanceAll(us, ps, damage)
<1>12. RoundHolds(end, Len(ps), us, ps, n)
  <2> HIDE DEF ps
  <2> QED  BY <1>8, <1>9, <1>10, <1>11, AdvanceHolds
<1>13. /\ units' = end.units
       /\ projectiles' = Kept(end.kept)
       /\ status' = Verdict(end.units)
       /\ told' = Tell(told, FiredEvents(salvo) \o end.events \o Ended(status'))
  BY <1>2
<1>14. \A i \in 1 .. Len(salvo) :
          /\ salvo[i].id = projectile_seq + i /\ salvo[i].status = "flying"
          /\ Active(units, salvo[i].source) /\ Active(units, salvo[i].target)
  BY <1>4, <1>6
<1>15. projectile_seq' = projectile_seq + Len(salvo)
  BY <1>7 DEF n
<1> HIDE DEF end
<1>16. StepMakes(salvo, us, end)
  BY <1>5, <1>7, <1>8, <1>9, <1>10, <1>12, <1>13, <1>14, <1>15 DEF StepMakes
<1> QED  BY <1>16

\* What the loop leaves is one that flew before, or a new one, whose ends both stood.
LEMMA LeftInFlight ==
    ASSUME SimInv, NEW salvo, NEW us, NEW end, StepMakes(salvo, us, end), NEW q \in ToSet(end.kept)
    PROVE  \/ \E p \in Flying(projectiles) : q.id = p.id /\ q.source = p.source /\ q.target = p.target
           \/ /\ q.id \in Int /\ q.id > projectile_seq
              /\ Active(units, q.source) /\ Active(units, q.target)
<1> DEFINE ps == projectiles \o salvo
           m == Len(projectiles)
<1>1. PICK j \in 1 .. Len(ps) : /\ q.id = ps[j].id /\ q.source = ps[j].source
                                /\ q.target = ps[j].target /\ ps[j].status = "flying"
  BY DEF StepMakes, RoundHolds
<1>2. /\ projectiles \in Seq(Missiles(projectile_seq)) /\ projectile_seq \in Nat
      /\ salvo \in Seq(Missiles(projectile_seq'))
  BY ConstantsAssumption DEF SimInv, TypeOK, Missiles, StepMakes
<1>3. m \in Nat /\ DOMAIN projectiles = 1 .. m /\ Len(salvo) \in Nat
  BY <1>2, LenProperties
<1>4. /\ Len(ps) = m + Len(salvo)
      /\ \A i \in 1 .. (m + Len(salvo)) : ps[i] = IF i <= m THEN projectiles[i] ELSE salvo[i - m]
  <2> DEFINE T == Missiles(projectile_seq) \cup Missiles(projectile_seq')
  <2>1. projectiles \in Seq(T) /\ salvo \in Seq(T)
    <3>1. Missiles(projectile_seq) \subseteq T /\ Missiles(projectile_seq') \subseteq T
      OBVIOUS
    <3> HIDE DEF T
    <3> QED  BY <1>2, <3>1, SeqMonotonic
  <2> HIDE DEF T
  <2> QED  BY <2>1, ConcatProperties
<1> HIDE DEF ps, m
<1>5. CASE j <= m
  <2>1. j \in DOMAIN projectiles /\ ps[j] = projectiles[j]
    BY <1>3, <1>4, <1>5
  <2>2. ps[j] \in Flying(projectiles)
    BY <1>1, <2>1 DEF Flying, ToSet
  <2> QED  BY <1>1, <2>2
<1>6. CASE ~(j <= m)
  <2>1. j - m \in 1 .. Len(salvo) /\ ps[j] = salvo[j - m]
    BY <1>3, <1>4, <1>6
  <2>2. /\ salvo[j - m].id = projectile_seq + (j - m)
        /\ Active(units, salvo[j - m].source) /\ Active(units, salvo[j - m].target)
    BY <2>1 DEF StepMakes
  <2> QED  BY <1>1, <1>2, <2>1, <2>2
<1> QED  BY <1>5, <1>6

-----------------------------------------------------------------------------
(* What a step tells.                                                      *)

News(salvo, end) == FiredEvents(salvo) \o end.events \o Ended(status')

\* No event is told twice in a step; those of the salvo are of new projectiles, and the
\* end of the battle is among them just when it has come.
LEMMA NewsHolds ==
    ASSUME SimInv, NEW salvo, NEW us, NEW end, StepMakes(salvo, us, end)
    PROVE  /\ News(salvo, end) \in Seq(Events) /\ Distinct(News(salvo, end))
           /\ ToSet(News(salvo, end)) =
                 {Event("WEAPON_FIRED", k) : k \in (projectile_seq + 1) .. projectile_seq'}
                 \cup ToSet(end.events)
                 \cup (IF status' = "running" THEN {} ELSE {Event("BATTLE_ENDED", None)})
<1> DEFINE fired == FiredEvents(salvo)
           hits == end.events
           last == Ended(status')
           l == Len(salvo)
<1>1. /\ projectile_seq \in Nat /\ projectile_seq' = projectile_seq + l /\ projectile_seq' <= MaxShots
      /\ l \in Nat /\ MaxShots \in Nat
      /\ \A i \in 1 .. l : salvo[i].id = projectile_seq + i
  <2>1. projectile_seq \in Nat /\ MaxShots \in Nat
    BY ConstantsAssumption DEF SimInv, TypeOK
  <2>2. /\ salvo \in Seq(Missiles(projectile_seq'))
        /\ projectile_seq' = projectile_seq + l /\ projectile_seq' \in 0 .. MaxShots
        /\ \A i \in 1 .. l : salvo[i].id = projectile_seq + i
    BY DEF StepMakes
  <2> QED  BY <2>1, <2>2, LenProperties
<1> HIDE DEF l
<1>2. fired = [i \in 1 .. l |-> Event("WEAPON_FIRED", projectile_seq + i)]
  BY <1>1 DEF FiredEvents, l
<1>3. fired \in Seq(Events) /\ DOMAIN fired = 1 .. l
  <2>1. \A i \in 1 .. l : Event("WEAPON_FIRED", projectile_seq + i) \in Events
    BY <1>1 DEF Event, Events
  <2> HIDE DEF fired
  <2>2. DOMAIN fired = 1 .. l /\ \A i \in 1 .. l : fired[i] \in Events
    BY <1>2, <2>1
  <2>3. fired = [i \in 1 .. l |-> fired[i]]
    BY <1>2
  <2> QED  BY <1>1, <2>2, <2>3, IsASeq
<1> HIDE DEF fired
<1>4. Distinct(fired)
  <2> SUFFICES ASSUME NEW i \in 1 .. l, NEW j \in 1 .. l, fired[i] = fired[j] PROVE i = j
    BY <1>3 DEF Distinct
  <2>1. Event("WEAPON_FIRED", projectile_seq + i).of = Event("WEAPON_FIRED", projectile_seq + j).of
    BY <1>2
  <2> QED  BY <1>1, <2>1 DEF Event
<1>5. ToSet(fired) = {Event("WEAPON_FIRED", k) : k \in (projectile_seq + 1) .. projectile_seq'}
  <2>1. ToSet(fired) = {Event("WEAPON_FIRED", projectile_seq + i) : i \in 1 .. l}
    BY <1>2, <1>3 DEF ToSet
  <2>2. \A k \in (projectile_seq + 1) .. projectile_seq' :
           k - projectile_seq \in 1 .. l /\ k = projectile_seq + (k - projectile_seq)
    BY <1>1
  <2>3. \A i \in 1 .. l : projectile_seq + i \in (projectile_seq + 1) .. projectile_seq'
    BY <1>1
  <2> QED  BY <2>1, <2>2, <2>3
<1>6. /\ hits \in Seq(Events) /\ Distinct(hits)
      /\ \A e \in ToSet(hits) : e.type \in {"PROJECTILE_HIT", "UNIT_DESTROYED"}
  BY DEF StepMakes, RoundHolds
<1>7. last \in Seq(Events) /\ Distinct(last)
  <2>1. Event("BATTLE_ENDED", None) \in Events
    BY DEF Event, Events
  <2>2. LET e == Event("BATTLE_ENDED", None)
        IN  <<e>> \in Seq(Events) /\ Distinct(<<e>>) /\ ToSet(<<e>>) = {e}
    BY <2>1 DEF Distinct, ToSet
  <2>3. <<>> \in Seq(Events) /\ Distinct(<<>>) /\ ToSet(<<>>) = {}
    BY DEF Distinct, ToSet
  <2> QED  BY <2>2, <2>3 DEF Ended
<1>8. ToSet(last) = IF status' = "running" THEN {} ELSE {Event("BATTLE_ENDED", None)}
  BY DEF Ended, ToSet
<1> HIDE DEF hits, last
<1>9. /\ \A e \in ToSet(fired) : e.type = "WEAPON_FIRED"
      /\ \A e \in ToSet(last) : e.type = "BATTLE_ENDED"
  BY <1>5, <1>8 DEF Event
<1> DEFINE first == fired \o hits
<1>10. first \in Seq(Events) /\ ToSet(first) = ToSet(fired) \cup ToSet(hits) /\ Distinct(first)
  <2>1. ToSet(fired) \cap ToSet(hits) = {}
    BY <1>6, <1>9
  <2> QED  BY <1>3, <1>4, <1>6, <2>1, ConcatMembers
<1> HIDE DEF first
<1>11. /\ first \o last \in Seq(Events) /\ ToSet(first \o last) = ToSet(first) \cup ToSet(last)
       /\ Distinct(first \o last)
  <2>1. ToSet(first) \cap ToSet(last) = {}
    BY <1>6, <1>9, <1>10
  <2> QED  BY <1>7, <1>10, <2>1, ConcatMembers
<1>12. News(salvo, end) = first \o last
  BY DEF News, first, fired, hits, last
<1> QED  BY <1>5, <1>8, <1>10, <1>11, <1>12 DEF hits

\* A step adds one copy of each of its news to what was told.
LEMMA ToldGrows ==
    ASSUME SimInv, NEW salvo, NEW us, NEW end, StepMakes(salvo, us, end)
    PROVE  /\ IsABag(told') /\ BagToSet(told') = BagToSet(told) \cup ToSet(News(salvo, end))
           /\ \A e \in Events : Copies(told', e) =
                 Copies(told, e) + (IF e \in ToSet(News(salvo, end)) THEN 1 ELSE 0)
<1> DEFINE news == News(salvo, end)
<1>1. IsABag(told)
  BY DEF SimInv, TypeOK
<1>2. news \in Seq(Events) /\ Distinct(news)
  BY NewsHolds
<1>3. told' = Tell(told, news)
  BY DEF StepMakes, News
<1> HIDE DEF news
<1>4. IsABag(told')
  BY <1>1, <1>2, <1>3, TellAdds
<1>5. DOMAIN (told') = DOMAIN told \cup ToSet(news)
  <2>1. DOMAIN Tell(told, news) = DOMAIN told \cup ToSet(news)
    BY <1>1, <1>2, TellAdds
  <2> QED  BY <1>3, <2>1
<1>6. \A e \in Events : Copies(told', e) = Copies(told, e) + (IF e \in ToSet(news) THEN 1 ELSE 0)
  <2>1. \A e \in Events : Copies(Tell(told, news), e) = Copies(told, e) + (IF e \in ToSet(news) THEN 1 ELSE 0)
    BY <1>1, <1>2, TellAdds
  <2> QED  BY <1>3, <2>1
<1> QED  BY <1>4, <1>5, <1>6 DEF news, BagToSet

-----------------------------------------------------------------------------
(* The invariant.                                                          *)

\* A projectile that the loop leaves had hit nothing before.
LEMMA NotHitBefore ==
    ASSUME SimInv, NEW salvo, NEW us, NEW end, StepMakes(salvo, us, end), NEW q \in ToSet(end.kept)
    PROVE  Event("PROJECTILE_HIT", q.id) \notin BagToSet(told)
<1>1. CASE \E p \in Flying(projectiles) : q.id = p.id
  BY <1>1 DEF SimInv, LineHolds
<1>2. CASE q.id \in Int /\ q.id > projectile_seq
  <2>1. projectile_seq \in Nat
    BY DEF SimInv, TypeOK
  <2>2. Event("PROJECTILE_HIT", q.id).type = "PROJECTILE_HIT" /\ Event("PROJECTILE_HIT", q.id).of = q.id
    BY DEF Event
  <2>3. ~(q.id <= projectile_seq)
    BY <1>2, <2>1
  <2> QED  BY <2>2, <2>3 DEF SimInv, LineHolds
<1> QED  BY <1>1, <1>2, LeftInFlight

\* A battle that runs has both sides standing, and the verdict is right of the new units.
LEMMA VerdictStands ==
    ASSUME status = "running", status' = Verdict(units')
    PROVE  WinnerStands' /\ status' \in {"running", "blue_victory", "red_victory"}
BY DEF WinnerStands, Verdict, SideDestroyed, Active

\* What the types say of a step.
LEMMA StepTypes ==
    ASSUME SimInv, status = "running", NEW salvo, NEW us, NEW end, StepMakes(salvo, us, end),
           repeats' \in BOOLEAN
    PROVE  TypeOK'
<1>1. units' \in [Units -> UnitStates] /\ end.kept \in Seq(Missiles(projectile_seq'))
  BY DEF StepMakes, RoundHolds
<1>2. projectiles' \in Seq(Missiles(projectile_seq')) /\ Len(projectiles') <= Cap
  <2>1. projectiles' = Kept(end.kept)
    BY DEF StepMakes
  <2>2. Kept(end.kept) \in Seq(Missiles(projectile_seq')) /\ Len(Kept(end.kept)) <= Cap
    BY <1>1, KeptHolds
  <2> QED  BY <2>1, <2>2
<1>3. projectile_seq' \in 0 .. MaxShots
  BY DEF StepMakes
<1>4. status' \in {"running", "blue_victory", "red_victory"}
  BY VerdictStands DEF StepMakes
<1>5. IsABag(told') /\ BagToSet(told') \subseteq Events
  <2>1. ToSet(News(salvo, end)) \subseteq Events
    <3> DEFINE news == News(salvo, end)
    <3>1. news \in Seq(Events)
      BY NewsHolds
    <3> HIDE DEF news
    <3>2. DOMAIN news = 1 .. Len(news) /\ \A i \in 1 .. Len(news) : news[i] \in Events
      BY <3>1, LenProperties, ElementOfSeq
    <3>3. ToSet(news) \subseteq Events
      BY <3>2 DEF ToSet
    <3> QED  BY <3>3 DEF news
  <2>2. BagToSet(told) \subseteq Events
    BY DEF SimInv, TypeOK
  <2>3. IsABag(told') /\ BagToSet(told') = BagToSet(told) \cup ToSet(News(salvo, end))
    BY ToldGrows
  <2> QED  BY <2>1, <2>2, <2>3
<1> QED  BY <1>1, <1>2, <1>3, <1>4, <1>5 DEF TypeOK, UnitStates, Missiles

\* What was not told has no copies.
LEMMA Untold ==
    ASSUME NEW e, e \notin BagToSet(told)
    PROVE  Copies(told, e) = 0
BY DEF Copies, BagIn, BagToSet

\* The events go on telling the battle.
LEMMA StepTells ==
    ASSUME SimInv, status = "running", NEW salvo, NEW us, NEW end, StepMakes(salvo, us, end)
    PROVE  EventsTellBattle'
<1> DEFINE news == News(salvo, end)
           n == projectile_seq'
<1>1. /\ projectile_seq \in Nat /\ n \in Nat /\ projectile_seq <= n /\ n <= MaxShots /\ MaxShots \in Nat
      /\ units \in [Units -> UnitStates] /\ us \in [Units -> UnitStates] /\ units' \in [Units -> UnitStates]
      /\ \A u \in Units : us[u].status = units[u].status
  <2>1. projectile_seq \in Nat /\ MaxShots \in Nat /\ units \in [Units -> UnitStates]
    BY ConstantsAssumption DEF SimInv, TypeOK, UnitStates
  <2>2. salvo \in Seq(Missiles(n)) /\ n = projectile_seq + Len(salvo) /\ n \in 0 .. MaxShots
    BY DEF StepMakes
  <2>3. Len(salvo) \in Nat
    BY <2>2, LenProperties
  <2> HIDE DEF n
  <2>4. n \in Nat /\ projectile_seq <= n /\ n <= MaxShots
    BY <2>1, <2>2, <2>3
  <2> QED  BY <2>1, <2>4 DEF StepMakes, RoundHolds
<1>2. /\ \A k \in 1 .. projectile_seq : /\ Told("WEAPON_FIRED", k) = 1
                                        /\ Told("PROJECTILE_HIT", k) \in {0, 1}
      /\ \A u \in Units :
            Told("UNIT_DESTROYED", u) = IF units[u].status = "destroyed" THEN 1 ELSE 0
      /\ Told("BATTLE_ENDED", None) = 0
  BY DEF SimInv, EventsTellBattle
<1>3. ASSUME NEW type, NEW of, Event(type, of) \in Events
      PROVE  Told(type, of)' = Told(type, of) + (IF Event(type, of) \in ToSet(news) THEN 1 ELSE 0)
  <2>1. \A e \in Events : Copies(told', e) = Copies(told, e) + (IF e \in ToSet(news) THEN 1 ELSE 0)
    BY ToldGrows
  <2>2. Told(type, of)' = Copies(told', Event(type, of))
    BY DEF Told, Event, Copies, BagIn, BagToSet
  <2> QED  BY <1>3, <2>1, <2>2 DEF Told
<1>4. ToSet(news) = {Event("WEAPON_FIRED", k) : k \in (projectile_seq + 1) .. n}
                    \cup ToSet(end.events)
                    \cup (IF status' = "running" THEN {} ELSE {Event("BATTLE_ENDED", None)})
  BY NewsHolds
<1>5. \A e \in ToSet(end.events) :
         \/ /\ e.type = "PROJECTILE_HIT"
            /\ \E q \in ToSet(end.kept) : q.id = e.of /\ q.status = "hit"
         \/ /\ e.type = "UNIT_DESTROYED"
            /\ us[e.of].status = "active" /\ units'[e.of].status = "destroyed"
  BY DEF StepMakes, RoundHolds
<1>6. \A k : k \in 1 .. MaxShots =>
              Event("WEAPON_FIRED", k) \in Events /\ Event("PROJECTILE_HIT", k) \in Events
  BY DEF Event, Events
<1>7. Event("BATTLE_ENDED", None) \in Events /\ \A u \in Units : Event("UNIT_DESTROYED", u) \in Events
  BY DEF Event, Events
<1>8. \A type, of : Event(type, of).type = type /\ Event(type, of).of = of
  BY DEF Event
<1> HIDE DEF news, n
<1>9. ASSUME NEW k \in 1 .. n, k > projectile_seq
      PROVE  Told("WEAPON_FIRED", k) = 0 /\ Told("PROJECTILE_HIT", k) = 0
  <2>1. ~(k <= projectile_seq)
    BY <1>1, <1>9
  <2>2. Event("WEAPON_FIRED", k) \notin BagToSet(told) /\ Event("PROJECTILE_HIT", k) \notin BagToSet(told)
    BY <1>8, <2>1 DEF SimInv, LineHolds
  <2> QED  BY <2>2, Untold DEF Told
<1>10. ASSUME NEW k \in 1 .. n PROVE Told("WEAPON_FIRED", k)' = 1
  <2>1. Event("WEAPON_FIRED", k) \in ToSet(news) <=> k \in (projectile_seq + 1) .. n
    BY <1>4, <1>5, <1>8
  <2>2. k \in 1 .. MaxShots
    BY <1>1
  <2>3. Told("WEAPON_FIRED", k)' = Told("WEAPON_FIRED", k) + (IF k \in (projectile_seq + 1) .. n THEN 1 ELSE 0)
    BY <1>3, <1>6, <2>1, <2>2
  <2>4. CASE k <= projectile_seq
    <3>1. Told("WEAPON_FIRED", k) = 1 /\ k \notin (projectile_seq + 1) .. n
      BY <1>1, <1>2, <2>4
    <3> QED  BY <2>3, <3>1
  <2>5. CASE k > projectile_seq
    <3>1. Told("WEAPON_FIRED", k) = 0 /\ k \in (projectile_seq + 1) .. n
      BY <1>1, <1>9, <2>5
    <3> QED  BY <2>3, <3>1
  <2> QED  BY <1>1, <2>4, <2>5
<1>11. ASSUME NEW k \in 1 .. n PROVE Told("PROJECTILE_HIT", k)' \in {0, 1}
  <2>1. k \in 1 .. MaxShots
    BY <1>1
  <2>2. Told("PROJECTILE_HIT", k)' = Told("PROJECTILE_HIT", k)
                                     + (IF Event("PROJECTILE_HIT", k) \in ToSet(news) THEN 1 ELSE 0)
    BY <1>3, <1>6, <2>1
  <2>3. CASE Event("PROJECTILE_HIT", k) \in ToSet(news)
    <3>1. PICK q \in ToSet(end.kept) : q.id = k
      BY <1>4, <1>5, <1>8, <2>3
    <3>2. Event("PROJECTILE_HIT", k) \notin BagToSet(told)
      BY <3>1, NotHitBefore
    <3>3. Told("PROJECTILE_HIT", k) = 0
      BY <3>2, Untold DEF Told
    <3> QED  BY <2>2, <2>3, <3>3
  <2>4. CASE Event("PROJECTILE_HIT", k) \notin ToSet(news)
    <3>1. Told("PROJECTILE_HIT", k) \in {0, 1}
      BY <1>1, <1>2, <1>9
    <3> QED  BY <2>2, <2>4, <3>1
  <2> QED  BY <2>3, <2>4
<1>12. ASSUME NEW u \in Units
       PROVE  Told("UNIT_DESTROYED", u)' = IF units'[u].status = "destroyed" THEN 1 ELSE 0
  <2>1. Told("UNIT_DESTROYED", u)' = Told("UNIT_DESTROYED", u)
                                     + (IF Event("UNIT_DESTROYED", u) \in ToSet(news) THEN 1 ELSE 0)
    BY <1>3, <1>7
  <2>2. Event("UNIT_DESTROYED", u) \in ToSet(news) <=> Event("UNIT_DESTROYED", u) \in ToSet(end.events)
    BY <1>4, <1>8
  <2>3. /\ us[u].status = "active" /\ units'[u].status = "destroyed" =>
              Event("UNIT_DESTROYED", u) \in ToSet(end.events)
        /\ us[u].status = "destroyed" => units'[u].status = "destroyed"
    BY DEF StepMakes, RoundHolds
  <2>4. Event("UNIT_DESTROYED", u) \in ToSet(end.events) =>
           us[u].status = "active" /\ units'[u].status = "destroyed"
    BY <1>5, <1>8
  <2>5. /\ units[u].status \in {"active", "destroyed"} /\ us[u].status = units[u].status
        /\ Told("UNIT_DESTROYED", u) = IF units[u].status = "destroyed" THEN 1 ELSE 0
    BY <1>1, <1>2 DEF UnitStates
  <2> QED  BY <2>1, <2>2, <2>3, <2>4, <2>5
<1>13. Told("BATTLE_ENDED", None)' = IF status' = "running" THEN 0 ELSE 1
  <2>1. Event("BATTLE_ENDED", None) \in ToSet(news) <=> status' # "running"
    BY <1>4, <1>5, <1>8
  <2>2. Told("BATTLE_ENDED", None)' = Told("BATTLE_ENDED", None)
                                      + (IF Event("BATTLE_ENDED", None) \in ToSet(news) THEN 1 ELSE 0)
    BY <1>3, <1>7
  <2> QED  BY <1>2, <2>1, <2>2
<1> QED  BY <1>10, <1>11, <1>12, <1>13 DEF EventsTellBattle, n

\* A projectile that flew is among those the loop leaves.
LEMMA EndOfFlight ==
    ASSUME SimInv, NEW salvo, NEW us, NEW end, StepMakes(salvo, us, end), NEW p \in Flying(projectiles)
    PROVE  \E q \in ToSet(end.kept) : q.id = p.id
<1> DEFINE ps == projectiles \o salvo
<1>1. projectiles \in Seq(Missiles(projectile_seq)) /\ salvo \in Seq(Missiles(projectile_seq'))
  BY ConstantsAssumption DEF SimInv, TypeOK, Missiles, StepMakes
<1>2. PICK j \in 1 .. Len(projectiles) : projectiles[j] = p /\ p.status = "flying"
  <2>1. DOMAIN projectiles = 1 .. Len(projectiles)
    BY <1>1, LenProperties
  <2> QED  BY <2>1 DEF Flying, ToSet
<1>3. j \in 1 .. Len(ps) /\ ps[j] = projectiles[j]
  <2> DEFINE T == Missiles(projectile_seq) \cup Missiles(projectile_seq')
  <2>1. projectiles \in Seq(T) /\ salvo \in Seq(T)
    <3>1. Missiles(projectile_seq) \subseteq T /\ Missiles(projectile_seq') \subseteq T
      OBVIOUS
    <3> HIDE DEF T
    <3> QED  BY <1>1, <3>1, SeqMonotonic
  <2> HIDE DEF T, ps
  <2>2. /\ Len(ps) = Len(projectiles) + Len(salvo) /\ Len(projectiles) \in Nat /\ Len(salvo) \in Nat
        /\ \A i \in 1 .. (Len(projectiles) + Len(salvo)) :
              ps[i] = IF i <= Len(projectiles) THEN projectiles[i] ELSE salvo[i - Len(projectiles)]
    BY <2>1, ConcatProperties, LenProperties DEF ps
  <2> QED  BY <2>2
<1>4. \A i \in 1 .. Len(ps) : ps[i].status = "flying" => \E q \in ToSet(end.kept) : q.id = ps[i].id
  BY DEF StepMakes, RoundHolds
<1> HIDE DEF ps
<1> QED  BY <1>2, <1>3, <1>4

\* The list goes on to hold different projectiles, and none that flies has hit.
LEMMA StepKeepsLine ==
    ASSUME SimInv, NEW salvo, NEW us, NEW end, StepMakes(salvo, us, end)
    PROVE  LineHolds'
<1> DEFINE n == projectile_seq'
<1>1. /\ projectile_seq \in Nat /\ n \in Nat /\ projectile_seq <= n
  <2>1. projectile_seq \in Nat /\ MaxShots \in Nat
    BY ConstantsAssumption DEF SimInv, TypeOK
  <2>2. salvo \in Seq(Missiles(n)) /\ n = projectile_seq + Len(salvo) /\ n \in 0 .. MaxShots
    BY DEF StepMakes
  <2>3. Len(salvo) \in Nat
    BY <2>2, LenProperties
  <2> HIDE DEF n
  <2> QED  BY <2>1, <2>2, <2>3
<1>2. /\ end.kept \in Seq(Missiles(n)) /\ DistinctIds(end.kept)
      /\ \A e \in ToSet(end.events) :
            \/ /\ e.type = "PROJECTILE_HIT"
               /\ \E q \in ToSet(end.kept) : q.id = e.of /\ q.status = "hit"
            \/ e.type = "UNIT_DESTROYED"
      /\ projectiles' = Kept(end.kept)
  BY DEF StepMakes, RoundHolds
<1>3. ToSet(projectiles') \subseteq ToSet(end.kept) /\ DistinctIds(projectiles')
  <2>1. ToSet(Kept(end.kept)) \subseteq ToSet(end.kept) /\ DistinctIds(Kept(end.kept))
    BY <1>2, KeptHolds
  <2> QED  BY <1>2, <2>1
<1>4. BagToSet(told') = BagToSet(told)
                        \cup {Event("WEAPON_FIRED", k) : k \in (projectile_seq + 1) .. n}
                        \cup ToSet(end.events)
                        \cup (IF status' = "running" THEN {} ELSE {Event("BATTLE_ENDED", None)})
  <2>1. BagToSet(told') = BagToSet(told) \cup ToSet(News(salvo, end))
    BY ToldGrows
  <2>2. ToSet(News(salvo, end)) = {Event("WEAPON_FIRED", k) : k \in (projectile_seq + 1) .. n}
                                  \cup ToSet(end.events)
                                  \cup (IF status' = "running" THEN {} ELSE {Event("BATTLE_ENDED", None)})
    BY NewsHolds
  <2> QED  BY <2>1, <2>2
<1> HIDE DEF n
<1>5. \A type, of : Event(type, of).type = type /\ Event(type, of).of = of
  BY DEF Event
<1>6. ASSUME NEW p \in ToSet(projectiles'), p.status = "flying"
      PROVE  Event("PROJECTILE_HIT", p.id) \notin BagToSet(told')
  <2>1. p \in ToSet(end.kept)
    BY <1>3
  <2>2. Event("PROJECTILE_HIT", p.id) \notin BagToSet(told)
    BY <2>1, NotHitBefore
  <2>3. \A q \in ToSet(end.kept) : q.id = p.id => q = p
    BY <1>2, <2>1 DEF ToSet, DistinctIds
  <2>4. Event("PROJECTILE_HIT", p.id) \notin ToSet(end.events)
    BY <1>2, <1>5, <1>6, <2>3
  <2> QED  BY <1>4, <1>5, <2>2, <2>4
<1>7. \A q \in ToSet(end.kept) : q.id \in 1 .. n
  <2>1. DOMAIN end.kept = 1 .. Len(end.kept) /\ \A i \in 1 .. Len(end.kept) : end.kept[i] \in Missiles(n)
    BY <1>2, LenProperties, ElementOfSeq
  <2> QED  BY <2>1 DEF ToSet, Missiles
<1>8. ASSUME NEW e \in BagToSet(told'), e.type \in {"WEAPON_FIRED", "PROJECTILE_HIT"}
      PROVE  e.of <= n
  <2>1. CASE e \in BagToSet(told)
    <3>1. e.of <= projectile_seq
      BY <1>8, <2>1 DEF SimInv, LineHolds
    <3>2. e.of \in Int
      <4>1. e \in Events
        BY <2>1 DEF SimInv, TypeOK
      <4>2. MaxShots \in Nat
        BY ConstantsAssumption
      <4> QED  BY <1>8, <4>1, <4>2 DEF Events
    <3> QED  BY <1>1, <3>1, <3>2
  <2>2. CASE e \in {Event("WEAPON_FIRED", k) : k \in (projectile_seq + 1) .. n}
    BY <1>1, <1>5, <2>2
  <2>3. CASE e \in ToSet(end.events)
    BY <1>2, <1>7, <1>8, <2>3
  <2>4. CASE e = Event("BATTLE_ENDED", None)
    BY <1>5, <1>8, <2>4
  <2> QED  BY <1>4, <2>1, <2>2, <2>3, <2>4
<1> QED  BY <1>3, <1>6, <1>8 DEF LineHolds, Flying, n

\* Nothing is told and nothing flies at the start, where both sides stand.
LEMMA InitHolds == Init => SimInv
<1> SUFFICES ASSUME Init PROVE SimInv
  OBVIOUS
<1>1. MaxShots \in Nat /\ MaxHp \in Nat /\ Cooldown \in Nat \ {0} /\ Cap \in Nat \ {0}
  BY ConstantsAssumption
<1>2. BagToSet(told) = {} /\ IsABag(told)
  BY DEF Init, EmptyBag, SetToBag, BagToSet, IsABag
<1>3. TypeOK
  <2>1. units \in [Units -> [hp : 0 .. MaxHp, cooldown : 0 .. Cooldown, status : {"active", "destroyed"}]]
    BY <1>1 DEF Init
  <2>2. \A T : projectiles \in Seq(T)
    BY EmptySeq DEF Init
  <2>3. Len(projectiles) <= Cap /\ projectile_seq \in 0 .. MaxShots
    BY <1>1, EmptySeq DEF Init
  <2>4. status = "running" /\ repeats = FALSE
    BY DEF Init
  <2> QED  BY <1>2, <2>1, <2>2, <2>3, <2>4 DEF TypeOK
<1>4. \A type, of : Told(type, of) = 0
  BY <1>2 DEF Told, Copies, BagIn
<1>5. EventsTellBattle
  BY <1>4 DEF Init, EventsTellBattle
<1>6. ToSet(Blue) # {} /\ ToSet(Red) # {} /\ ToSet(Blue) \subseteq Units /\ ToSet(Red) \subseteq Units
  <2>1. /\ Blue \in Seq(Units) /\ Red \in Seq(Units) /\ Len(Blue) > 0 /\ Len(Red) > 0
    BY ConstantsAssumption
  <2> HIDE DEF Units
  <2>2. /\ DOMAIN Blue = 1 .. Len(Blue) /\ DOMAIN Red = 1 .. Len(Red) /\ Len(Blue) \in Nat /\ Len(Red) \in Nat
        /\ \A i \in 1 .. Len(Blue) : Blue[i] \in Units
        /\ \A i \in 1 .. Len(Red) : Red[i] \in Units
    BY <2>1, LenProperties, ElementOfSeq
  <2>3. 1 \in DOMAIN Blue /\ 1 \in DOMAIN Red
    BY <2>1, <2>2
  <2> QED  BY <2>2, <2>3 DEF ToSet
<1>7. WinnerStands
  BY <1>6 DEF Init, WinnerStands, SideDestroyed, Active
<1>8. LineHolds
  BY <1>2 DEF Init, LineHolds, DistinctIds, Flying, ToSet
<1> QED  BY <1>3, <1>5, <1>7, <1>8 DEF SimInv

\* Every step keeps the invariant.
LEMMA NextHolds == SimInv /\ [Next]_vars => SimInv'
<1> SUFFICES ASSUME SimInv, [Next]_vars PROVE SimInv'
  OBVIOUS
<1>1. CASE Next
  <2>1. Step /\ status = "running"
    BY <1>1 DEF Next
  <2>2. PICK salvo, us, end : StepMakes(salvo, us, end)
    BY <2>1, StepFacts
  <2>3. repeats' \in BOOLEAN
    BY <2>1 DEF Step, Repeats
  <2>4. TypeOK'
    BY <2>1, <2>2, <2>3, StepTypes
  <2>5. EventsTellBattle'
    BY <2>1, <2>2, StepTells
  <2>6. WinnerStands'
    <3>1. status' = Verdict(units')
      BY <2>2 DEF StepMakes
    <3> QED  BY <2>1, <3>1, VerdictStands
  <2>7. LineHolds'
    BY <2>2, StepKeepsLine
  <2> QED  BY <2>4, <2>5, <2>6, <2>7 DEF SimInv
<1>2. CASE UNCHANGED vars
  <2>1. TypeOK'
    BY <1>2 DEF SimInv, vars, TypeOK
  <2>2. EventsTellBattle'
    BY <1>2 DEF SimInv, vars, EventsTellBattle, Told
  <2>3. WinnerStands'
    BY <1>2 DEF SimInv, vars, WinnerStands, SideDestroyed, Active
  <2>4. LineHolds'
    BY <1>2 DEF SimInv, vars, LineHolds
  <2> QED  BY <2>1, <2>2, <2>3, <2>4 DEF SimInv
<1> QED  BY <1>1, <1>2

\* The invariant holds of every battle: of every run_battle_simulator.
THEOREM SimSafe == Spec => []SimInv
<1> QED  BY InitHolds, NextHolds, PTL DEF Spec

\* However the places fall, every report tells of the battle as it went: a shot, a hit,
\* the end of a unit and that of the battle are told once each, and the winner named is
\* the side that stands (step, _fire, _advance_projectiles).
THEOREM BattleSimEvents == Spec => [](TypeOK /\ EventsTellBattle /\ WinnerStands)
<1>1. SimInv => TypeOK /\ EventsTellBattle /\ WinnerStands
  BY DEF SimInv
<1> QED  BY <1>1, SimSafe, PTL

\* A flight that was reported is reported once more, in the step that ends it too,
\* unless the limit on the list cuts it off (_advance_projectiles).
THEOREM BattleSimFlights == Spec => FlightsAreClosed
<1>1. SimInv /\ [Next]_vars =>
        [\A p \in Flying(projectiles) :
            \/ Len(projectiles') = Cap
            \/ \E q \in ToSet(projectiles') : q.id = p.id]_vars
  <2> SUFFICES ASSUME SimInv, Next, NEW p \in Flying(projectiles)
               PROVE  \/ Len(projectiles') = Cap
                      \/ \E q \in ToSet(projectiles') : q.id = p.id
    OBVIOUS
  <2>1. PICK salvo, us, end : StepMakes(salvo, us, end)
    BY StepFacts DEF Next
  <2>2. \E q \in ToSet(end.kept) : q.id = p.id
    BY <2>1, EndOfFlight
  <2>3. projectiles' = Kept(end.kept) /\ end.kept \in Seq(Missiles(projectile_seq'))
    BY <2>1 DEF StepMakes, RoundHolds
  <2>4. Kept(end.kept) = end.kept \/ Len(Kept(end.kept)) = Cap
    BY <2>3, KeptHolds
  <2> QED  BY <2>2, <2>3, <2>4
<1> QED  BY <1>1, SimSafe, PTL DEF Spec, FlightsAreClosed

\* A destroyed unit neither shoots nor is hit nor comes back, whatever was in the air
\* when it went (_scan, _advance_projectiles).
THEOREM BattleSimWrecks == Spec => WrecksStayOut
<1>1. SimInv /\ [Next]_vars =>
        [\A u \in Units : units[u].status = "destroyed" =>
            /\ units'[u].status = "destroyed"
            /\ \A p \in ToSet(projectiles') :
                  /\ p.source = u => p.id <= projectile_seq
                  /\ p.target = u => p.id <= projectile_seq /\ p.status # "hit"]_vars
  <2> SUFFICES ASSUME SimInv, Next, NEW u \in Units, units[u].status = "destroyed"
               PROVE  /\ units'[u].status = "destroyed"
                      /\ \A p \in ToSet(projectiles') :
                            /\ p.source = u => p.id <= projectile_seq
                            /\ p.target = u => p.id <= projectile_seq /\ p.status # "hit"
    OBVIOUS
  <2>1. PICK salvo, us, end : StepMakes(salvo, us, end)
    BY StepFacts DEF Next
  <2>2. us[u].status = "destroyed" /\ units'[u].status = "destroyed"
    BY <2>1 DEF StepMakes, RoundHolds
  <2>3. ASSUME NEW p \in ToSet(projectiles')
        PROVE  /\ p.source = u => p.id <= projectile_seq
               /\ p.target = u => p.id <= projectile_seq /\ p.status # "hit"
    <3>1. projectiles' = Kept(end.kept) /\ end.kept \in Seq(Missiles(projectile_seq'))
      BY <2>1 DEF StepMakes, RoundHolds
    <3>2. p \in ToSet(end.kept)
      BY <3>1, KeptHolds
    <3>3. p.status = "hit" => us[p.target].status = "active"
      BY <2>1, <3>2 DEF StepMakes, RoundHolds
    <3>4. CASE \E q \in Flying(projectiles) : p.id = q.id
      <4>1. \A q \in Flying(projectiles) : q.id <= projectile_seq
        <5>1. projectiles \in Seq(Missiles(projectile_seq)) /\ projectile_seq \in Nat
          BY ConstantsAssumption DEF SimInv, TypeOK, Missiles
        <5>2. /\ DOMAIN projectiles = 1 .. Len(projectiles)
              /\ \A i \in 1 .. Len(projectiles) : projectiles[i] \in Missiles(projectile_seq)
          BY <5>1, LenProperties, ElementOfSeq
        <5> QED  BY <5>1, <5>2 DEF Flying, ToSet, Missiles
      <4> QED  BY <2>2, <3>3, <3>4, <4>1
    <3>5. CASE Active(units, p.source) /\ Active(units, p.target)
      BY <3>5 DEF Active
    <3> QED  BY <2>1, <3>2, <3>4, <3>5, LeftInFlight
  <2> QED  BY <2>2, <2>3
<1> QED  BY <1>1, SimSafe, PTL DEF Spec, WrecksStayOut
=============================================================================
