------------------------ MODULE ReconciliationProofs ------------------------
(***************************************************************************)
(* Proofs about Reconciliation, for all values of its constants: how many  *)
(* steps are counted, and where the players are after any number of them.  *)
(***************************************************************************)
EXTENDS Reconciliation, InputSyncProofs, WellFoundedInduction

USE MotionAssumption, DirectionAssumption
    DEF MotionAssumption, DirectionAssumption

\* Player::Update gives a player.
LEMMA MoveType ==
  ASSUME NEW p \in Player, NEW d \in Directions
  PROVE  Move(p, d) \in Player
<1>1. p.pos \in Int /\ p.vel \in Int /\ d \in Int
  BY DEF Player, Directions
<1>2. \A v \in Int : Abs(v) \in Int /\ Sign(v) \in {-1, 0, 1}
  BY DEF Abs, Sign
<1>3. \A v \in Int : Capped(v) \in Int
  BY <1>2 DEF Capped
<1>4. \A v \in Int : Damped(v) \in Int
  BY <1>2 DEF Damped
<1>5. p.vel + d * Acceleration \in Int
  BY <1>1 DEF Directions
<1> QED
  BY <1>1, <1>3, <1>4, <1>5 DEF Move, Player

LEMMA DirectionType ==
  ASSUME NEW c \in Controls PROVE Direction[c] \in Directions
  OBVIOUS
-----------------------------------------------------------------------------
(***************************************************************************)
(* Run, Replayed and Path are defined by recursion.  Induction over the    *)
(* numbers is stated for a set, with the least number that is not in it.   *)
(***************************************************************************)
LEMMA SetInduction ==
  ASSUME NEW S, 0 \in S, \A n \in Nat : n \in S => n + 1 \in S
  PROVE  Nat \subseteq S
<1> DEFINE Less == {pair \in Nat \X Nat : pair[1] < pair[2]}
           T == Nat \ S
<1>1. IsWellFoundedOn(Less, Nat)
  BY NatLessThanWellFounded DEF OpToRel
<1> SUFFICES ASSUME T # {} PROVE FALSE
  OBVIOUS
<1>2. T \subseteq Nat
  OBVIOUS
<1>3. PICK x \in T : \A y \in T : ~(<<y, x>> \in Less)
  <2> HIDE DEF Less, T
  <2> QED
    BY <1>1, <1>2, WFMin
<1>4. x \in Nat /\ x # 0 /\ x - 1 \in Nat /\ x - 1 < x /\ (x - 1) + 1 = x
  OBVIOUS
<1>5. <<x - 1, x>> \in Less
  BY <1>4
<1>6. x - 1 \in S
  BY <1>3, <1>4, <1>5
<1> QED
  BY <1>4, <1>6

\* f[i] is where the first i of the steps "step" lead from p.
Follows(f, n, p, step) ==
  f = [i \in 0 .. n |-> IF i = 0 THEN p ELSE step[i][f[i - 1]]]

\* The steps lead somewhere: the recursion defines a function.
LEMMA StepsLead ==
  ASSUME NEW S, NEW p \in S, NEW n \in Nat, NEW step \in [1 .. n -> [S -> S]]
  PROVE  \E f \in [0 .. n -> S] : Follows(f, n, p, step)
<1> DEFINE N == {m \in Nat : m <= n => \E f \in [0 .. m -> S] :
                                           Follows(f, m, p, step)}
<1>1. 0 \in N
  <2> DEFINE f == [i \in 0 .. 0 |-> p]
  <2>1. Follows(f, 0, p, step) /\ f \in [0 .. 0 -> S]
    BY DEF Follows
  <2> QED
    BY <2>1
<1>2. ASSUME NEW m \in Nat, m \in N PROVE m + 1 \in N
  <2> SUFFICES ASSUME m + 1 <= n
               PROVE  \E f \in [0 .. m + 1 -> S] : Follows(f, m + 1, p, step)
    OBVIOUS
  <2>1. PICK f \in [0 .. m -> S] : Follows(f, m, p, step)
    BY <1>2
  <2> DEFINE g == [i \in 0 .. m + 1 |-> IF i = m + 1 THEN step[m + 1][f[m]]
                                                     ELSE f[i]]
  <2>2. /\ \A i \in 0 .. m : i \in 0 .. m + 1 /\ i # m + 1
        /\ \A i \in 0 .. m + 1 : i \in 0 .. m \/ i = m + 1
        /\ \A i \in 0 .. m : i = 0 \/ i - 1 \in 0 .. m
        /\ m \in 0 .. m /\ m + 1 \in 1 .. n /\ m + 1 # 0 /\ (m + 1) - 1 = m
    OBVIOUS
  <2>3. g \in [0 .. m + 1 -> S]
    <3>1. step[m + 1][f[m]] \in S
      BY <2>2
    <3> QED
      BY <2>2, <3>1
  <2>4. \A i \in 0 .. m + 1 : g[i] = IF i = 0 THEN p ELSE step[i][g[i - 1]]
    <3> SUFFICES ASSUME NEW i \in 0 .. m + 1
                 PROVE  g[i] = IF i = 0 THEN p ELSE step[i][g[i - 1]]
      OBVIOUS
    <3>1. CASE i = m + 1
      <4>1. g[i] = step[m + 1][f[m]] /\ g[m] = f[m] /\ i - 1 = m /\ i # 0
        BY <2>2, <3>1
      <4> QED
        BY <3>1, <4>1
    <3>2. CASE i \in 0 .. m
      <4>1. g[i] = f[i] /\ f[i] = IF i = 0 THEN p ELSE step[i][f[i - 1]]
        BY <2>1, <2>2, <3>2 DEF Follows
      <4>2. i # 0 => g[i - 1] = f[i - 1]
        BY <2>2, <3>2
      <4> QED
        BY <4>1, <4>2
    <3> QED
      BY <2>2, <3>1, <3>2
  <2>5. Follows(g, m + 1, p, step)
    BY <2>4 DEF Follows
  <2> QED
    BY <2>3, <2>5
<1> HIDE DEF N
<1>3. Nat \subseteq N
  BY <1>1, <1>2, SetInduction
<1> QED
  BY <1>3 DEF N

IsRun(f, n, p, d) ==
  f = [i \in 0 .. n |-> IF i = 0 THEN p ELSE Move(f[i - 1], d)]

LEMMA IsRunFacts ==
  ASSUME NEW n \in Nat, NEW f, NEW p, NEW d, IsRun(f, n, p, d)
  PROVE  f[0] = p /\ \A i \in 1 .. n : f[i] = Move(f[i - 1], d)
<1>1. 0 \in 0 .. n /\ \A i \in 1 .. n : i \in 0 .. n /\ i # 0
  OBVIOUS
<1> QED
  BY <1>1 DEF IsRun

LEMMA RunExists ==
  ASSUME NEW p \in Player, NEW d \in Directions, NEW n \in Nat
  PROVE  \E f \in [0 .. n -> Player] : IsRun(f, n, p, d)
<1> DEFINE step == [i \in 1 .. n |-> [q \in Player |-> Move(q, d)]]
<1>1. step \in [1 .. n -> [Player -> Player]]
  BY MoveType
<1>2. PICK f \in [0 .. n -> Player] : Follows(f, n, p, step)
  <2> HIDE DEF step
  <2> QED
    BY <1>1, StepsLead
<1>3. \A i \in 0 .. n : i # 0 => i \in 1 .. n /\ i - 1 \in 0 .. n
  OBVIOUS
<1>4. \A i \in 0 .. n : i # 0 => step[i][f[i - 1]] = Move(f[i - 1], d)
  BY <1>3
<1> HIDE DEF step
<1>5. IsRun(f, n, p, d)
  <2>1. f = [i \in 0 .. n |-> IF i = 0 THEN p ELSE step[i][f[i - 1]]]
    BY <1>2 DEF Follows
  <2>2. [i \in 0 .. n |-> IF i = 0 THEN p ELSE step[i][f[i - 1]]]
          = [i \in 0 .. n |-> IF i = 0 THEN p ELSE Move(f[i - 1], d)]
    BY <1>4
  <2> QED
    BY <2>1, <2>2 DEF IsRun
<1> QED
  BY <1>5

\* A longer run begins with the shorter one.
LEMMA RunsAgree ==
  ASSUME NEW n \in Nat, NEW m \in Nat, m <= n, NEW p, NEW d,
         NEW f, IsRun(f, n, p, d), NEW g, IsRun(g, m, p, d)
  PROVE  \A i \in 0 .. m : f[i] = g[i]
<1> DEFINE N == {i \in Nat : i <= m => f[i] = g[i]}
<1>1. 0 \in N
  BY IsRunFacts
<1>2. ASSUME NEW i \in Nat, i \in N PROVE i + 1 \in N
  <2> SUFFICES ASSUME i + 1 <= m PROVE f[i + 1] = g[i + 1]
    OBVIOUS
  <2>1. /\ i <= m /\ i + 1 \in 1 .. m /\ i + 1 \in 1 .. n
        /\ (i + 1) - 1 = i
    OBVIOUS
  <2>2. f[i] = g[i]
    BY <1>2, <2>1
  <2> QED
    BY <2>1, <2>2, IsRunFacts
<1> HIDE DEF N
<1>3. Nat \subseteq N
  BY <1>1, <1>2, SetInduction
<1> QED
  BY <1>3 DEF N

LEMMA RunIs ==
  ASSUME NEW p \in Player, NEW d \in Directions, NEW n \in Nat
  PROVE  /\ \E f \in [0 .. n -> Player] :
              IsRun(f, n, p, d) /\ Run(p, d, n) = f[n]
         /\ n = 0 => Run(p, d, n) = p
<1> DEFINE after[i \in 0 .. n] == IF i = 0 THEN p ELSE Move(after[i - 1], d)
<1>1. PICK g \in [0 .. n -> Player] : IsRun(g, n, p, d)
  BY RunExists
<1>2. IsRun(after, n, p, d)
  BY <1>1 DEF IsRun
<1>3. Run(p, d, n) = after[n]
  BY DEF Run
<1> HIDE DEF after
<1>4. \A i \in 0 .. n : after[i] = g[i]
  <2>1. n <= n
    OBVIOUS
  <2> QED
    BY <1>1, <1>2, <2>1, RunsAgree
<1>5. after \in [0 .. n -> Player]
  BY <1>1, <1>2, <1>4 DEF IsRun
<1>6. after[0] = p
  BY <1>2, IsRunFacts
<1> QED
  BY <1>2, <1>3, <1>5, <1>6

LEMMA RunFacts ==
  ASSUME NEW p \in Player, NEW d \in Directions, NEW n \in Nat
  PROVE  /\ Run(p, d, n) \in Player
         /\ Run(p, d, 0) = p
         /\ Run(p, d, n + 1) = Move(Run(p, d, n), d)
<1>1. PICK m \in Nat : m = n + 1
  OBVIOUS
<1>2. n <= m /\ m \in 1 .. m /\ m - 1 = n /\ 0 \in Nat /\ n \in 0 .. n
  BY <1>1
<1> DEFINE Runs(x) == \E f \in [0 .. x -> Player] :
                        IsRun(f, x, p, d) /\ Run(p, d, x) = f[x]
<1>3. \A x \in Nat : Runs(x)
  BY RunIs
<1>4. PICK f \in [0 .. n -> Player] : IsRun(f, n, p, d) /\ Run(p, d, n) = f[n]
  BY <1>3
<1>5. PICK g \in [0 .. m -> Player] : IsRun(g, m, p, d) /\ Run(p, d, m) = g[m]
  <2>1. Runs(m)
    BY <1>3
  <2> QED
    BY <2>1
<1>6. g[n] = f[n]
  BY <1>2, <1>4, <1>5, RunsAgree
<1>7. g[m] = Move(g[n], d)
  BY <1>2, <1>5, IsRunFacts
<1>8. Run(p, d, 0) = p
  BY <1>2, RunIs
<1> QED
  BY <1>1, <1>2, <1>4, <1>5, <1>6, <1>7, <1>8

IsThrough(f, k, p, d, n) ==
  f = [i \in 0 .. k |-> IF i = 0 THEN p ELSE Run(f[i - 1], d[i], n[i])]

\* Directions and steps for k periods.
Periods(d, n, k) == \A i \in 1 .. k : d[i] \in Directions /\ n[i] \in Nat

LEMMA IsThroughFacts ==
  ASSUME NEW k \in Nat, NEW f, NEW p, NEW d, NEW n, IsThrough(f, k, p, d, n)
  PROVE  f[0] = p /\ \A i \in 1 .. k : f[i] = Run(f[i - 1], d[i], n[i])
<1>1. 0 \in 0 .. k /\ \A i \in 1 .. k : i \in 0 .. k /\ i # 0
  OBVIOUS
<1> QED
  BY <1>1 DEF IsThrough

LEMMA ThroughExists ==
  ASSUME NEW k \in Nat, NEW p \in Player, NEW d, NEW n, Periods(d, n, k)
  PROVE  \E f \in [0 .. k -> Player] : IsThrough(f, k, p, d, n)
<1> DEFINE step == [i \in 1 .. k |-> [q \in Player |-> Run(q, d[i], n[i])]]
<1>1. step \in [1 .. k -> [Player -> Player]]
  BY RunFacts DEF Periods
<1>2. PICK f \in [0 .. k -> Player] : Follows(f, k, p, step)
  <2> HIDE DEF step
  <2> QED
    BY <1>1, StepsLead
<1>3. \A i \in 0 .. k : i # 0 => i \in 1 .. k /\ i - 1 \in 0 .. k
  OBVIOUS
<1>4. \A i \in 0 .. k : i # 0 => step[i][f[i - 1]] = Run(f[i - 1], d[i], n[i])
  BY <1>3
<1> HIDE DEF step
<1>5. IsThrough(f, k, p, d, n)
  <2>1. f = [i \in 0 .. k |-> IF i = 0 THEN p ELSE step[i][f[i - 1]]]
    BY <1>2 DEF Follows
  <2>2. [i \in 0 .. k |-> IF i = 0 THEN p ELSE step[i][f[i - 1]]]
          = [i \in 0 .. k |-> IF i = 0 THEN p ELSE Run(f[i - 1], d[i], n[i])]
    BY <1>4
  <2> QED
    BY <2>1, <2>2 DEF IsThrough
<1> QED
  BY <1>5

\* The first j periods decide where they lead.
LEMMA ThroughsAgree ==
  ASSUME NEW k \in Nat, NEW j \in Nat, j <= k, NEW p,
         NEW d, NEW n, NEW f, IsThrough(f, k, p, d, n),
         NEW d2, NEW n2, NEW g, IsThrough(g, j, p, d2, n2),
         \A i \in 1 .. j : d2[i] = d[i] /\ n2[i] = n[i]
  PROVE  \A i \in 0 .. j : f[i] = g[i]
<1> DEFINE N == {i \in Nat : i <= j => f[i] = g[i]}
<1>1. 0 \in N
  BY IsThroughFacts
<1>2. ASSUME NEW i \in Nat, i \in N PROVE i + 1 \in N
  <2> SUFFICES ASSUME i + 1 <= j PROVE f[i + 1] = g[i + 1]
    OBVIOUS
  <2>1. /\ i <= j /\ i + 1 \in 1 .. j /\ i + 1 \in 1 .. k
        /\ (i + 1) - 1 = i
    OBVIOUS
  <2>2. f[i] = g[i]
    BY <1>2, <2>1
  <2> QED
    BY <2>1, <2>2, IsThroughFacts
<1> HIDE DEF N
<1>3. Nat \subseteq N
  BY <1>1, <1>2, SetInduction
<1> QED
  BY <1>3 DEF N

LEMMA ThroughIs ==
  ASSUME NEW k \in Nat, NEW p \in Player, NEW d, NEW n, Periods(d, n, k)
  PROVE  /\ \E f \in [0 .. k -> Player] :
              IsThrough(f, k, p, d, n) /\ RunThrough(p, d, n, k) = f[k]
         /\ k = 0 => RunThrough(p, d, n, k) = p
<1> DEFINE after[i \in 0 .. k] ==
             IF i = 0 THEN p ELSE Run(after[i - 1], d[i], n[i])
<1>1. PICK g \in [0 .. k -> Player] : IsThrough(g, k, p, d, n)
  BY ThroughExists
<1>2. IsThrough(after, k, p, d, n)
  BY <1>1 DEF IsThrough
<1>3. RunThrough(p, d, n, k) = after[k]
  BY DEF RunThrough
<1> HIDE DEF after
<1>4. \A i \in 0 .. k : after[i] = g[i]
  <2>1. k <= k /\ \A i \in 1 .. k : d[i] = d[i] /\ n[i] = n[i]
    OBVIOUS
  <2> QED
    BY <1>1, <1>2, <2>1, ThroughsAgree
<1>5. after \in [0 .. k -> Player]
  BY <1>1, <1>2, <1>4 DEF IsThrough
<1>6. after[0] = p
  BY <1>2, IsThroughFacts
<1> QED
  BY <1>2, <1>3, <1>5, <1>6

LEMMA RunThroughFacts ==
  ASSUME NEW k \in Nat, NEW p \in Player, NEW d, NEW n, Periods(d, n, k)
  PROVE  /\ RunThrough(p, d, n, k) \in Player
         /\ k = 0 => RunThrough(p, d, n, k) = p
  BY ThroughIs

\* The last period is a run from where those before it lead; d2 and n2 may say
\* something else of what comes after these.
LEMMA LastPeriod ==
  ASSUME NEW k \in Nat \ {0}, NEW p \in Player, NEW d, NEW n, Periods(d, n, k),
         NEW d2, NEW n2, \A i \in 1 .. k - 1 : d2[i] = d[i] /\ n2[i] = n[i]
  PROVE  RunThrough(p, d, n, k) =
           Run(RunThrough(p, d2, n2, k - 1), d[k], n[k])
<1>1. /\ k - 1 \in Nat /\ k - 1 <= k /\ k - 1 \in 0 .. k - 1 /\ k \in 1 .. k
      /\ \A i \in 1 .. k - 1 : i \in 1 .. k
  OBVIOUS
<1>2. PICK m : m = k - 1
  OBVIOUS
<1>3. Periods(d2, n2, m)
  BY <1>1, <1>2 DEF Periods
<1>4. PICK f \in [0 .. k -> Player] :
        IsThrough(f, k, p, d, n) /\ RunThrough(p, d, n, k) = f[k]
  BY <1>1, ThroughIs
<1>5. PICK g \in [0 .. m -> Player] :
        IsThrough(g, m, p, d2, n2) /\ RunThrough(p, d2, n2, m) = g[m]
  <2>1. m \in Nat
    BY <1>1, <1>2
  <2> QED
    BY <1>3, <2>1, ThroughIs
<1>6. f[m] = g[m]
  <2>1. m \in Nat /\ m <= k /\ m \in 0 .. m
    BY <1>1, <1>2
  <2>2. \A i \in 1 .. m : d2[i] = d[i] /\ n2[i] = n[i]
    BY <1>2
  <2> QED
    BY <1>4, <1>5, <2>1, <2>2, ThroughsAgree
<1>7. f[k] = Run(f[k - 1], d[k], n[k])
  BY <1>1, <1>4, IsThroughFacts
<1> QED
  BY <1>2, <1>4, <1>5, <1>6, <1>7
-----------------------------------------------------------------------------
(***************************************************************************)
(* Where the inputs lead.                                                  *)
(***************************************************************************)
LEMMA PathPeriods ==
  ASSUME NEW s \in Seq(SentInput), NEW k \in 0 .. Len(s), NEW n \in Nat
  PROVE  Periods([i \in 1 .. k |-> Direction[s[i].state]],
                 [i \in 1 .. k |-> IF i = k THEN n ELSE s[i + 1].dur], k)
<1>1. PICK l \in Nat : l = Len(s)
  BY LenProperties
<1>2. \A i \in 1 .. l : s[i].state \in Controls /\ s[i].dur \in Nat
  <2>1. \A i \in 1 .. l : s[i] \in SentInput
    BY <1>1, ElementOfSeq
  <2> QED
    BY <2>1 DEF SentInput
<1>3. /\ \A i \in 1 .. k : i \in 1 .. l
      /\ \A i \in 1 .. k : i # k => i + 1 \in 1 .. l
  BY <1>1
<1> QED
  BY <1>2, <1>3, DirectionType DEF Periods

\* Where the inputs lead before the first, and with each further input.
LEMMA PathFacts ==
  ASSUME NEW s \in Seq(SentInput), NEW k \in 0 .. Len(s), NEW n \in Nat
  PROVE  /\ Path(s, k, n) \in Player
         /\ k = 0 => Path(s, k, n) = Start
         /\ k # 0 => Path(s, k, n) = Run(Path(s, k - 1, s[k].dur),
                                        Direction[s[k].state], n)
<1>1. PICK l \in Nat : l = Len(s)
  BY LenProperties
<1>2. k \in Nat /\ k <= l
  BY <1>1
<1>3. Start \in Player
  BY DEF Start, Player
<1>4. PICK d : d = [i \in 1 .. k |-> Direction[s[i].state]]
  OBVIOUS
<1>5. PICK m : m = [i \in 1 .. k |-> IF i = k THEN n ELSE s[i + 1].dur]
  OBVIOUS
<1>6. Periods(d, m, k) /\ Path(s, k, n) = RunThrough(Start, d, m, k)
  BY <1>4, <1>5, PathPeriods DEF Path
<1>7. ASSUME k # 0
      PROVE  Path(s, k, n) = Run(Path(s, k - 1, s[k].dur),
                                 Direction[s[k].state], n)
  <2>1. PICK j : j = k - 1
    OBVIOUS
  <2>2. PICK d2 : d2 = [i \in 1 .. j |-> Direction[s[i].state]]
    OBVIOUS
  <2>3. PICK m2 : m2 = [i \in 1 .. j |-> IF i = j THEN s[k].dur
                                         ELSE s[i + 1].dur]
    OBVIOUS
  <2>4. /\ \A i \in 1 .. j : i \in 1 .. k /\ i # k /\ (i = j => i + 1 = k)
        /\ k \in 1 .. k /\ k \in Nat \ {0}
    BY <1>2, <1>7, <2>1
  <2>5. \A i \in 1 .. j : d2[i] = d[i] /\ m2[i] = m[i]
    BY <1>4, <1>5, <2>2, <2>3, <2>4
  <2>6. d[k] = Direction[s[k].state] /\ m[k] = n
    BY <1>4, <1>5, <2>4
  <2>7. Path(s, j, s[k].dur) = RunThrough(Start, d2, m2, j)
    BY <2>2, <2>3 DEF Path
  <2>8. RunThrough(Start, d, m, k) =
          Run(RunThrough(Start, d2, m2, j), d[k], m[k])
    BY <1>3, <1>6, <2>1, <2>4, <2>5, LastPeriod
  <2> QED
    BY <1>6, <2>1, <2>6, <2>7, <2>8
<1> QED
  BY <1>2, <1>3, <1>6, <1>7, RunThroughFacts

\* The path up to the k-th input is that of the first k inputs.
LEMMA PathAgrees ==
  ASSUME NEW s \in Seq(SentInput), NEW t \in Seq(SentInput),
         NEW k \in Nat, NEW n, \A i \in 1 .. k : s[i] = t[i]
  PROVE  Path(s, k, n) = Path(t, k, n)
<1>1. \A i \in 1 .. k : i # k => i + 1 \in 1 .. k
  OBVIOUS
<1>2. [i \in 1 .. k |-> Direction[s[i].state]]
        = [i \in 1 .. k |-> Direction[t[i].state]]
  OBVIOUS
<1>3. [i \in 1 .. k |-> IF i = k THEN n ELSE s[i + 1].dur]
        = [i \in 1 .. k |-> IF i = k THEN n ELSE t[i + 1].dur]
  BY <1>1
<1> QED
  BY <1>2, <1>3 DEF Path

LEMMA StateAfterType ==
  ASSUME NEW s \in Seq(SentInput), NEW k \in 0 .. Len(s)
  PROVE  /\ StateAfter(s, k) \in Controls
         /\ Direction[StateAfter(s, k)] \in Directions
<1>1. CASE k = 0
  BY <1>1, ConstantsAssumption, DirectionType DEF StateAfter
<1>2. CASE k # 0
  <2>1. k \in 1 .. Len(s)
    BY <1>2, LenProperties
  <2>2. s[k] \in SentInput
    BY <2>1, ElementOfSeq
  <2> QED
    BY <1>2, <2>2, DirectionType DEF StateAfter, SentInput
<1> QED
  BY <1>1, <1>2

\* One step more under the k-th input.
LEMMA PathStep ==
  ASSUME NEW s \in Seq(SentInput), NEW k \in 0 .. Len(s), NEW n \in Nat
  PROVE  /\ Path(s, k, n + 1) = Move(Path(s, k, n), Direction[StateAfter(s, k)])
         /\ k # 0 => Path(s, k, 0) = Path(s, k - 1, s[k].dur)
<1>1. n + 1 \in Nat /\ 0 \in Nat
  OBVIOUS
<1>2. CASE k = 0
  <2>1. Path(s, k, n) = Start /\ Path(s, k, n + 1) = Start
    BY <1>1, <1>2, PathFacts
  <2>2. StateAfter(s, k) = NoControls
    BY <1>2 DEF StateAfter
  <2>3. Move(Start, 0) = Start
    BY DEF Start, Move, Damped, Capped, Abs, Sign
  <2> QED
    BY <1>2, <2>1, <2>2, <2>3
<1>3. CASE k # 0
  <2>1. PICK d : d = Direction[s[k].state]
    OBVIOUS
  <2>2. d \in Directions /\ d = Direction[StateAfter(s, k)]
    BY <1>3, <2>1, StateAfterType DEF StateAfter
  <2>3. PICK q : q = Path(s, k - 1, s[k].dur)
    OBVIOUS
  <2>4. q \in Player
    <3>1. k - 1 \in 0 .. Len(s) /\ k \in 1 .. Len(s)
      BY <1>3, LenProperties
    <3>2. s[k] \in SentInput
      BY <3>1, ElementOfSeq
    <3>3. s[k].dur \in Nat
      BY <3>2 DEF SentInput
    <3> QED
      BY <2>3, <3>1, <3>3, PathFacts
  <2>5. \A x \in Nat : Path(s, k, x) = Run(q, d, x)
    BY <1>3, <2>1, <2>3, PathFacts
  <2> QED
    BY <1>1, <2>2, <2>3, <2>4, <2>5, RunFacts
<1> QED
  BY <1>2, <1>3

\* The next input takes over when the k-th has lasted its time.
LEMMA PathSwitch ==
  ASSUME NEW s \in Seq(SentInput), NEW k \in 1 .. Len(s)
  PROVE  Path(s, k, 1) =
           Move(Path(s, k - 1, s[k].dur), Direction[StateAfter(s, k)])
<1>1. k \in 0 .. Len(s) /\ k # 0 /\ 0 \in Nat /\ 0 + 1 = 1
  BY LenProperties
<1>2. Path(s, k, 0 + 1) = Move(Path(s, k, 0), Direction[StateAfter(s, k)])
  BY <1>1, PathStep
<1>3. Path(s, k, 0) = Path(s, k - 1, s[k].dur)
  BY <1>1, PathStep
<1> QED
  BY <1>1, <1>2, <1>3

\* m steps more under the k-th input.
LEMMA PathGoesOn ==
  ASSUME NEW s \in Seq(SentInput), NEW k \in 0 .. Len(s), NEW n \in Nat
  PROVE  \A m \in Nat :
           Run(Path(s, k, n), Direction[StateAfter(s, k)], m) =
             Path(s, k, n + m)
<1> DEFINE d == Direction[StateAfter(s, k)]
           N == {m \in Nat : Run(Path(s, k, n), d, m) = Path(s, k, n + m)}
<1>1. Path(s, k, n) \in Player /\ d \in Directions
  BY PathFacts, StateAfterType
<1> HIDE DEF d
<1>2. 0 \in N
  BY <1>1, RunFacts
<1>3. ASSUME NEW m \in Nat, m \in N PROVE m + 1 \in N
  <2>1. Run(Path(s, k, n), d, m + 1) = Move(Run(Path(s, k, n), d, m), d)
    BY <1>1, RunFacts
  <2>2. PICK x \in Nat : x = n + m
    OBVIOUS
  <2>3. Path(s, k, x + 1) = Move(Path(s, k, x), d)
    BY PathStep DEF d
  <2>4. x + 1 = n + (m + 1)
    BY <2>2
  <2> QED
    BY <1>3, <2>1, <2>2, <2>3, <2>4
<1> HIDE DEF N
<1>4. Nat \subseteq N
  BY <1>2, <1>3, SetInduction
<1> QED
  BY <1>4 DEF N, d

\* The velocity comes from the velocity and the direction alone.
LEMMA VelocityOfMove ==
  ASSUME NEW p \in Player, NEW q \in Player, NEW d, p.vel = q.vel
  PROVE  Move(p, d).vel = Move(q, d).vel
  BY DEF Move

\* Receive's replay ends in a player.
LEMMA ReplayedType ==
  ASSUME NEW p \in Player, NEW h \in Seq(ClientInput), NEW delta \in Int
  PROVE  Replayed(p, h, delta) \in Player
<1>1. PICK l \in Nat : l = Len(h)
  BY LenProperties
<1>2. \A i \in 1 .. l : h[i] \in ClientInput
  BY <1>1, ElementOfSeq
<1>3. \A i \in 1 .. l : h[i].state \in Controls /\ h[i].dur \in Nat
  BY <1>2 DEF ClientInput
<1>4. \A i \in 1 .. l : ReplaySteps(h, i, delta) \in Nat
  BY <1>3 DEF ReplaySteps
<1>5. PICK d : d = [i \in 1 .. l |-> Direction[h[i].state]]
  OBVIOUS
<1>6. PICK m : m = [i \in 1 .. l |-> ReplaySteps(h, i, delta)]
  OBVIOUS
<1>7. Periods(d, m, l)
  BY <1>3, <1>4, <1>5, <1>6, DirectionType DEF Periods
<1> QED
  BY <1>1, <1>5, <1>6, <1>7, RunThroughFacts DEF Replayed

-----------------------------------------------------------------------------
\* The steps of Reconciliation are steps of InputSync.
LEMMA StepOfInputSync == [RNext]_allVars => [Next]_vars
  BY DEF RNext, allVars, Next, ClientReceive, RClientSimulate, RClientReceive,
         RClientReceiveHello, RClientReceiveSync, RServerReceive,
         RServerSimulate

\* The protocol with positions implements the protocol without them: the players
\* only watch, so what is proved of InputSync holds here.
THEOREM RefinesInputSync == RSpec => Spec
<1>1. RInit => Init
  BY DEF RInit
<1> QED
  BY <1>1, StepOfInputSync, PTL DEF RSpec, Spec

\* A message and its snapshot are appended, or nothing is.
LEMMA AppendSnapshot ==
  ASSUME TypeOK, RIInv,
         NEW m \in ClientMessage, NEW s \in Snapshot,
         m.type = "Sync" =>
           m.delta \in Nat /\ s.moved = m.delta + SwitchStep(s.applied)
  PROVE  /\ Append(snapshots, s) \in Seq(Snapshot)
         /\ Len(Append(snapshots, s)) = Len(Append(toClient, m))
         /\ \A i \in 1 .. Len(Append(toClient, m)) :
              Append(toClient, m)[i].type = "Sync" =>
                /\ Append(toClient, m)[i].delta \in Nat
                /\ Append(snapshots, s)[i].moved =
                     Append(toClient, m)[i].delta
                       + SwitchStep(Append(snapshots, s)[i].applied)
<1>1. toClient \in Seq(ClientMessage) /\ snapshots \in Seq(Snapshot)
  BY DEF TypeOK, RIInv
<1>2. /\ Len(toClient) \in Nat /\ Len(snapshots) = Len(toClient)
      /\ Len(Append(toClient, m)) = Len(toClient) + 1
      /\ Len(Append(snapshots, s)) = Len(toClient) + 1
      /\ Append(snapshots, s) \in Seq(Snapshot)
      /\ \A i \in 1 .. Len(toClient) :
           /\ Append(toClient, m)[i] = toClient[i]
           /\ Append(snapshots, s)[i] = snapshots[i]
      /\ Append(toClient, m)[Len(toClient) + 1] = m
      /\ Append(snapshots, s)[Len(toClient) + 1] = s
  BY <1>1, AppendProperties, LenProperties DEF RIInv
<1> QED
  BY <1>2 DEF RIInv, StepsCounted

LEMMA RemoveSnapshot ==
  ASSUME TypeOK, RIInv, toClient # <<>>,
         toClient' = Tail(toClient), snapshots' = Tail(snapshots),
         UNCHANGED <<serverVars, serverPlayer, moved, late, onTime>>
  PROVE  RIInv'
<1>1. toClient \in Seq(ClientMessage) /\ snapshots \in Seq(Snapshot)
  BY DEF TypeOK, RIInv
<1>2. Len(snapshots) = Len(toClient) /\ snapshots # <<>>
  BY <1>1, EmptySeq DEF RIInv
<1>3. /\ Len(toClient) \in Nat \ {0}
      /\ Len(toClient') = Len(toClient) - 1
      /\ Len(snapshots') = Len(toClient) - 1
      /\ snapshots' \in Seq(Snapshot)
      /\ \A i \in 1 .. Len(toClient) - 1 :
           toClient'[i] = toClient[i + 1] /\ snapshots'[i] = snapshots[i + 1]
  BY <1>1, <1>2, Dequeue
<1>4. StepsCounted'
  BY <1>3 DEF RIInv, StepsCounted, serverVars
<1> QED
  BY <1>3, <1>4 DEF RIInv

LEMMA SnapshotType ==
  ASSUME serverPlayer' \in Player, moved' \in Nat, applied' \in Nat,
         onTime' \in BOOLEAN
  PROVE  /\ CurrentSnapshot \in Snapshot
         /\ CurrentSnapshot.moved = moved'
         /\ CurrentSnapshot.applied = applied'
  BY DEF CurrentSnapshot, Snapshot

LEMMA SyncDelta ==
  ASSUME NEW ack \in Ids, NEW delta \in Int, NEW player \in BOOLEAN
  PROVE  SyncMessage(ack, delta, player).delta = delta
  BY DEF SyncMessage

\* UpdateMove counts each step of the server, but for a switch.
LEMMA ServerCounts ==
  ASSUME TypeOK, RIInv, NEW more \in BOOLEAN, RServerSimulate(more)
  PROVE  /\ moved' \in Nat
         /\ lastInputDelta' <= currentInputDelta'
         /\ moved' =
              currentInputDelta' - lastInputDelta' + SwitchStep(applied')
<1>1. currentInputDelta' \in Nat /\ lastInputDelta' \in Nat /\ applied' \in Nat
  BY SwitchMoveType, KeepMoveType DEF RServerSimulate, ServerSimulate
<1>2. /\ applied \in Nat
      /\ moved' = IF applied' = applied THEN moved + 1 ELSE 1
  BY DEF RServerSimulate, TypeOK
<1>3. CASE SwitchMove
  <2>1. applied' = applied + 1 /\ lastInputDelta' = currentInputDelta'
    BY <1>3 DEF SwitchMove
  <2>2. moved' = 1 /\ SwitchStep(applied') = 1
    BY <1>2, <2>1 DEF SwitchStep
  <2> QED
    BY <1>1, <2>1, <2>2
<1>4. CASE KeepMove
  <2>1. /\ applied' = applied /\ lastInputDelta' = lastInputDelta
        /\ currentInputDelta' = currentInputDelta + 1
    BY <1>4 DEF KeepMove
  <2>2. moved' = moved + 1 /\ SwitchStep(applied') = SwitchStep(applied)
    BY <1>2, <2>1
  <2>3. SwitchStep(applied) \in Nat
    BY DEF SwitchStep
  <2>4. /\ currentInputDelta \in Nat /\ lastInputDelta \in Nat
        /\ moved \in Nat /\ lastInputDelta <= currentInputDelta
        /\ moved = currentInputDelta - lastInputDelta + SwitchStep(applied)
    BY DEF RIInv, StepsCounted, TypeOK
  <2> QED
    BY ONLY <2>1, <2>2, <2>3, <2>4
<1> QED
  BY <1>3, <1>4 DEF RServerSimulate, ServerSimulate

LEMMA RServerSimulateStep ==
  ASSUME TypeOK, RIInv, NEW more \in BOOLEAN, RServerSimulate(more)
  PROVE  RIInv'
<1>1. /\ currentInputDelta' \in Nat /\ lastInputDelta' \in Nat
      /\ applied' \in Nat /\ lastInputId' \in Ids
      /\ playerControls' \in Controls
  BY SwitchMoveType, KeepMoveType DEF RServerSimulate, ServerSimulate
<1>2. /\ moved' \in Nat
      /\ lastInputDelta' <= currentInputDelta'
      /\ moved' = currentInputDelta' - lastInputDelta' + SwitchStep(applied')
  BY ServerCounts
<1>3. serverPlayer' \in Player
  BY <1>1, DirectionType, MoveType DEF RServerSimulate, MoveServerPlayer, RIInv
<1>4. onTime' \in BOOLEAN /\ late' \in Seq(Nat)
  BY <1>1, AppendProperties DEF RServerSimulate, RIInv
<1>5. /\ CurrentSnapshot \in Snapshot
      /\ CurrentSnapshot.moved = moved' /\ CurrentSnapshot.applied = applied'
  BY <1>1, <1>2, <1>3, <1>4, SnapshotType
<1>6. /\ CurrentSync \in ClientMessage
      /\ CurrentSync.delta = currentInputDelta' - lastInputDelta'
  BY <1>1, ClientMessages, SyncDelta DEF CurrentSync, TypeOK
<1>7. CASE ~more /\ simulationTick' = 0
  <2>1. /\ toClient' = Append(toClient, CurrentSync)
        /\ snapshots' = Append(snapshots, CurrentSnapshot)
    BY <1>7 DEF RServerSimulate, ServerSimulate, PostSimulate
  <2>2. /\ CurrentSync.delta \in Nat
        /\ CurrentSnapshot.moved =
             CurrentSync.delta + SwitchStep(CurrentSnapshot.applied)
    <3>1. currentInputDelta' - lastInputDelta' \in Nat
      <4>1. \A a, b \in Nat : b <= a => a - b \in Nat
        OBVIOUS
      <4> QED
        BY <1>1, <1>2, <4>1
    <3>2. moved' = (currentInputDelta' - lastInputDelta') + SwitchStep(applied')
      BY <1>2
    <3> QED
      BY <3>1, <3>2, <1>5, <1>6
  <2> HIDE DEF CurrentSync, CurrentSnapshot
  <2>3. /\ snapshots' \in Seq(Snapshot) /\ Len(snapshots') = Len(toClient')
        /\ \A i \in 1 .. Len(toClient') :
             toClient'[i].type = "Sync" =>
               /\ toClient'[i].delta \in Nat
               /\ snapshots'[i].moved =
                    toClient'[i].delta + SwitchStep(snapshots'[i].applied)
    BY <1>5, <1>6, <2>1, <2>2, AppendSnapshot
  <2> QED
    BY <1>2, <1>3, <1>4, <2>3 DEF RIInv, StepsCounted
<1>8. CASE ~(~more /\ simulationTick' = 0)
  <2>1. toClient' = toClient /\ snapshots' = snapshots
    BY <1>8 DEF RServerSimulate, ServerSimulate, PostSimulate
  <2> QED
    BY <1>2, <1>3, <1>4, <2>1 DEF RIInv, StepsCounted
<1> QED
  BY <1>7, <1>8

LEMMA RServerReceiveStep ==
  ASSUME TypeOK, RIInv, RServerReceive
  PROVE  RIInv'
<1>1. /\ UNCHANGED <<serverPlayer, moved, late, onTime, applied,
                     currentInputDelta, lastInputDelta>>
      /\ toServer \in Seq(ServerMessage) /\ toServer # <<>>
  BY DEF RServerReceive, ServerReceive, TypeOK
<1>2. Head(toServer) \in ServerMessage
  BY <1>1, Dequeue
<1>3. CASE HandleHello
  <2>1. /\ toClient' = Append(toClient, HelloMessage)
        /\ snapshots' = Append(snapshots, CurrentSnapshot)
    BY <1>3 DEF RServerReceive, HandleHello
  <2>2. CurrentSnapshot \in Snapshot
    BY <1>1, SnapshotType DEF RIInv, TypeOK
  <2>3. HelloMessage \in ClientMessage /\ HelloMessage.type # "Sync"
    BY ClientMessages
  <2> HIDE DEF CurrentSnapshot, HelloMessage
  <2>4. /\ snapshots' \in Seq(Snapshot) /\ Len(snapshots') = Len(toClient')
        /\ \A i \in 1 .. Len(toClient') :
             toClient'[i].type = "Sync" =>
               /\ toClient'[i].delta \in Nat
               /\ snapshots'[i].moved =
                    toClient'[i].delta + SwitchStep(snapshots'[i].applied)
    BY <2>1, <2>2, <2>3, AppendSnapshot
  <2> QED
    BY <1>1, <2>4 DEF RIInv, StepsCounted
<1>4. CASE HandleInput
  <2>1. Head(toServer) # HelloMessage
    BY <1>4, <1>2, ServerMessages DEF HandleInput
  <2>2. toClient' = toClient /\ snapshots' = snapshots
    BY <1>4, <2>1 DEF RServerReceive, HandleInput
  <2> QED
    BY <1>1, <2>2 DEF RIInv, StepsCounted
<1> QED
  BY <1>3, <1>4 DEF RServerReceive, ServerReceive

\* The inductive invariant: each message has its snapshot, and the steps are
\* counted.
THEOREM SnapshotInvariant == RSpec => []RIInv
<1>1. RInit => RIInv
  BY EmptySeq
     DEF RInit, Init, RIInv, StepsCounted, SwitchStep, Start, Player
<1>2. TypeOK /\ RIInv /\ [RNext]_allVars => RIInv'
  <2> SUFFICES ASSUME TypeOK, RIInv, [RNext]_allVars PROVE RIInv'
    OBVIOUS
  <2>1. ASSUME NEW c \in Controls, RClientSimulate(c) PROVE RIInv'
    BY <2>1
       DEF RClientSimulate, ClientSimulate, RIInv, StepsCounted, serverVars
  <2>2. CASE RClientReceiveHello
    BY <2>2, RemoveSnapshot DEF RClientReceiveHello, ClientReceiveHello
  <2>3. CASE RClientReceiveSync
    BY <2>3, RemoveSnapshot DEF RClientReceiveSync, ClientReceiveSync
  <2>4. CASE RServerReceive
    BY <2>4, RServerReceiveStep
  <2>5. ASSUME NEW more \in BOOLEAN, RServerSimulate(more) PROVE RIInv'
    BY <2>5, RServerSimulateStep
  <2>6. CASE UNCHANGED allVars
    BY <2>6 DEF allVars, motionVars, vars, serverVars, RIInv, StepsCounted
  <2> QED
    BY <2>1, <2>2, <2>3, <2>4, <2>5, <2>6 DEF RNext, RClientReceive
<1>3. RSpec => []TypeOK
  BY RefinesInputSync, TypeCorrect, PTL
<1> QED
  BY <1>1, <1>2, <1>3, PTL DEF RSpec

\* lower_bound finds the acknowledged input, so Receive never replays from the
\* end of the history.
LEMMA HistoryReplayed ==
  ASSUME IInv, NextSync, NEW h \in NextHistories
  PROVE  h # <<>> /\ h[1].dur \in Nat
<1> DEFINE n == Len(sent)
           L == Len(clientHistory)
           ack == Head(toClient).ack
<1>1. /\ toClient \in Seq(ClientMessage) /\ toClient # <<>>
      /\ clientHistory \in Seq(ClientInput)
  BY DEF NextSync, IInv, TypeOK
<1>2. Len(toClient) \in Nat \ {0} /\ Head(toClient) = toClient[1]
  BY <1>1, Dequeue
<1>3. PICK j \in 1 .. L : clientHistory[j].id = ack
  BY <1>2, AckFound DEF NextSync
<1>4. PICK i \in LowerBounds(clientHistory, ack) :
             h = SubSeq(clientHistory, i, L)
  BY DEF NextHistories
<1>5. /\ i \in 1 .. L + 1
      /\ i > 1 => clientHistory[i - 1].id < ack
  BY DEF LowerBounds
<1>6. /\ L \in Nat \ {0} /\ n \in Nat
      /\ \A k \in 1 .. L : clientHistory[k].id = n - L + k
  BY Lengths DEF IInv, IdsCount
<1> HIDE DEF n, L
<1>7. i \in 1 .. L
  BY <1>3, <1>5, <1>6
<1>8. Len(h) = L - i + 1 /\ h[1] = clientHistory[i]
  BY <1>1, <1>4, <1>6, <1>7 DEF L
<1>9. clientHistory[i] \in ClientInput
  BY <1>1, <1>7, ElementOfSeq DEF L
<1> QED
  BY <1>6, <1>7, <1>8, <1>9 DEF ClientInput

\* Receive replays the acknowledged input for exactly one step more than what
\* is left of it, the step of the switch, however late the input was applied
\* and however many Syncs are on their way.
THEOREM ReplayIsOneStepMore ==
  ASSUME NoWrap PROVE RSpec => []ReplaysOneStepMore
<1>1. IInv /\ RIInv => ReplaysOneStepMore
  <2> SUFFICES ASSUME IInv, RIInv, NextSync, NEW h \in NextHistories
               PROVE  Head(snapshots).moved
                        + ReplaySteps(h, 1, Head(toClient).delta) =
                      SwitchStep(Head(snapshots).applied)
                        + IF Head(toClient).delta <= h[1].dur
                          THEN h[1].dur ELSE Head(toClient).delta
    BY DEF ReplaysOneStepMore
  <2>1. /\ toClient \in Seq(ClientMessage) /\ toClient # <<>>
        /\ snapshots \in Seq(Snapshot) /\ snapshots # <<>>
    BY EmptySeq DEF NextSync, IInv, TypeOK, RIInv
  <2>2. /\ Len(toClient) \in Nat \ {0}
        /\ Head(toClient) = toClient[1] /\ Head(snapshots) = snapshots[1]
    BY <2>1, Dequeue
  <2>3. /\ Head(toClient).delta \in Nat
        /\ Head(snapshots).moved =
             Head(toClient).delta + SwitchStep(Head(snapshots).applied)
    BY <2>2 DEF NextSync, RIInv, StepsCounted
  <2>4. h[1].dur \in Nat
    BY HistoryReplayed
  <2>5. SwitchStep(Head(snapshots).applied) \in Nat
    BY DEF SwitchStep
  <2> QED
    BY <2>3, <2>4, <2>5 DEF ReplaySteps
<1> QED
  BY <1>1, RefinesInputSync, InductiveInvariant, SnapshotInvariant, PTL
-----------------------------------------------------------------------------
(***************************************************************************)
(* Types, and the interpolation.                                           *)
(***************************************************************************)
\* The division is by a share of at least one.
LEMMA CorrectionType ==
  ASSUME NEW o \in Int PROVE Corrections(o) \subseteq Int
<1>1. Abs(o) \in Nat /\ Sign(o) \in {-1, 0, 1}
  BY DEF Abs, Sign
<1>2. \A a \in Nat, d \in Nat \ {0} : a \div d \in Nat
  BY SMT
<1>3. PICK least \in Nat : least = StaticStep + Abs(o) \div DynamicShare
  BY <1>1, <1>2
<1>4. \A s \in {least, least + 1} : Sign(o) * s \in Int
  BY <1>1, <1>3
<1> QED
  BY <1>3, <1>4 DEF Corrections

LEMMA InterpolatedType ==
  ASSUME NEW p \in Player, NEW c \in Int
  PROVE  /\ Interpolated(p, c) \in Player
         /\ Interpolated(p, c).pos = p.pos + c
         /\ Interpolated(p, c).vel = p.vel
  BY DEF Interpolated, Player

LEMMA MoveFields ==
  ASSUME NEW p, NEW d PROVE Move(p, d).pos = p.pos + Move(p, d).vel
  BY DEF Move

LEMMA FirstSnapshot ==
  ASSUME TypeOK, RIInv, toClient # <<>>
  PROVE  /\ Len(toClient) \in Nat \ {0} /\ Head(toClient) = toClient[1]
         /\ snapshots # <<>> /\ Head(snapshots) = snapshots[1]
         /\ Head(snapshots) \in Snapshot /\ Head(toClient) \in ClientMessage
<1>1. toClient \in Seq(ClientMessage) /\ snapshots \in Seq(Snapshot)
  BY DEF TypeOK, RIInv
<1>2. Len(snapshots) = Len(toClient) /\ snapshots # <<>>
  BY <1>1, EmptySeq DEF RIInv
<1> QED
  BY <1>1, <1>2, Dequeue

ClientTyped == clientPlayer \in Player /\ offset \in Int

LEMMA ClientTypedStep ==
  ASSUME TypeOK, TypeOK', RIInv, ClientTyped, [RNext]_allVars
  PROVE  ClientTyped'
<1>1. ASSUME NEW c \in Controls, RClientSimulate(c) PROVE ClientTyped'
  <2>1. PICK correction \in Corrections(offset) :
          /\ clientPlayer' =
               Move(Interpolated(clientPlayer, correction), Direction[c])
          /\ offset' = offset - correction
    BY <1>1 DEF RClientSimulate
  <2>2. correction \in Int /\ clientPlayer \in Player /\ offset \in Int
    BY CorrectionType DEF ClientTyped
  <2> QED
    BY <2>1, <2>2, InterpolatedType, DirectionType, MoveType DEF ClientTyped
<1>2. CASE RClientReceiveHello
  <2>1. toClient # <<>>
    BY <1>2 DEF RClientReceiveHello, ClientReceiveHello
  <2> QED
    BY <1>2, <2>1, FirstSnapshot DEF RClientReceiveHello, ClientTyped, Snapshot
<1>3. CASE RClientReceiveSync
  <2>1. toClient # <<>> /\ Head(toClient).type = "Sync"
    BY <1>3 DEF RClientReceiveSync, ClientReceiveSync
  <2>2. Head(snapshots).player \in Player
    BY <2>1, FirstSnapshot DEF Snapshot
  <2>3. Head(toClient).delta \in Int
    BY <2>1, FirstSnapshot DEF ClientMessage, HelloMessage
  <2>4. clientHistory' \in Seq(ClientInput)
    BY DEF TypeOK
  <2>5. PICK target : target = Replayed(Head(snapshots).player, clientHistory',
                                        Head(toClient).delta)
    OBVIOUS
  <2>6. target \in Player
    BY <2>2, <2>3, <2>4, <2>5, ReplayedType
  <2>7. target.pos \in Int /\ clientPlayer.pos \in Int
    BY <2>6 DEF Player, ClientTyped
  <2>8. \/ clientPlayer' = clientPlayer /\ offset' = offset
        \/ /\ clientPlayer' = clientPlayer
           /\ offset' = NewOffset(offset, target.pos - clientPlayer.pos)
    BY <1>3, <2>5 DEF RClientReceiveSync, KeptPlayer
  <2> QED
    BY <2>7, <2>8 DEF ClientTyped, NewOffset
<1>4. CASE RServerReceive
  BY <1>4 DEF RServerReceive, ClientTyped
<1>5. ASSUME NEW more \in BOOLEAN, RServerSimulate(more) PROVE ClientTyped'
  BY <1>5 DEF RServerSimulate, ClientTyped
<1>6. CASE UNCHANGED allVars
  BY <1>6 DEF allVars, motionVars, ClientTyped
<1> QED
  BY <1>1, <1>2, <1>3, <1>4, <1>5, <1>6 DEF RNext, RClientReceive

\* Positions, velocities and offsets are numbers, however the replay and the
\* interpolation go on, and every message has its snapshot.
THEOREM RTypeCorrect == RSpec => []RTypeOK
<1>1. RInit => ClientTyped
  BY DEF RInit, ClientTyped, Start, Player
<1>2. TypeOK /\ TypeOK' /\ RIInv /\ ClientTyped /\ [RNext]_allVars
        => ClientTyped'
  BY ClientTypedStep
<1>3. TypeOK /\ RIInv /\ ClientTyped => RTypeOK
  BY DEF RIInv, ClientTyped, RTypeOK
<1>4. RSpec => []TypeOK
  BY RefinesInputSync, TypeCorrect, PTL
<1> QED
  BY <1>1, <1>2, <1>3, <1>4, SnapshotInvariant, PTL DEF RSpec

-----------------------------------------------------------------------------
(***************************************************************************)
(* Where the players are.                                                  *)
(***************************************************************************)
Known == IInv /\ RIInv /\ RTypeOK

\* The message m with the snapshot q, as SnapshotsFollow wants it, when the
\* inputs s are sent and a of them applied.
SnapshotOK(m, q, s, a) ==
  /\ q.applied <= a
  /\ m.type = "Sync" => m.ack = q.applied
  /\ q.onTime => q.player = Path(s, q.applied, q.moved)

LEMMA SnapshotsOK ==
  SnapshotsFollow <=>
    \A i \in 1 .. Len(toClient) :
      SnapshotOK(toClient[i], snapshots[i], sent, applied)
  BY DEF SnapshotsFollow, SnapshotOK

\* A message leaves with its snapshot, or comes with it.
LEMMA MessageRead ==
  ASSUME Known, toClient # <<>>,
         toClient' = Tail(toClient), snapshots' = Tail(snapshots)
  PROVE  /\ Len(toClient) \in Nat \ {0} /\ Len(toClient') = Len(toClient) - 1
         /\ Head(toClient) = toClient[1] /\ Head(snapshots) = snapshots[1]
         /\ \A i \in 1 .. Len(toClient') :
              /\ i + 1 \in 1 .. Len(toClient) /\ i + 1 # 1
              /\ toClient'[i] = toClient[i + 1]
              /\ snapshots'[i] = snapshots[i + 1]
<1>1. toClient \in Seq(ClientMessage) /\ snapshots \in Seq(Snapshot)
  BY DEF Known, RTypeOK, TypeOK
<1>2. Len(snapshots) = Len(toClient) /\ snapshots # <<>>
  BY <1>1, EmptySeq DEF Known, RTypeOK
<1>3. PICK l : l = Len(toClient)
  OBVIOUS
<1>4. /\ l \in Nat \ {0} /\ Len(toClient') = l - 1
      /\ Head(toClient) = toClient[1] /\ Head(snapshots) = snapshots[1]
      /\ \A i \in 1 .. l - 1 : /\ toClient'[i] = toClient[i + 1]
                               /\ snapshots'[i] = snapshots[i + 1]
  BY <1>1, <1>2, <1>3, Dequeue
<1>5. \A i \in 1 .. l - 1 : i + 1 \in 1 .. l /\ i + 1 # 1
  BY <1>4
<1> QED
  BY <1>3, <1>4, <1>5

LEMMA Enqueue ==
  ASSUME NEW S, NEW q \in Seq(S), NEW e \in S, NEW l \in Nat, l = Len(q)
  PROVE  /\ Len(Append(q, e)) = l + 1
         /\ \A i \in 1 .. l : Append(q, e)[i] = q[i]
         /\ Append(q, e)[l + 1] = e
  BY AppendProperties

LEMMA MessageSent ==
  ASSUME Known, NEW m \in ClientMessage, NEW q \in Snapshot,
         toClient' = Append(toClient, m), snapshots' = Append(snapshots, q)
  PROVE  \A i \in 1 .. Len(toClient') :
           \/ /\ i \in 1 .. Len(toClient)
              /\ toClient'[i] = toClient[i] /\ snapshots'[i] = snapshots[i]
           \/ /\ i = Len(toClient')
              /\ toClient'[i] = m /\ snapshots'[i] = q
<1>1. toClient \in Seq(ClientMessage) /\ snapshots \in Seq(Snapshot)
  BY DEF Known, RTypeOK, TypeOK
<1>2. PICK l \in Nat : l = Len(toClient) /\ l = Len(snapshots)
  BY <1>1, LenProperties DEF Known, RTypeOK
<1>3. /\ Len(toClient') = l + 1
      /\ \A i \in 1 .. l : toClient'[i] = toClient[i]
      /\ toClient'[l + 1] = m
  <2>1. toClient \in Seq(ClientMessage) /\ l = Len(toClient)
    BY <1>1, <1>2
  <2> QED
    BY ONLY <2>1, Enqueue, toClient' = Append(toClient, m), l \in Nat,
            m \in ClientMessage
<1>4. /\ \A i \in 1 .. l : snapshots'[i] = snapshots[i]
      /\ snapshots'[l + 1] = q
  <2>1. snapshots \in Seq(Snapshot) /\ l = Len(snapshots)
    BY <1>1, <1>2
  <2> QED
    BY ONLY <2>1, Enqueue, snapshots' = Append(snapshots, q), l \in Nat,
            q \in Snapshot
<1>5. \A i \in 1 .. l + 1 : i \in 1 .. l \/ i = l + 1
  BY <1>2
<1> QED
  BY <1>2, <1>3, <1>4, <1>5

LEMMA AppliedWereSent ==
  ASSUME Known
  PROVE  /\ sent \in Seq(SentInput) /\ Len(sent) \in Nat
         /\ applied \in 0 .. Len(sent)
         /\ Newest.dur \in Nat /\ Newest.state \in Controls
<1>1. /\ Len(sent) \in Nat /\ applied \in Nat /\ Waiting \in Nat
      /\ applied + Waiting <= Len(sent)
  BY Lengths DEF Known
<1>2. Newest.dur \in Nat /\ Newest.state \in Controls
  BY NewestType DEF Known, IInv, HistoryNeverEmpty
<1> QED
  BY <1>1, <1>2 DEF Known, RTypeOK, TypeOK

\* What follows the inputs still does when another one is sent.
LEMMA SentGrows ==
  ASSUME Known, Known', PlayersInv,
         NEW c \in Controls, RClientSimulate(c),
         \A i \in 1 .. Len(sent) : sent'[i] = sent[i]
  PROVE  /\ OnTimeFollowsPath' /\ SnapshotsFollow'
         /\ \A n : Path(sent', Len(sent), n) = Path(sent, Len(sent), n)
<1>1. /\ UNCHANGED <<serverVars, toClient, snapshots, serverPlayer, moved,
                     onTime>>
      /\ applied' = applied
  BY DEF RClientSimulate, ClientSimulate, serverVars
<1>2. /\ sent \in Seq(SentInput) /\ sent' \in Seq(SentInput)
      /\ Len(sent) \in Nat /\ applied \in 0 .. Len(sent)
  BY AppliedWereSent DEF Known, RTypeOK, TypeOK
<1>3. ASSUME NEW k \in 0 .. Len(sent), NEW n
      PROVE  Path(sent', k, n) = Path(sent, k, n)
  <2>1. PICK l \in Nat : l = Len(sent)
    BY <1>2
  <2>2. k \in Nat /\ \A i \in 1 .. k : i \in 1 .. l
    BY <2>1
  <2>3. \A i \in 1 .. k : sent'[i] = sent[i]
    BY <2>1, <2>2
  <2> QED
    BY <1>2, <2>2, <2>3, PathAgrees
<1>4. OnTimeFollowsPath'
  BY <1>1, <1>2, <1>3 DEF OnTimeFollowsPath, PlayersInv
<1>5. SnapshotsFollow'
  <2> SUFFICES ASSUME NEW i \in 1 .. Len(toClient)
               PROVE  SnapshotOK(toClient[i], snapshots[i], sent', applied)
    BY <1>1 DEF SnapshotsFollow, SnapshotOK
  <2>1. SnapshotOK(toClient[i], snapshots[i], sent, applied)
    BY SnapshotsOK DEF PlayersInv
  <2>2. snapshots[i] \in Snapshot
    BY ElementOfSeq DEF Known, RTypeOK
  <2>3. snapshots[i].applied \in 0 .. Len(sent)
    <3>1. snapshots[i].applied \in Nat /\ snapshots[i].applied <= applied
      BY <2>1, <2>2 DEF Snapshot, SnapshotOK
    <3> QED
      BY <1>2, <3>1
  <2> QED
    BY <1>3, <2>1, <2>3 DEF SnapshotOK
<1>6. Len(sent) \in 0 .. Len(sent)
  BY <1>2
<1> QED
  BY <1>3, <1>4, <1>5, <1>6

LEMMA HelloStays ==
  ASSUME PlayersInv, NEW c \in Controls, RClientSimulate(c)
  PROVE  /\ HelloOnce'
         /\ (~greeted => serverPlayer = Start)'
         /\ (onTime => lastInputDelta = 0)'
<1>1. /\ joined /\ joined'
      /\ UNCHANGED <<toClient, snapshots, serverPlayer, onTime, greeted,
                     lastInputDelta>>
  BY DEF RClientSimulate, ClientSimulate, serverVars
<1> QED
  BY <1>1 DEF PlayersInv, HelloOnce

LEMMA ChangedControls ==
  ASSUME Known, Known', PlayersInv,
         NEW c \in Controls, RClientSimulate(c), ChangeControls(c)
  PROVE  PlayersInv'
<1>1. PICK n \in Nat : n = Len(sent)
  BY AppliedWereSent
<1>2. PICK L \in Nat \ {0} : L = Len(clientHistory)
  BY Lengths DEF Known
<1>3. /\ sent \in Seq(SentInput) /\ sent' \in Seq(SentInput)
      /\ clientHistory \in Seq(ClientInput)
      /\ Newest.dur \in Nat /\ Newest = clientHistory[L]
  BY <1>2, AppliedWereSent DEF Known, RTypeOK, TypeOK, Newest
<1>4. /\ sent' =
           Append(sent, [state |-> c, dur |-> Newest.dur, at |-> clientTicks])
      /\ clientHistory' =
           Append(clientHistory, [id |-> nextId, state |-> c, dur |-> 1])
  BY DEF ChangeControls
<1>5. /\ Len(sent') = n + 1
      /\ \A i \in 1 .. n : sent'[i] = sent[i]
      /\ sent'[n + 1].state = c /\ sent'[n + 1].dur = Newest.dur
  BY <1>1, <1>3, <1>4, AppendProperties
<1>6. /\ Len(clientHistory') = L + 1
      /\ \A i \in 1 .. L : clientHistory'[i] = clientHistory[i]
      /\ clientHistory'[L + 1].state = c /\ clientHistory'[L + 1].dur = 1
  BY <1>2, <1>3, <1>4, AppendProperties
<1>7. /\ OnTimeFollowsPath' /\ SnapshotsFollow'
      /\ \A m : Path(sent', n, m) = Path(sent, n, m)
  BY <1>1, <1>5, SentGrows
<1>8. VelocityIsOwn'
  <2>1. PICK correction \in Corrections(offset) :
          clientPlayer' =
            Move(Interpolated(clientPlayer, correction), Direction[c])
    BY DEF RClientSimulate
  <2>2. PICK q : q = Interpolated(clientPlayer, correction)
    OBVIOUS
  <2>3. /\ clientPlayer \in Player
        /\ q \in Player /\ q.vel = clientPlayer.vel
    BY <2>2, CorrectionType, InterpolatedType DEF Known, RTypeOK
  <2>4. PICK p : p = Path(sent, n, Newest.dur)
    OBVIOUS
  <2>5. p \in Player /\ clientPlayer.vel = p.vel
    <3>1. n \in 0 .. Len(sent)
      BY <1>1
    <3>2. joined
      BY DEF RClientSimulate, ClientSimulate
    <3> QED
      BY <1>1, <1>3, <2>4, <3>1, <3>2, PathFacts DEF PlayersInv, VelocityIsOwn
  <2>6. Path(sent', n + 1, 1) = Move(p, Direction[c])
    <3>1. PICK k : k = n + 1
      OBVIOUS
    <3>2. k \in 1 .. Len(sent') /\ k - 1 = n /\ k # 0
      BY <1>1, <1>5, <3>1
    <3>3. StateAfter(sent', k) = c /\ sent'[k].dur = Newest.dur
      BY <1>5, <3>1, <3>2 DEF StateAfter
    <3>4. Path(sent', k, 1) =
            Move(Path(sent', k - 1, sent'[k].dur),
                 Direction[StateAfter(sent', k)])
      BY <1>3, <3>2, PathSwitch
    <3> QED
      BY <1>7, <2>4, <3>1, <3>2, <3>3, <3>4
  <2>7. clientPlayer'.vel = Path(sent', n + 1, 1).vel
    BY <2>1, <2>2, <2>3, <2>5, <2>6, VelocityOfMove
  <2>8. Newest'.dur = 1
    BY <1>6 DEF Newest
  <2> QED
    BY <1>5, <2>7, <2>8 DEF VelocityIsOwn
<1>9. HistoryIsSent'
  <2> SUFFICES ASSUME NEW i \in 1 .. L + 1,
                      NEW k, k = (n + 1) - (L + 1) + i
               PROVE  /\ clientHistory'[i].state = StateAfter(sent', k)
                      /\ i < L + 1 => clientHistory'[i].dur = sent'[k + 1].dur
    BY <1>5, <1>6 DEF HistoryIsSent
  <2>1. CASE i = L + 1
    <3>1. k = n + 1 /\ k # 0
      BY <1>1, <1>2, <2>1
    <3> QED
      BY <1>2, <1>5, <1>6, <2>1, <3>1 DEF StateAfter
  <2>2. CASE i \in 1 .. L
    <3>1. /\ k = n - L + i
          /\ clientHistory[i].state = StateAfter(sent, k)
          /\ i < L => clientHistory[i].dur = sent[k + 1].dur
      BY <1>1, <1>2, <2>2 DEF PlayersInv, HistoryIsSent
    <3>2. clientHistory[i].id = k /\ clientHistory[i] \in ClientInput
      BY <1>1, <1>2, <1>3, <2>2, <3>1, ElementOfSeq DEF Known, IInv, IdsCount
    <3>3. k \in Nat
      BY <3>2 DEF ClientInput, Ids
    <3>4. /\ k <= n /\ (i = L => k = n) /\ (k # 0 => k \in 1 .. n)
          /\ (i < L => k + 1 \in 1 .. n)
      BY <1>1, <1>2, <2>2, <3>1, <3>3
    <3>5. StateAfter(sent', k) = StateAfter(sent, k)
      BY <1>5, <3>4 DEF StateAfter
    <3>6. clientHistory'[i].dur = sent'[k + 1].dur
      <4>1. CASE i < L
        BY <1>5, <1>6, <2>2, <3>1, <3>4, <4>1
      <4>2. CASE i = L
        BY <1>3, <1>5, <1>6, <2>2, <3>4, <4>2
      <4> QED
        BY <1>2, <2>2, <4>1, <4>2
    <3> QED
      BY <1>6, <2>2, <3>1, <3>5, <3>6
  <2> QED
    BY <1>2, <2>1, <2>2
<1> QED
  BY <1>7, <1>8, <1>9, HelloStays DEF PlayersInv

LEMMA KeptControls ==
  ASSUME Known, Known', PlayersInv,
         NEW c \in Controls, RClientSimulate(c), KeepControls(c)
  PROVE  PlayersInv'
<1>1. PICK n \in Nat : n = Len(sent)
  BY AppliedWereSent
<1>2. PICK L \in Nat \ {0} : L = Len(clientHistory)
  BY Lengths DEF Known
<1>3. /\ sent \in Seq(SentInput) /\ sent' = sent
      /\ Newest.dur \in Nat /\ c = Newest.state
  BY AppliedWereSent DEF KeepControls
<1>4. /\ Len(clientHistory') = L
      /\ \A i \in 1 .. L : clientHistory'[i].state = clientHistory[i].state
      /\ \A i \in 1 .. L : i < L => clientHistory'[i] = clientHistory[i]
      /\ clientHistory'[L].dur = Newest.dur + 1
  <2>1. TypeOK /\ clientHistory # <<>>
    BY DEF Known, IInv, HistoryNeverEmpty
  <2>2. clientHistory' = [clientHistory EXCEPT ![L].dur = @ + 1]
    BY <1>2 DEF KeepControls
  <2>3. \A i \in 1 .. L : i < L => clientHistory'[i] = clientHistory[i]
    <3>1. clientHistory \in [1 .. L -> ClientInput]
      BY <1>2, <2>1, LenProperties DEF TypeOK
    <3>2. PICK u : clientHistory' = [clientHistory EXCEPT ![L] = u]
      BY <2>2
    <3> QED
      BY <3>1, <3>2
  <2>4. /\ Len(clientHistory') = Len(clientHistory)
        /\ \A i \in 1 .. Len(clientHistory) :
             clientHistory'[i].state = clientHistory[i].state
        /\ clientHistory'[Len(clientHistory)].dur = Newest.dur + 1
    BY <2>1, KeepControlsHistory
  <2> QED
    BY <1>2, <2>3, <2>4
<1>5. OnTimeFollowsPath' /\ SnapshotsFollow'
  BY <1>3, SentGrows
<1>6. VelocityIsOwn'
  <2>1. PICK correction \in Corrections(offset) :
          clientPlayer' =
            Move(Interpolated(clientPlayer, correction), Direction[c])
    BY DEF RClientSimulate
  <2>2. PICK q : q = Interpolated(clientPlayer, correction)
    OBVIOUS
  <2>3. q \in Player /\ q.vel = clientPlayer.vel
    BY <2>2, CorrectionType, InterpolatedType DEF Known, RTypeOK
  <2>4. n \in 0 .. Len(sent) /\ joined
    BY <1>1 DEF RClientSimulate, ClientSimulate
  <2>5. PICK p : p = Path(sent, n, Newest.dur)
    OBVIOUS
  <2>6. p \in Player /\ clientPlayer.vel = p.vel
    BY <1>1, <1>3, <2>4, <2>5, PathFacts DEF PlayersInv, VelocityIsOwn
  <2>7. Path(sent, n, Newest.dur + 1) = Move(p, Direction[c])
    <3>1. StateAfter(sent, n) = c
      BY <1>1, <1>3 DEF Known, IInv, ControlsFollow
    <3>2. PICK m \in Nat : m = Newest.dur
      BY <1>3
    <3>3. Path(sent, n, m + 1) =
            Move(Path(sent, n, m), Direction[StateAfter(sent, n)])
      BY <1>3, <2>4, PathStep
    <3> QED
      BY <2>5, <3>1, <3>2, <3>3
  <2>8. clientPlayer'.vel = Path(sent, n, Newest.dur + 1).vel
    BY <2>1, <2>2, <2>3, <2>6, <2>7, VelocityOfMove
  <2>9. Newest'.dur = Newest.dur + 1
    BY <1>4 DEF Newest
  <2> QED
    BY <1>1, <1>3, <2>8, <2>9 DEF VelocityIsOwn
<1>7. HistoryIsSent'
  BY <1>1, <1>2, <1>3, <1>4 DEF PlayersInv, HistoryIsSent
<1> QED
  BY <1>5, <1>6, <1>7, HelloStays DEF PlayersInv

\* A Hello or a Sync is read: the messages behind it move up.
LEMMA MessagesMoveUp ==
  ASSUME Known, PlayersInv, toClient # <<>>,
         toClient' = Tail(toClient), snapshots' = Tail(snapshots),
         sent' = sent, applied' = applied
  PROVE  /\ SnapshotsFollow'
         /\ \A i \in 1 .. Len(toClient') :
              toClient'[i] = HelloMessage =>
                /\ ~joined /\ snapshots'[i].player = Start
                /\ Head(toClient) # HelloMessage
                /\ \A j \in 1 .. Len(toClient') :
                     toClient'[j] = HelloMessage => j = i
<1>1. /\ Len(toClient) \in Nat \ {0} /\ Head(toClient) = toClient[1]
      /\ \A i \in 1 .. Len(toClient') :
           /\ i + 1 \in 1 .. Len(toClient) /\ i + 1 # 1
           /\ toClient'[i] = toClient[i + 1]
           /\ snapshots'[i] = snapshots[i + 1]
  BY MessageRead
<1>2. SnapshotsFollow'
  <2> SUFFICES ASSUME NEW i \in 1 .. Len(toClient')
               PROVE  SnapshotOK(toClient'[i], snapshots'[i], sent, applied)
    BY DEF SnapshotsFollow, SnapshotOK
  <2> QED
    BY <1>1, SnapshotsOK DEF PlayersInv
<1>3. ASSUME NEW i \in 1 .. Len(toClient'), toClient'[i] = HelloMessage
      PROVE  /\ ~joined /\ snapshots'[i].player = Start
             /\ Head(toClient) # HelloMessage
             /\ \A j \in 1 .. Len(toClient') :
                  toClient'[j] = HelloMessage => j = i
  <2>0. 1 \in 1 .. Len(toClient)
    <3>1. PICK l \in Nat \ {0} : l = Len(toClient)
      BY <1>1
    <3> QED
      BY <3>1
  <2>1. /\ i + 1 \in 1 .. Len(toClient) /\ i + 1 # 1
        /\ toClient[i + 1] = HelloMessage /\ snapshots'[i] = snapshots[i + 1]
        /\ 1 \in 1 .. Len(toClient)
    <3>1. toClient'[i] = toClient[i + 1]
      BY <1>1
    <3>2. toClient[i + 1] = HelloMessage
      BY ONLY <3>1, <1>3
    <3> HIDE DEF HelloMessage
    <3> QED
      BY <1>1, <2>0, <3>2
  <2>2. /\ ~joined /\ snapshots[i + 1].player = Start
        /\ \A j \in 1 .. Len(toClient) :
             toClient[j] = HelloMessage => j = i + 1
    BY <2>1 DEF PlayersInv, HelloOnce
  <2>3. ASSUME NEW j \in 1 .. Len(toClient'), toClient'[j] = HelloMessage
        PROVE  j = i
    <3>1. j + 1 = i + 1
      BY <1>1, <2>2, <2>3
    <3> QED
      BY <3>1
  <2> QED
    BY <1>1, <2>1, <2>2, <2>3
<1> QED
  BY <1>2, <1>3

LEMMA HelloRead ==
  ASSUME Known, Known', PlayersInv, RClientReceiveHello
  PROVE  PlayersInv'
<1>1. /\ toClient # <<>> /\ Head(toClient) = HelloMessage /\ joined'
      /\ toClient' = Tail(toClient) /\ snapshots' = Tail(snapshots)
      /\ clientPlayer' = Head(snapshots).player
      /\ UNCHANGED <<clientHistory, sent, serverPlayer, moved, onTime, applied,
                     greeted, lastInputDelta>>
  BY DEF RClientReceiveHello, ClientReceiveHello, serverVars
<1>2. /\ Len(toClient) \in Nat \ {0}
      /\ Head(toClient) = toClient[1] /\ Head(snapshots) = snapshots[1]
  BY <1>1, MessageRead
<1>3. ~joined /\ sent = <<>> /\ Head(snapshots).player = Start
  <2>1. 1 \in 1 .. Len(toClient) /\ toClient[1] = HelloMessage
    BY <1>1, <1>2
  <2> QED
    BY <1>2, <2>1 DEF PlayersInv, HelloOnce
<1>4. HelloOnce' /\ SnapshotsFollow'
  BY <1>1, MessagesMoveUp DEF HelloOnce
<1>5. VelocityIsOwn'
  <2>1. sent \in Seq(SentInput) /\ Len(sent) = 0 /\ Newest.dur \in Nat
    BY <1>3, AppliedWereSent, EmptySeq
  <2>2. Path(sent, Len(sent), Newest.dur) = Start
    <3>1. Len(sent) \in 0 .. Len(sent)
      BY <2>1
    <3> QED
      BY <2>1, <3>1, PathFacts
  <2>3. Newest' = Newest
    BY <1>1 DEF Newest
  <2> QED
    BY <1>1, <1>3, <2>2, <2>3 DEF VelocityIsOwn
<1>6. OnTimeFollowsPath' /\ HistoryIsSent'
  BY <1>1 DEF PlayersInv, OnTimeFollowsPath, HistoryIsSent
<1> QED
  BY <1>1, <1>4, <1>5, <1>6 DEF PlayersInv

LEMMA SyncRead ==
  ASSUME Known, Known', PlayersInv, RClientReceiveSync
  PROVE  PlayersInv'
<1>1. /\ toClient # <<>>
      /\ toClient' = Tail(toClient) /\ snapshots' = Tail(snapshots)
      /\ clientPlayer' = clientPlayer
      /\ UNCHANGED <<joined, sent, serverPlayer, moved, onTime, applied,
                     greeted, lastInputDelta>>
  BY DEF RClientReceiveSync, ClientReceiveSync, serverVars, KeptPlayer
<1>2. HelloOnce' /\ SnapshotsFollow'
  <2>1. (~joined => sent = <<>>)'
    BY <1>1 DEF PlayersInv, HelloOnce
  <2> QED
    BY <1>1, <2>1, MessagesMoveUp DEF HelloOnce
<1>3. PICK L \in Nat \ {0} : L = Len(clientHistory)
  BY Lengths DEF Known
<1>4. PICK i \in 1 .. L :
        /\ Len(clientHistory') = L - i + 1
        /\ \A j \in 1 .. L - i + 1 :
             clientHistory'[j] = clientHistory[i + j - 1]
  <2>1. CASE clientHistory' = clientHistory
    BY <1>3, <2>1
  <2>2. CASE joined
    <3>1. PICK i \in 1 .. L + 1 :
            clientHistory' = SubSeq(clientHistory, i, Len(clientHistory))
      BY <1>3, <2>2 DEF RClientReceiveSync, ClientReceiveSync, LowerBounds
    <3>2. TypeOK /\ clientHistory # <<>>
      BY DEF Known, IInv, HistoryNeverEmpty
    <3>3. /\ Len(clientHistory') = L - i + 1
          /\ \A j \in 1 .. Len(clientHistory') :
               clientHistory'[j] = clientHistory[i + j - 1]
      BY <1>3, <3>1, <3>2, ReceiveSyncHistory
    <3>4. Len(clientHistory') # 0
      BY EmptySeq DEF Known, IInv, TypeOK, HistoryNeverEmpty
    <3>5. i \in 1 .. L
      BY <1>3, <3>3, <3>4
    <3> QED
      BY <3>3, <3>5
  <2> QED
    BY <2>1, <2>2 DEF RClientReceiveSync, ClientReceiveSync
<1>5. Newest' = Newest
  <2>1. L - i + 1 \in 1 .. L - i + 1 /\ i + (L - i + 1) - 1 = L
    BY <1>3
  <2> QED
    BY <1>3, <1>4, <2>1 DEF Newest
<1>6. VelocityIsOwn'
  BY <1>1, <1>5 DEF PlayersInv, VelocityIsOwn
<1>7. HistoryIsSent'
  <2>1. PICK n \in Nat : n = Len(sent)
    BY AppliedWereSent
  <2>0. /\ Len(sent') = n /\ sent' = sent
        /\ Len(clientHistory') = L - i + 1
    BY <1>1, <1>4, <2>1
  <2> DEFINE M == L - i + 1
  <2>a. M \in Nat /\ Len(clientHistory') = M
    BY <1>3, <1>4
  <2> SUFFICES ASSUME NEW j \in 1 .. M, NEW k, k = n - M + j
               PROVE  /\ clientHistory'[j].state = StateAfter(sent', k)
                      /\ j < M => clientHistory'[j].dur = sent'[k + 1].dur
    <3> HIDE DEF M
    <3>1. PICK N : N = clientHistory'
      OBVIOUS
    <3>2. PICK S : S = sent'
      OBVIOUS
    <3>3. Len(N) = M /\ Len(S) = n
      BY <2>0, <2>a, <3>1, <3>2
    <3> QED
      BY <3>1, <3>2, <3>3 DEF HistoryIsSent
  <2>2. PICK m : m = i + j - 1
    OBVIOUS
  <2>3. /\ m \in 1 .. L /\ k = n - L + m
        /\ j < L - i + 1 => m < L
    BY <1>3, <2>1, <2>2
  <2>4. /\ clientHistory[m].state = StateAfter(sent, k)
        /\ m < L => clientHistory[m].dur = sent[k + 1].dur
    BY <1>3, <2>1, <2>3 DEF PlayersInv, HistoryIsSent
  <2> QED
    BY <1>4, <2>0, <2>2, <2>3, <2>4
<1> QED
  BY <1>1, <1>2, <1>6, <1>7 DEF PlayersInv, OnTimeFollowsPath

\* A message is sent with a snapshot of what the server has then.
LEMMA MessageFollows ==
  ASSUME Known, PlayersInv, NEW m \in ClientMessage,
         CurrentSnapshot \in Snapshot,
         toClient' = Append(toClient, m),
         snapshots' = Append(snapshots, CurrentSnapshot),
         sent' = sent, applied <= applied', applied' \in Nat,
         m.type = "Sync" => m.ack = applied', OnTimeFollowsPath'
  PROVE  SnapshotsFollow'
<1> SUFFICES ASSUME NEW i \in 1 .. Len(toClient')
             PROVE  SnapshotOK(toClient'[i], snapshots'[i], sent, applied')
  BY DEF SnapshotsFollow, SnapshotOK
<1>1. CASE /\ i \in 1 .. Len(toClient)
           /\ toClient'[i] = toClient[i] /\ snapshots'[i] = snapshots[i]
  <2>1. SnapshotOK(toClient[i], snapshots[i], sent, applied)
    BY <1>1, SnapshotsOK DEF PlayersInv
  <2>2. snapshots[i] \in Snapshot
    BY <1>1, ElementOfSeq DEF Known, RTypeOK
  <2>3. snapshots[i].applied \in Nat /\ applied \in Nat
    BY <2>2 DEF Snapshot, Known, RTypeOK, TypeOK
  <2> QED
    BY <1>1, <2>1, <2>3 DEF SnapshotOK
<1>2. CASE toClient'[i] = m /\ snapshots'[i] = CurrentSnapshot
  <2>1. PICK q : q = CurrentSnapshot
    OBVIOUS
  <2>2. /\ q.player = serverPlayer' /\ q.moved = moved'
        /\ q.applied = applied' /\ q.onTime = onTime'
    BY <2>1 DEF CurrentSnapshot
  <2>3. q.onTime => q.player = Path(sent, q.applied, q.moved)
    BY <2>2 DEF OnTimeFollowsPath
  <2>4. SnapshotOK(m, q, sent, applied')
    BY <2>2, <2>3 DEF SnapshotOK
  <2> QED
    BY <1>2, <2>1, <2>4
<1> HIDE DEF CurrentSnapshot
<1>3. \/ /\ i \in 1 .. Len(toClient)
         /\ toClient'[i] = toClient[i] /\ snapshots'[i] = snapshots[i]
      \/ toClient'[i] = m /\ snapshots'[i] = CurrentSnapshot
  BY MessageSent
<1> QED
  BY <1>1, <1>2, <1>3

LEMMA ServerRead ==
  ASSUME Known, Known', PlayersInv, RServerReceive
  PROVE  PlayersInv'
<1>1. /\ UNCHANGED <<serverPlayer, moved, onTime, clientPlayer, clientHistory,
                     sent, joined, applied, lastInputDelta>>
      /\ toServer \in Seq(ServerMessage) /\ toServer # <<>>
  BY DEF RServerReceive, ServerReceive, clientVars, Known, RTypeOK, TypeOK
<1>2. Head(toServer) \in ServerMessage
  BY <1>1, Dequeue
<1>3. OnTimeFollowsPath' /\ HistoryIsSent' /\ VelocityIsOwn'
  BY <1>1
     DEF PlayersInv, OnTimeFollowsPath, HistoryIsSent, VelocityIsOwn, Newest
<1>4. CASE HandleHello
  <2>1. /\ toClient' = Append(toClient, HelloMessage)
        /\ snapshots' = Append(snapshots, CurrentSnapshot) /\ greeted'
    BY <1>4 DEF RServerReceive, HandleHello
  <2>2. ~greeted /\ TypeOK /\ Greeting
    BY <1>4, ReceiveWhen DEF RServerReceive, Known, IInv
  <2>3. ~joined /\ serverPlayer = Start
        /\ \A i \in 1 .. Len(toClient) : toClient[i].type = "Sync"
    BY <2>2 DEF PlayersInv, Greeting
  <2>4. /\ CurrentSnapshot \in Snapshot /\ CurrentSnapshot.player = Start
        /\ applied' \in Nat
    BY <1>1, <2>3, SnapshotType DEF Known, RTypeOK, TypeOK, CurrentSnapshot
  <2>5. /\ HelloMessage \in ClientMessage /\ HelloMessage.type # "Sync"
    BY ClientMessages
  <2>6. SnapshotsFollow'
    <3>1. applied <= applied'
      BY <1>1, <2>4
    <3> HIDE DEF CurrentSnapshot, HelloMessage
    <3> QED
      BY <1>1, <1>3, <2>1, <2>4, <2>5, <3>1, MessageFollows
  <2>7. HelloOnce'
    <3> HIDE DEF CurrentSnapshot, HelloMessage
    <3>1. \A i \in 1 .. Len(toClient') :
            toClient'[i] = HelloMessage =>
              i = Len(toClient') /\ snapshots'[i] = CurrentSnapshot
      <4> SUFFICES ASSUME NEW i \in 1 .. Len(toClient'),
                          toClient'[i] = HelloMessage
                   PROVE  i = Len(toClient') /\ snapshots'[i] = CurrentSnapshot
        OBVIOUS
      <4>1. ~(i \in 1 .. Len(toClient) /\ toClient'[i] = toClient[i])
        BY <2>3, <2>5
      <4> QED
        BY <2>1, <2>4, <2>5, <4>1, MessageSent
    <3> QED
      BY <1>1, <2>3, <2>4, <3>1 DEF PlayersInv, HelloOnce
  <2> QED
    BY <1>1, <1>3, <2>1, <2>6, <2>7 DEF PlayersInv
<1>5. CASE HandleInput
  <2>1. Head(toServer) # HelloMessage
    BY <1>5, <1>2, ServerMessages DEF HandleInput
  <2>2. toClient' = toClient /\ snapshots' = snapshots /\ greeted' = greeted
    BY <1>5, <2>1 DEF RServerReceive, HandleInput
  <2> QED
    BY <1>1, <1>3, <2>2 DEF PlayersInv, HelloOnce, SnapshotsFollow
<1> QED
  BY <1>4, <1>5 DEF RServerReceive, ServerReceive

\* A switch is on time when the old input has lasted as long as on the client.
LEMMA ServerMoves ==
  ASSUME Known, Known', PlayersInv, NEW more \in BOOLEAN, RServerSimulate(more)
  PROVE  /\ OnTimeFollowsPath'
         /\ (~greeted => serverPlayer = Start)'
         /\ (onTime => lastInputDelta = 0)'
<1>1. /\ UNCHANGED <<greeted, toServer, clientHistory, sent, joined>>
      /\ greeted =>
           serverPlayer' = Move(serverPlayer, Direction[playerControls'])
      /\ ~greeted => serverPlayer' = serverPlayer
      /\ moved' = IF applied' = applied THEN moved + 1 ELSE 1
      /\ onTime' = (onTime /\ (applied' = applied \/ currentInputDelta' = 0))
  BY DEF RServerSimulate, ServerSimulate, clientVars, MoveServerPlayer
<1>2. /\ sent \in Seq(SentInput) /\ Len(sent) \in Nat
      /\ applied \in 0 .. Len(sent) /\ applied \in Nat
  BY AppliedWereSent
<1>3. /\ currentInputDelta \in Nat /\ lastInputDelta \in Nat /\ moved \in Nat
      /\ onTime \in BOOLEAN /\ greeted \in BOOLEAN
      /\ moved = currentInputDelta - lastInputDelta + SwitchStep(applied)
  BY DEF Known, RTypeOK, TypeOK, RIInv, StepsCounted
<1>4. playerControls' = StateAfter(sent, applied')
  BY <1>1 DEF Known, IInv, ControlsFollow
<1>5. ASSUME ~greeted
      PROVE  Len(sent) = 0 /\ serverPlayer = Start
  BY <1>5, EmptySeq DEF Known, IInv, Greeting, PlayersInv
<1>6. CASE KeepMove
  <2>1. /\ applied' = applied /\ lastInputDelta' = lastInputDelta
        /\ moved' = moved + 1 /\ onTime' = onTime
    <3>1. applied' = applied /\ lastInputDelta' = lastInputDelta
      BY <1>6 DEF KeepMove
    <3>2. moved' = moved + 1
      BY <1>1, <3>1
    <3>3. onTime' = onTime
      BY ONLY <1>1, <1>3, <3>1
    <3> QED
      BY <3>1, <3>2, <3>3
  <2>2. (onTime => lastInputDelta = 0)'
    BY <2>1 DEF PlayersInv
  <2>3. CASE greeted
    <3>1. PICK m \in Nat : m = moved
      BY <1>3
    <3>2. Path(sent, applied, m + 1) =
            Move(Path(sent, applied, m), Direction[StateAfter(sent, applied)])
      BY <1>2, PathStep
    <3>3. OnTimeFollowsPath'
      BY <1>1, <1>4, <2>1, <2>3, <3>1, <3>2 DEF PlayersInv, OnTimeFollowsPath
    <3> QED
      BY <1>1, <2>2, <2>3, <3>3
  <2>4. CASE ~greeted
    <3>1. applied = 0 /\ moved' \in Nat
      BY <1>2, <1>3, <1>5, <2>1, <2>4
    <3>2. PICK m \in Nat : m = moved'
      BY <3>1
    <3>3. Path(sent, applied, m) = Start
      BY <1>2, <3>1, PathFacts
    <3> QED
      BY <1>1, <1>5, <2>1, <2>2, <2>4, <3>2, <3>3 DEF OnTimeFollowsPath
  <2> QED
    BY <2>3, <2>4
<1>7. CASE SwitchMove
  <2>1. /\ applied' = applied + 1 /\ lastInputDelta' = currentInputDelta'
        /\ currentInputDelta' = currentInputDelta + 1 - serverHistory[2].dur
        /\ Len(serverHistory) >= 2
    BY <1>7 DEF SwitchMove
  <2>2. applied + 1 \in 1 .. Len(sent) /\ applied' # applied /\ Len(sent) # 0
    <3>1. applied + Waiting <= Len(sent) /\ Waiting \in Nat \ {0}
      BY <2>1, Lengths DEF Known, Waiting
    <3> QED
      BY <1>2, <2>1, <3>1
  <2>3. greeted
    BY <1>5, <2>2
  <2>4. moved' = 1 /\ (onTime' <=> onTime /\ currentInputDelta' = 0)
    BY <1>1, <2>2
  <2>5. serverHistory[2].dur = sent[applied + 1].dur
    <3>1. PICK l \in Nat : l = Len(serverHistory)
      BY Lengths DEF Known
    <3>2. 2 \in 2 .. Len(serverHistory) /\ applied + 2 - 1 = applied + 1
      BY <1>2, <2>1, <3>1
    <3> QED
      BY <3>2 DEF Known, IInv, InputsInOrder
  <2>6. sent[applied + 1].dur \in Nat
    <3>1. sent[applied + 1] \in SentInput
      BY <1>2, <2>2, ElementOfSeq
    <3> QED
      BY <3>1 DEF SentInput
  <2>7. ASSUME onTime'
        PROVE  serverPlayer' = Path(sent, applied', moved')
    <3>1. PICK k : k = applied + 1
      OBVIOUS
    <3>2. PICK d \in Nat : d = sent[k].dur
      BY <2>6, <3>1
    <3>3. d = currentInputDelta + 1
      BY <1>3, <2>1, <2>4, <2>5, <2>7, <3>1, <3>2
    <3>4. moved = currentInputDelta + SwitchStep(applied)
      BY <1>3, <2>4, <2>7 DEF PlayersInv, SwitchStep
    <3>5. serverPlayer = Path(sent, applied, moved)
      BY <2>4, <2>7 DEF PlayersInv, OnTimeFollowsPath
    <3>6. Path(sent, applied, d) = Path(sent, applied, moved)
      <4>1. CASE applied = 0
        BY <1>2, <1>3, <4>1, PathFacts
      <4>2. CASE applied # 0
        <5>1. moved = d
          BY <1>3, <3>3, <3>4, <4>2 DEF SwitchStep
        <5> QED
          BY <5>1
      <4> QED
        BY <4>1, <4>2
    <3>7. k \in 1 .. Len(sent) /\ k - 1 = applied /\ k = applied'
      BY <1>2, <2>1, <2>2, <3>1
    <3>8. Path(sent, k, 1) =
            Move(Path(sent, k - 1, sent[k].dur), Direction[StateAfter(sent, k)])
      BY <1>2, <3>7, PathSwitch
    <3> QED
      BY <1>1, <1>4, <2>3, <2>4, <3>2, <3>5, <3>6, <3>7, <3>8
  <2>8. OnTimeFollowsPath'
    BY <1>1, <2>7 DEF OnTimeFollowsPath
  <2> QED
    BY <1>1, <2>1, <2>3, <2>4, <2>8
<1> QED
  BY <1>6, <1>7 DEF RServerSimulate, ServerSimulate

LEMMA ServerSimulated ==
  ASSUME Known, Known', PlayersInv, NEW more \in BOOLEAN, RServerSimulate(more)
  PROVE  PlayersInv'
<1>1. /\ UNCHANGED <<clientHistory, sent, joined, clientPlayer, greeted>>
      /\ TypeOK /\ ServerSimulate(more)
  BY DEF RServerSimulate, ServerSimulate, clientVars, Known, RTypeOK
<1>2. HistoryIsSent' /\ VelocityIsOwn'
  BY <1>1 DEF PlayersInv, HistoryIsSent, VelocityIsOwn, Newest
<1>3. /\ OnTimeFollowsPath'
      /\ (~greeted => serverPlayer = Start)'
      /\ (onTime => lastInputDelta = 0)'
  BY ServerMoves
<1>4. applied <= applied' /\ applied \in Nat /\ applied' \in Nat
  <2>1. applied' = applied \/ applied' = applied + 1
    BY <1>1 DEF ServerSimulate, SwitchMove, KeepMove
  <2> QED
    BY <1>1, <2>1 DEF TypeOK
<1>5. CASE ~more /\ simulationTick' = 0
  <2>1. /\ toClient' = Append(toClient, CurrentSync)
        /\ snapshots' = Append(snapshots, CurrentSnapshot)
    BY <1>5 DEF RServerSimulate, ServerSimulate, PostSimulate
  <2>2. CurrentSnapshot \in Snapshot
    BY <1>4, SnapshotType DEF Known, RTypeOK
  <2>3. /\ CurrentSync \in ClientMessage
        /\ CurrentSync.type = "Sync" /\ CurrentSync.ack = applied'
    <3>1. /\ lastInputId' \in Ids /\ lastInputId' = applied'
          /\ currentInputDelta' - lastInputDelta' \in Int
      <4>1. TypeOK' /\ IdsCount'
        BY DEF Known, IInv
      <4>2. currentInputDelta' \in Int /\ lastInputDelta' \in Int
        BY <4>1 DEF TypeOK
      <4> QED
        BY <4>1, <4>2 DEF TypeOK, IdsCount
    <3> QED
      BY <1>1, <3>1, ClientMessages DEF CurrentSync, SyncMessage, TypeOK
  <2>4. CurrentSync # HelloMessage
    BY <2>3, ClientMessages
  <2> HIDE DEF CurrentSync, CurrentSnapshot, HelloMessage
  <2>5. SnapshotsFollow'
    BY <1>1, <1>3, <1>4, <2>1, <2>2, <2>3, MessageFollows
  <2>6. HelloOnce'
    <3>1. ASSUME NEW i \in 1 .. Len(toClient'), toClient'[i] = HelloMessage
          PROVE  /\ i \in 1 .. Len(toClient) /\ toClient[i] = HelloMessage
                 /\ snapshots'[i] = snapshots[i]
      BY <2>1, <2>2, <2>3, <2>4, <3>1, MessageSent
    <3> QED
      BY <1>1, <3>1 DEF PlayersInv, HelloOnce
  <2> QED
    BY <1>1, <1>2, <1>3, <2>5, <2>6 DEF PlayersInv
<1>6. CASE ~(~more /\ simulationTick' = 0)
  <2>1. toClient' = toClient /\ snapshots' = snapshots
    BY <1>6 DEF RServerSimulate, ServerSimulate, PostSimulate
  <2>2. HelloOnce'
    BY <1>1, <2>1 DEF PlayersInv, HelloOnce
  <2>3. SnapshotsFollow'
    <3> SUFFICES ASSUME NEW i \in 1 .. Len(toClient)
                 PROVE  SnapshotOK(toClient[i], snapshots[i], sent, applied')
      BY <1>1, <2>1 DEF SnapshotsFollow, SnapshotOK
    <3>1. SnapshotOK(toClient[i], snapshots[i], sent, applied)
      BY SnapshotsOK DEF PlayersInv
    <3>2. snapshots[i] \in Snapshot
      BY ElementOfSeq DEF Known, RTypeOK
    <3>3. snapshots[i].applied \in Nat
      BY <3>2 DEF Snapshot
    <3> QED
      BY <1>4, <3>1, <3>3 DEF SnapshotOK
  <2> QED
    BY <1>1, <1>2, <1>3, <2>2, <2>3 DEF PlayersInv
<1> QED
  BY <1>5, <1>6

LEMMA PlayersInit == ASSUME RInit PROVE PlayersInv
<1>1. /\ sent = <<>> /\ toClient = <<>> /\ Len(toClient) = 0 /\ ~joined
      /\ sent \in Seq(SentInput) /\ Len(sent) = 0 /\ applied = 0 /\ moved = 0
      /\ serverPlayer = Start /\ lastInputDelta = 0
      /\ clientHistory = <<[id |-> 0, state |-> NoControls, dur |-> 0]>>
  BY EmptySeq DEF RInit, Init
<1>2. OnTimeFollowsPath
  <2>1. 0 \in 0 .. Len(sent) /\ 0 \in Nat
    BY <1>1
  <2> QED
    BY <1>1, <2>1, PathFacts DEF OnTimeFollowsPath
<1>3. HistoryIsSent
  <2>1. Len(clientHistory) = 1 /\ clientHistory[1].state = NoControls
    BY <1>1
  <2>2. \A i \in 1 .. 1 : i = 1 /\ ~(i < 1) /\ 0 - 1 + i = 0
    OBVIOUS
  <2> QED
    BY <1>1, <2>1, <2>2 DEF HistoryIsSent, StateAfter
<1> QED
  BY <1>1, <1>2, <1>3 DEF PlayersInv, HelloOnce, SnapshotsFollow, VelocityIsOwn

\* Where the players, and the snapshots on their way, are: the inductive
\* invariant behind the theorems below.
THEOREM PlayersInvariant == ASSUME NoWrap PROVE RSpec => []PlayersInv
<1>1. RInit => PlayersInv
  BY PlayersInit
<1>2. Known /\ Known' /\ PlayersInv /\ [RNext]_allVars => PlayersInv'
  <2> SUFFICES ASSUME Known, Known', PlayersInv, [RNext]_allVars
               PROVE  PlayersInv'
    OBVIOUS
  <2>1. ASSUME NEW c \in Controls, RClientSimulate(c) PROVE PlayersInv'
    BY <2>1, ChangedControls, KeptControls DEF RClientSimulate, ClientSimulate
  <2>2. CASE RClientReceiveHello
    BY <2>2, HelloRead
  <2>3. CASE RClientReceiveSync
    BY <2>3, SyncRead
  <2>4. CASE RServerReceive
    BY <2>4, ServerRead
  <2>5. ASSUME NEW more \in BOOLEAN, RServerSimulate(more) PROVE PlayersInv'
    BY <2>5, ServerSimulated
  <2>6. CASE UNCHANGED allVars
    BY <2>6 DEF allVars, motionVars, vars, serverVars, clientVars, PlayersInv,
                HelloOnce, OnTimeFollowsPath, VelocityIsOwn, SnapshotsFollow,
                HistoryIsSent, Newest
  <2> QED
    BY <2>1, <2>2, <2>3, <2>4, <2>5, <2>6 DEF RNext, RClientReceive
<1>3. RSpec => []Known
  BY RefinesInputSync, InductiveInvariant, SnapshotInvariant, RTypeCorrect, PTL
     DEF Known
<1> QED
  BY <1>1, <1>2, <1>3, PTL DEF RSpec

\* The velocity of the client's player is that of its own inputs, whatever
\* Syncs and corrections came in between.
THEOREM VelocityIsAlwaysOwn == ASSUME NoWrap PROVE RSpec => []VelocityIsOwn
<1>1. PlayersInv => VelocityIsOwn
  BY DEF PlayersInv
<1> QED
  BY <1>1, PlayersInvariant, PTL
-----------------------------------------------------------------------------
(***************************************************************************)
(* Where the server's player is when inputs are late.                      *)
(***************************************************************************)
LEMMA LateByType ==
  ASSUME NEW l \in Seq(Nat), NEW k \in 0 .. Len(l)
  PROVE  LateBy(l, k) \in Nat
<1>1. CASE k = 0
  BY <1>1 DEF LateBy
<1>2. CASE k # 0
  <2>1. k \in 1 .. Len(l)
    BY <1>2, LenProperties
  <2> QED
    BY <1>2, <2>1, ElementOfSeq DEF LateBy
<1> QED
  BY <1>1, <1>2

\* The inputs as applied have the states of the inputs sent.
LEMMA AsAppliedFacts ==
  ASSUME NEW s \in Seq(SentInput), NEW l \in Seq(Nat),
         AsApplied(s, l) \in Seq(SentInput)
  PROVE  /\ Len(AsApplied(s, l)) = Len(l)
         /\ \A k \in 1 .. Len(l) : AsApplied(s, l)[k].state = s[k].state
<1>1. PICK n \in Nat : n = Len(l)
  BY LenProperties
<1>2. PICK a : a = AsApplied(s, l)
  OBVIOUS
<1>3. a = [k \in 1 .. n |->
             [s[k] EXCEPT !.dur = @ + LateBy(l, k) - LateBy(l, k - 1)]]
  BY <1>1, <1>2 DEF AsApplied
<1>4. DOMAIN a = 1 .. n /\ DOMAIN a = 1 .. Len(a) /\ Len(a) \in Nat
  BY <1>2, <1>3, LenProperties
<1>5. Len(a) = n
  BY ONLY <1>1, <1>4
<1>6. ASSUME NEW k \in 1 .. n PROVE a[k].state = s[k].state
  <2>1. a[k] \in SentInput
    BY <1>2, <1>5, ElementOfSeq
  <2>2. a[k] = [s[k] EXCEPT !.dur = @ + LateBy(l, k) - LateBy(l, k - 1)]
    BY <1>3
  <2> QED
    BY <2>1, <2>2 DEF SentInput
<1> QED
  BY <1>1, <1>2, <1>5, <1>6

\* The k-th input is applied c steps late, when the one before it, which was
\* applied e steps late, has been made for d steps.
LEMMA OneMoreApplied ==
  ASSUME NEW s \in Seq(SentInput), NEW l \in Seq(Nat), NEW c \in Nat,
         AsApplied(s, l) \in Seq(SentInput),
         NEW k \in 1 .. Len(s), NEW j \in Nat, j = Len(l), k = j + 1,
         NEW e, e = LateBy(l, j), NEW d \in Nat, d = s[k].dur + c - e
  PROVE  /\ AsApplied(s, Append(l, c)) \in Seq(SentInput)
         /\ AsApplied(s, Append(l, c))[k].dur = d
         /\ \A i \in 1 .. j :
              AsApplied(s, Append(l, c))[i] = AsApplied(s, l)[i]
<1>1. PICK n \in Nat : n = Len(l)
  BY LenProperties
<1>2. PICK m : m = Append(l, c)
  OBVIOUS
<1>3. /\ k = n + 1 /\ k - 1 = n /\ j = n /\ Len(m) = k /\ m[k] = c
      /\ \A i \in 1 .. n : m[i] = l[i]
  BY <1>1, <1>2, AppendProperties
<1>4. PICK b : b = AsApplied(s, m)
  OBVIOUS
<1>5. b = [i \in 1 .. k |->
             [s[i] EXCEPT !.dur = @ + LateBy(m, i) - LateBy(m, i - 1)]]
  BY <1>3, <1>4 DEF AsApplied
<1>6. PICK a \in Seq(SentInput) : a = AsApplied(s, l)
  OBVIOUS
<1>7. /\ Len(a) = n
      /\ a = [i \in 1 .. n |->
                [s[i] EXCEPT !.dur = @ + LateBy(l, i) - LateBy(l, i - 1)]]
  BY <1>1, <1>6, AsAppliedFacts DEF AsApplied
<1>8. /\ \A i \in 0 .. n : LateBy(m, i) = LateBy(l, i)
      /\ LateBy(m, k) = c
  BY <1>3 DEF LateBy
<1>9. ASSUME NEW i \in 1 .. n PROVE b[i] = a[i] /\ a[i] \in SentInput
  <2>1. i \in 0 .. n /\ i - 1 \in 0 .. n /\ i \in 1 .. k
    BY <1>3
  <2>2. LateBy(m, i) = LateBy(l, i) /\ LateBy(m, i - 1) = LateBy(l, i - 1)
    BY <1>8, <2>1
  <2>3. b[i] = a[i]
    BY <1>5, <1>7, <2>1, <2>2
  <2>4. i \in 1 .. Len(a)
    BY <1>7
  <2> QED
    BY <2>3, <2>4, ElementOfSeq
<1>10. b[k] \in SentInput /\ b[k].dur = d
  <2>1. k \in 1 .. k /\ n \in 0 .. n
    BY <1>3
  <2>2. b[k] = [s[k] EXCEPT !.dur = @ + c - LateBy(l, k - 1)]
    BY <1>3, <1>5, <1>8, <2>1
  <2>3. s[k] \in SentInput
    BY ElementOfSeq
  <2>4. b[k] = [s[k] EXCEPT !.dur = d]
    BY <1>3, <2>2, <2>3 DEF SentInput
  <2> QED
    BY <2>3, <2>4 DEF SentInput
<1>11. \A i \in 1 .. k : i \in 1 .. n \/ i = k
  BY <1>3
<1>12. b \in Seq(SentInput)
  <2>1. \A i \in 1 .. k : b[i] \in SentInput
    BY <1>9, <1>10, <1>11
  <2>2. b = [i \in 1 .. k |-> b[i]]
    BY ONLY <1>5
  <2>3. b \in [1 .. k -> SentInput]
    BY ONLY <2>1, <2>2
  <2>4. k \in Nat
    BY ONLY <1>1, <1>3
  <2> QED
    BY ONLY <2>3, <2>4, SeqDef
<1> QED
  BY <1>2, <1>3, <1>4, <1>6, <1>9, <1>10, <1>12

\* Another input sent changes nothing of the inputs as applied.
LEMMA AppliedStay ==
  ASSUME Known, NEW c \in Controls, ClientSimulate(c),
         late \in Seq(Nat), Len(late) = applied
  PROVE  AsApplied(sent', late) = AsApplied(sent, late)
<1>1. PICK l \in Nat : l = Len(sent)
  BY LenProperties DEF Known, RTypeOK, TypeOK
<1>2. \A i \in 1 .. l : sent'[i] = sent[i]
  <2>1. sent' = sent \/ \E x \in SentInput : sent' = Append(sent, x)
    <3>1. CASE KeepControls(c)
      BY <3>1 DEF KeepControls
    <3>2. CASE ChangeControls(c)
      <4>1. [state |-> c, dur |-> Newest.dur, at |-> clientTicks] \in SentInput
        BY AppliedWereSent DEF Known, RTypeOK, TypeOK, SentInput
      <4> QED
        BY <3>2, <4>1 DEF ChangeControls
    <3> QED
      BY <3>1, <3>2 DEF ClientSimulate
  <2>2. sent \in Seq(SentInput)
    BY DEF Known, RTypeOK, TypeOK
  <2>3. \A x \in SentInput : \A i \in 1 .. Len(sent) :
          Append(sent, x)[i] = sent[i]
    BY ONLY <2>2, AppendProperties
  <2> QED
    BY ONLY <1>1, <2>1, <2>3
<1>3. applied \in Nat /\ applied <= l
  BY <1>1, AppliedWereSent
<1>4. \A i \in 1 .. applied : sent'[i] = sent[i]
  BY <1>2, <1>3
<1> QED
  BY <1>4 DEF AsApplied

\* A step in which UpdateMove does not switch.
LEMMA KeptMoveFollows ==
  ASSUME Known, Known', PlayersInv, LateInv,
         NEW more \in BOOLEAN, RServerSimulate(more), KeepMove
  PROVE  LateInv'
<1>1. /\ applied' = applied /\ lastInputDelta' = lastInputDelta
      /\ late' = late /\ sent' = sent /\ moved' = moved + 1
  BY DEF KeepMove, RServerSimulate, ServerSimulate, clientVars
<1>2. PICK a \in Seq(SentInput) : a = AsApplied(sent, late)
  BY DEF LateInv
<1>3. /\ sent \in Seq(SentInput) /\ late \in Seq(Nat) /\ applied \in Nat
      /\ moved \in Nat /\ Len(late) = applied
  BY DEF Known, RTypeOK, TypeOK, LateInv
<1>4. /\ Len(a) = applied
      /\ \A k \in 1 .. applied : a[k].state = sent[k].state
  BY <1>2, <1>3, AsAppliedFacts
<1>5. applied \in 0 .. Len(a)
  BY <1>3, <1>4
<1>6. StateAfter(a, applied) = playerControls'
  <2>1. playerControls' = StateAfter(sent, applied)
    BY <1>1 DEF Known, IInv, ControlsFollow
  <2> QED
    BY <1>3, <1>4, <2>1 DEF StateAfter
<1>7. Path(a, applied, moved + 1) =
        Move(Path(a, applied, moved), Direction[playerControls'])
  BY <1>3, <1>5, <1>6, PathStep
<1>8. serverPlayer = Path(a, applied, moved)
  BY <1>2 DEF LateInv, ServerFollowsPath
<1>9. serverPlayer' = Path(a, applied, moved + 1)
  <2>1. CASE greeted
    BY <1>7, <1>8, <2>1 DEF RServerSimulate, MoveServerPlayer
  <2>2. CASE ~greeted
    <3>1. Len(sent) = 0 /\ serverPlayer = Start
      BY <2>2, EmptySeq DEF Known, IInv, Greeting, PlayersInv
    <3>2. applied = 0
      BY <3>1, AppliedWereSent
    <3>3. moved + 1 \in Nat
      BY <1>3
    <3>4. Path(a, applied, moved + 1) = Start
      BY <1>5, <3>2, <3>3, PathFacts
    <3> QED
      BY <2>2, <3>1, <3>4 DEF RServerSimulate
  <2> QED
    BY <2>1, <2>2
<1> QED
  BY <1>1, <1>2, <1>9 DEF LateInv, ServerFollowsPath

\* A step in which it does: the steps made under the old input are what the
\* client said, and the time the new one is credited with, less that credited
\* to the old one.
LEMMA SwitchFollows ==
  ASSUME Known, Known', PlayersInv, LateInv,
         NEW more \in BOOLEAN, RServerSimulate(more), SwitchMove
  PROVE  LateInv'
<1>1. PICK k : k = applied + 1
  OBVIOUS
<1>2. /\ sent \in Seq(SentInput) /\ late \in Seq(Nat) /\ applied \in Nat
      /\ currentInputDelta \in Nat /\ lastInputDelta \in Nat /\ moved \in Nat
      /\ lastInputDelta <= currentInputDelta
      /\ moved = currentInputDelta - lastInputDelta + SwitchStep(applied)
      /\ Len(late) = applied
  BY DEF Known, RTypeOK, TypeOK, RIInv, StepsCounted, LateInv
<1>3. /\ applied' = k /\ lastInputDelta' = currentInputDelta'
      /\ currentInputDelta' = currentInputDelta + 1 - serverHistory[2].dur
      /\ Len(serverHistory) >= 2
  BY <1>1 DEF SwitchMove
<1>4. k # applied /\ k - 1 = applied /\ k \in Nat \ {0}
  BY <1>1, <1>2
<1>5. k \in 1 .. Len(sent)
  <2>1. applied + Waiting <= Len(sent) /\ Waiting \in Nat \ {0}
        /\ Len(sent) \in Nat
    BY <1>3, Lengths DEF Known, Waiting
  <2> QED
    BY <1>1, <1>2, <2>1
<1>6. PICK c \in Nat : c = currentInputDelta'
  BY DEF Known, RTypeOK, TypeOK
<1>7. /\ late' = Append(late, c) /\ sent' = sent /\ moved' = 1
  BY <1>3, <1>4, <1>6 DEF RServerSimulate, ServerSimulate, clientVars
<1>8. sent[k].dur = serverHistory[2].dur /\ sent[k].dur \in Nat
  <2>1. PICK l \in Nat : l = Len(serverHistory)
    BY Lengths DEF Known
  <2>2. 2 \in 2 .. Len(serverHistory) /\ applied + 2 - 1 = k
    BY <1>1, <1>2, <1>3, <2>1
  <2>3. sent[k] \in SentInput
    BY <1>2, <1>5, ElementOfSeq
  <2> QED
    BY <2>2, <2>3 DEF Known, IInv, InputsInOrder, SentInput
<1>9. PICK d \in Nat : d = currentInputDelta + 1 - lastInputDelta
  BY <1>2
<1>10. d = sent[k].dur + c - lastInputDelta
  <2>2. PICK e \in Nat : e = sent[k].dur
    BY <1>8
  <2>3. c = currentInputDelta + 1 - e
    BY <1>3, <1>6, <1>8, <2>2
  <2>4. \A x, y \in Nat : e + (x + 1 - e) - y = x + 1 - y
    BY <2>2
  <2>5. d = e + c - lastInputDelta
    BY <1>2, <1>9, <2>3, <2>4
  <2> QED
    BY ONLY <2>2, <2>5
<1>11. PICK a \in Seq(SentInput) : a = AsApplied(sent, late)
  BY DEF LateInv
<1>12. PICK b : b = AsApplied(sent, Append(late, c))
  OBVIOUS
<1>13. /\ b \in Seq(SentInput) /\ b[k].dur = d
       /\ \A i \in 1 .. applied : b[i] = a[i]
  <2>1. /\ k = applied + 1 /\ applied = Len(late)
        /\ lastInputDelta = LateBy(late, applied)
        /\ AsApplied(sent, late) \in Seq(SentInput)
    BY <1>1, <1>2 DEF LateInv
  <2>2. /\ sent \in Seq(SentInput) /\ late \in Seq(Nat) /\ c \in Nat
        /\ d \in Nat /\ applied \in Nat
    BY <1>2, <1>6, <1>9
  <2>3. /\ AsApplied(sent, Append(late, c)) \in Seq(SentInput)
        /\ AsApplied(sent, Append(late, c))[k].dur = d
        /\ \A i \in 1 .. applied :
             AsApplied(sent, Append(late, c))[i] = AsApplied(sent, late)[i]
    BY ONLY <1>5, <1>10, <2>1, <2>2, OneMoreApplied, Z3
  <2> QED
    BY ONLY <1>11, <1>12, <2>3
<1>14. Len(Append(late, c)) = k /\ Append(late, c) \in Seq(Nat)
       /\ Append(late, c)[k] = c
  BY <1>1, <1>2, AppendProperties
<1>15. Len(b) = k /\ b[k].state = sent[k].state /\ Len(a) = applied
  <2>1. k \in 1 .. k
    BY <1>4
  <2>2. /\ Len(b) = k
        /\ \A i \in 1 .. k : b[i].state = sent[i].state
    <3>1. PICK m \in Seq(Nat) : m = Append(late, c)
      BY <1>14
    <3>2. Len(m) = k /\ b = AsApplied(sent, m)
      BY <1>12, <1>14, <3>1
    <3>3. Len(b) = Len(m) /\ \A i \in 1 .. Len(m) : b[i].state = sent[i].state
      BY <1>2, <1>13, <3>2, AsAppliedFacts
    <3> QED
      BY <3>2, <3>3
  <2>3. Len(a) = applied
    BY <1>2, <1>11, AsAppliedFacts
  <2> QED
    BY <2>1, <2>2, <2>3
<1>16. serverPlayer = Path(b, applied, d)
  <2>1. serverPlayer = Path(a, applied, moved)
    BY <1>11 DEF LateInv, ServerFollowsPath
  <2>2. Path(b, applied, d) = Path(a, applied, d)
    BY <1>2, <1>13, PathAgrees
  <2>3. Path(a, applied, d) = Path(a, applied, moved)
    <3>1. CASE applied = 0
      <4>1. applied \in 0 .. Len(a)
        BY <1>2, <1>15
      <4> QED
        BY <1>2, <3>1, <4>1, PathFacts
    <3>2. CASE applied # 0
      <4>1. d = moved
        BY <1>2, <1>9, <3>2 DEF SwitchStep
      <4> QED
        BY <4>1
    <3> QED
      BY <3>1, <3>2
  <2> QED
    BY <2>1, <2>2, <2>3
<1>17. StateAfter(b, k) = playerControls'
  <2>1. playerControls' = StateAfter(sent, k)
    BY <1>3, <1>7 DEF Known, IInv, ControlsFollow
  <2> QED
    BY <1>4, <1>15, <2>1 DEF StateAfter
<1>18. greeted
  <2>1. Len(sent) # 0
    BY <1>4, <1>5
  <2> QED
    BY <2>1, EmptySeq DEF Known, IInv, Greeting
<1>19. serverPlayer' = Path(b, k, 1)
  <2>1. k \in 1 .. Len(b)
    BY <1>4, <1>15
  <2>2. Path(b, k, 1) =
          Move(Path(b, k - 1, b[k].dur), Direction[StateAfter(b, k)])
    BY <1>13, <2>1, PathSwitch
  <2>3. serverPlayer' = Move(serverPlayer, Direction[playerControls'])
    BY <1>18 DEF RServerSimulate, MoveServerPlayer
  <2> QED
    BY <1>4, <1>13, <1>16, <1>17, <2>2, <2>3
<1>20. LateBy(Append(late, c), k) = c
  BY <1>4, <1>14 DEF LateBy
<1> QED
  BY <1>3, <1>6, <1>7, <1>12, <1>13, <1>14, <1>19, <1>20
     DEF LateInv, ServerFollowsPath

LEMMA LateInit == RInit => LateInv
<1> SUFFICES ASSUME RInit PROVE LateInv
  OBVIOUS
<1>1. /\ sent = <<>> /\ late = <<>> /\ applied = 0 /\ moved = 0
      /\ lastInputDelta = 0 /\ serverPlayer = Start
  BY DEF RInit, Init
<1>2. Len(late) = 0 /\ LateBy(late, 0) = 0
  BY <1>1, EmptySeq DEF LateBy
<1>3. PICK a : a = AsApplied(sent, late)
  OBVIOUS
<1>4. a \in [1 .. 0 -> SentInput]
  BY <1>2, <1>3 DEF AsApplied
<1>5. a \in Seq(SentInput)
  BY <1>4, SeqDef
<1>6. 0 \in 0 .. Len(a) /\ 0 \in Nat
  BY <1>5, LenProperties
<1>7. Path(a, 0, 0) = Start
  BY <1>5, <1>6, PathFacts
<1> QED
  BY <1>1, <1>2, <1>3, <1>5, <1>7 DEF LateInv, ServerFollowsPath

\* However late the inputs arrive, the server's player has made each of the
\* client's movements for as many steps as on the client, those credited to the
\* next input included, after any number of inputs and steps.
THEOREM ServerAlwaysFollows == ASSUME NoWrap PROVE RSpec => []ServerFollowsPath
<1>1. Known /\ Known' /\ PlayersInv /\ LateInv /\ [RNext]_allVars => LateInv'
  <2> SUFFICES ASSUME Known, Known', PlayersInv, LateInv, [RNext]_allVars
               PROVE  LateInv'
    OBVIOUS
  <2>1. ASSUME NEW c \in Controls, RClientSimulate(c) PROVE LateInv'
    <3>1. UNCHANGED <<late, applied, lastInputDelta, serverPlayer, moved>>
      BY <2>1 DEF RClientSimulate, ClientSimulate, serverVars
    <3>2. AsApplied(sent', late) = AsApplied(sent, late)
      BY <2>1, AppliedStay DEF RClientSimulate, Known, RTypeOK, LateInv
    <3> QED
      BY <3>1, <3>2 DEF LateInv, ServerFollowsPath
  <2>2. CASE RClientReceive \/ RServerReceive \/ UNCHANGED allVars
    <3>1. UNCHANGED <<late, applied, lastInputDelta, serverPlayer, moved, sent>>
      BY <2>2 DEF RClientReceive, RClientReceiveHello, ClientReceiveHello,
                  RClientReceiveSync, ClientReceiveSync, RServerReceive,
                  ServerReceive, allVars, motionVars, vars, serverVars,
                  clientVars
    <3> QED
      BY <3>1 DEF LateInv, ServerFollowsPath
  <2>3. ASSUME NEW more \in BOOLEAN, RServerSimulate(more) PROVE LateInv'
    BY <2>3, KeptMoveFollows, SwitchFollows DEF RServerSimulate, ServerSimulate
  <2> QED
    BY <2>1, <2>2, <2>3 DEF RNext
<1>2. RSpec => []Known
  BY RefinesInputSync, InductiveInvariant, SnapshotInvariant, RTypeCorrect, PTL
     DEF Known
<1>3. LateInv => ServerFollowsPath
  BY DEF LateInv
<1> QED
  BY <1>1, <1>2, <1>3, LateInit, PlayersInvariant, PTL DEF RSpec
-----------------------------------------------------------------------------
(***************************************************************************)
(* What Receive's replay computes.                                         *)
(***************************************************************************)

\* The history replayed begins with the acknowledged input, the k-th, and is
\* the client's from there on.
ReplayedFrom(h, k) ==
  /\ h \in Seq(ClientInput) /\ k \in 0 .. Len(sent)
  /\ Len(h) = Len(sent) - k + 1
  /\ \A j \in 1 .. Len(sent) - k + 1 :
       /\ h[j].state = StateAfter(sent, k + j - 1)
       /\ k + j - 1 < Len(sent) => h[j].dur = sent[k + j].dur
       /\ k + j - 1 = Len(sent) => h[j].dur = Newest.dur

LEMMA ReplayBegins ==
  ASSUME Known, PlayersInv, NextSync, NEW h \in NextHistories
  PROVE  ReplayedFrom(h, Head(snapshots).applied)
<1>1. /\ toClient \in Seq(ClientMessage) /\ toClient # <<>>
      /\ snapshots \in Seq(Snapshot) /\ snapshots # <<>>
      /\ clientHistory \in Seq(ClientInput)
  BY EmptySeq DEF NextSync, Known, RTypeOK, TypeOK
<1>2. /\ Len(toClient) \in Nat \ {0}
      /\ Head(toClient) = toClient[1] /\ Head(snapshots) = snapshots[1]
  BY <1>1, Dequeue
<1>3. PICK k : k = Head(snapshots).applied
  OBVIOUS
<1>4. Head(toClient).ack = k
  <2>1. 1 \in 1 .. Len(toClient)
    <3>1. PICK l \in Nat \ {0} : l = Len(toClient)
      BY <1>2
    <3> QED
      BY <3>1
  <2> QED
    BY <1>2, <1>3, <2>1 DEF NextSync, PlayersInv, SnapshotsFollow
<1>5. PICK n \in Nat : n = Len(sent)
  BY AppliedWereSent
<1>6. PICK L \in Nat \ {0} : L = Len(clientHistory)
  BY Lengths DEF Known
<1>7. \A j \in 1 .. L : clientHistory[j].id = n - L + j
  BY <1>5, <1>6 DEF Known, IInv, IdsCount
<1>8. PICK a \in 1 .. L : clientHistory[a].id = k
  BY <1>2, <1>4, <1>6, AckFound DEF Known, NextSync
<1>9. PICK i \in LowerBounds(clientHistory, k) :
        h = SubSeq(clientHistory, i, Len(clientHistory))
  BY <1>4 DEF NextHistories
<1>10. /\ i \in 1 .. L + 1
       /\ i > 1 => clientHistory[i - 1].id < k
       /\ i <= L => clientHistory[i].id >= k
  BY <1>6 DEF LowerBounds
<1>11. i \in 1 .. L
  BY <1>6, <1>7, <1>8, <1>10
<1>12. n - L + i = k
  <2>1. clientHistory[i].id = n - L + i /\ i <= L
    BY <1>7, <1>11
  <2>2. i > 1 => clientHistory[i - 1].id = n - L + (i - 1)
    BY <1>7, <1>11
  <2>3. k = n - L + a
    BY <1>7, <1>8
  <2> QED
    BY <1>8, <1>10, <1>11, <2>1, <2>2, <2>3
<1>13. k \in Nat
  <2>1. clientHistory[a] \in ClientInput
    BY <1>1, <1>6, <1>8, ElementOfSeq
  <2> QED
    BY <1>8, <2>1 DEF ClientInput, Ids
<1>14. PICK m : m = n - k + 1
  OBVIOUS
<1>15. m \in 1 .. L /\ k <= n /\ m = L - i + 1
  BY <1>6, <1>11, <1>12, <1>14
<1>16. /\ h \in Seq(ClientInput) /\ Len(h) = m
       /\ \A j \in 1 .. m : h[j] = clientHistory[i + j - 1]
  <2>1. \A j \in i .. L : clientHistory[j] \in ClientInput
    BY <1>1, <1>6, <1>11, ElementOfSeq
  <2> QED
    BY <1>6, <1>9, <1>11, <1>15, <2>1, SubSeqProperties
<1>17. ASSUME NEW j \in 1 .. m
       PROVE  /\ h[j].state = StateAfter(sent, k + j - 1)
              /\ k + j - 1 < n => h[j].dur = sent[k + j].dur
              /\ k + j - 1 = n => h[j].dur = Newest.dur
  <2>1. PICK b : b = i + j - 1
    OBVIOUS
  <2>2. /\ b \in 1 .. L /\ n - L + b = k + j - 1
        /\ (n - L + b) + 1 = k + j
        /\ (b < L <=> k + j - 1 < n) /\ (b = L <=> k + j - 1 = n)
    BY <1>6, <1>11, <1>12, <1>13, <1>15, <2>1
  <2>3. /\ clientHistory[b].state = StateAfter(sent, n - L + b)
        /\ b < L => clientHistory[b].dur = sent[(n - L + b) + 1].dur
    BY <1>5, <1>6, <2>2 DEF PlayersInv, HistoryIsSent
  <2> QED
    BY <1>6, <1>16, <2>1, <2>2, <2>3 DEF Newest
<1>18. k \in 0 .. n /\ Len(sent) - k + 1 = m
  BY <1>5, <1>13, <1>14, <1>15
<1>19. ReplayedFrom(h, k)
  BY <1>5, <1>16, <1>17, <1>18 DEF ReplayedFrom
<1> QED
  BY <1>3, <1>19

LEMMA LengthenedInputs ==
  ASSUME NEW s \in Seq(SentInput), NEW k \in 0 .. Len(s), NEW e \in Nat,
         NEW t, t = Lengthened(s, k, e)
  PROVE  /\ t \in Seq(SentInput) /\ Len(t) = Len(s)
         /\ \A x \in 1 .. Len(s) : t[x].state = s[x].state
         /\ \A x \in 1 .. Len(s) : x # k + 1 => t[x] = s[x]
         /\ k < Len(s) => t[k + 1].dur = s[k + 1].dur + e
<1>1. PICK n \in Nat : n = Len(s)
  BY LenProperties
<1>2. CASE k < n
  <2>1. PICK u : u = [s[k + 1] EXCEPT !.dur = @ + e]
    OBVIOUS
  <2>2. k + 1 \in 1 .. n /\ s[k + 1] \in SentInput
    BY <1>1, <1>2, ElementOfSeq
  <2>3. u \in SentInput /\ u.state = s[k + 1].state /\ u.dur = s[k + 1].dur + e
    <3>1. PICK r \in SentInput : r = s[k + 1]
      BY <2>2
    <3>2. r.dur + e \in Nat
      BY <3>1 DEF SentInput
    <3>3. u = [r EXCEPT !.dur = r.dur + e]
      BY <2>1, <3>1
    <3> QED
      BY <3>1, <3>2, <3>3 DEF SentInput
  <2>4. t = [s EXCEPT ![k + 1] = u]
    BY <1>1, <1>2, <2>1 DEF Lengthened
  <2>5. t \in Seq(SentInput) /\ Len(t) = n
    BY <1>1, <2>2, <2>3, <2>4, ExceptSeq
  <2>6. \A x \in 1 .. n : t[x] = IF x = k + 1 THEN u ELSE s[x]
    BY <1>1, <2>4, LenProperties
  <2> QED
    BY <1>1, <2>2, <2>3, <2>5, <2>6
<1>3. CASE ~(k < n)
  BY <1>1, <1>3 DEF Lengthened
<1> QED
  BY <1>2, <1>3

\* The player p has made delta steps under the k-th input, and e not counted.
LedTo(p, k, delta, e) == p = Path(sent, k, delta + e)

\* How long the newest input lasts, when the k-th lasts e steps longer.
LastDur(k, e) == Newest.dur + (IF k = Len(sent) THEN e ELSE 0)

\* The replay of the history h, j inputs of it at a time, goes along the path
\* on which the k-th input lasts as many steps longer as the server made under
\* it without counting them.
LEMMA ReplayGoesAlong ==
  ASSUME Known, NEW h, NEW k, ReplayedFrom(h, k),
         NEW delta \in Nat, delta <= h[1].dur, NEW e \in Nat,
         NEW p, LedTo(p, k, delta, e)
  PROVE  Replayed(p, h, delta) =
           Path(Lengthened(sent, k, e), Len(sent), LastDur(k, e))
<1>1. PICK n \in Nat : n = Len(sent)
  BY AppliedWereSent
<1>2. /\ sent \in Seq(SentInput) /\ k \in Nat /\ k <= n
      /\ k \in 0 .. Len(sent) /\ Newest.dur \in Nat
  BY <1>1, AppliedWereSent DEF ReplayedFrom
<1>3. PICK m \in Nat \ {0} : m = n - k + 1
  BY <1>2
<1>4. /\ h \in Seq(ClientInput) /\ Len(h) = m
      /\ \A j \in 1 .. m : h[j] \in ClientInput
  BY <1>1, <1>3, ElementOfSeq DEF ReplayedFrom
<1>5. \A j \in 1 .. m : h[j].state \in Controls /\ h[j].dur \in Nat
  BY <1>4 DEF ClientInput
<1>6. PICK d : d = [j \in 1 .. m |-> Direction[h[j].state]]
  OBVIOUS
<1>7. PICK steps : steps = [j \in 1 .. m |-> ReplaySteps(h, j, delta)]
  OBVIOUS
<1>8. Replayed(p, h, delta) = RunThrough(p, d, steps, m)
  BY <1>4, <1>6, <1>7 DEF Replayed
<1>9. \A j \in 1 .. m : steps[j] = IF j = 1 THEN h[1].dur - delta ELSE h[j].dur
  BY <1>5, <1>7 DEF ReplaySteps
<1>10. Periods(d, steps, m)
  BY <1>5, <1>6, <1>9, DirectionType DEF Periods
<1>11. PICK t : t = Lengthened(sent, k, e)
  OBVIOUS
<1>12. /\ t \in Seq(SentInput) /\ Len(t) = n
       /\ \A x \in 1 .. n : t[x].state = sent[x].state
       /\ \A x \in 1 .. n : x # k + 1 => t[x] = sent[x]
       /\ k < n => t[k + 1].dur = sent[k + 1].dur + e
  BY <1>1, <1>2, <1>11, LengthenedInputs
<1>13. \A x \in 0 .. n : StateAfter(t, x) = StateAfter(sent, x)
  BY <1>12 DEF StateAfter
<1>14. p = Path(t, k, delta + e) /\ p \in Player
  <2>1. \A x \in 1 .. k : x \in 1 .. n /\ x # k + 1
    BY <1>2
  <2>2. \A x \in 1 .. k : sent[x] = t[x]
    BY <1>12, <2>1
  <2>3. PICK a \in Nat : a = delta + e
    OBVIOUS
  <2>4. p = Path(sent, k, a)
    BY <2>3 DEF LedTo
  <2>5. Path(sent, k, a) = Path(t, k, a)
    BY <1>2, <1>12, <2>2, PathAgrees
  <2>6. Path(sent, k, a) \in Player
    BY <1>2, <2>3, PathFacts
  <2> QED
    BY <2>3, <2>4, <2>5, <2>6
<1> DEFINE lasts(j) == h[j].dur + (IF j = 1 THEN e ELSE 0)
           J == {j \in Nat : j \in 1 .. m =>
                   RunThrough(p, d, steps, j) = Path(t, k + j - 1, lasts(j))}
<1>15. 0 \in J
  OBVIOUS
<1>16. ASSUME NEW j \in Nat, j \in J PROVE j + 1 \in J
  <2> SUFFICES ASSUME j + 1 \in 1 .. m
               PROVE  RunThrough(p, d, steps, j + 1) =
                        Path(t, k + j, lasts(j + 1))
    <3>1. k + (j + 1) - 1 = k + j /\ j + 1 \in Nat
      BY <1>2
    <3> HIDE DEF lasts
    <3> QED
      BY <3>1
  <2>1. PICK i : i = j + 1
    OBVIOUS
  <2>2. /\ i \in 1 .. m /\ i \in Nat \ {0} /\ i - 1 = j
        /\ \A x \in 1 .. i : x \in 1 .. m
    BY <2>1
  <2>3. /\ k + j \in 0 .. n /\ k + i - 1 = k + j
    BY <1>2, <1>3, <2>1, <2>2
  <2>4. Periods(d, steps, i) /\ Periods(d, steps, j)
    BY <1>10, <2>2 DEF Periods
  <2>5. RunThrough(p, d, steps, i) =
          Run(RunThrough(p, d, steps, j), d[i], steps[i])
    <3>1. RunThrough(p, d, steps, i) =
            Run(RunThrough(p, d, steps, i - 1), d[i], steps[i])
      BY <1>14, <2>2, <2>4, LastPeriod
    <3> QED
      BY <2>2, <3>1
  <2>6. d[i] = Direction[StateAfter(t, k + j)]
    <3>1. h[i].state = StateAfter(sent, k + i - 1)
      BY <1>1, <1>3, <2>2 DEF ReplayedFrom
    <3> QED
      BY <1>6, <1>13, <2>2, <2>3, <3>1
  <2>7. CASE j = 0
    <3>1. RunThrough(p, d, steps, j) = p
      <4>1. p \in Player /\ Periods(d, steps, j) /\ j \in Nat /\ j = 0
        BY <1>14, <2>4, <2>7
      <4> QED
        BY ONLY <4>1, RunThroughFacts
    <3>2. PICK a \in Nat : a = delta + e
      OBVIOUS
    <3>3. PICK b \in Nat : b = steps[i]
      BY <1>10, <2>2 DEF Periods
    <3>4. a + b = lasts(i)
      <4>1. i = 1 /\ b = h[1].dur - delta
        BY <1>9, <2>1, <2>2, <2>7, <3>3
      <4> QED
        BY <1>5, <2>2, <3>2, <4>1
    <3>5. Run(Path(t, k, a), Direction[StateAfter(t, k)], b) = Path(t, k, a + b)
      <4>1. k \in 0 .. Len(t)
        BY <1>2, <1>12
      <4>2. \A y \in Nat :
              Run(Path(t, k, a), Direction[StateAfter(t, k)], y) =
                Path(t, k, a + y)
        <5>1. t \in Seq(SentInput) /\ a \in Nat
          BY <1>12, <3>2
        <5> QED
          BY ONLY <5>1, <4>1, PathGoesOn
      <4> QED
        BY <3>3, <4>2
    <3>6. k + j = k
      BY <1>2, <2>7
    <3> HIDE DEF lasts
    <3> QED
      BY <1>14, <2>1, <2>5, <2>6, <3>1, <3>2, <3>3, <3>4, <3>5, <3>6
  <2>8. CASE j # 0
    <3>1. j \in 1 .. m /\ k + j \in 1 .. n /\ k + j # 0 /\ i # 1
      BY <1>2, <1>3, <2>1, <2>2, <2>8
    <3>2. PICK x : x = k + j
      OBVIOUS
    <3>3. /\ x \in 1 .. n /\ x \in 0 .. n /\ x # 0 /\ x - 1 = k + j - 1
          /\ k + j - 1 < n /\ (x = k + 1 <=> j = 1) /\ (j = 1 => k < n)
      BY <1>2, <3>1, <3>2
    <3>4. RunThrough(p, d, steps, j) = Path(t, x - 1, lasts(j))
      BY <1>16, <3>1, <3>3
    <3>5. lasts(j) = t[x].dur
      <4>1. h[j].dur = sent[x].dur
        BY <1>1, <1>3, <3>1, <3>2, <3>3 DEF ReplayedFrom
      <4>2. CASE j = 1
        BY <1>12, <3>2, <3>3, <4>1, <4>2
      <4>3. CASE j # 1
        BY <1>5, <1>12, <3>1, <3>3, <4>1, <4>3
      <4> QED
        BY <4>2, <4>3
    <3>6. steps[i] = lasts(i) /\ lasts(i) \in Nat
      BY <1>5, <1>9, <2>2, <3>1
    <3>7. d[i] = Direction[t[x].state]
      BY <2>6, <3>2, <3>3 DEF StateAfter
    <3> HIDE DEF lasts
    <3>8. Path(t, x, lasts(i)) =
            Run(Path(t, x - 1, t[x].dur), Direction[t[x].state], lasts(i))
      BY <1>12, <3>3, <3>6, PathFacts
    <3> QED
      BY <2>1, <2>5, <3>2, <3>4, <3>5, <3>6, <3>7, <3>8
  <2> QED
    BY <2>7, <2>8
<1> HIDE DEF J
<1>17. Nat \subseteq J
  BY <1>15, <1>16, SetInduction
<1>18. /\ RunThrough(p, d, steps, m) = Path(t, k + m - 1, lasts(m))
       /\ m \in 1 .. m
  BY <1>17 DEF J
<1>19. /\ k + m - 1 = n /\ (m = 1 <=> k = n)
       /\ h[m].dur = Newest.dur
  <2>1. k + m - 1 = n /\ (m = 1 <=> k = n)
    BY <1>2, <1>3
  <2> QED
    BY <1>1, <1>3, <1>18, <2>1 DEF ReplayedFrom
<1>20. lasts(m) = LastDur(k, e)
  BY <1>1, <1>19 DEF LastDur
<1> HIDE DEF lasts
<1> QED
  BY <1>1, <1>8, <1>11, <1>18, <1>19, <1>20

\* "Simulate server_player for history" ends one step off: in the exact place
\* where the client's inputs lead when the acknowledged one lasts longer by the
\* step UpdateMove switched to it in, however many inputs are replayed.
THEOREM ReplayIsAlwaysOneStepOff ==
  ASSUME NoWrap PROVE RSpec => []ReplayIsOneStepOff
<1>1. IInv /\ RIInv /\ RTypeOK /\ PlayersInv => ReplayIsOneStepOff
  <2> SUFFICES ASSUME Known, PlayersInv, NextSync, Head(snapshots).onTime,
                      NEW h \in NextHistories, Head(toClient).delta <= h[1].dur
               PROVE  \A k, e :
                        k = Head(snapshots).applied /\ e = SwitchStep(k) =>
                          Replayed(Head(snapshots).player, h,
                                   Head(toClient).delta) =
                            Path(Lengthened(sent, k, e), Len(sent),
                                 Newest.dur + (IF k = Len(sent) THEN e ELSE 0))
    BY DEF ReplayIsOneStepOff, Known
  <2> TAKE k, e
  <2> HAVE k = Head(snapshots).applied /\ e = SwitchStep(k)
  <2>1. /\ toClient \in Seq(ClientMessage) /\ toClient # <<>>
        /\ snapshots \in Seq(Snapshot) /\ snapshots # <<>>
    BY EmptySeq DEF NextSync, Known, RTypeOK, TypeOK
  <2>2. /\ Len(toClient) \in Nat \ {0}
        /\ Head(toClient) = toClient[1] /\ Head(snapshots) = snapshots[1]
    BY <2>1, Dequeue
  <2>3. PICK delta : delta = Head(toClient).delta
    OBVIOUS
  <2>4. delta \in Nat /\ Head(snapshots).moved = delta + e
    BY <2>2, <2>3 DEF NextSync, Known, RIInv, StepsCounted
  <2>5. Head(snapshots).player = Path(sent, k, Head(snapshots).moved)
    <3>1. 1 \in 1 .. Len(toClient)
      <4>1. PICK l \in Nat \ {0} : l = Len(toClient)
        BY <2>2
      <4> QED
        BY <4>1
    <3> QED
      BY <2>2, <3>1 DEF PlayersInv, SnapshotsFollow
  <2>6. PICK p : p = Head(snapshots).player
    OBVIOUS
  <2>7. p = Path(sent, k, delta + e)
    BY <2>4, <2>5, <2>6
  <2>8. e \in Nat
    BY DEF SwitchStep
  <2>9. ReplayedFrom(h, k)
    BY ReplayBegins
  <2> QED
    <3>1. delta <= h[1].dur
      BY <2>3
    <3>2. delta \in Nat /\ LedTo(p, k, delta, e)
      BY <2>4, <2>7 DEF LedTo
    <3>3. Replayed(p, h, delta) =
            Path(Lengthened(sent, k, e), Len(sent), LastDur(k, e))
      BY ONLY Known, <2>8, <2>9, <3>1, <3>2, ReplayGoesAlong
    <3> QED
      BY <2>3, <2>6, <3>3 DEF LastDur
<1> QED
  BY <1>1, RefinesInputSync, InductiveInvariant, SnapshotInvariant,
     RTypeCorrect, PlayersInvariant, PTL
=============================================================================
