----------------------- MODULE GenericProcessesProofs -----------------------
(***************************************************************************)
(* Proofs about GenericProcesses: any number of leaves of any kinds and    *)
(* times, in a Consecutive or an And.                                      *)
(***************************************************************************)
EXTENDS GenericProcesses, WellFoundedInduction, TLAPS

USE ConstantsAssumption DEF ConstantsAssumption, Children

TimedKinds == {"Timed", "InterpolateCallback"}

\* What a leaf counts as it is run.  A Timed that has not ended has called back
\* in every Update; the one that ends it is the only one it does not call in.
LeafCounts ==
  \A c \in Children :
    /\ passed[c] <= updates[c] /\ updates[c] <= total
    /\ kind[c] = "Callback" => calls[c] = inits[c]
    /\ kind[c] \in {"WhileTrue", "Generic"} => calls[c] = updates[c]
    /\ kind[c] \in {"None", "Wait", "Endless"} => calls[c] = 0
    /\ stopCalls[c] = IF ended[c] /\ kind[c] = "Timed" THEN 1 ELSE 0
    /\ kind[c] \in TimedKinds =>
         /\ calls[c] = passed[c] /\ passed[c] <= time[c]
         /\ ended[c] => passed[c] = time[c] /\ updates[c] = time[c] + 1
         /\ ~ended[c] => updates[c] = passed[c]

\* Before Init of the whole nothing has run; after that of an And all have had
\* their Init.
Beginning ==
  /\ state = "UNINITIALIZED" =>
       /\ current = 1 /\ total = 0
       /\ \A c \in Children : ~ended[c] /\ inits[c] = 0 /\ updates[c] = 0
  /\ composite = "And" /\ state # "UNINITIALIZED" =>
       \A c \in Children : inits[c] = 1

\* The inductive invariant.
IInv ==
  /\ TypeOK
  /\ OneAfterTheOther
  /\ InStep
  /\ LeafCounts
  /\ Beginning

LEMMA CountType ==
  ASSUME NEW f \in [Children -> Nat], NEW M, NEW g, g = Count(f, M)
  PROVE  /\ g \in [Children -> Nat]
         /\ \A c \in Children : g[c] = IF c \in M THEN f[c] + 1 ELSE f[c]
  BY DEF Count

LEMMA Types ==
  ASSUME TypeOK
  PROVE  /\ passed \in [Children -> Nat] /\ updates \in [Children -> Nat]
         /\ inits \in [Children -> Nat] /\ calls \in [Children -> Nat]
         /\ stopCalls \in [Children -> Nat] /\ ended \in [Children -> BOOLEAN]
         /\ time \in [Children -> Nat] /\ kind \in [Children -> Kinds]
         /\ total \in Nat /\ current \in Nat
<1>1. \A S : S \subseteq Nat => [Children -> S] \subseteq [Children -> Nat]
  OBVIOUS
<1>2. 0 .. MaxUpdates \subseteq Nat /\ {0, 1} \subseteq Nat
  OBVIOUS
<1>3. /\ [Children -> 0 .. MaxUpdates] \subseteq [Children -> Nat]
      /\ [Children -> {0, 1}] \subseteq [Children -> Nat]
      /\ [Children -> Times] \subseteq [Children -> Nat]
  BY <1>1, <1>2
<1>4. total \in Nat /\ current \in Nat
  BY DEF TypeOK
<1> QED
  BY <1>3, <1>4 DEF TypeOK

\* Where each count of a child goes when some children run.
LEMMA RunCounts ==
  ASSUME TypeOK, NEW started, NEW updated, NEW stopped,
         Run(started, updated, stopped)
  PROVE  /\ passed' \in [Children -> Nat] /\ updates' \in [Children -> Nat]
         /\ inits' \in [Children -> Nat] /\ calls' \in [Children -> Nat]
         /\ stopCalls' \in [Children -> Nat] /\ ended' \in [Children -> BOOLEAN]
         /\ \A c \in Children :
              /\ ended'[c] <=> ended[c] \/ c \in stopped
              /\ passed'[c] = IF c \in updated /\ Passes(c)
                              THEN passed[c] + 1 ELSE passed[c]
              /\ updates'[c] = IF c \in updated
                               THEN updates[c] + 1 ELSE updates[c]
              /\ inits'[c] = IF c \in started THEN inits[c] + 1 ELSE inits[c]
              /\ calls'[c] = IF \/ c \in updated /\ CallsBack(c)
                                \/ c \in started /\ kind[c] = "Callback"
                             THEN calls[c] + 1 ELSE calls[c]
              /\ stopCalls'[c] = IF c \in stopped /\ kind[c] = "Timed"
                                 THEN stopCalls[c] + 1 ELSE stopCalls[c]
<1>1. /\ ended' = [c \in Children |-> ended[c] \/ c \in stopped]
      /\ ended \in [Children -> BOOLEAN]
  BY Types DEF Run
<1>2. /\ passed' = Count(passed, {c \in updated : Passes(c)})
      /\ updates' = Count(updates, updated)
      /\ inits' = Count(inits, started)
      /\ calls' = Count(calls, {c \in updated : CallsBack(c)}
                                 \cup {c \in started : kind[c] = "Callback"})
      /\ stopCalls' = Count(stopCalls, {c \in stopped : kind[c] = "Timed"})
  BY DEF Run
<1>3. /\ ended' \in [Children -> BOOLEAN]
      /\ \A c \in Children : ended'[c] <=> ended[c] \/ c \in stopped
  BY <1>1
<1>4. /\ passed' \in [Children -> Nat]
      /\ \A c \in Children :
           passed'[c] = IF c \in updated /\ Passes(c)
                        THEN passed[c] + 1 ELSE passed[c]
  <2>1. PICK M : M = {c \in updated : Passes(c)}
    OBVIOUS
  <2>2. passed \in [Children -> Nat] /\ passed' = Count(passed, M)
    BY <1>2, <2>1, Types
  <2>3. /\ passed' \in [Children -> Nat]
        /\ \A c \in Children :
             passed'[c] = IF c \in M THEN passed[c] + 1 ELSE passed[c]
    BY <2>2, CountType
  <2> QED
    BY <2>1, <2>3
<1>5. /\ updates' \in [Children -> Nat]
      /\ \A c \in Children :
           updates'[c] = IF c \in updated THEN updates[c] + 1 ELSE updates[c]
  <2>1. PICK M : M = updated
    OBVIOUS
  <2>2. updates \in [Children -> Nat] /\ updates' = Count(updates, M)
    BY <1>2, <2>1, Types
  <2>3. /\ updates' \in [Children -> Nat]
        /\ \A c \in Children :
             updates'[c] = IF c \in M THEN updates[c] + 1 ELSE updates[c]
    BY <2>2, CountType
  <2> QED
    BY <2>1, <2>3
<1>6. /\ inits' \in [Children -> Nat]
      /\ \A c \in Children :
           inits'[c] = IF c \in started THEN inits[c] + 1 ELSE inits[c]
  <2>1. PICK M : M = started
    OBVIOUS
  <2>2. inits \in [Children -> Nat] /\ inits' = Count(inits, M)
    BY <1>2, <2>1, Types
  <2>3. /\ inits' \in [Children -> Nat]
        /\ \A c \in Children :
             inits'[c] = IF c \in M THEN inits[c] + 1 ELSE inits[c]
    BY <2>2, CountType
  <2> QED
    BY <2>1, <2>3
<1>7. /\ calls' \in [Children -> Nat]
      /\ \A c \in Children :
           calls'[c] = IF \/ c \in updated /\ CallsBack(c)
                          \/ c \in started /\ kind[c] = "Callback"
                       THEN calls[c] + 1 ELSE calls[c]
  <2>1. PICK M : M = ({c \in updated : CallsBack(c)}
                     \cup {c \in started : kind[c] = "Callback"})
    OBVIOUS
  <2>2. calls \in [Children -> Nat] /\ calls' = Count(calls, M)
    BY <1>2, <2>1, Types
  <2>3. /\ calls' \in [Children -> Nat]
        /\ \A c \in Children :
             calls'[c] = IF c \in M THEN calls[c] + 1 ELSE calls[c]
    BY <2>2, CountType
  <2> QED
    BY <2>1, <2>3
<1>8. /\ stopCalls' \in [Children -> Nat]
      /\ \A c \in Children :
           stopCalls'[c] = IF c \in stopped /\ kind[c] = "Timed"
                           THEN stopCalls[c] + 1 ELSE stopCalls[c]
  <2>1. PICK M : M = {c \in stopped : kind[c] = "Timed"}
    OBVIOUS
  <2>2. stopCalls \in [Children -> Nat] /\ stopCalls' = Count(stopCalls, M)
    BY <1>2, <2>1, Types
  <2>3. /\ stopCalls' \in [Children -> Nat]
        /\ \A c \in Children :
             stopCalls'[c] = IF c \in M THEN stopCalls[c] + 1 ELSE stopCalls[c]
    BY <2>2, CountType
  <2> QED
    BY <2>1, <2>3
<1> QED
  BY <1>3, <1>4, <1>5, <1>6, <1>7, <1>8

\* What running children does to their marks, their updates and their inits.
LEMMA RunMarks ==
  ASSUME TypeOK, NEW started, NEW updated, NEW stopped,
         Run(started, updated, stopped)
  PROVE  \A c \in Children :
           /\ ended'[c] <=> ended[c] \/ c \in stopped
           /\ updates'[c] = IF c \in updated THEN updates[c] + 1 ELSE updates[c]
           /\ inits'[c] = IF c \in started THEN inits[c] + 1 ELSE inits[c]
  BY RunCounts

\* Running children that have not ended keeps the counts of every leaf, and
\* with them the ranges.
LEMMA RunLeaves ==
  ASSUME IInv, NEW started \in SUBSET Children, NEW updated \in SUBSET Children,
         NEW stopped \in SUBSET updated, Run(started, updated, stopped),
         UNCHANGED shape, total <= total', total' \in 0 .. MaxUpdates,
         \A c \in started : inits[c] = 0,
         \A c \in updated : ~ended[c] /\ updates[c] < total',
         \A c \in updated : kind[c] \in TimedKinds =>
                              (c \in stopped <=> TimeIsUp(c)),
         state' \in {"UNINITIALIZED", "RUNNING", "ENDED"},
         current' \in 1 .. N + 1
  PROVE  TypeOK' /\ LeafCounts'
<1>1. /\ TypeOK /\ LeafCounts
      /\ kind' = kind /\ time' = time /\ composite' = composite
  BY DEF IInv, shape
<1>2. /\ passed \in [Children -> Nat] /\ updates \in [Children -> Nat]
      /\ inits \in [Children -> {0, 1}] /\ calls \in [Children -> Nat]
      /\ stopCalls \in [Children -> Nat] /\ ended \in [Children -> BOOLEAN]
      /\ time \in [Children -> Nat] /\ kind \in [Children -> Kinds]
      /\ total \in Nat
  BY <1>1, Types DEF TypeOK
<1>3. ASSUME NEW c \in Children
      PROVE  /\ passed'[c] <= updates'[c] /\ updates'[c] <= total'
             /\ kind[c] = "Callback" => calls'[c] = inits'[c]
             /\ kind[c] \in {"WhileTrue", "Generic"} => calls'[c] = updates'[c]
             /\ kind[c] \in {"None", "Wait", "Endless"} => calls'[c] = 0
             /\ stopCalls'[c] = IF ended'[c] /\ kind[c] = "Timed" THEN 1 ELSE 0
             /\ kind[c] \in TimedKinds =>
                  /\ calls'[c] = passed'[c] /\ passed'[c] <= time[c]
                  /\ ended'[c] =>
                       passed'[c] = time[c] /\ updates'[c] = time[c] + 1
                  /\ ~ended'[c] => updates'[c] = passed'[c]
             /\ inits'[c] \in {0, 1}
  <2>1. /\ passed[c] \in Nat /\ updates[c] \in Nat /\ calls[c] \in Nat
        /\ inits[c] \in {0, 1} /\ stopCalls[c] \in Nat /\ time[c] \in Nat
        /\ ended[c] \in BOOLEAN /\ kind[c] \in Kinds
    BY <1>2
  <2>2. /\ passed[c] <= updates[c] /\ updates[c] <= total
        /\ kind[c] = "Callback" => calls[c] = inits[c]
        /\ kind[c] \in {"WhileTrue", "Generic"} => calls[c] = updates[c]
        /\ kind[c] \in {"None", "Wait", "Endless"} => calls[c] = 0
        /\ stopCalls[c] = IF ended[c] /\ kind[c] = "Timed" THEN 1 ELSE 0
        /\ kind[c] \in TimedKinds =>
             /\ calls[c] = passed[c] /\ passed[c] <= time[c]
             /\ ended[c] => passed[c] = time[c] /\ updates[c] = time[c] + 1
             /\ ~ended[c] => updates[c] = passed[c]
    BY <1>1 DEF LeafCounts
  <2>3. /\ ended'[c] <=> ended[c] \/ c \in stopped
        /\ passed'[c] = IF c \in updated /\ Passes(c)
                        THEN passed[c] + 1 ELSE passed[c]
        /\ updates'[c] = IF c \in updated THEN updates[c] + 1 ELSE updates[c]
        /\ inits'[c] = IF c \in started THEN inits[c] + 1 ELSE inits[c]
        /\ calls'[c] = IF \/ c \in updated /\ CallsBack(c)
                          \/ c \in started /\ kind[c] = "Callback"
                       THEN calls[c] + 1 ELSE calls[c]
        /\ stopCalls'[c] = IF c \in stopped /\ kind[c] = "Timed"
                           THEN stopCalls[c] + 1 ELSE stopCalls[c]
    <3>1. TypeOK /\ Run(started, updated, stopped)
      BY ONLY <1>1, Run(started, updated, stopped)
    <3> QED
      BY ONLY <3>1, RunCounts, c \in Children
  <2>4. /\ c \in started => inits[c] = 0
        /\ c \in updated => ~ended[c] /\ updates[c] < total'
        /\ c \in stopped => c \in updated
        /\ kind[c] \in TimedKinds /\ c \in updated =>
             (c \in stopped <=> passed[c] >= time[c])
    BY DEF TimeIsUp
  <2>5. /\ CallsBack(c) <=> \/ kind[c] \in {"WhileTrue", "Generic"}
                            \/ kind[c] \in TimedKinds /\ ~(passed[c] >= time[c])
        /\ Passes(c) <=> \/ kind[c] = "Wait"
                         \/ kind[c] \in TimedKinds /\ ~(passed[c] >= time[c])
    BY DEF CallsBack, Passes, TimeIsUp, TimedKinds
  <2>6. total' \in Nat /\ total <= total' /\ total \in Nat
    BY <1>2
  <2>7. /\ passed'[c] <= updates'[c] /\ updates'[c] <= total'
        /\ inits'[c] \in {0, 1}
    BY <2>1, <2>2, <2>3, <2>4, <2>6
  <2>8. stopCalls'[c] = IF ended'[c] /\ kind[c] = "Timed" THEN 1 ELSE 0
    BY <2>1, <2>2, <2>3, <2>4
  <2>9. CASE kind[c] \in TimedKinds
    <3>1. kind[c] \notin {"Callback", "WhileTrue", "Generic", "None", "Wait",
                          "Endless"}
      BY <2>9 DEF TimedKinds
    <3>2. /\ calls'[c] = passed'[c] /\ passed'[c] <= time[c]
          /\ ended'[c] => passed'[c] = time[c] /\ updates'[c] = time[c] + 1
          /\ ~ended'[c] => updates'[c] = passed'[c]
      BY <2>1, <2>2, <2>3, <2>4, <2>5, <2>9, <3>1
    <3> QED
      BY <2>7, <2>8, <3>1, <3>2
  <2>10. CASE kind[c] \notin TimedKinds
    <3>1. /\ kind[c] = "Callback" => calls'[c] = inits'[c]
          /\ kind[c] \in {"WhileTrue", "Generic"} => calls'[c] = updates'[c]
          /\ kind[c] \in {"None", "Wait", "Endless"} => calls'[c] = 0
      BY <2>1, <2>2, <2>3, <2>4, <2>5, <2>10
    <3> QED
      BY <2>7, <2>8, <2>10, <3>1
  <2> QED
    BY <2>9, <2>10
<1>4. LeafCounts'
  BY <1>1, <1>3 DEF LeafCounts
<1>5. /\ passed' \in [Children -> Nat] /\ updates' \in [Children -> Nat]
      /\ inits' \in [Children -> Nat] /\ calls' \in [Children -> Nat]
      /\ stopCalls' \in [Children -> Nat] /\ ended' \in [Children -> BOOLEAN]
  BY <1>1, RunCounts
<1>6. ASSUME NEW c \in Children
      PROVE  /\ passed'[c] \in 0 .. MaxUpdates
             /\ updates'[c] \in 0 .. MaxUpdates
             /\ calls'[c] \in 0 .. MaxUpdates /\ inits'[c] \in {0, 1}
             /\ stopCalls'[c] \in {0, 1}
  <2>1. /\ passed'[c] \in Nat /\ updates'[c] \in Nat /\ calls'[c] \in Nat
        /\ kind[c] \in Kinds
    BY <1>2, <1>5
  <2>2. calls'[c] \in {inits'[c], updates'[c], passed'[c], 0}
    BY <1>3, <2>1 DEF Kinds, TimedKinds
  <2> QED
    BY <1>3, <2>1, <2>2
<1>7. TypeOK'
  <2>1. /\ passed' \in [Children -> 0 .. MaxUpdates]
        /\ updates' \in [Children -> 0 .. MaxUpdates]
        /\ calls' \in [Children -> 0 .. MaxUpdates]
        /\ inits' \in [Children -> {0, 1}]
        /\ stopCalls' \in [Children -> {0, 1}]
    BY <1>5, <1>6
  <2> QED
    BY <1>1, <1>5, <2>1 DEF TypeOK
<1> QED
  BY <1>4, <1>7

LEMMA InitHolds == Init => IInv
<1> SUFFICES ASSUME Init PROVE IInv
  OBVIOUS
<1>1. /\ passed = Zero /\ inits = Zero /\ updates = Zero /\ calls = Zero
      /\ stopCalls = Zero /\ total = 0 /\ current = 1
      /\ state = "UNINITIALIZED" /\ ended = [c \in Children |-> FALSE]
      /\ \A c \in Children : Zero[c] = 0
  BY DEF Init, Zero
<1>2. Zero \in [Children -> {0, 1}] /\ Zero \in [Children -> 0 .. MaxUpdates]
  BY DEF Zero
<1>3. TypeOK
  BY <1>1, <1>2 DEF Init, TypeOK
<1>4. LeafCounts
  <2>1. \A c \in Children : time[c] \in Nat /\ ~ended[c]
    BY <1>1, <1>3, Types
  <2> QED
    BY <1>1, <2>1 DEF LeafCounts
<1>5. OneAfterTheOther /\ InStep /\ Beginning
  <2>1. \A c \in Children : ~ended[c] /\ updates[c] = 0 /\ inits[c] = 0
    BY <1>1
  <2> QED
    BY <1>1, <2>1 DEF OneAfterTheOther, InStep, Beginning
<1> QED
  BY <1>3, <1>4, <1>5 DEF IInv

LEMMA StartStep == ASSUME IInv, Start PROVE IInv'
<1>1. PICK started : started = IF composite = "And" THEN Children ELSE {current}
  OBVIOUS
<1>2. /\ state = "UNINITIALIZED" /\ state' = "RUNNING"
      /\ Run(started, {}, {})
      /\ UNCHANGED shape /\ current' = current /\ total' = total
      /\ composite' = composite
  BY <1>1 DEF Start, shape
<1>3. TypeOK /\ Beginning
  BY DEF IInv
<1>4. /\ current = 1 /\ total = 0
      /\ \A c \in Children : ~ended[c] /\ inits[c] = 0 /\ updates[c] = 0
  BY <1>2, <1>3 DEF Beginning
<1>5. started \in SUBSET Children /\ total' \in 0 .. MaxUpdates
  BY <1>1, <1>2, <1>4
<1>6. TypeOK' /\ LeafCounts'
  BY <1>2, <1>4, <1>5, RunLeaves
<1>7. \A c \in Children :
        /\ ~ended'[c] /\ updates'[c] = 0
        /\ inits'[c] = IF c \in started THEN 1 ELSE 0
  <2>1. \A c \in Children :
          /\ ended'[c] <=> ended[c] \/ c \in {}
          /\ updates'[c] = IF c \in {} THEN updates[c] + 1 ELSE updates[c]
          /\ inits'[c] = IF c \in started THEN inits[c] + 1 ELSE inits[c]
    BY ONLY <1>2, <1>3, RunMarks
  <2> QED
    BY <1>4, <2>1
<1>8. OneAfterTheOther'
  BY <1>1, <1>2, <1>4, <1>7 DEF OneAfterTheOther
<1>9. InStep'
  BY <1>2, <1>4, <1>7 DEF InStep
<1>10. Beginning'
  BY <1>1, <1>2, <1>7 DEF Beginning
<1> QED
  BY <1>6, <1>8, <1>9, <1>10 DEF IInv

LEMMA StopsInTime ==
  ASSUME NEW c, NEW goesOn, kind[c] \in TimedKinds
  PROVE  Stops(c, goesOn) <=> TimeIsUp(c)
<1>1. \/ kind[c] = "Timed"
      \/ kind[c] = "InterpolateCallback"
  BY DEF TimedKinds
<1> QED
  BY <1>1 DEF Stops

LEMMA ConsecutiveStep ==
  ASSUME IInv, NEW goesOn, state = "RUNNING", total < MaxUpdates,
         UpdateConsecutive(goesOn), total' = total + 1, UNCHANGED shape
  PROVE  IInv'
<1>1. PICK ends : ends = Stops(current, goesOn[current])
  OBVIOUS
<1>2. PICK started :
        started = IF ends /\ current < N THEN {current + 1} ELSE {}
  OBVIOUS
<1>3. PICK stopped : stopped = IF ends THEN {current} ELSE {}
  OBVIOUS
<1>4. /\ composite = "Consecutive" /\ composite' = "Consecutive"
      /\ Run(started, {current}, stopped)
      /\ current' = IF ends THEN current + 1 ELSE current
      /\ state' = IF ends /\ ~(current < N) THEN "ENDED" ELSE state
  BY <1>1, <1>2, <1>3 DEF UpdateConsecutive, shape
<1>5. TypeOK /\ LeafCounts /\ OneAfterTheOther
  BY DEF IInv
<1>6. /\ total \in Nat /\ current \in 1 .. N
      /\ \A c \in Children :
           /\ ended[c] <=> c < current
           /\ inits[c] = 1 <=> c <= current
           /\ c > current => updates[c] = 0
           /\ updates[c] <= total /\ inits[c] \in {0, 1} /\ updates[c] \in Nat
  <2>1. total \in Nat /\ current \in 1 .. N + 1
    BY <1>5 DEF TypeOK
  <2>2. \A c \in Children : inits[c] \in {0, 1} /\ updates[c] \in Nat
    BY <1>5 DEF TypeOK
  <2> QED
    BY <1>4, <1>5, <2>1, <2>2 DEF OneAfterTheOther, LeafCounts
<1>7. /\ started \in SUBSET Children /\ {current} \in SUBSET Children
      /\ stopped \in SUBSET {current}
      /\ \A c \in started : inits[c] = 0
      /\ \A c \in {current} : ~ended[c] /\ updates[c] < total'
      /\ total <= total' /\ total' \in 0 .. MaxUpdates
      /\ current' \in 1 .. N + 1
  <2>1. \A c \in started : c \in Children /\ c = current + 1
    BY <1>2, <1>6
  <2>2. \A c \in started : inits[c] = 0
    BY <1>6, <2>1
  <2> QED
    BY <1>3, <1>4, <1>6, <2>1, <2>2
<1>8. \A c \in {current} :
        kind[c] \in TimedKinds => (c \in stopped <=> TimeIsUp(c))
  BY <1>1, <1>3, StopsInTime
<1>9. state' \in {"UNINITIALIZED", "RUNNING", "ENDED"}
  BY <1>4
<1>10. TypeOK' /\ LeafCounts'
  BY <1>4, <1>7, <1>8, <1>9, RunLeaves
<1>11. \A c \in Children :
         /\ ended'[c] <=> ended[c] \/ c \in stopped
         /\ updates'[c] = IF c \in {current} THEN updates[c] + 1 ELSE updates[c]
         /\ inits'[c] = IF c \in started THEN inits[c] + 1 ELSE inits[c]
  <2>1. PICK updated : updated = {current}
    OBVIOUS
  <2>2. TypeOK /\ Run(started, updated, stopped)
    BY ONLY <1>4, <1>5, <2>1
  <2> QED
    BY ONLY <2>1, <2>2, RunMarks
<1>12. OneAfterTheOther'
  <2>1. current' = N + 1 <=> state' = "ENDED"
    BY <1>4, <1>6
  <2>2. ASSUME NEW c \in Children
        PROVE  /\ ended'[c] <=> c < current'
               /\ inits'[c] = 1 <=> c <= current'
               /\ c > current' => updates'[c] = 0
    <3>1. c \in started <=> ends /\ c = current + 1
      BY <1>2, <1>6
    <3>2. c \in stopped <=> ends /\ c = current
      BY <1>3
    <3> QED
      BY <1>4, <1>6, <1>11, <3>1, <3>2
  <2> QED
    BY <2>1, <2>2 DEF OneAfterTheOther
<1>13. InStep' /\ Beginning'
  BY <1>4 DEF InStep, Beginning
<1> QED
  BY <1>10, <1>12, <1>13 DEF IInv

\* In a pass over the children there is a first that stops, or none.
LEMMA FirstThatStops ==
  ASSUME NEW stops, stops \subseteq Children, stops # {}
  PROVE  \E e \in stops : \A d \in 1 .. e - 1 : d \notin stops
<1> DEFINE Less == {pair \in Nat \X Nat : pair[1] < pair[2]}
<1>1. IsWellFoundedOn(Less, Nat)
  BY NatLessThanWellFounded DEF OpToRel
<1>2. stops \subseteq Nat
  OBVIOUS
<1>3. PICK e \in stops : \A d \in stops : ~(<<d, e>> \in Less)
  BY <1>1, <1>2, WFMin
<1>4. ASSUME NEW d \in 1 .. e - 1, d \in stops PROVE FALSE
  <2>1. d \in Nat /\ e \in Nat /\ d < e
    BY <1>2
  <2>2. <<d, e>> \in Less
    BY <2>1
  <2> QED
    BY <1>3, <1>4, <2>2
<1> QED
  BY <1>4

LEMMA AndStep ==
  ASSUME IInv, NEW goesOn, state = "RUNNING", total < MaxUpdates,
         UpdateAnd(goesOn), total' = total + 1, UNCHANGED shape
  PROVE  IInv'
<1>1. PICK stops : stops = {c \in Children : Stops(c, goesOn[c])}
  OBVIOUS
<1>2. PICK updated :
        updated = {c \in Children : \A d \in 1 .. c - 1 : ~Stops(d, goesOn[d])}
  OBVIOUS
<1>3. PICK stopped : stopped = {c \in updated : Stops(c, goesOn[c])}
  OBVIOUS
<1>4. /\ composite = "And" /\ composite' = "And"
      /\ Run({}, updated, stopped)
      /\ state' = IF stopped # {} THEN "ENDED" ELSE state
      /\ current' = current
  BY <1>2, <1>3 DEF UpdateAnd, shape
<1>5. TypeOK /\ LeafCounts /\ InStep /\ Beginning
  BY DEF IInv
<1>6. /\ total \in Nat /\ current \in 1 .. N + 1
      /\ \A c \in Children :
           ~ended[c] /\ updates[c] = total /\ inits[c] = 1
  BY <1>4, <1>5 DEF TypeOK, InStep, Beginning
<1>7. /\ updated \in SUBSET Children /\ stopped \in SUBSET updated
      /\ \A c \in updated : ~ended[c] /\ updates[c] < total'
      /\ total <= total' /\ total' \in 0 .. MaxUpdates
  BY <1>2, <1>3, <1>6
<1>8. \A c \in updated :
        kind[c] \in TimedKinds => (c \in stopped <=> TimeIsUp(c))
  BY <1>3, StopsInTime
<1>9. TypeOK' /\ LeafCounts'
  <2>1. {} \in SUBSET Children /\ \A c \in {} : inits[c] = 0
    OBVIOUS
  <2>2. /\ state' \in {"UNINITIALIZED", "RUNNING", "ENDED"}
        /\ current' \in 1 .. N + 1
    BY <1>4, <1>6
  <2> QED
    BY <1>4, <1>7, <1>8, <2>1, <2>2, RunLeaves
<1>10. \A c \in Children :
         /\ ended'[c] <=> c \in stopped
         /\ updates'[c] = IF c \in updated THEN total + 1 ELSE total
         /\ inits'[c] = 1
  <2>1. \A c \in Children :
          /\ ended'[c] <=> ended[c] \/ c \in stopped
          /\ updates'[c] = IF c \in updated THEN updates[c] + 1 ELSE updates[c]
          /\ inits'[c] = IF c \in {} THEN inits[c] + 1 ELSE inits[c]
    BY ONLY <1>4, <1>5, RunMarks
  <2> QED
    BY <1>6, <2>1
<1>11. \A c \in Children :
         /\ c \in stops <=> Stops(c, goesOn[c])
         /\ c \in updated <=> \A d \in 1 .. c - 1 : d \notin stops
  <2>1. \A c \in Children : \A d \in 1 .. c - 1 : d \in Children
    OBVIOUS
  <2> QED
    BY <1>1, <1>2, <2>1
<1>12. stopped = {c \in stops : \A d \in 1 .. c - 1 : d \notin stops}
  BY <1>1, <1>3, <1>7, <1>11
<1>13. InStep'
  <2>1. CASE stops = {}
    <3>1. stopped = {} /\ \A c \in Children : c \in updated
      BY <1>11, <1>12, <2>1
    <3> QED
      BY <1>4, <1>6, <1>10, <3>1 DEF InStep
  <2>2. CASE stops # {}
    <3>1. PICK e \in stops : \A d \in 1 .. e - 1 : d \notin stops
      BY <1>1, <2>2, FirstThatStops
    <3>2. e \in Children /\ e \in stopped
      BY <1>1, <1>12, <3>1
    <3>3. ASSUME NEW c \in Children
          PROVE  (c \in updated <=> c <= e) /\ (c \in stopped <=> c = e)
      <4>1. c <= e => c \in updated
        <5>1. c <= e => \A d \in 1 .. c - 1 : d \in 1 .. e - 1
          BY <3>2
        <5> QED
          BY <1>11, <3>1, <5>1
      <4>2. c > e => c \notin updated
        <5>1. c > e => e \in 1 .. c - 1
          BY <3>2
        <5> QED
          BY <1>11, <3>1, <5>1
      <4>3. c \in stopped => c \in updated /\ c \in stops
        BY <1>7, <1>12
      <4>4. c < e => c \notin stops
        BY <3>1, <3>2
      <4> QED
        BY <3>2, <4>1, <4>2, <4>3, <4>4
    <3>4. state' = "ENDED" /\ total' = total + 1
      BY <1>4, <3>2
    <3> QED
      BY <1>4, <1>6, <1>10, <3>2, <3>3, <3>4 DEF InStep
  <2> QED
    BY <2>1, <2>2
<1>14. OneAfterTheOther' /\ Beginning'
  <2>1. state' # "UNINITIALIZED"
    BY <1>4
  <2> QED
    BY <1>4, <1>10, <2>1 DEF OneAfterTheOther, Beginning
<1> QED
  BY <1>9, <1>13, <1>14 DEF IInv

\* What has run when: the inductive invariant, for any children.
THEOREM InductiveInvariant == Spec => []IInv
<1>1. IInv /\ [Next]_vars => IInv'
  <2> SUFFICES ASSUME IInv, [Next]_vars PROVE IInv'
    OBVIOUS
  <2>1. CASE Start
    BY <2>1, StartStep
  <2>2. ASSUME NEW goesOn, Update(goesOn) PROVE IInv'
    BY <2>2, ConsecutiveStep, AndStep DEF Update
  <2>3. CASE UNCHANGED vars
    BY <2>3 DEF vars, shape, children, IInv, TypeOK, OneAfterTheOther, InStep,
                LeafCounts, Beginning
  <2> QED
    BY <2>1, <2>2, <2>3 DEF Next
<1> QED
  BY <1>1, InitHolds, PTL DEF Spec

\* Every count keeps to its range: no child gets a second Init or ends twice.
THEOREM TypeCorrect == Spec => []TypeOK
<1>1. IInv => TypeOK
  BY DEF IInv
<1> QED
  BY <1>1, InductiveInvariant, PTL

\* The children of a Consecutive run one after the other, each from its Init
\* to its end, however many there are.
THEOREM RunOneAfterTheOther == Spec => []OneAfterTheOther
<1>1. IInv => OneAfterTheOther
  BY DEF IInv
<1> QED
  BY <1>1, InductiveInvariant, PTL

\* The children of an And run in step, and exactly one of them ends it.
THEOREM RunInStep == Spec => []InStep
<1>1. IInv => InStep
  BY DEF IInv
<1> QED
  BY <1>1, InductiveInvariant, PTL

\* Timed and InterpolateCallback call back once for each unit of their time,
\* whatever the time, and only a Timed that ends calls its stop callback.
THEOREM EveryLeafRunsItsTime == Spec => []RunsItsTime
<1>1. IInv => RunsItsTime
  <2> SUFFICES ASSUME IInv, NEW c \in Children, kind[c] \in TimedKinds
               PROVE  /\ calls[c] = passed[c] /\ passed[c] <= time[c]
                      /\ ended[c] =>
                           calls[c] = time[c] /\ updates[c] = time[c] + 1
                      /\ stopCalls[c] = 1 <=> ended[c] /\ kind[c] = "Timed"
    BY DEF RunsItsTime, TimedKinds
  <2> QED
    BY DEF IInv, LeafCounts
<1> QED
  BY <1>1, InductiveInvariant, PTL
=============================================================================
