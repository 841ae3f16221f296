------------------------ MODULE ProcessManagerProofs ------------------------
(***************************************************************************)
(* Proofs about ProcessManager::Update, for any processes and whatever     *)
(* they do: the list may change under the iterator, yet every process has  *)
(* one owner and one turn a pass.                                          *)
(***************************************************************************)
EXTENDS ProcessManager, SequenceTheorems, TLAPS

USE ConstantsAssumption DEF ConstantsAssumption

LEMMA AppendFacts ==
  ASSUME NEW S, NEW s \in Seq(S), NEW e \in S
  PROVE  /\ Append(s, e) \in Seq(S)
         /\ Len(Append(s, e)) = Len(s) + 1 /\ Len(s) \in Nat
         /\ \A i \in 1 .. Len(s) : Append(s, e)[i] = s[i]
         /\ Append(s, e)[Len(s) + 1] = e
  BY AppendProperties, LenProperties

LEMMA RemoveAtFacts ==
  ASSUME NEW S, NEW s \in Seq(S), NEW i \in 1 .. Len(s)
  PROVE  /\ RemoveAt(s, i) \in Seq(S)
         /\ Len(RemoveAt(s, i)) = Len(s) - 1
         /\ \A j \in 1 .. Len(s) - 1 :
              RemoveAt(s, i)[j] = IF j < i THEN s[j] ELSE s[j + 1]
<1> DEFINE before == SubSeq(s, 1, i - 1)
           after == SubSeq(s, i + 1, Len(s))
<1>1. PICK n : n = Len(s)
  OBVIOUS
<1>2. n \in Nat /\ i \in 1 .. n
  BY <1>1, LenProperties
<1>3. \A j \in 1 .. n : s[j] \in S
  BY <1>1, ElementOfSeq
<1>4. /\ before \in Seq(S) /\ Len(before) = i - 1
      /\ \A j \in 1 .. i - 1 : before[j] = s[j]
  <2>1. i - 1 \in Int /\ 1 \in Int /\ 1 .. i - 1 \subseteq 1 .. n
    BY <1>2
  <2>2. \A j \in 1 .. i - 1 : s[j] \in S
    BY <1>3, <2>1
  <2>3. /\ before \in Seq(S)
        /\ Len(before) = IF 1 <= i - 1 THEN (i - 1) - 1 + 1 ELSE 0
        /\ \A j \in 1 .. (i - 1) - 1 + 1 : before[j] = s[1 + j - 1]
    BY <2>1, <2>2, SubSeqProperties
  <2> HIDE DEF before
  <2>4. Len(before) = i - 1
    BY <1>2, <2>3
  <2>5. ASSUME NEW j \in 1 .. i - 1 PROVE before[j] = s[j]
    <3>1. j \in 1 .. (i - 1) - 1 + 1 /\ 1 + j - 1 = j
      BY <1>2
    <3> QED
      BY <2>3, <3>1
  <2> QED
    BY <2>3, <2>4, <2>5
<1>5. /\ after \in Seq(S) /\ Len(after) = n - i
      /\ \A j \in 1 .. n - i : after[j] = s[i + j]
  <2>1. i + 1 \in Int /\ n \in Int /\ i + 1 .. n \subseteq 1 .. n
    BY <1>2
  <2>2. \A j \in i + 1 .. n : s[j] \in S
    BY <1>3, <2>1
  <2>3. /\ after \in Seq(S)
        /\ Len(after) = IF i + 1 <= n THEN n - (i + 1) + 1 ELSE 0
        /\ \A j \in 1 .. n - (i + 1) + 1 : after[j] = s[(i + 1) + j - 1]
    BY <1>1, <2>1, <2>2, SubSeqProperties
  <2> HIDE DEF after
  <2>4. Len(after) = n - i
    BY <1>2, <2>3
  <2>5. ASSUME NEW j \in 1 .. n - i PROVE after[j] = s[i + j]
    <3>1. j \in 1 .. n - (i + 1) + 1 /\ (i + 1) + j - 1 = i + j
      BY <1>2
    <3> QED
      BY <2>3, <3>1
  <2> QED
    BY <2>3, <2>4, <2>5
<1> HIDE DEF before, after
<1>6. RemoveAt(s, i) = before \o after
  BY DEF RemoveAt, before, after
<1>7. /\ before \o after \in Seq(S)
      /\ Len(before \o after) = Len(before) + Len(after)
      /\ \A j \in 1 .. Len(before) + Len(after) :
           (before \o after)[j] =
             IF j <= Len(before) THEN before[j] ELSE after[j - Len(before)]
  BY <1>4, <1>5, ConcatProperties
<1>8. Len(before) + Len(after) = n - 1
  BY <1>2, <1>4, <1>5
<1>9. ASSUME NEW j \in 1 .. n - 1
      PROVE  (before \o after)[j] = IF j < i THEN s[j] ELSE s[j + 1]
  <2>1. CASE j < i
    <3>1. j <= i - 1 /\ j \in 1 .. i - 1
      BY <1>2, <2>1
    <3> QED
      BY <1>4, <1>7, <1>8, <2>1, <3>1
  <2>2. CASE ~(j < i)
    <3>1. ~(j <= i - 1) /\ j - (i - 1) \in 1 .. n - i
          /\ i + (j - (i - 1)) = j + 1
      BY <1>2, <2>2
    <3> QED
      BY <1>4, <1>5, <1>7, <1>8, <2>2, <3>1
  <2> QED
    BY <2>1, <2>2
<1> QED
  BY <1>1, <1>6, <1>7, <1>8, <1>9
-----------------------------------------------------------------------------
LEMMA InitHolds == Init => IInv
<1> SUFFICES ASSUME Init PROVE IInv
  OBVIOUS
<1> USE DEF Init
<1>1. TypeOK
  BY EmptySeq DEF TypeOK
<1>2. /\ OneOwner /\ OneTurnAPass /\ OwnedIsCreated /\ FirstTurnToCome
      /\ PassInOrder
  BY EmptySeq DEF OneOwner, OneTurnAPass, OwnedIsCreated, FirstTurnToCome,
                  PassInOrder, Listed, Successor, PassDone
<1> QED
  BY <1>1, <1>2 DEF IInv

\* The second part of OneTurnAPass is what PassInOrder says at the end.
LEMMA PassEnds ==
  ASSUME TypeOK', PassInOrder',
         \A p \in Processes : turns'[p] <= 1
  PROVE  OneTurnAPass'
<1> SUFFICES ASSUME PassDone', NEW i \in 1 .. Len(processes')
             PROVE  turns'[processes'[i]] = 1
  BY DEF OneTurnAPass
<1>1. Len(processes') \in Nat /\ position' \in Nat
  BY LenProperties DEF TypeOK
<1>2. pc' = "loop" /\ i < position'
  BY <1>1 DEF PassDone
<1> QED
  BY <1>2 DEF PassInOrder, HadItsTurn

LEMMA AddStep ==
  ASSUME IInv, NEW p \in Processes, Add(p)
  PROVE  IInv'
<1> USE DEF IInv, Add
<1>1. PICK n : n = Len(processes)
  OBVIOUS
<1>2. /\ processes' \in Seq(Processes) /\ Len(processes') = n + 1 /\ n \in Nat
      /\ \A i \in 1 .. n : processes'[i] = processes[i]
      /\ processes'[n + 1] = p
  BY <1>1, AppendFacts DEF TypeOK
<1>3. TypeOK'
  BY <1>1, <1>2 DEF TypeOK
<1>4. \A i \in 1 .. n + 1 : i \in 1 .. n \/ i = n + 1
  BY <1>2
<1>5. ~Listed(p) /\ ~Successor(p)
  BY DEF OwnedIsCreated
<1>6. \A q \in Processes : Listed(q)' <=> Listed(q) \/ q = p
  <2>1. \A i \in 1 .. n : i \in 1 .. n + 1
    BY <1>2
  <2>2. n + 1 \in 1 .. n + 1
    BY <1>2
  <2> QED
    BY <1>1, <1>2, <1>4, <2>1, <2>2 DEF Listed
<1>7. \A q : Successor(q)' <=> Successor(q)
  BY DEF Successor
<1>8. OneOwner'
  <2>1. ASSUME NEW i \in 1 .. n + 1, NEW j \in 1 .. n + 1,
               processes'[i] = processes'[j]
        PROVE  i = j
    <3>1. \A h \in 1 .. n : processes[h] # p
      BY <1>1, <1>5 DEF Listed
    <3> QED
      BY <1>1, <1>2, <1>4, <2>1, <3>1 DEF OneOwner
  <2>2. \A q \in created' :
          /\ ~(Listed(q)' /\ Successor(q)')
          /\ Listed(q)' \/ Successor(q)' \/ state'[q] = "ENDED"
    BY <1>5, <1>6, <1>7 DEF OneOwner, TypeOK
  <2> QED
    BY <1>2, <2>1, <2>2 DEF OneOwner
<1>9. OwnedIsCreated'
  <2>1. pc = "settle" => position <= n + 1
    BY <1>1, <1>2 DEF OwnedIsCreated, TypeOK
  <2> QED
    BY <1>2, <1>6, <1>7, <2>1 DEF OwnedIsCreated
<1>10. FirstTurnToCome'
  BY DEF FirstTurnToCome
<1>11. PassInOrder'
  <2> SUFFICES ASSUME pc = "settle"
               PROVE  PassInOrder'
    BY DEF PassInOrder
  <2>1. NoTurnYet(p) /\ n + 1 > position /\ ~(n + 1 < position)
        /\ n + 1 # position
    BY <1>1, <1>2 DEF PassInOrder, OwnedIsCreated, TypeOK
  <2>2. ASSUME NEW i \in 1 .. n + 1
        PROVE  /\ i < position => HadItsTurn(processes'[i])
               /\ i > position => NoTurnYet(processes'[i])
               /\ i = position => state[processes'[i]] = "ENDED"
                                  \/ HadItsTurn(processes'[i])
    <3>1. CASE i = n + 1
      BY <1>2, <2>1, <3>1
    <3>2. CASE i \in 1 .. n
      BY <1>1, <1>2, <3>2 DEF PassInOrder
    <3> QED
      BY <1>4, <3>1, <3>2
  <2>3. \A q \in Processes : Successor(q) \/ q \notin created' => NoTurnYet(q)
    BY DEF PassInOrder
  <2> QED
    BY <1>2, <1>7, <2>2, <2>3 DEF PassInOrder, HadItsTurn, NoTurnYet
<1>12. OneTurnAPass'
  BY <1>3, <1>11, PassEnds DEF OneTurnAPass, PassDone
<1> QED
  BY <1>3, <1>8, <1>9, <1>10, <1>11, <1>12

LEMMA SetNextStep ==
  ASSUME IInv, NEW p \in Processes, NEW q \in Processes, SetNext(p, q)
  PROVE  IInv'
<1> USE DEF IInv, SetNext
<1>1. next' = [next EXCEPT ![p] = q] /\ next[p] = NoProcess
  OBVIOUS
<1>2. TypeOK'
  BY <1>1 DEF TypeOK
<1>3. ~Listed(q) /\ ~Successor(q)
  BY DEF OwnedIsCreated
<1>4. \A r : Listed(r)' <=> Listed(r)
  BY DEF Listed
<1>5. \A r \in Processes : Successor(r)' <=> Successor(r) \/ r = q
  BY <1>1 DEF Successor, TypeOK
<1>6. OneOwner'
  <2>1. \A r, t \in Processes :
          next'[r] = next'[t] /\ next'[r] # NoProcess => r = t
    BY <1>1, <1>3 DEF OneOwner, Successor, TypeOK
  <2>2. \A r \in created' :
          /\ ~(Listed(r)' /\ Successor(r)')
          /\ Listed(r)' \/ Successor(r)' \/ state'[r] = "ENDED"
    BY <1>3, <1>4, <1>5 DEF OneOwner, TypeOK
  <2>3. \A i, j \in 1 .. Len(processes) :
          processes[i] = processes[j] => i = j
    BY DEF OneOwner
  <2> QED
    BY <2>1, <2>2, <2>3 DEF OneOwner
<1>7. OwnedIsCreated' /\ FirstTurnToCome'
  BY <1>4, <1>5 DEF OwnedIsCreated, FirstTurnToCome
<1>8. PassInOrder'
  BY <1>5 DEF PassInOrder, HadItsTurn, NoTurnYet
<1>9. OneTurnAPass'
  BY <1>2, <1>8, PassEnds DEF OneTurnAPass, PassDone
<1> QED
  BY <1>2, <1>6, <1>7, <1>8, <1>9

LEMMA StopStep ==
  ASSUME IInv, NEW p \in Processes, Stop(p)
  PROVE  IInv'
<1> USE DEF IInv, Stop
<1>1. /\ state' = [state EXCEPT ![p] = "ENDED"]
      /\ \A q \in Processes : state'[q] = "ENDED" \/ state'[q] = state[q]
  BY DEF TypeOK
<1>2. TypeOK'
  BY <1>1 DEF TypeOK
<1>3. \A r : (Listed(r)' <=> Listed(r)) /\ (Successor(r)' <=> Successor(r))
  BY DEF Listed, Successor
<1>4. OneOwner'
  BY <1>1, <1>3 DEF OneOwner, TypeOK
<1>5. OwnedIsCreated' /\ FirstTurnToCome'
  BY <1>1, <1>3 DEF OwnedIsCreated, FirstTurnToCome
<1>6. PassInOrder'
  <2>1. \A i \in 1 .. Len(processes) : processes[i] \in Processes
    BY ElementOfSeq DEF TypeOK
  <2> QED
    BY <1>1, <1>3, <2>1 DEF PassInOrder, HadItsTurn, NoTurnYet
<1>7. OneTurnAPass'
  BY <1>2, <1>6, PassEnds DEF OneTurnAPass, PassDone
<1> QED
  BY <1>2, <1>4, <1>5, <1>6, <1>7
-----------------------------------------------------------------------------
LEMMA StartUpdateStep == IInv /\ StartUpdate => IInv'
<1> SUFFICES ASSUME IInv, StartUpdate PROVE IInv'
  OBVIOUS
<1> USE DEF IInv, StartUpdate
<1>1. Len(processes) \in Nat /\ 1 \in 1 .. Len(processes) + 1
  BY LenProperties DEF TypeOK
<1>2. TypeOK'
  BY <1>1 DEF TypeOK
<1>3. \A r : (Listed(r)' <=> Listed(r)) /\ (Successor(r)' <=> Successor(r))
  BY DEF Listed, Successor
<1>4. OneOwner' /\ OwnedIsCreated' /\ FirstTurnToCome'
  BY <1>3 DEF OneOwner, OwnedIsCreated, FirstTurnToCome
<1>5. \A p \in Processes : NoTurnYet(p)'
  BY DEF NoTurnYet
<1>6. PassInOrder'
  <2>1. \A i \in 1 .. Len(processes) : ~(i < 1) /\ processes[i] \in Processes
    BY <1>1, ElementOfSeq DEF TypeOK
  <2> QED
    BY <1>5, <2>1 DEF PassInOrder
<1>7. OneTurnAPass'
  <2>1. \A p \in Processes : turns'[p] <= 1
    OBVIOUS
  <2> QED
    BY <1>2, <1>6, <2>1, PassEnds DEF OneTurnAPass
<1> QED
  BY <1>2, <1>4, <1>6, <1>7

LEMMA TurnStep ==
  ASSUME IInv, NEW stops \in BOOLEAN, Turn(stops)
  PROVE  IInv'
<1> USE DEF IInv, Turn
<1>1. PICK c : c = Current
  OBVIOUS
<1>2. PICK n : n = Len(processes)
  OBVIOUS
<1>3. /\ n \in Nat /\ position \in 1 .. n /\ processes \in Seq(Processes)
      /\ \A i \in 1 .. n : processes[i] \in Processes
  BY <1>2, LenProperties, ElementOfSeq DEF TypeOK
<1>4. c \in Processes /\ c = processes[position] /\ Listed(c)
  BY <1>1, <1>2, <1>3 DEF Current, Listed
<1>5. /\ inits' = IF state[c] = "UNINITIALIZED"
                  THEN [inits EXCEPT ![c] = inits[c] + 1] ELSE inits
      /\ state' = [state EXCEPT ![c] = IF stops THEN "ENDED" ELSE "RUNNING"]
      /\ turns' = [turns EXCEPT ![c] = turns[c] + 1]
      /\ state[c] # "ENDED"
      /\ pc = "loop" /\ pc' = "settle"
  BY <1>1
<1>6. /\ turns[c] \in Nat
      /\ state[c] = "UNINITIALIZED" => inits[c] = 0
  BY <1>4, <1>5 DEF FirstTurnToCome, TypeOK
<1>7. TypeOK'
  <2>1. inits' \in [Processes -> {0, 1}]
    <3>1. CASE state[c] = "UNINITIALIZED"
      <4>1. inits[c] + 1 \in {0, 1}
        BY <1>6, <3>1
      <4> QED
        BY <1>5, <3>1, <4>1 DEF TypeOK
    <3>2. CASE state[c] # "UNINITIALIZED"
      BY <1>5, <3>2 DEF TypeOK
    <3> QED
      BY <3>1, <3>2
  <2>2. turns[c] + 1 \in Nat
    BY <1>6
  <2>3. turns' \in [Processes -> Nat]
    BY <1>5, <2>2 DEF TypeOK
  <2>4. state' \in [Processes -> {"UNINITIALIZED", "RUNNING", "ENDED"}]
    BY <1>5 DEF TypeOK
  <2> QED
    BY <1>5, <2>1, <2>3, <2>4 DEF TypeOK
<1>8. \A r : (Listed(r)' <=> Listed(r)) /\ (Successor(r)' <=> Successor(r))
  BY DEF Listed, Successor
<1>9. OneOwner'
  BY <1>4, <1>5, <1>8 DEF OneOwner, TypeOK
<1>10. OwnedIsCreated'
  <2>1. position <= n
    BY <1>3
  <2> QED
    BY <1>2, <1>8, <2>1 DEF OwnedIsCreated
<1>11. FirstTurnToCome'
  <2> SUFFICES ASSUME NEW p \in Processes, state'[p] = "UNINITIALIZED"
               PROVE  inits'[p] = 0
    BY DEF FirstTurnToCome
  <2>1. p # c
    BY <1>4, <1>5 DEF TypeOK
  <2>2. state'[p] = state[p] /\ inits'[p] = inits[p]
    BY <1>4, <1>5, <2>1 DEF TypeOK
  <2> QED
    BY <2>2 DEF FirstTurnToCome
<1>12. NoTurnYet(c)
  BY <1>2, <1>3, <1>4, <1>5 DEF PassInOrder
<1>13. turns'[c] = 1
  BY <1>4, <1>5, <1>12 DEF NoTurnYet, TypeOK
<1>14. \A p \in Processes : p # c => turns'[p] = turns[p]
  BY <1>4, <1>5 DEF TypeOK
<1>15. PassInOrder'
  <2>1. ASSUME NEW i \in 1 .. n
        PROVE  /\ i < position => turns'[processes[i]] = 1
               /\ i > position => turns'[processes[i]] = 0
               /\ i = position => turns'[processes[i]] = 1
    <3>1. CASE i = position
      BY <1>3, <1>4, <1>13, <3>1
    <3>2. CASE i # position
      <4>1. processes[i] # c
        BY <1>2, <1>3, <1>4, <3>2 DEF OneOwner
      <4>2. turns'[processes[i]] = turns[processes[i]]
        BY <1>3, <1>14, <4>1
      <4>3. /\ i < position => HadItsTurn(processes[i])
            /\ i > position => NoTurnYet(processes[i])
        BY <1>2, <1>5 DEF PassInOrder
      <4> QED
        BY <3>2, <4>2, <4>3 DEF HadItsTurn, NoTurnYet
    <3> QED
      BY <3>1, <3>2
  <2>2. ASSUME NEW p \in Processes, Successor(p) \/ p \notin created
        PROVE  turns'[p] = 0
    <3>1. p # c
      BY <1>4, <2>2 DEF OneOwner, OwnedIsCreated
    <3>2. NoTurnYet(p)
      BY <1>5, <2>2 DEF PassInOrder
    <3> QED
      BY <1>14, <3>1, <3>2 DEF NoTurnYet
  <2> QED
    BY <1>2, <1>5, <1>8, <2>1, <2>2 DEF PassInOrder, HadItsTurn, NoTurnYet
<1>16. OneTurnAPass'
  <2>1. ASSUME NEW p \in Processes PROVE turns'[p] <= 1
    <3>1. CASE p = c
      BY <1>4, <1>13, <3>1 DEF TypeOK
    <3>2. CASE p # c
      BY <1>14, <3>2 DEF OneTurnAPass
    <3> QED
      BY <3>1, <3>2
  <2> QED
    BY <1>7, <1>15, <2>1, PassEnds DEF OneTurnAPass
<1> QED
  BY <1>7, <1>9, <1>10, <1>11, <1>15, <1>16

LEMMA PassOverStep == IInv /\ PassOver => IInv'
<1> SUFFICES ASSUME IInv, PassOver PROVE IInv'
  OBVIOUS
<1> USE DEF IInv, PassOver
<1>1. TypeOK'
  BY DEF TypeOK
<1>2. \A r : (Listed(r)' <=> Listed(r)) /\ (Successor(r)' <=> Successor(r))
  BY DEF Listed, Successor
<1>3. OneOwner' /\ OwnedIsCreated' /\ FirstTurnToCome'
  BY <1>2 DEF OneOwner, OwnedIsCreated, FirstTurnToCome
<1>4. PassInOrder'
  BY <1>2 DEF PassInOrder, HadItsTurn, NoTurnYet, Current
<1>5. OneTurnAPass'
  BY <1>1, <1>4, PassEnds DEF OneTurnAPass
<1> QED
  BY <1>1, <1>3, <1>4, <1>5

LEMMA AdvanceStep == IInv /\ Advance => IInv'
<1> SUFFICES ASSUME IInv, Advance PROVE IInv'
  OBVIOUS
<1> USE DEF IInv, Advance
<1>1. /\ Len(processes) \in Nat /\ position \in 1 .. Len(processes)
      /\ pc = "settle" /\ pc' = "loop" /\ position' = position + 1
  BY LenProperties DEF TypeOK, OwnedIsCreated
<1>2. TypeOK'
  BY <1>1 DEF TypeOK
<1>3. \A r : (Listed(r)' <=> Listed(r)) /\ (Successor(r)' <=> Successor(r))
  BY DEF Listed, Successor
<1>4. OneOwner' /\ OwnedIsCreated' /\ FirstTurnToCome'
  BY <1>1, <1>3 DEF OneOwner, OwnedIsCreated, FirstTurnToCome
<1>5. PassInOrder'
  <2>1. ASSUME NEW i \in 1 .. Len(processes)
        PROVE  /\ i < position + 1 => HadItsTurn(processes[i])
               /\ i > position + 1 => NoTurnYet(processes[i])
               /\ i = position + 1 => NoTurnYet(processes[i])
    <3>1. i < position + 1 => i < position \/ i = position
      BY <1>1
    <3>2. i > position + 1 \/ i = position + 1 => i > position
      BY <1>1
    <3>3. i = position => HadItsTurn(processes[i])
      BY <1>1 DEF PassInOrder, Current
    <3> QED
      BY <1>1, <3>1, <3>2, <3>3 DEF PassInOrder
  <2> QED
    BY <1>1, <1>3, <2>1 DEF PassInOrder, HadItsTurn, NoTurnYet
<1>6. OneTurnAPass'
  BY <1>2, <1>5, PassEnds DEF OneTurnAPass
<1> QED
  BY <1>2, <1>4, <1>5, <1>6

LEMMA EndUpdateStep == IInv /\ EndUpdate => IInv'
<1> SUFFICES ASSUME IInv, EndUpdate PROVE IInv'
  OBVIOUS
<1> USE DEF IInv, EndUpdate
<1>1. TypeOK'
  BY DEF TypeOK
<1>2. \A r : (Listed(r)' <=> Listed(r)) /\ (Successor(r)' <=> Successor(r))
  BY DEF Listed, Successor
<1>3. OneOwner' /\ OwnedIsCreated' /\ FirstTurnToCome'
  BY <1>2 DEF OneOwner, OwnedIsCreated, FirstTurnToCome
<1>4. PassInOrder' /\ OneTurnAPass'
  BY DEF PassInOrder, OneTurnAPass, PassDone
<1> QED
  BY <1>1, <1>3, <1>4

\* l is the list t of n processes without its k-th: where each element comes
\* from, and where each that stays goes.
IsWithout(l, t, n, k) ==
  /\ l \in Seq(Processes) /\ Len(l) = n - 1
  /\ \A j \in 1 .. n - 1 : \E i \in 1 .. n :
       /\ l[j] = t[i] /\ i # k
       /\ j < k => i = j
       /\ j >= k => i > k
  /\ \A i \in 1 .. n : i # k => \E j \in 1 .. n - 1 : l[j] = t[i]
  /\ \A i, j \in 1 .. n - 1 : l[i] = l[j] => i = j

\* No process twice among the first n of t.
NoneTwice(t, n) == \A i, j \in 1 .. n : t[i] = t[j] => i = j

LEMMA Removed ==
  ASSUME NEW t \in Seq(Processes), NEW n, n = Len(t), NEW k \in 1 .. n,
         NEW l, l = RemoveAt(t, k), NoneTwice(t, n)
  PROVE  IsWithout(l, t, n, k)
<1>1. n = Len(t)
  OBVIOUS
<1>2. n \in Nat /\ k \in 1 .. n
  BY <1>1, LenProperties
<1>3. /\ l \in Seq(Processes) /\ Len(l) = n - 1
      /\ \A j \in 1 .. n - 1 : l[j] = IF j < k THEN t[j] ELSE t[j + 1]
  BY <1>1, RemoveAtFacts
<1>4. ASSUME NEW j \in 1 .. n - 1
      PROVE  \E i \in 1 .. n : /\ l[j] = t[i] /\ i # k
                               /\ j < k => i = j
                               /\ j >= k => i > k
  <2>1. CASE j < k
    <3>1. j \in 1 .. n /\ j # k /\ ~(j >= k)
      BY <1>2, <2>1
    <3> QED
      BY <1>3, <2>1, <3>1
  <2>2. CASE ~(j < k)
    <3>1. j + 1 \in 1 .. n /\ j + 1 # k /\ j + 1 > k
      BY <1>2, <2>2
    <3> QED
      BY <1>3, <2>2, <3>1
  <2> QED
    BY <2>1, <2>2
<1>5. ASSUME NEW i \in 1 .. n, i # k
      PROVE  \E j \in 1 .. n - 1 : l[j] = t[i]
  <2>1. CASE i < k
    <3>1. i \in 1 .. n - 1
      BY <1>2, <2>1
    <3> QED
      BY <1>3, <2>1, <3>1
  <2>2. CASE ~(i < k)
    <3>1. i - 1 \in 1 .. n - 1 /\ ~(i - 1 < k) /\ (i - 1) + 1 = i
      BY <1>2, <1>5, <2>2
    <3>2. l[i - 1] = t[i]
      BY <1>3, <3>1
    <3> QED
      BY <3>1, <3>2
  <2> QED
    BY <2>1, <2>2
<1>6. ASSUME NEW i \in 1 .. n - 1, NEW j \in 1 .. n - 1, l[i] = l[j]
      PROVE  i = j
  <2> DEFINE From(h) == IF h < k THEN h ELSE h + 1
  <2>1. ASSUME NEW h \in 1 .. n - 1
        PROVE  l[h] = t[From(h)] /\ From(h) \in 1 .. n
    BY <1>2, <1>3
  <2>2. From(i) = From(j)
    <3> HIDE DEF From
    <3> QED
      BY <1>6, <2>1 DEF NoneTwice
  <2> QED
    BY <1>2, <2>2
<1> QED
  BY <1>1, <1>3, <1>4, <1>5, <1>6 DEF IsWithout

LEMMA EraseStep == IInv /\ Erase => IInv'
<1> SUFFICES ASSUME IInv, Erase PROVE IInv'
  OBVIOUS
<1> USE DEF IInv, Erase
<1>1. PICK c : c = Current
  OBVIOUS
<1>2. PICK s : s = next[c]
  OBVIOUS
<1>3. PICK n : n = Len(processes)
  OBVIOUS
<1>4. PICK t : t = IF s = NoProcess THEN processes ELSE Append(processes, s)
  OBVIOUS
<1>5. PICK k : k = position
  OBVIOUS
<1>6. /\ n \in Nat /\ k \in 1 .. n /\ processes \in Seq(Processes)
      /\ \A i \in 1 .. n : processes[i] \in Processes
  BY <1>3, <1>5, LenProperties, ElementOfSeq DEF TypeOK, OwnedIsCreated
<1>7. c = processes[k] /\ c \in Processes /\ Listed(c) /\ state[c] = "ENDED"
  BY <1>1, <1>3, <1>5, <1>6 DEF Current, Listed
<1>8. /\ s \in Processes \cup {NoProcess}
      /\ s # NoProcess => s \in Processes /\ Successor(s) /\ ~Listed(s)
  BY <1>2, <1>7 DEF TypeOK, OneOwner, OwnedIsCreated, Successor
<1>9. /\ t \in Seq(Processes)
      /\ \A i \in 1 .. n : t[i] = processes[i]
      /\ Len(t) = IF s = NoProcess THEN n ELSE n + 1
      /\ s # NoProcess => t[n + 1] = s
  <2>1. CASE s = NoProcess
    BY <1>3, <1>4, <1>6, <2>1
  <2>2. CASE s # NoProcess
    BY <1>3, <1>4, <1>6, <1>8, <2>2, AppendFacts
  <2> QED
    BY <2>1, <2>2
<1>10. PICK m : m = Len(t)
  OBVIOUS
<1>11. /\ m \in {n, n + 1} /\ (s = NoProcess => m = n)
       /\ (s # NoProcess => m = n + 1)
       /\ k \in 1 .. m
       /\ \A i \in 1 .. m : i \in 1 .. n \/ (i = n + 1 /\ s # NoProcess)
  BY <1>6, <1>9, <1>10
<1>12. \A i \in 1 .. n : i \in 1 .. m
  BY <1>6, <1>11
<1>13. \A i \in 1 .. n : processes[i] # s
  BY <1>3, <1>6, <1>8 DEF Listed
<1>14. \A i, j \in 1 .. m : t[i] = t[j] => i = j
  BY <1>3, <1>9, <1>11, <1>13 DEF OneOwner
<1>15. processes' = RemoveAt(t, k) /\ next' = [next EXCEPT ![c] = NoProcess]
  BY <1>1, <1>2, <1>4, <1>5
<1>16. /\ processes' \in Seq(Processes) /\ Len(processes') = m - 1
       /\ \A j \in 1 .. m - 1 : \E i \in 1 .. m :
            /\ processes'[j] = t[i] /\ i # k
            /\ j < k => i = j
            /\ j >= k => i > k
       /\ \A i \in 1 .. m : i # k =>
            \E j \in 1 .. m - 1 : processes'[j] = t[i]
       /\ \A i, j \in 1 .. m - 1 : processes'[i] = processes'[j] => i = j
  <2>1. PICK l : l = processes'
    OBVIOUS
  <2> HIDE DEF IInv, Erase
  <2>2. l = RemoveAt(t, k) /\ t \in Seq(Processes) /\ k \in 1 .. m
    BY <1>9, <1>11, <1>15, <2>1
  <2>3. NoneTwice(t, m)
    BY ONLY <1>14 DEF NoneTwice
  <2>4. IsWithout(l, t, m, k)
    BY ONLY <1>10, <2>2, <2>3, Removed
  <2> QED
    BY ONLY <2>1, <2>4 DEF IsWithout
<1>17. \A p \in Processes : Listed(p)' <=> (Listed(p) /\ p # c) \/ p = s
  <2> SUFFICES ASSUME NEW p \in Processes
               PROVE  (\E j \in 1 .. m - 1 : processes'[j] = p)
                        <=> (Listed(p) /\ p # c) \/ p = s
    BY <1>16 DEF Listed
  <2>1. ASSUME NEW j \in 1 .. m - 1, processes'[j] = p
        PROVE  (Listed(p) /\ p # c) \/ p = s
    <3>1. PICK i \in 1 .. m : t[i] = p /\ i # k
      BY <1>16, <2>1
    <3>2. CASE i \in 1 .. n
      <4>1. processes[i] = p /\ p # c
        BY <1>9, <1>11, <1>12, <1>14, <1>6, <1>7, <3>1, <3>2
      <4> QED
        BY <1>3, <3>2, <4>1 DEF Listed
    <3>3. CASE i = n + 1 /\ s # NoProcess
      BY <1>9, <3>1, <3>3
    <3> QED
      BY <1>11, <3>2, <3>3
  <2>2. ASSUME Listed(p), p # c
        PROVE  \E j \in 1 .. m - 1 : processes'[j] = p
    <3>1. PICK i \in 1 .. n : processes[i] = p
      BY <1>3, <2>2 DEF Listed
    <3>2. i # k /\ i \in 1 .. m /\ t[i] = p
      BY <1>7, <1>9, <1>12, <2>2, <3>1
    <3> QED
      BY <1>16, <3>2
  <2>3. ASSUME p = s
        PROVE  \E j \in 1 .. m - 1 : processes'[j] = p
    <3>1. s # NoProcess /\ m = n + 1
      BY <1>11, <2>3
    <3>2. n + 1 # k /\ n + 1 \in 1 .. m
      BY <1>6, <3>1
    <3>3. t[n + 1] = p
      BY <1>9, <2>3, <3>1
    <3> QED
      BY <1>16, <3>2, <3>3
  <2> QED
    BY <2>1, <2>2, <2>3
<1>18. \A p \in Processes : Successor(p)' <=> Successor(p) /\ p # s
  <2> SUFFICES ASSUME NEW p \in Processes
               PROVE  Successor(p)' <=> Successor(p) /\ p # s
    OBVIOUS
  <2>1. p # NoProcess /\ next'[c] = NoProcess
        /\ \A q \in Processes : q # c => next'[q] = next[q]
    BY <1>7, <1>15 DEF TypeOK
  <2>2. Successor(p)' => Successor(p) /\ p # s
    BY <1>2, <1>7, <2>1 DEF Successor, OneOwner
  <2>3. Successor(p) /\ p # s => Successor(p)'
    BY <1>2, <2>1 DEF Successor
  <2> QED
    BY <2>2, <2>3
<1>19. TypeOK'
  <2>1. position' \in 1 .. Len(processes') + 1
    BY <1>5, <1>6, <1>11, <1>16
  <2>2. next' \in [Processes -> Processes \cup {NoProcess}]
    BY <1>15 DEF TypeOK
  <2> QED
    BY <1>16, <2>1, <2>2 DEF TypeOK
<1>20. OneOwner'
  <2>1. ASSUME NEW p \in Processes, NEW q \in Processes,
               next'[p] = next'[q], next'[p] # NoProcess
        PROVE  p = q
    BY <1>7, <1>15, <2>1 DEF OneOwner, TypeOK
  <2>2. ASSUME NEW p \in created
        PROVE  /\ ~(Listed(p)' /\ Successor(p)')
               /\ Listed(p)' \/ Successor(p)' \/ state[p] = "ENDED"
    <3>1. p \in Processes
      BY DEF TypeOK
    <3>2. /\ ~(Listed(p) /\ Successor(p))
          /\ Listed(p) \/ Successor(p) \/ state[p] = "ENDED"
      BY <2>2 DEF OneOwner
    <3> QED
      BY <1>7, <1>17, <1>18, <3>1, <3>2
  <2> QED
    BY <1>16, <2>1, <2>2 DEF OneOwner
<1>21. OwnedIsCreated'
  BY <1>8, <1>17, <1>18 DEF OwnedIsCreated
<1>22. FirstTurnToCome'
  BY DEF FirstTurnToCome
<1>23. PassInOrder'
  <2>1. ASSUME NEW j \in 1 .. m - 1
        PROVE  /\ j < k => HadItsTurn(processes'[j])
               /\ j >= k => NoTurnYet(processes'[j])
    <3>1. PICK i \in 1 .. m : /\ processes'[j] = t[i]
                              /\ j < k => i = j
                              /\ j >= k => i > k
      BY <1>16
    <3>2. CASE i \in 1 .. n
      <4>1. /\ i < k => HadItsTurn(processes[i])
            /\ i > k => NoTurnYet(processes[i])
        BY <1>3, <1>5, <3>2 DEF PassInOrder
      <4>2. t[i] = processes[i]
        BY <1>9, <3>2
      <4> QED
        BY <3>1, <4>1, <4>2
    <3>3. CASE i = n + 1 /\ s # NoProcess
      <4>1. t[i] = s /\ NoTurnYet(s)
        BY <1>8, <1>9, <3>3 DEF PassInOrder
      <4>2. ~(j < k)
        BY <1>6, <3>1, <3>3
      <4> QED
        BY <3>1, <4>1, <4>2
    <3> QED
      BY <1>11, <3>2, <3>3
  <2>2. \A p \in Processes : Successor(p)' \/ p \notin created => NoTurnYet(p)
    BY <1>18 DEF PassInOrder
  <2>3. \A j \in 1 .. m - 1 : j > k \/ j = k => j >= k
    BY <1>6
  <2> QED
    BY <1>5, <1>16, <2>1, <2>2, <2>3 DEF PassInOrder, HadItsTurn, NoTurnYet
<1>24. OneTurnAPass'
  BY <1>19, <1>23, PassEnds DEF OneTurnAPass
<1> QED
  BY <1>19, <1>20, <1>21, <1>22, <1>23, <1>24

LEMMA NextStep == IInv /\ [Next]_vars => IInv'
<1> SUFFICES ASSUME IInv, [Next]_vars PROVE IInv'
  OBVIOUS
<1>1. CASE \E p \in Processes : Add(p) \/ Stop(p)
  BY <1>1, AddStep, StopStep
<1>2. CASE \E p, q \in Processes : SetNext(p, q)
  BY <1>2, SetNextStep
<1>3. CASE StartUpdate
  BY <1>3, StartUpdateStep
<1>4. CASE Step
  BY <1>4, TurnStep, PassOverStep, EraseStep, AdvanceStep, EndUpdateStep
     DEF Step
<1>5. CASE UNCHANGED vars
  <2> USE <1>5 DEF IInv, vars
  <2>1. TypeOK'
    BY DEF TypeOK
  <2>2. \A r : (Listed(r)' <=> Listed(r)) /\ (Successor(r)' <=> Successor(r))
    BY DEF Listed, Successor
  <2>3. OneOwner' /\ OwnedIsCreated' /\ FirstTurnToCome'
    BY <2>2 DEF OneOwner, OwnedIsCreated, FirstTurnToCome
  <2>4. PassInOrder'
    BY <2>2 DEF PassInOrder, HadItsTurn, NoTurnYet
  <2>5. OneTurnAPass'
    BY <2>1, <2>4, PassEnds DEF OneTurnAPass
  <2> QED
    BY <2>1, <2>3, <2>4, <2>5
<1> QED
  BY <1>1, <1>2, <1>3, <1>4, <1>5 DEF Next
-----------------------------------------------------------------------------
\* The invariant behind the theorems below.
THEOREM InductiveInvariant == Spec => []IInv
<1> QED
  BY InitHolds, NextStep, PTL DEF Spec

\* The iterator always points into the list or behind its end, and no process
\* gets a second Init.
THEOREM TypeCorrect == Spec => []TypeOK
<1>1. IInv => TypeOK
  BY DEF IInv
<1> QED
  BY <1>1, InductiveInvariant, PTL

\* A process belongs to the list or to its predecessor, never to both, and only
\* one that has ended belongs to nobody.
THEOREM EveryProcessHasOneOwner == Spec => []OneOwner
<1>1. IInv => OneOwner
  BY DEF IInv
<1> QED
  BY <1>1, InductiveInvariant, PTL

\* Update skips no process and gives none two turns, whatever is erased and
\* appended during the pass.
THEOREM EveryProcessOneTurn == Spec => []OneTurnAPass
<1>1. IInv => OneTurnAPass
  BY DEF IInv
<1> QED
  BY <1>1, InductiveInvariant, PTL
=============================================================================
