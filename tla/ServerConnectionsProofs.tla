---------------------- MODULE ServerConnectionsProofs ----------------------
(***************************************************************************)
(* Proofs about ServerConnections, for any number of connections and any   *)
(* values an uninitialised m_current_player may hold, and, built on them,  *)
(* about what ClientViews adds: the messages to the clients.               *)
(***************************************************************************)
EXTENDS ClientViews, SequenceTheorems, TLAPS

USE ConstantsAssumption DEF ConstantsAssumption, TakenAway

\* The elements of a list of pending events.
LEMMA ListElements ==
  ASSUME NEW S, NEW s \in Seq(S)
  PROVE  /\ \A x \in S : x \in Range(s) <=> \E i \in 1 .. Len(s) : x = s[i]
         /\ Range(s) \subseteq S
         /\ Len(s) \in Nat
<1>1. Len(s) \in Nat /\ DOMAIN s = 1 .. Len(s)
  BY LenProperties
<1>2. \A i \in 1 .. Len(s) : s[i] \in S
  BY ElementOfSeq
<1>3. ASSUME NEW x \in S
      PROVE  x \in Range(s) <=> \E i \in 1 .. Len(s) : x = s[i]
  BY <1>1 DEF Range
<1>4. Range(s) \subseteq S
  BY <1>1, <1>2 DEF Range
<1> QED
  BY <1>1, <1>3, <1>4

LEMMA NoElements == Range(<<>>) = {} /\ Len(<<>>) = 0
  BY EmptySeq DEF Range

LEMMA AppendFacts ==
  ASSUME NEW S, NEW s \in Seq(S), NEW e \in S
  PROVE  /\ Append(s, e) \in Seq(S)
         /\ Len(Append(s, e)) = Len(s) + 1
         /\ Len(s) \in Nat
         /\ \A i \in 1 .. Len(s) : Append(s, e)[i] = s[i]
         /\ Append(s, e)[Len(s) + 1] = e
         /\ Range(Append(s, e)) = Range(s) \cup {e}
<1>1. /\ Append(s, e) \in Seq(S)
      /\ Len(Append(s, e)) = Len(s) + 1
      /\ Len(s) \in Nat
      /\ \A i \in 1 .. Len(s) : Append(s, e)[i] = s[i]
      /\ Append(s, e)[Len(s) + 1] = e
  BY AppendProperties, LenProperties
<1>2. /\ Range(s) \subseteq S
      /\ \A x \in S : x \in Range(s) <=> \E i \in 1 .. Len(s) : x = s[i]
  BY ListElements
<1>3. /\ Range(Append(s, e)) \subseteq S
      /\ \A x \in S :
           x \in Range(Append(s, e))
             <=> \E i \in 1 .. Len(Append(s, e)) : x = Append(s, e)[i]
  BY <1>1, ListElements
<1>4. ASSUME NEW x \in S
      PROVE  x \in Range(Append(s, e)) <=> x \in Range(s) \cup {e}
  BY <1>1, <1>2, <1>3
<1> QED
  BY <1>1, <1>2, <1>3, <1>4

\* Who has its player in TakenForGood has it in ServedHasPlayer, and the server
\* runs.
LEMMA ServedWhileRunning ==
  ASSUME TakenForGood', pc' # "aborted"
  PROVE  ServedHasPlayer'
  BY DEF TakenForGood, ServedHasPlayer, Robbed

LEMMA InitHolds == Init => IInv
<1> SUFFICES ASSUME Init PROVE IInv
  OBVIOUS
<1>1. TypeOK
  <2>1. /\ pendingConnect \in Seq(Connections)
        /\ pendingDisconnect \in Seq(Connections)
        /\ owner \in Seq(Connections) /\ Len(owner) = nextPlayerId
    BY EmptySeq DEF Init
  <2>2. received \in [Connections -> Seq({"Hello", "Input"})]
    BY EmptySeq DEF Init
  <2>3. /\ mutex = IF pc \in {"connects", "disconnects"}
                   THEN "game" ELSE "nobody"
        /\ currentPlayer \in [Connections -> Nat]
        /\ players \subseteq 0 .. nextPlayerId - 1
    BY DEF Init
  <2> QED
    BY <2>1, <2>2, <2>3 DEF Init, TypeOK
<1>2. NoEventLost /\ ListsInOrder
  BY EmptySeq DEF Init, NoEventLost, ListsInOrder, Range
<1>3. HelloFirst /\ PlayersKnown /\ NoOrphanPlayers /\ TakenForGood
  BY EmptySeq
     DEF Init, HelloFirst, PlayersKnown, NoOrphanPlayers, TakenForGood
<1>4. ServedHasPlayer /\ ConnectedOnce
  BY NoElements DEF Init, ServedHasPlayer, ConnectedOnce
<1> QED
  BY <1>1, <1>2, <1>3, <1>4 DEF IInv

LEMMA AcceptStep ==
  ASSUME IInv, pc # "aborted", NEW c \in Connections, Accept(c)
  PROVE  IInv'
<1> USE DEF IInv, Accept
<1>1. pendingConnect \in Seq(Connections)
  BY DEF TypeOK
<1>2. /\ pendingConnect' \in Seq(Connections)
      /\ Len(pendingConnect') = Len(pendingConnect) + 1
      /\ Len(pendingConnect) \in Nat
      /\ \A i \in 1 .. Len(pendingConnect) :
           pendingConnect'[i] = pendingConnect[i]
      /\ Range(pendingConnect') = Range(pendingConnect) \cup {c}
  BY <1>1, AppendFacts
<1>3. pc \notin {"connects", "disconnects"}
  BY DEF TypeOK
<1>4. TypeOK'
  BY <1>2 DEF TypeOK, worldVars
<1>5. socket' = [socket EXCEPT ![c] = "open"] /\ socket[c] = "none"
  OBVIOUS
<1>6. NoEventLost'
  BY <1>2, <1>5 DEF NoEventLost, TypeOK
<1>7. ListsInOrder'
  <2>1. \A d \in Connections :
          socket'[d] = "none" =>
            d \notin Range(pendingConnect') \cup connections'
    BY <1>2, <1>5 DEF ListsInOrder, TypeOK
  <2>2. \A i \in 1 .. Len(pendingDisconnect) :
          pendingDisconnect[i] \in Connections
    BY DEF TypeOK
  <2>3. \A i \in 1 .. Len(pendingDisconnect) :
          /\ socket'[pendingDisconnect[i]] = "closed"
          /\ pendingDisconnect[i] \in Range(pendingConnect') \cup connections'
    BY <1>2, <1>3, <1>5, <2>2 DEF ListsInOrder, TypeOK
  <2> QED
    BY <1>3, <2>1, <2>3 DEF ListsInOrder
<1>8. HelloFirst' /\ PlayersKnown' /\ NoOrphanPlayers'
  BY DEF HelloFirst, PlayersKnown, NoOrphanPlayers, worldVars, OwnerOf
<1>10. ConnectedOnce'
  <2>1. c \notin greeted \cup connections
    BY <1>5 DEF ConnectedOnce, ListsInOrder
  <2> QED
    BY <1>2, <1>3, <1>5, <2>1 DEF ConnectedOnce, TypeOK, worldVars
<1>9. TakenForGood'
  <2>1. \A d \in Connections :
          /\ socket[d] = "closed"
          /\ d \notin greeted \cup connections \cup Range(pendingConnect)
          => /\ socket'[d] = "closed"
             /\ d \notin greeted' \cup connections' \cup Range(pendingConnect')
    BY <1>2, <1>5 DEF TypeOK, worldVars
  <2> QED
    BY <2>1 DEF TakenForGood, worldVars
<1> QED
  BY <1>4, <1>6, <1>7, <1>8, <1>9, <1>10, ServedWhileRunning

LEMMA ReceiveHelloStep ==
  ASSUME IInv, pc # "aborted", NEW c \in Connections, ReceiveHello(c)
  PROVE  IInv'
<1> USE DEF IInv, ReceiveHello
<1>1. received' = [received EXCEPT ![c] = <<"Hello">>]
  OBVIOUS
<1>2. <<"Hello">> \in Seq({"Hello", "Input"})
  OBVIOUS
<1>3. TypeOK'
  BY <1>1, <1>2 DEF TypeOK, pendingVars, worldVars
<1>4. NoEventLost' /\ ListsInOrder' /\ ConnectedOnce'
  BY DEF NoEventLost, ListsInOrder, ConnectedOnce, pendingVars, worldVars
<1>5. HelloFirst'
  BY <1>1 DEF HelloFirst, TypeOK, worldVars
<1>6. PlayersKnown' /\ NoOrphanPlayers' /\ TakenForGood'
  BY DEF PlayersKnown, NoOrphanPlayers, TakenForGood, worldVars, pendingVars,
         OwnerOf
<1> QED
  BY <1>3, <1>4, <1>5, <1>6, ServedWhileRunning

LEMMA ReceiveInputStep ==
  ASSUME IInv, pc # "aborted", NEW c \in Connections, ReceiveInput(c)
  PROVE  IInv'
<1> USE DEF IInv, ReceiveInput
<1>1. /\ received[c] \in Seq({"Input"})
      /\ received[c] \in Seq({"Hello", "Input"})
      /\ waiting[c] + Len(received[c]) <= inputs[c]
      /\ waiting[c] \in Nat /\ inputs[c] \in Nat
  BY DEF HelloFirst, TypeOK
<1>2. /\ Append(received[c], "Input") \in Seq({"Input"})
      /\ Len(Append(received[c], "Input")) = Len(received[c]) + 1
      /\ Len(received[c]) \in Nat
  BY <1>1, AppendFacts
<1>3. Append(received[c], "Input") \in Seq({"Hello", "Input"})
  BY <1>1, AppendFacts
<1>4. /\ received' = [received EXCEPT ![c] = Append(received[c], "Input")]
      /\ inputs' = [inputs EXCEPT ![c] = inputs[c] + 1]
      /\ inputs[c] < MaxInputs
  OBVIOUS
<1>5. TypeOK'
  <2>1. received' \in [Connections -> Seq({"Hello", "Input"})]
    BY <1>3, <1>4 DEF TypeOK
  <2>2. inputs' \in [Connections -> 0 .. MaxInputs]
    BY <1>1, <1>4 DEF TypeOK
  <2> QED
    BY <2>1, <2>2 DEF TypeOK, pendingVars, worldVars
<1>6. NoEventLost' /\ ListsInOrder' /\ ConnectedOnce'
  BY DEF NoEventLost, ListsInOrder, ConnectedOnce, pendingVars, worldVars
<1>7. HelloFirst'
  <2> SUFFICES ASSUME NEW d \in Connections
               PROVE  IF d \in greeted'
                      THEN /\ received'[d] \in Seq({"Input"})
                           /\ waiting'[d] + Len(received'[d]) <= inputs'[d]
                      ELSE /\ received'[d] \in {<<>>, <<"Hello">>}
                           /\ waiting'[d] = 0 /\ inputs'[d] = 0
    BY DEF HelloFirst
  <2>1. CASE d = c
    BY <1>1, <1>2, <1>4, <2>1 DEF TypeOK, worldVars
  <2>2. CASE d # c
    BY <1>4, <2>2 DEF HelloFirst, TypeOK, worldVars
  <2> QED
    BY <2>1, <2>2
<1>8. PlayersKnown' /\ NoOrphanPlayers' /\ TakenForGood'
  BY DEF PlayersKnown, NoOrphanPlayers, TakenForGood, worldVars, pendingVars,
         OwnerOf
<1> QED
  BY <1>5, <1>6, <1>7, <1>8, ServedWhileRunning

LEMMA CloseStep ==
  ASSUME IInv, pc # "aborted", NEW c \in Connections, Close(c)
  PROVE  IInv'
<1> USE DEF IInv, Close
<1>1. pendingDisconnect \in Seq(Connections)
  BY DEF TypeOK
<1>2. /\ pendingDisconnect' \in Seq(Connections)
      /\ Len(pendingDisconnect') = Len(pendingDisconnect) + 1
      /\ Len(pendingDisconnect) \in Nat
      /\ \A i \in 1 .. Len(pendingDisconnect) :
           pendingDisconnect'[i] = pendingDisconnect[i]
      /\ pendingDisconnect'[Len(pendingDisconnect) + 1] = c
      /\ Range(pendingDisconnect') = Range(pendingDisconnect) \cup {c}
  BY <1>1, AppendFacts
<1>3. pc \notin {"connects", "disconnects"}
  BY DEF TypeOK
<1>4. TypeOK'
  BY <1>2 DEF TypeOK, worldVars
<1>5. socket' = [socket EXCEPT ![c] = "closed"] /\ socket[c] = "open"
  OBVIOUS
<1>6. NoEventLost'
  BY <1>2, <1>5 DEF NoEventLost, TypeOK
<1>7. c \in Range(pendingConnect) \cup connections
  BY <1>5 DEF NoEventLost
<1>8. \A i \in 1 .. Len(pendingDisconnect) : pendingDisconnect[i] # c
  BY <1>5 DEF ListsInOrder
<1>9. ListsInOrder'
  <2> DEFINE n == Len(pendingDisconnect)
  <2>1. \A d \in Connections :
          socket'[d] = "none" =>
            d \notin Range(pendingConnect') \cup connections'
    BY <1>5 DEF ListsInOrder, TypeOK
  <2>2. \A i \in 1 .. n + 1 :
          pendingDisconnect'[i] = IF i = n + 1 THEN c ELSE pendingDisconnect[i]
    BY <1>2
  <2>3. \A i \in 1 .. n :
          /\ pendingDisconnect[i] \in Connections
          /\ socket[pendingDisconnect[i]] = "closed"
          /\ pendingDisconnect[i] \in Range(pendingConnect) \cup connections
    <3>1. \A i \in 1 .. n : pendingDisconnect[i] \in Connections
      BY <1>1, ElementOfSeq
    <3>2. \A i \in 1 .. n :
            /\ socket[pendingDisconnect[i]] = "closed"
            /\ pendingDisconnect[i] \in Range(pendingConnect) \cup connections
      BY <1>3 DEF ListsInOrder
    <3> QED
      BY <3>1, <3>2
  <2>4. \A i, j \in 1 .. n :
          pendingDisconnect[i] = pendingDisconnect[j] => i = j
    BY DEF ListsInOrder
  <2>5. Len(pendingDisconnect') = n + 1 /\ n \in Nat
    BY <1>2
  <2> HIDE DEF n
  <2>6. ASSUME NEW i \in 1 .. n + 1
        PROVE  /\ socket'[pendingDisconnect'[i]] = "closed"
               /\ pendingDisconnect'[i] \in Range(pendingConnect')
                                             \cup connections'
    <3>1. socket'[c] = "closed"
      BY <1>5 DEF TypeOK
    <3>2. CASE i = n + 1
      BY <1>7, <2>2, <3>1, <3>2
    <3>3. CASE i \in 1 .. n
      <4>1. pendingDisconnect'[i] = pendingDisconnect[i]
        BY <2>2, <2>5, <3>3
      <4>2. socket'[pendingDisconnect[i]] = "closed"
        BY <1>5, <2>3, <3>3 DEF TypeOK
      <4> QED
        BY <2>3, <3>3, <4>1, <4>2
    <3> QED
      BY <2>5, <3>2, <3>3
  <2>7. \A i, j \in 1 .. n + 1 :
          pendingDisconnect'[i] = pendingDisconnect'[j] => i = j
    BY <1>8, <2>2, <2>4, <2>5 DEF n
  <2> QED
    BY <1>3, <2>1, <2>5, <2>6, <2>7 DEF ListsInOrder
<1>10. HelloFirst' /\ PlayersKnown' /\ NoOrphanPlayers'
  BY DEF HelloFirst, PlayersKnown, NoOrphanPlayers, worldVars, OwnerOf
<1>11. TakenForGood' /\ ConnectedOnce'
  BY <1>5 DEF TakenForGood, ConnectedOnce, TypeOK, worldVars
<1> QED
  BY <1>4, <1>6, <1>9, <1>10, <1>11, ServedWhileRunning

LEMMA UseClosedSocketStep ==
  ASSUME IInv, pc # "aborted", NEW c \in Connections, UseClosedSocket(c)
  PROVE  IInv'
<1> USE DEF IInv, UseClosedSocket
<1>1. pc \notin {"connects", "disconnects"}
  BY DEF TypeOK
<1>2. TypeOK'
  BY <1>1 DEF TypeOK, ioVars, pendingVars, worldVars
<1>3. NoEventLost' /\ ListsInOrder' /\ ConnectedOnce'
  BY <1>1 DEF NoEventLost, ListsInOrder, ConnectedOnce, ioVars, pendingVars,
              worldVars
<1>4. HelloFirst' /\ PlayersKnown' /\ NoOrphanPlayers' /\ TakenForGood'
  BY DEF HelloFirst, PlayersKnown, NoOrphanPlayers, TakenForGood, OwnerOf,
         ioVars, pendingVars, worldVars
<1>5. ServedHasPlayer'
  BY DEF ServedHasPlayer, Robbed, ioVars, worldVars
<1> QED
  BY <1>2, <1>3, <1>4, <1>5
-----------------------------------------------------------------------------
LEMMA StartFrameStep == IInv /\ StartFrame => IInv'
<1> SUFFICES ASSUME IInv, StartFrame PROVE IInv'
  OBVIOUS
<1> USE DEF IInv, StartFrame
<1>1. TypeOK'
  <2>1. pc' = "connects" /\ mutex' = "game" /\ index' \in Nat \ {0}
    OBVIOUS
  <2> QED
    BY <2>1 DEF TypeOK, ioVars, pendingVars, worldVars
<1>2. NoEventLost' /\ ListsInOrder' /\ ConnectedOnce'
  BY DEF NoEventLost, ListsInOrder, ConnectedOnce, ioVars, pendingVars,
         worldVars, TypeOK
<1>3. HelloFirst' /\ PlayersKnown' /\ NoOrphanPlayers' /\ TakenForGood'
  BY DEF HelloFirst, PlayersKnown, NoOrphanPlayers, TakenForGood, OwnerOf,
         ioVars, pendingVars, worldVars
<1> QED
  BY <1>1, <1>2, <1>3, ServedWhileRunning

LEMMA NewConnectStep == IInv /\ NewConnect => IInv'
<1> SUFFICES ASSUME IInv, NewConnect PROVE IInv'
  OBVIOUS
<1> USE DEF IInv, NewConnect
<1> DEFINE c == pendingConnect[index]
<1>1. /\ pendingConnect \in Seq(Connections)
      /\ index \in 1 .. Len(pendingConnect)
      /\ Len(pendingConnect) \in Nat
  BY LenProperties DEF TypeOK
<1>2. c \in Connections /\ c \in Range(pendingConnect)
  BY <1>1, ListElements, ElementOfSeq
<1>3. connections' = connections \cup {c} /\ index' = index + 1
  OBVIOUS
<1>4. pc = "connects" /\ pc' = pc
  OBVIOUS
<1> HIDE DEF c
<1>5. TypeOK'
  <2>1. visited' \subseteq connections' /\ connections' \subseteq Connections
    BY <1>2, <1>3 DEF TypeOK
  <2>2. index' \in Nat \ {0}
    BY <1>1, <1>3
  <2> QED
    BY <1>4, <2>1, <2>2 DEF TypeOK, ioVars, pendingVars, worldVars
<1>6. NoEventLost'
  BY <1>2, <1>3 DEF NoEventLost, ioVars, pendingVars
<1>7. ListsInOrder'
  <2>1. \A d \in Connections :
          socket[d] = "none" => d \notin Range(pendingConnect) \cup connections'
    BY <1>2, <1>3 DEF ListsInOrder
  <2>2. \A i \in 1 .. Len(pendingDisconnect) :
          /\ socket[pendingDisconnect[i]] = "closed"
          /\ pendingDisconnect[i] \in Range(pendingConnect) \cup connections'
    BY <1>3, <1>4 DEF ListsInOrder
  <2>3. \A i \in 1 .. Len(pendingConnect) :
          i < index + 1 => pendingConnect[i] \in connections'
    <3> SUFFICES ASSUME NEW i \in 1 .. Len(pendingConnect), i < index + 1
                 PROVE  pendingConnect[i] \in connections'
      OBVIOUS
    <3>1. CASE i = index
      BY <1>3, <3>1 DEF c
    <3>2. CASE i < index
      BY <1>3, <1>4, <3>2 DEF ListsInOrder
    <3> QED
      BY <1>1, <3>1, <3>2
  <2> QED
    BY <1>3, <1>4, <2>1, <2>2, <2>3 DEF ListsInOrder, ioVars, pendingVars
<1>8. HelloFirst' /\ PlayersKnown' /\ NoOrphanPlayers' /\ ConnectedOnce'
  BY <1>3, <1>4 DEF HelloFirst, PlayersKnown, NoOrphanPlayers, ConnectedOnce,
                    OwnerOf, ioVars, pendingVars, worldVars
<1>9. TakenForGood'
  BY <1>2, <1>3 DEF TakenForGood, ConnectedOnce, ioVars, pendingVars, worldVars
<1> QED
  BY <1>4, <1>5, <1>6, <1>7, <1>8, <1>9, ServedWhileRunning

LEMMA ClearConnectsStep == IInv /\ ClearConnects => IInv'
<1> SUFFICES ASSUME IInv, ClearConnects PROVE IInv'
  OBVIOUS
<1> USE DEF IInv, ClearConnects
<1>1. /\ pendingConnect \in Seq(Connections)
      /\ index > Len(pendingConnect) /\ index \in Nat
      /\ Len(pendingConnect) \in Nat
  BY LenProperties DEF TypeOK
<1>2. Range(pendingConnect) \subseteq connections
  <2>1. \A i \in 1 .. Len(pendingConnect) : pendingConnect[i] \in connections
    BY <1>1 DEF ListsInOrder
  <2> QED
    BY <1>1, <2>1, ListElements
<1>3. pendingConnect' = <<>> /\ Range(pendingConnect') = {}
  BY NoElements
<1>4. pc = "connects" /\ pc' = "disconnects" /\ index' = 1
  OBVIOUS
<1>5. TypeOK'
  <2>1. pendingConnect' \in Seq(Connections) /\ index' \in Nat \ {0}
    BY <1>3, <1>4
  <2>2. mutex' = mutex /\ mutex = "game"
    BY <1>4 DEF TypeOK
  <2> QED
    BY <1>4, <2>1, <2>2 DEF TypeOK, ioVars, worldVars
<1>6. NoEventLost'
  BY <1>2, <1>3 DEF NoEventLost, ioVars
<1>7. ListsInOrder'
  <2>1. \A i \in 1 .. Len(pendingDisconnect) :
          pendingDisconnect[i] \in connections
    BY <1>2, <1>4 DEF ListsInOrder
  <2>2. \A i \in 1 .. Len(pendingDisconnect) : ~(i < 1)
    OBVIOUS
  <2> QED
    BY <1>3, <1>4, <2>1, <2>2 DEF ListsInOrder, ioVars
<1>8. HelloFirst' /\ PlayersKnown' /\ NoOrphanPlayers' /\ ConnectedOnce'
  BY <1>3 DEF HelloFirst, PlayersKnown, NoOrphanPlayers, ConnectedOnce,
              OwnerOf, ioVars, worldVars
<1>9. TakenForGood'
  BY <1>3 DEF TakenForGood, ioVars, worldVars
<1> QED
  BY <1>4, <1>5, <1>6, <1>7, <1>8, <1>9, ServedWhileRunning

LEMMA DisconnectStep == IInv /\ Disconnect => IInv'
<1> SUFFICES ASSUME IInv, Disconnect PROVE IInv'
  OBVIOUS
<1> USE DEF IInv, Disconnect
<1> DEFINE c == pendingDisconnect[index]
<1>1. /\ pendingDisconnect \in Seq(Connections)
      /\ index \in 1 .. Len(pendingDisconnect)
      /\ Len(pendingDisconnect) \in Nat
  BY LenProperties DEF TypeOK
<1>2. /\ connections' = connections \ {c}
      /\ players' = players \ {currentPlayer[c]}
      /\ index' = index + 1
  OBVIOUS
<1>3. /\ pc = "disconnects" /\ pc' = pc
      /\ pendingConnect = <<>> /\ Range(pendingConnect) = {}
  BY NoElements DEF ListsInOrder
<1>4. c \in connections /\ c \in Connections /\ socket[c] = "closed"
  BY <1>1 DEF ListsInOrder, TypeOK
<1>5. \A i \in 1 .. Len(pendingDisconnect) :
        pendingDisconnect[i] = c => i = index
  BY <1>1 DEF ListsInOrder
<1> HIDE DEF c
<1>6. TypeOK'
  <2>1. visited' = {} /\ connections' \subseteq Connections
    BY <1>2, <1>3 DEF TypeOK, ListsInOrder
  <2>2. players' \subseteq 0 .. nextPlayerId' - 1
    BY <1>2 DEF TypeOK
  <2>3. index' \in Nat \ {0}
    BY <1>1, <1>2
  <2> QED
    BY <1>3, <2>1, <2>2, <2>3 DEF TypeOK, ioVars, pendingVars
<1>7. NoEventLost'
  BY <1>2, <1>4 DEF NoEventLost, ioVars, pendingVars
<1>8. ListsInOrder'
  <2>1. ASSUME NEW i \in 1 .. Len(pendingDisconnect)
        PROVE  IF i < index + 1 THEN pendingDisconnect[i] \notin connections'
                                ELSE pendingDisconnect[i] \in connections'
    <3>1. CASE i = index
      BY <1>1, <1>2, <3>1 DEF c
    <3>2. CASE i < index
      BY <1>1, <1>2, <1>3, <3>2 DEF ListsInOrder
    <3>3. CASE i > index
      <4>1. pendingDisconnect[i] \in connections
        BY <1>1, <1>3, <3>3 DEF ListsInOrder
      <4>2. pendingDisconnect[i] # c
        BY <1>1, <1>5, <3>3
      <4> QED
        BY <1>1, <1>2, <3>3, <4>1, <4>2
    <3> QED
      BY <1>1, <3>1, <3>2, <3>3
  <2> QED
    BY <1>2, <1>3, <2>1 DEF ListsInOrder, ioVars, pendingVars
<1>9. ConnectedOnce' /\ HelloFirst' /\ PlayersKnown'
  BY <1>2, <1>3 DEF ConnectedOnce, HelloFirst, PlayersKnown, OwnerOf, ioVars,
                    pendingVars
<1>10. NoOrphanPlayers'
  BY <1>2 DEF NoOrphanPlayers, PlayersKnown, OwnerOf
<1>11. TakenForGood'
  <2> SUFFICES ASSUME NEW e \in connections' \cap greeted,
                      currentPlayer[e] \notin players'
               PROVE  \E d \in Connections :
                        /\ socket[d] = "closed"
                        /\ d \notin greeted \cup connections'
                        /\ currentPlayer[d] = currentPlayer[e]
    BY <1>3 DEF TakenForGood, ioVars, pendingVars
  <2>1. CASE currentPlayer[e] \in players
    <3>1. currentPlayer[e] = currentPlayer[c] /\ e # c
      BY <1>2, <2>1
    <3>2. c \notin greeted
      BY <3>1 DEF PlayersKnown
    <3> QED
      BY <1>2, <1>4, <3>1, <3>2
  <2>2. CASE currentPlayer[e] \notin players
    BY <1>2, <2>2 DEF TakenForGood
  <2> QED
    BY <2>1, <2>2
<1> QED
  BY <1>3, <1>6, <1>7, <1>8, <1>9, <1>10, <1>11, ServedWhileRunning

LEMMA ClearDisconnectsStep == IInv /\ ClearDisconnects => IInv'
<1> SUFFICES ASSUME IInv, ClearDisconnects PROVE IInv'
  OBVIOUS
<1> USE DEF IInv, ClearDisconnects
<1>1. /\ pendingDisconnect \in Seq(Connections)
      /\ index > Len(pendingDisconnect) /\ index \in Nat
      /\ Len(pendingDisconnect) \in Nat
  BY LenProperties DEF TypeOK
<1>2. /\ pendingDisconnect' = <<>> /\ Range(pendingDisconnect') = {}
      /\ Len(pendingDisconnect') = 0
  BY NoElements
<1>3. pc = "disconnects" /\ pc' = "messages"
  OBVIOUS
<1>4. /\ pendingConnect = <<>> /\ Range(pendingConnect) = {}
      /\ pendingConnect' = pendingConnect
  BY <1>3, NoElements DEF ListsInOrder
<1>5. \A c \in connections : c \notin Range(pendingDisconnect)
  <2>1. \A i \in 1 .. Len(pendingDisconnect) :
          pendingDisconnect[i] \notin connections
    BY <1>1, <1>3 DEF ListsInOrder
  <2>2. connections \subseteq Connections
    BY DEF TypeOK
  <2> QED
    BY <1>1, <2>1, <2>2, ListElements
<1>6. TypeOK'
  BY <1>2, <1>3, <1>4, EmptySeq DEF TypeOK, ioVars, worldVars
<1>7. NoEventLost'
  BY <1>4, <1>5 DEF NoEventLost, TypeOK, ioVars
<1>8. ListsInOrder'
  <2>1. 1 .. Len(pendingDisconnect') = {}
    BY <1>2
  <2> QED
    BY <1>3, <1>4, <2>1 DEF ListsInOrder, ioVars
<1>9. /\ ConnectedOnce' /\ HelloFirst' /\ PlayersKnown' /\ NoOrphanPlayers'
      /\ TakenForGood'
  BY <1>4 DEF ConnectedOnce, HelloFirst, PlayersKnown, NoOrphanPlayers,
              TakenForGood, OwnerOf, ioVars, worldVars
<1> QED
  BY <1>3, <1>6, <1>7, <1>8, <1>9, ServedWhileRunning
-----------------------------------------------------------------------------
\* What handling a message leaves alone.
LEMMA HandlingKeepsLists ==
  ASSUME IInv, NEW c \in Connections, HandleMessage(c)
  PROVE  NoEventLost' /\ ListsInOrder'
  BY DEF IInv, NoEventLost, ListsInOrder, HandleMessage, pendingVars

LEMMA HelloStep ==
  ASSUME IInv, NEW c \in Connections, HandleMessage(c), HandleHello(c)
  PROVE  IInv'
<1> USE DEF IInv, HandleMessage, HandleHello
<1> DEFINE n == nextPlayerId
<1>1. /\ c \notin greeted
      /\ received[c] = <<"Hello">> /\ waiting[c] = 0 /\ inputs[c] = 0
  <2>1. ASSUME received[c] \in Seq({"Input"}) PROVE FALSE
    <3>1. Head(received[c]) \in {"Input"}
      BY <2>1, HeadTailProperties
    <3> QED
      BY <3>1
  <2> QED
    BY <2>1 DEF HelloFirst
<1>2. received' = [received EXCEPT ![c] = <<>>]
  <2>1. Tail(<<"Hello">>) = <<>>
    OBVIOUS
  <2> QED
    BY <1>1, <2>1
<1>3. /\ n \in Nat /\ owner \in Seq(Connections) /\ Len(owner) = n
      /\ owner' = Append(owner, c)
  BY DEF TypeOK
<1>4. /\ owner' \in Seq(Connections) /\ Len(owner') = n + 1
      /\ \A i \in 1 .. n : owner'[i] = owner[i]
      /\ owner'[n + 1] = c
  BY <1>3, AppendFacts
<1>5. \A id \in 0 .. n - 1 :
        owner'[id + 1] = OwnerOf(id) /\ OwnerOf(id) \in greeted
  <2> SUFFICES ASSUME NEW id \in 0 .. n - 1
               PROVE  owner'[id + 1] = OwnerOf(id) /\ OwnerOf(id) \in greeted
    OBVIOUS
  <2>1. id + 1 \in 1 .. n
    BY <1>3
  <2> QED
    BY <1>3, <1>4, <2>1 DEF OwnerOf, PlayersKnown
<1>6. owner'[n + 1] = c
  BY <1>4
<1>7. /\ currentPlayer' = [currentPlayer EXCEPT ![c] = n]
      /\ players' = players \cup {n} /\ nextPlayerId' = n + 1
      /\ greeted' = greeted \cup {c} /\ waiting' = waiting
      /\ connections' = connections /\ c \in connections
      /\ pc = "messages" /\ pc' = pc
  OBVIOUS
<1>8. currentPlayer \in [Connections -> Nat] /\ players \subseteq 0 .. n - 1
  BY DEF TypeOK
<1>9. TypeOK'
  <2>1. received' \in [Connections -> Seq({"Hello", "Input"})]
    BY <1>2, EmptySeq DEF TypeOK
  <2>2. currentPlayer' \in [Connections -> Nat]
    BY <1>3, <1>7, <1>8
  <2>3. players' \subseteq 0 .. nextPlayerId' - 1 /\ nextPlayerId' \in Nat
    BY <1>3, <1>7, <1>8
  <2> QED
    BY <1>4, <1>7, <2>1, <2>2, <2>3 DEF TypeOK, pendingVars
<1>10. ConnectedOnce'
  <2>1. socket[c] # "none" /\ c \notin Range(pendingConnect)
    BY <1>7 DEF ConnectedOnce, ListsInOrder
  <2> QED
    BY <1>7, <2>1 DEF ConnectedOnce, pendingVars
<1>11. HelloFirst'
  <2> SUFFICES ASSUME NEW d \in Connections
               PROVE  IF d \in greeted'
                      THEN /\ received'[d] \in Seq({"Input"})
                           /\ waiting'[d] + Len(received'[d]) <= inputs'[d]
                      ELSE /\ received'[d] \in {<<>>, <<"Hello">>}
                           /\ waiting'[d] = 0 /\ inputs'[d] = 0
    BY DEF HelloFirst
  <2>1. CASE d = c
    <3>1. received'[c] = <<>> /\ Len(<<>>) = 0 /\ <<>> \in Seq({"Input"})
      BY <1>2, EmptySeq DEF TypeOK
    <3> QED
      BY <1>1, <1>7, <2>1, <3>1
  <2>2. CASE d # c
    BY <1>2, <1>7, <2>2 DEF HelloFirst, TypeOK
  <2> QED
    BY <2>1, <2>2
<1>12. PlayersKnown'
  <2>1. \A k \in 1 .. Len(owner') : owner'[k] \in greeted'
    <3> SUFFICES ASSUME NEW k \in 1 .. n + 1 PROVE owner'[k] \in greeted'
      BY <1>4
    <3>1. CASE k = n + 1
      BY <1>4, <1>7, <3>1
    <3>2. CASE k \in 1 .. n
      BY <1>3, <1>4, <1>7, <3>2 DEF PlayersKnown
    <3> QED
      BY <1>3, <3>1, <3>2
  <2>2. ASSUME NEW id \in players'
        PROVE  currentPlayer'[owner'[id + 1]] = id
    <3>1. CASE id = n
      BY <1>6, <1>7, <1>8, <3>1
    <3>2. CASE id \in players
      <4>1. owner'[id + 1] = OwnerOf(id) /\ OwnerOf(id) # c
        BY <1>1, <1>5, <1>8, <3>2
      <4>2. OwnerOf(id) \in Connections /\ currentPlayer[OwnerOf(id)] = id
        BY <1>5, <1>8, <3>2 DEF PlayersKnown, TypeOK
      <4> QED
        BY <1>7, <1>8, <4>1, <4>2
    <3> QED
      BY <1>7, <3>1, <3>2
  <2>3. ASSUME NEW d \in greeted'
        PROVE  /\ currentPlayer'[d] \in 0 .. n
               /\ owner'[currentPlayer'[d] + 1] = d
    <3>1. CASE d = c
      BY <1>3, <1>6, <1>7, <1>8, <3>1
    <3>2. CASE d # c
      <4>1. /\ currentPlayer'[d] = currentPlayer[d]
            /\ currentPlayer[d] \in 0 .. n - 1
            /\ OwnerOf(currentPlayer[d]) = d
        BY <1>7, <1>8, <3>2 DEF PlayersKnown, TypeOK
      <4> QED
        BY <1>3, <1>5, <4>1
    <3> QED
      BY <3>1, <3>2
  <2>4. nextPlayerId' - 1 = n
    BY <1>3, <1>7
  <2> QED
    BY <2>1, <2>2, <2>3, <2>4 DEF PlayersKnown, OwnerOf
<1>13. NoOrphanPlayers'
  <2> SUFFICES ASSUME NEW id \in players' PROVE owner'[id + 1] \in connections'
    BY DEF NoOrphanPlayers, OwnerOf
  <2>1. CASE id = n
    BY <1>6, <1>7, <2>1
  <2>2. CASE id \in players
    BY <1>5, <1>7, <1>8, <2>2 DEF NoOrphanPlayers
  <2> QED
    BY <1>7, <2>1, <2>2
<1>14. TakenForGood'
  <2> SUFFICES ASSUME NEW e \in connections \cap greeted',
                      currentPlayer'[e] \notin players'
               PROVE  \E d \in Connections :
                        /\ socket[d] = "closed"
                        /\ d \notin greeted' \cup connections
                                    \cup Range(pendingConnect)
                        /\ currentPlayer'[d] = currentPlayer'[e]
    BY <1>7 DEF TakenForGood, pendingVars
  <2>1. e # c /\ currentPlayer'[e] = currentPlayer[e] /\ e \in greeted
    BY <1>7, <1>8
  <2>2. currentPlayer[e] \notin players
    BY <1>7, <2>1
  <2>3. PICK d \in Connections :
               /\ socket[d] = "closed"
               /\ d \notin greeted \cup connections \cup Range(pendingConnect)
               /\ currentPlayer[d] = currentPlayer[e]
    BY <2>1, <2>2 DEF TakenForGood
  <2>4. d # c /\ currentPlayer'[d] = currentPlayer[d]
    BY <1>7, <1>8, <2>3
  <2> QED
    BY <1>7, <2>1, <2>3, <2>4
<1> QED
  BY <1>7, <1>9, <1>10, <1>11, <1>12, <1>13, <1>14, HandlingKeepsLists,
     ServedWhileRunning

LEMMA InputStep ==
  ASSUME IInv, NEW c \in Connections, HandleMessage(c), HandleInput(c)
  PROVE  IInv'
<1> USE DEF IInv, HandleMessage, HandleInput
<1>1. c \in greeted
  <2>1. ASSUME received[c] \in {<<>>, <<"Hello">>} PROVE FALSE
    BY <2>1
  <2> QED
    BY <2>1 DEF HelloFirst
<1>2. /\ received[c] \in Seq({"Input"}) /\ received[c] # <<>>
      /\ waiting[c] \in Nat /\ inputs[c] \in 0 .. MaxInputs
      /\ waiting[c] + Len(received[c]) <= inputs[c]
      /\ received[c] \in Seq({"Hello", "Input"})
  BY <1>1 DEF HelloFirst, TypeOK
<1>3. /\ Tail(received[c]) \in Seq({"Input"})
      /\ Tail(received[c]) \in Seq({"Hello", "Input"})
      /\ Len(Tail(received[c])) = Len(received[c]) - 1
      /\ Len(received[c]) \in Nat /\ Len(received[c]) > 0
  BY <1>2, HeadTailProperties, LenProperties, EmptySeq
<1>4. /\ received' = [received EXCEPT ![c] = Tail(received[c])]
      /\ waiting' = [waiting EXCEPT ![c] = waiting[c] + 1]
      /\ pc = "messages" /\ pc' = pc /\ greeted' = greeted
      /\ inputs' = inputs
  BY DEF worldVars
<1>5. TypeOK'
  <2>1. received' \in [Connections -> Seq({"Hello", "Input"})]
    BY <1>3, <1>4 DEF TypeOK
  <2>2. waiting[c] + 1 \in 0 .. MaxInputs
    BY <1>2, <1>3
  <2>3. waiting' \in [Connections -> 0 .. MaxInputs]
    BY <1>4, <2>2 DEF TypeOK
  <2> QED
    BY <2>1, <2>3 DEF TypeOK, pendingVars, worldVars
<1>6. HelloFirst'
  <2> SUFFICES ASSUME NEW d \in Connections
               PROVE  IF d \in greeted
                      THEN /\ received'[d] \in Seq({"Input"})
                           /\ waiting'[d] + Len(received'[d]) <= inputs[d]
                      ELSE /\ received'[d] \in {<<>>, <<"Hello">>}
                           /\ waiting'[d] = 0 /\ inputs[d] = 0
    BY <1>4 DEF HelloFirst
  <2>1. CASE d = c
    <3>1. received'[c] = Tail(received[c]) /\ waiting'[c] = waiting[c] + 1
      BY <1>4 DEF TypeOK
    <3>2. waiting'[c] + Len(received'[c]) <= inputs[c]
      <4>1. Len(received'[c]) = Len(received[c]) - 1
        BY <1>3, <3>1
      <4> QED
        BY <1>2, <1>3, <3>1, <4>1
    <3> QED
      BY <1>1, <1>3, <2>1, <3>1, <3>2
  <2>2. CASE d # c
    BY <1>4, <2>2 DEF HelloFirst, TypeOK
  <2> QED
    BY <2>1, <2>2
<1>7. ConnectedOnce' /\ PlayersKnown' /\ NoOrphanPlayers' /\ TakenForGood'
  BY DEF ConnectedOnce, PlayersKnown, NoOrphanPlayers, TakenForGood, OwnerOf,
         pendingVars, worldVars
<1> QED
  BY <1>4, <1>5, <1>6, <1>7, HandlingKeepsLists, ServedWhileRunning

\* The steps that only turn to the next connection or to the next loop.
LEMMA TurnStep ==
  ASSUME IInv,
         \/ \E c \in Connections : NoMoreMessages(c)
         \/ EndMessages \/ AnotherStep \/ EndFrame
  PROVE  IInv'
<1> USE DEF IInv, NoMoreMessages, EndMessages, AnotherStep, EndFrame
<1>1. TypeOK'
  BY DEF TypeOK, ioVars, pendingVars, worldVars
<1>2. NoEventLost' /\ ListsInOrder' /\ ConnectedOnce'
  BY DEF NoEventLost, ListsInOrder, ConnectedOnce, ioVars, pendingVars,
         worldVars
<1>3. HelloFirst' /\ PlayersKnown' /\ NoOrphanPlayers' /\ TakenForGood'
  BY DEF HelloFirst, PlayersKnown, NoOrphanPlayers, TakenForGood, OwnerOf,
         ioVars, pendingVars, worldVars
<1>4. pc' # "aborted"
  OBVIOUS
<1> QED
  BY <1>1, <1>2, <1>3, <1>4, ServedWhileRunning

LEMMA UpdateMoveStep ==
  ASSUME IInv, NEW c \in Connections, UpdateMove(c)
  PROVE  IInv'
<1> USE DEF IInv, UpdateMove
<1>1. /\ pc = "simulate" /\ pc' \in {"simulate", "aborted"}
      /\ connections' = connections
      /\ visited' = visited \cup {c} \/ visited' = visited
      /\ \/ waiting' = waiting
         \/ waiting[c] > 0 /\ waiting' = [waiting EXCEPT ![c] = waiting[c] - 1]
  BY DEF SwitchMove, KeepMove
<1>2. /\ waiting \in [Connections -> 0 .. MaxInputs]
      /\ visited \subseteq connections /\ c \in connections
  BY DEF TypeOK
<1>3. /\ waiting' \in [Connections -> 0 .. MaxInputs]
      /\ \A d \in Connections : waiting'[d] <= waiting[d]
  BY <1>1, <1>2
<1>4. TypeOK'
  <2>1. visited' \subseteq connections'
    BY <1>1, <1>2
  <2> QED
    BY <1>1, <1>3, <2>1 DEF TypeOK, ioVars, pendingVars, worldVars
<1>5. NoEventLost' /\ ListsInOrder' /\ ConnectedOnce'
  BY <1>1 DEF NoEventLost, ListsInOrder, ConnectedOnce, ioVars, pendingVars,
              worldVars
<1>6. HelloFirst'
  <2> SUFFICES ASSUME NEW d \in Connections
               PROVE  IF d \in greeted
                      THEN /\ received[d] \in Seq({"Input"})
                           /\ waiting'[d] + Len(received[d]) <= inputs[d]
                      ELSE /\ received[d] \in {<<>>, <<"Hello">>}
                           /\ waiting'[d] = 0 /\ inputs[d] = 0
    BY DEF HelloFirst, ioVars, worldVars
  <2>1. waiting[d] \in Nat /\ waiting'[d] \in Nat /\ waiting'[d] <= waiting[d]
    BY <1>2, <1>3
  <2>2. Len(received[d]) \in Nat /\ inputs[d] \in Nat
    BY LenProperties DEF TypeOK
  <2>3. CASE d \in greeted
    <3>1. /\ received[d] \in Seq({"Input"})
          /\ waiting[d] + Len(received[d]) <= inputs[d]
      BY <2>3 DEF HelloFirst
    <3>2. waiting'[d] + Len(received[d]) <= inputs[d]
      BY <2>1, <2>2, <3>1
    <3> QED
      BY <2>3, <3>1, <3>2
  <2>4. CASE d \notin greeted
    BY <2>1, <2>4 DEF HelloFirst
  <2> QED
    BY <2>3, <2>4
<1>7. PlayersKnown' /\ NoOrphanPlayers' /\ TakenForGood'
  BY DEF PlayersKnown, NoOrphanPlayers, TakenForGood, OwnerOf, ioVars,
         pendingVars, worldVars
<1>8. ServedHasPlayer'
  <2>1. CASE pc' = "aborted"
    <3>1. /\ waiting[c] > 0 /\ waiting' = waiting
          /\ currentPlayer[c] \notin players
      BY <1>1, <2>1 DEF SwitchMove, KeepMove
    <3>2. c \in greeted
      BY <1>2, <3>1 DEF HelloFirst
    <3>3. Robbed(currentPlayer[c])
      BY <1>2, <3>1, <3>2 DEF TakenForGood, Robbed
    <3>4. \A e \in connections \cap greeted :
            currentPlayer[e] \in players \/ Robbed(currentPlayer[e])
      BY DEF ServedHasPlayer
    <3>5. \A id : Robbed(id)
                    => \E d \in Connections :
                         /\ socket'[d] = "closed"
                         /\ d \notin greeted' \cup connections'
                         /\ currentPlayer'[d] = id
      BY DEF Robbed, ioVars, worldVars
    <3> QED
      BY <1>1, <1>2, <3>1, <3>2, <3>3, <3>4, <3>5
         DEF ServedHasPlayer, Robbed, ioVars, worldVars
  <2>2. CASE pc' # "aborted"
    BY <1>7, <2>2, ServedWhileRunning
  <2> QED
    BY <2>1, <2>2
<1> QED
  BY <1>4, <1>5, <1>6, <1>7, <1>8

LEMMA NextStep == IInv /\ [Next]_vars => IInv'
<1> SUFFICES ASSUME IInv, [Next]_vars PROVE IInv'
  OBVIOUS
<1>1. CASE Listeners
  <2>1. PICK c \in Connections :
          \/ Accept(c) \/ ReceiveHello(c) \/ ReceiveInput(c) \/ Close(c)
          \/ UseClosedSocket(c)
    BY <1>1 DEF Listeners
  <2>2. pc # "aborted"
    BY <1>1 DEF Listeners
  <2> QED
    BY <2>1, <2>2, AcceptStep, ReceiveHelloStep, ReceiveInputStep, CloseStep,
       UseClosedSocketStep
<1>2. CASE ProcessConnections
  BY <1>2, StartFrameStep, NewConnectStep, ClearConnectsStep, DisconnectStep,
     ClearDisconnectsStep
     DEF ProcessConnections
<1>3. CASE ProcessMessages
  <2>1. CASE \E c \in Connections : HandleMessage(c)
    <3>1. PICK c \in Connections : HandleMessage(c)
      BY <2>1
    <3>2. HandleHello(c) \/ HandleInput(c)
      BY <3>1 DEF HandleMessage
    <3> QED
      BY <3>1, <3>2, HelloStep, InputStep
  <2>2. CASE (\E c \in Connections : NoMoreMessages(c)) \/ EndMessages
    BY <2>2, TurnStep
  <2> QED
    BY <1>3, <2>1, <2>2 DEF ProcessMessages
<1>4. CASE Simulate
  BY <1>4, UpdateMoveStep, TurnStep DEF Simulate
<1>5. CASE UNCHANGED vars
  <2> USE <1>5 DEF IInv, vars, ioVars, pendingVars, worldVars
  <2>1. TypeOK'
    BY DEF TypeOK
  <2>2. NoEventLost' /\ ListsInOrder' /\ ConnectedOnce' /\ HelloFirst'
    BY DEF NoEventLost, ListsInOrder, ConnectedOnce, HelloFirst
  <2>3. PlayersKnown' /\ NoOrphanPlayers' /\ TakenForGood'
    BY DEF PlayersKnown, NoOrphanPlayers, TakenForGood, OwnerOf
  <2>4. ServedHasPlayer'
    BY DEF ServedHasPlayer, Robbed
  <2> QED
    BY <2>1, <2>2, <2>3, <2>4
<1> QED
  BY <1>1, <1>2, <1>3, <1>4, <1>5 DEF Next
-----------------------------------------------------------------------------
\* The invariant behind the theorems below.
THEOREM InductiveInvariant == Spec => []IInv
<1> QED
  BY InitHolds, NextStep, PTL DEF Spec

\* The mutex is held from the first pending event to the last, and no id of a
\* player is given twice, however the threads' steps interleave.
THEOREM TypeCorrect == Spec => []TypeOK
<1>1. IInv => TypeOK
  BY DEF IInv
<1> QED
  BY <1>1, InductiveInvariant, PTL

\* Every accepted connection and every closed one reaches Server::m_connections
\* through the two lists, which the listeners' threads fill meanwhile.
THEOREM NoEventIsLost == Spec => []NoEventLost
<1>1. IInv => NoEventLost
  BY DEF IInv
<1> QED
  BY <1>1, InductiveInvariant, PTL

\* find() in Server::Disconnect, whose result is not checked, never fails.
THEOREM DisconnectAlwaysFinds == Spec => []DisconnectFindsConnection
<1>1. IInv => DisconnectFindsConnection
  <2> SUFFICES ASSUME IInv, pc = "disconnects",
                      NEW i \in index .. Len(pendingDisconnect)
               PROVE  pendingDisconnect[i] \in connections
    BY DEF DisconnectFindsConnection
  <2>1. index \in Nat \ {0} /\ Len(pendingDisconnect) \in Nat
    BY LenProperties DEF IInv, TypeOK
  <2>2. i \in 1 .. Len(pendingDisconnect) /\ ~(i < index)
    BY <2>1
  <2>3. Range(pendingConnect) = {}
    BY NoElements DEF IInv, ListsInOrder
  <2> QED
    BY <2>2, <2>3 DEF IInv, ListsInOrder
<1> QED
  BY <1>1, InductiveInvariant, PTL

\* Disconnect takes the player of a connection out of the world with it.
THEOREM NoPlayerIsOrphaned == Spec => []NoOrphanPlayers
<1>1. IInv => NoOrphanPlayers
  BY DEF IInv
<1> QED
  BY <1>1, InductiveInvariant, PTL

\* Whatever m_current_player holds at first, the at() of UpdateMove throws only
\* for a player that the disconnect of a connection without a Hello took away.
THEOREM ServedKeepsPlayer == Spec => []ServedHasPlayer
<1>1. IInv => ServedHasPlayer
  BY DEF IInv
<1> QED
  BY <1>1, InductiveInvariant, PTL
-----------------------------------------------------------------------------
(***************************************************************************)
(* What the clients see.                                                   *)
(***************************************************************************)
HIDE DEF TakenAway
USE ViewsAssumption DEF ViewsAssumption

LEMMA TailFacts ==
  ASSUME NEW S, NEW s \in Seq(S), s # <<>>
  PROVE  /\ Tail(s) \in Seq(S) /\ Head(s) = s[1] /\ Head(s) \in S
         /\ Len(s) \in Nat \ {0} /\ Len(Tail(s)) = Len(s) - 1
         /\ \A i \in 1 .. Len(s) - 1 : Tail(s)[i] = s[i + 1]
  BY HeadTailProperties, LenProperties, EmptySeq, ElementOfSeq

\* Whom a step may greet, and that it changes nobody else's player.
LEMMA PlayersStay ==
  ASSUME IInv, [Next]_vars
  PROVE  /\ greeted \subseteq greeted'
         /\ \A c \in Connections :
              c \in greeted \/ c \notin connections
                => currentPlayer'[c] = currentPlayer[c]
         /\ greeted' \subseteq greeted \cup connections
<1>1. CASE \E c \in Connections : HandleMessage(c)
  <2>1. PICK c \in Connections : HandleMessage(c)
    BY <1>1
  <2>2. CASE HandleHello(c)
    <3>1. /\ currentPlayer' = [currentPlayer EXCEPT ![c] = nextPlayerId]
          /\ greeted' = greeted \cup {c} /\ c \in connections
          /\ Head(received[c]) = "Hello" /\ received[c] # <<>>
      BY <2>1, <2>2 DEF HandleMessage, HandleHello
    <3>2. c \notin greeted
      <4>1. ASSUME c \in greeted PROVE FALSE
        <5>1. received[c] \in Seq({"Input"})
          BY <4>1 DEF IInv, HelloFirst
        <5> QED
          BY <3>1, <5>1, TailFacts
      <4> QED
        BY <4>1
    <3>3. currentPlayer \in [Connections -> Nat]
      BY DEF IInv, TypeOK
    <3> QED
      BY <3>1, <3>2, <3>3
  <2>3. CASE HandleInput(c)
    BY <2>3 DEF HandleInput, worldVars
  <2> QED
    BY <2>1, <2>2, <2>3 DEF HandleMessage
<1>2. CASE UNCHANGED <<greeted, currentPlayer>>
  BY <1>2
<1>3. CASE Listeners
  BY <1>2, <1>3 DEF Listeners, Accept, ReceiveHello, ReceiveInput, Close,
                    UseClosedSocket, worldVars
<1>4. CASE ProcessConnections
  BY <1>2, <1>4 DEF ProcessConnections, StartFrame, NewConnect, ClearConnects,
                    Disconnect, ClearDisconnects, worldVars
<1>5. CASE (\E c \in Connections : NoMoreMessages(c)) \/ EndMessages
  BY <1>2, <1>5 DEF NoMoreMessages, EndMessages, worldVars
<1>6. CASE Simulate
  BY <1>2, <1>6 DEF Simulate, UpdateMove, AnotherStep, EndFrame, worldVars
<1>7. CASE UNCHANGED vars
  BY <1>2, <1>7 DEF vars, worldVars
<1> QED
  BY <1>1, <1>3, <1>4, <1>5, <1>6, <1>7 DEF Next, ProcessMessages

\* A connection that is closed and out of the lists never comes back.
LEMMA GoneStaysGone ==
  ASSUME IInv, [Next]_vars, NEW d \in Connections, socket[d] = "closed",
         d \notin greeted \cup connections \cup Range(pendingConnect)
  PROVE  /\ socket'[d] = "closed"
         /\ d \notin greeted' \cup connections' \cup Range(pendingConnect')
         /\ currentPlayer'[d] = currentPlayer[d]
<1>1. d \notin greeted' /\ currentPlayer'[d] = currentPlayer[d]
  BY PlayersStay
<1>2. CASE \E c \in Connections : Accept(c)
  <2>1. PICK c \in Connections : Accept(c)
    BY <1>2
  <2>2. /\ socket \in [Connections -> {"none", "open", "closed"}]
        /\ pendingConnect \in Seq(Connections)
    BY DEF IInv, TypeOK
  <2>3. /\ socket[c] = "none" /\ socket' = [socket EXCEPT ![c] = "open"]
        /\ pendingConnect' = Append(pendingConnect, c)
        /\ connections' = connections
    BY <2>1 DEF Accept
  <2>4. Range(pendingConnect') = Range(pendingConnect) \cup {c}
    BY <2>2, <2>3, AppendFacts
  <2> QED
    BY <1>1, <2>2, <2>3, <2>4
<1>3. CASE \E c \in Connections : Close(c)
  BY <1>1, <1>3 DEF Close, IInv, TypeOK
<1>4. CASE NewConnect
  <2>1. pendingConnect \in Seq(Connections) /\ index \in Nat \ {0}
    BY DEF IInv, TypeOK
  <2>2. /\ index <= Len(pendingConnect)
        /\ connections' = connections \cup {pendingConnect[index]}
        /\ UNCHANGED <<socket, pendingConnect>>
    BY <1>4 DEF NewConnect, ioVars, pendingVars
  <2>3. pendingConnect[index] \in Range(pendingConnect)
    <3>1. index \in 1 .. Len(pendingConnect)
      BY <2>1, <2>2, LenProperties
    <3> QED
      BY <2>1, <3>1, ListElements, ElementOfSeq
  <2> QED
    BY <1>1, <2>2, <2>3
<1>5. CASE ClearConnects
  BY <1>1, <1>5, NoElements DEF ClearConnects, ioVars
<1>6. CASE Disconnect
  BY <1>1, <1>6 DEF Disconnect, ioVars, pendingVars
<1>7. CASE UNCHANGED <<socket, connections, pendingConnect>>
  BY <1>1, <1>7
<1>8. CASE Listeners
  BY <1>2, <1>3, <1>7, <1>8 DEF Listeners, ReceiveHello, ReceiveInput,
                               UseClosedSocket, ioVars, pendingVars
<1>9. CASE ProcessConnections
  BY <1>4, <1>5, <1>6, <1>7, <1>9
     DEF ProcessConnections, StartFrame, ClearDisconnects, ioVars, pendingVars
<1>10. CASE ProcessMessages
  BY <1>7, <1>10 DEF ProcessMessages, HandleMessage, NoMoreMessages,
                     EndMessages, ioVars, pendingVars
<1>11. CASE Simulate
  BY <1>7, <1>11 DEF Simulate, UpdateMove, AnotherStep, EndFrame, ioVars,
                     pendingVars
<1>12. CASE UNCHANGED vars
  BY <1>7, <1>12 DEF vars, ioVars, pendingVars
<1> QED
  BY <1>8, <1>9, <1>10, <1>11, <1>12 DEF Next

LEMMA TakenAwayStays ==
  ASSUME IInv, [Next]_vars, NEW id, TakenAway(id)
  PROVE  TakenAway(id)'
<1>1. PICK d \in Connections :
        /\ socket[d] = "closed"
        /\ d \notin greeted \cup connections \cup Range(pendingConnect)
        /\ currentPlayer[d] = id
  BY DEF TakenAway
<1>2. /\ socket'[d] = "closed"
      /\ d \notin greeted' \cup connections' \cup Range(pendingConnect')
      /\ currentPlayer'[d] = id
  BY <1>1, GoneStaysGone
<1> QED
  BY <1>2 DEF TakenAway
-----------------------------------------------------------------------------
LEMMA ViewsInit == VInit => VInv
<1> SUFFICES ASSUME VInit PROVE VInv
  OBVIOUS
<1>1. IInv
  BY InitHolds DEF VInit
<1>2. /\ toClient = [c \in Connections |-> <<>>]
      /\ own = [c \in Connections |-> 0] /\ view = [c \in Connections |-> {}]
      /\ crashed = {}
  BY DEF VInit
<1>3. ViewsTypeOK
  BY <1>2, EmptySeq DEF ViewsTypeOK
<1>4. \A c \in Connections : ~Joined(c) /\ Len(toClient[c]) = 0
  BY <1>2, EmptySeq DEF Joined
<1>5. OwnIsCurrent /\ SyncsHaveOwn
  BY <1>2, <1>4 DEF OwnIsCurrent, SyncsHaveOwn
<1> QED
  BY <1>1, <1>3, <1>5 DEF VInv

\* Every step of the whole is one of ServerConnections or leaves it as it is.
LEMMA StepsOfServer == [VNext]_allVars => [Next]_vars
  BY DEF VNext, allVars, ClientReceive, VListeners, VProcessConnections,
         VProcessMessages, VHandleMessage, VSimulate, VAnotherStep, SyncFrame,
         SilentFrame, Next,
         Listeners, ProcessMessages, Simulate

\* What the server may send to a client.
Fits(c, m) ==
  /\ m \in Message
  /\ m.type = "Hello" => c \in greeted' /\ m.id = currentPlayer'[c]
  /\ m.type = "Sync" /\ c \in greeted =>
       currentPlayer[c] \in m.players \/ TakenAway(currentPlayer[c])

LEMMA ServerStep ==
  ASSUME VInv, [Next]_vars, UNCHANGED clientVars,
         toClient' \in [Connections -> Seq(Message)],
         \A c \in Connections :
           \/ toClient'[c] = toClient[c] \/ toClient'[c] = <<>>
           \/ \E m \in Message :
                toClient'[c] = Append(toClient[c], m) /\ Fits(c, m)
  PROVE  VInv'
<1>1. IInv /\ ViewsTypeOK /\ OwnIsCurrent /\ SyncsHaveOwn
  BY DEF VInv
<1>2. IInv'
  BY <1>1, NextStep
<1>3. own' = own /\ view' = view /\ crashed' = crashed
  BY DEF clientVars
<1>4. ViewsTypeOK'
  BY <1>1, <1>3 DEF ViewsTypeOK
<1>5. /\ greeted \subseteq greeted'
      /\ \A c \in Connections :
           c \in greeted => currentPlayer'[c] = currentPlayer[c]
  BY <1>1, PlayersStay
<1>6. \A id : TakenAway(id) => TakenAway(id)'
  BY <1>1, TakenAwayStays
<1>7. ASSUME NEW c \in Connections, NEW i \in 1 .. Len(toClient'[c])
      PROVE  \/ i \in 1 .. Len(toClient[c])
                /\ \A j \in 1 .. i : toClient'[c][j] = toClient[c][j]
             \/ /\ i = Len(toClient[c]) + 1 /\ Len(toClient[c]) \in Nat
                /\ \A j \in 1 .. i - 1 : toClient'[c][j] = toClient[c][j]
                /\ Fits(c, toClient'[c][i])
  <2>1. toClient[c] \in Seq(Message)
    BY <1>1 DEF ViewsTypeOK
  <2>2. CASE toClient'[c] = toClient[c]
    <3>1. \A j \in 1 .. i : toClient'[c][j] = toClient[c][j]
      BY <2>2
    <3> QED
      BY <2>2, <3>1
  <2>3. CASE toClient'[c] = <<>>
    BY <2>3, EmptySeq
  <2>4. ASSUME NEW m \in Message,
               toClient'[c] = Append(toClient[c], m), Fits(c, m)
        PROVE  \/ i \in 1 .. Len(toClient[c])
                  /\ \A j \in 1 .. i : toClient'[c][j] = toClient[c][j]
               \/ /\ i = Len(toClient[c]) + 1 /\ Len(toClient[c]) \in Nat
                  /\ \A j \in 1 .. i - 1 : toClient'[c][j] = toClient[c][j]
                  /\ Fits(c, toClient'[c][i])
    <3>1. /\ Len(toClient'[c]) = Len(toClient[c]) + 1
          /\ Len(toClient[c]) \in Nat
          /\ \A j \in 1 .. Len(toClient[c]) :
               toClient'[c][j] = toClient[c][j]
          /\ toClient'[c][Len(toClient[c]) + 1] = m
      BY <2>1, <2>4, AppendFacts
    <3> QED
      BY <2>4, <3>1
  <2> QED
    BY <2>2, <2>3, <2>4
<1>8. \A c \in Connections : Joined(c)' <=> Joined(c)
  BY <1>3 DEF Joined
<1>9. OwnIsCurrent'
  <2> SUFFICES ASSUME NEW c \in Connections
               PROVE  /\ Joined(c)' \/ c \in crashed' =>
                           c \in greeted' /\ own'[c] = currentPlayer'[c]
                      /\ \A i \in 1 .. Len(toClient'[c]) :
                           toClient'[c][i].type = "Hello" =>
                             /\ c \in greeted'
                             /\ toClient'[c][i].id = currentPlayer'[c]
    BY DEF OwnIsCurrent
  <2>1. Joined(c)' \/ c \in crashed' =>
          c \in greeted' /\ own'[c] = currentPlayer'[c]
    BY <1>1, <1>3, <1>5, <1>8 DEF OwnIsCurrent
  <2>2. ASSUME NEW i \in 1 .. Len(toClient'[c]),
               toClient'[c][i].type = "Hello"
        PROVE  c \in greeted' /\ toClient'[c][i].id = currentPlayer'[c]
    <3>1. CASE /\ i \in 1 .. Len(toClient[c])
               /\ toClient'[c][i] = toClient[c][i]
      BY <1>1, <1>5, <2>2, <3>1 DEF OwnIsCurrent
    <3>2. CASE Fits(c, toClient'[c][i])
      BY <2>2, <3>2 DEF Fits
    <3> QED
      BY <1>7, <3>1, <3>2
  <2> QED
    BY <2>1, <2>2
<1>10. SyncsHaveOwn'
  <2>1. ASSUME NEW c \in Connections, NEW i \in 1 .. Len(toClient'[c]),
               toClient'[c][i].type = "Sync", AfterHello(c, i)'
        PROVE  \/ currentPlayer'[c] \in toClient'[c][i].players
               \/ TakenAway(currentPlayer[c])'
    <3>1. /\ \A j \in 1 .. i - 1 : toClient'[c][j] = toClient[c][j]
          /\ \A j \in 1 .. i - 1 : j \in 1 .. Len(toClient[c])
      BY <1>7
    <3>2. AfterHello(c, i)
      BY <1>8, <2>1, <3>1 DEF AfterHello
    <3>3. c \in greeted
      BY <1>1, <3>1, <3>2 DEF AfterHello, OwnIsCurrent
    <3>4. CASE /\ i \in 1 .. Len(toClient[c])
               /\ toClient'[c][i] = toClient[c][i]
      BY <1>1, <1>5, <1>6, <2>1, <3>2, <3>3, <3>4 DEF SyncsHaveOwn
    <3>5. CASE Fits(c, toClient'[c][i])
      BY <1>5, <1>6, <2>1, <3>3, <3>5 DEF Fits
    <3> QED
      BY <1>7, <3>4, <3>5
  <2>2. ASSUME NEW c \in Connections, c \in crashed'
        PROVE  TakenAway(currentPlayer[c])'
    BY <1>1, <1>3, <1>5, <1>6, <2>2 DEF OwnIsCurrent, SyncsHaveOwn
  <2> QED
    BY <2>1, <2>2 DEF SyncsHaveOwn
<1> QED
  BY <1>2, <1>4, <1>9, <1>10 DEF VInv

LEMMA ReceiveStep ==
  ASSUME VInv, NEW c \in Connections, ClientReceive(c)
  PROVE  VInv'
<1>1. IInv /\ ViewsTypeOK /\ OwnIsCurrent /\ SyncsHaveOwn
  BY DEF VInv
<1>2. /\ UNCHANGED vars /\ c \notin crashed /\ toClient[c] # <<>>
      /\ toClient' = [toClient EXCEPT ![c] = Tail(toClient[c])]
      /\ ClientReceiveHello(c) \/ ClientReceiveSync(c)
  BY DEF ClientReceive
<1>3. IInv'
  BY <1>1, <1>2, NextStep
<1>4. /\ greeted' = greeted /\ currentPlayer' = currentPlayer
      /\ \A id : TakenAway(id) => TakenAway(id)'
  BY <1>1, <1>2, TakenAwayStays DEF vars, worldVars
<1>5. PICK s : s = toClient[c]
  OBVIOUS
<1>6. /\ s \in Seq(Message) /\ s # <<>>
      /\ toClient \in [Connections -> Seq(Message)]
      /\ own \in [Connections -> Nat] /\ view \in [Connections -> SUBSET Nat]
      /\ crashed \subseteq Connections
  BY <1>1, <1>2, <1>5 DEF ViewsTypeOK
<1>7. /\ Tail(s) \in Seq(Message) /\ Head(s) = s[1] /\ Head(s) \in Message
      /\ Len(s) \in Nat \ {0} /\ Len(Tail(s)) = Len(s) - 1
      /\ \A i \in 1 .. Len(s) - 1 : Tail(s)[i] = s[i + 1]
  BY <1>6, TailFacts
<1>8. PICK h : h = Head(s)
  OBVIOUS
<1>9. /\ h \in Message /\ h = s[1] /\ 1 \in 1 .. Len(s)
      /\ toClient' \in [Connections -> Seq(Message)]
      /\ toClient'[c] = Tail(s)
      /\ \A d \in Connections : d # c => toClient'[d] = toClient[d]
  BY <1>2, <1>5, <1>6, <1>7, <1>8
<1>10. /\ ViewsTypeOK'
       /\ Joined(c)' \/ c \in crashed' =>
            c \in greeted /\ own'[c] = currentPlayer[c]
       /\ c \in crashed' => TakenAway(currentPlayer[c])
       /\ Joined(c)' => Joined(c) \/ h.type = "Hello"
       /\ \A d \in Connections \ {c} :
            /\ own'[d] = own[d] /\ (Joined(d)' <=> Joined(d))
            /\ d \in crashed' <=> d \in crashed
  <2>1. CASE ClientReceiveHello(c)
    <3>1. /\ h.type = "Hello" /\ crashed' = crashed
          /\ own' = [own EXCEPT ![c] = h.id]
          /\ view' = [view EXCEPT ![c] = view[c] \cup {h.id}]
      BY <1>5, <1>8, <2>1 DEF ClientReceiveHello
    <3>2. c \in greeted /\ h.id = currentPlayer[c]
      BY <1>1, <1>5, <1>9, <3>1 DEF OwnIsCurrent
    <3>3. h.id \in Nat
      BY <1>1, <3>2 DEF IInv, TypeOK
    <3>4. ViewsTypeOK'
      BY <1>6, <1>9, <3>1, <3>3 DEF ViewsTypeOK
    <3>5. /\ own'[c] = currentPlayer[c]
          /\ \A d \in Connections \ {c} :
               own'[d] = own[d] /\ (Joined(d)' <=> Joined(d))
      BY <1>6, <3>1, <3>2 DEF Joined
    <3> QED
      BY <1>2, <3>1, <3>2, <3>4, <3>5
  <2>2. CASE ClientReceiveSync(c)
    <3>1. h.type = "Sync" /\ own' = own
      BY <1>5, <1>8, <2>2 DEF ClientReceiveSync
    <3>2. h.players \in SUBSET Nat
      BY <1>9, <3>1 DEF Message
    <3>3. Joined(c) => c \in greeted /\ own[c] = currentPlayer[c]
      BY <1>1 DEF OwnIsCurrent
    <3>4. CASE Joined(c) /\ own[c] \notin h.players
      <4>1. crashed' = crashed \cup {c} /\ view' = view
        BY <1>5, <1>8, <2>2, <3>4 DEF ClientReceiveSync
      <4>2. AfterHello(c, 1)
        BY <3>4 DEF AfterHello
      <4>3. TakenAway(currentPlayer[c])
        BY <1>1, <1>5, <1>9, <3>1, <3>3, <3>4, <4>2 DEF SyncsHaveOwn
      <4>4. ViewsTypeOK' /\ \A d \in Connections : Joined(d)' <=> Joined(d)
        BY <1>6, <1>9, <3>1, <4>1 DEF ViewsTypeOK, Joined
      <4> QED
        BY <3>1, <3>3, <3>4, <4>1, <4>3, <4>4
    <3>5. CASE ~(Joined(c) /\ own[c] \notin h.players)
      <4>1. /\ crashed' = crashed
            /\ view' = IF Joined(c)
                       THEN [view EXCEPT ![c] = h.players] ELSE view
        BY <1>5, <1>8, <2>2, <3>5 DEF ClientReceiveSync
      <4>2. ViewsTypeOK'
        BY <1>6, <1>9, <3>1, <3>2, <4>1 DEF ViewsTypeOK
      <4>3. \A d \in Connections : Joined(d)' <=> Joined(d)
        BY <1>6, <3>1, <3>5, <4>1 DEF Joined
      <4> QED
        BY <1>2, <3>1, <3>3, <4>1, <4>2, <4>3
    <3> QED
      BY <3>4, <3>5
  <2> QED
    BY <1>2, <2>1, <2>2
<1>11. ASSUME NEW i \in 1 .. Len(s) - 1, AfterHello(c, i)'
       PROVE  AfterHello(c, i + 1) /\ i + 1 \in 1 .. Len(s)
  <2>1. i + 1 \in 1 .. Len(s) /\ 1 \in 1 .. (i + 1) - 1
    BY <1>7
  <2>2. CASE Joined(c)'
    BY <1>5, <1>9, <1>10, <2>1, <2>2 DEF AfterHello
  <2>3. ASSUME NEW j \in 1 .. i - 1, Tail(s)[j].type = "Hello"
        PROVE  AfterHello(c, i + 1)
    <3>1. s[j + 1].type = "Hello" /\ j + 1 \in 1 .. (i + 1) - 1
      BY <1>7, <2>3
    <3> QED
      BY <1>5, <3>1 DEF AfterHello
  <2>4. Joined(c)' \/ \E j \in 1 .. i - 1 : Tail(s)[j].type = "Hello"
    BY <1>9, <1>11 DEF AfterHello
  <2> QED
    BY <2>1, <2>2, <2>3, <2>4
<1>12. OwnIsCurrent'
  <2>1. ASSUME NEW d \in Connections
        PROVE  Joined(d)' \/ d \in crashed' =>
                 d \in greeted /\ own'[d] = currentPlayer[d]
    BY <1>1, <1>10 DEF OwnIsCurrent
  <2>2. ASSUME NEW d \in Connections, NEW i \in 1 .. Len(toClient'[d]),
               toClient'[d][i].type = "Hello"
        PROVE  d \in greeted /\ toClient'[d][i].id = currentPlayer[d]
    <3>1. CASE d = c
      <4>1. Tail(s)[i] = s[i + 1] /\ i + 1 \in 1 .. Len(s)
        BY <1>7, <1>9, <3>1
      <4>2. toClient'[d][i] = s[i + 1] /\ s[i + 1].type = "Hello"
        BY <1>9, <2>2, <3>1, <4>1
      <4>3. c \in greeted /\ s[i + 1].id = currentPlayer[c]
        BY <1>1, <1>5, <4>1, <4>2 DEF OwnIsCurrent
      <4> QED
        BY <3>1, <4>2, <4>3
    <3>2. CASE d # c
      BY <1>1, <1>9, <2>2, <3>2 DEF OwnIsCurrent
    <3> QED
      BY <3>1, <3>2
  <2> QED
    BY <1>4, <2>1, <2>2 DEF OwnIsCurrent
<1>13. SyncsHaveOwn'
  <2>1. ASSUME NEW d \in Connections, NEW i \in 1 .. Len(toClient'[d]),
               toClient'[d][i].type = "Sync", AfterHello(d, i)'
        PROVE  \/ currentPlayer[d] \in toClient'[d][i].players
               \/ TakenAway(currentPlayer[d])
    <3>1. CASE d = c
      <4>1. Tail(s)[i] = s[i + 1] /\ i \in 1 .. Len(s) - 1
        BY <1>7, <1>9, <3>1
      <4>2. AfterHello(c, i + 1) /\ i + 1 \in 1 .. Len(s)
        BY <1>11, <2>1, <3>1, <4>1
      <4> QED
        BY <1>1, <1>5, <1>9, <2>1, <3>1, <4>1, <4>2 DEF SyncsHaveOwn
    <3>2. CASE d # c
      <4>1. toClient'[d] = toClient[d] /\ AfterHello(d, i)
        BY <1>9, <1>10, <2>1, <3>2 DEF AfterHello
      <4> QED
        BY <1>1, <2>1, <4>1 DEF SyncsHaveOwn
    <3> QED
      BY <3>1, <3>2
  <2>2. ASSUME NEW d \in Connections, d \in crashed'
        PROVE  TakenAway(currentPlayer[d])
    BY <1>1, <1>10, <2>2 DEF SyncsHaveOwn
  <2>3. \A d \in Connections :
          TakenAway(currentPlayer[d]) => TakenAway(currentPlayer[d])'
    BY <1>4
  <2> QED
    BY <1>4, <2>1, <2>2, <2>3 DEF SyncsHaveOwn
<1> QED
  BY <1>3, <1>10, <1>12, <1>13 DEF VInv

\* What is sent is appended or lost.
LEMMA SentOrLost ==
  ASSUME ViewsTypeOK, NEW c \in Connections, NEW m \in Message
  PROVE  /\ Sent(c, m) \in Seq(Message)
         /\ Sent(c, m) = toClient[c] \/ Sent(c, m) = Append(toClient[c], m)
<1>1. toClient[c] \in Seq(Message)
  BY DEF ViewsTypeOK
<1>2. Append(toClient[c], m) \in Seq(Message)
  BY <1>1, AppendFacts
<1> QED
  BY <1>1, <1>2 DEF Sent

\* Handle(Hello) answers with the id of the player it made.
LEMMA AnswerStep ==
  ASSUME VInv, NEW c \in Connections, VHandleMessage(c)
  PROVE  VInv'
<1>1. IInv /\ ViewsTypeOK
  BY DEF VInv
<1>2. /\ HandleMessage(c) /\ UNCHANGED clientVars
      /\ toClient' = IF Head(received[c]) = "Hello"
                     THEN [toClient EXCEPT ![c] =
                             Sent(c, HelloMessage(currentPlayer'[c]))]
                     ELSE toClient
  BY DEF VHandleMessage
<1>3. [Next]_vars
  BY <1>2 DEF Next, ProcessMessages
<1>4. toClient \in [Connections -> Seq(Message)]
  BY <1>1 DEF ViewsTypeOK
<1>5. CASE Head(received[c]) = "Hello"
  <2>1. HandleHello(c)
    BY <1>2, <1>5 DEF HandleMessage, HandleInput
  <2>2. /\ currentPlayer \in [Connections -> Nat] /\ nextPlayerId \in Nat
        /\ currentPlayer' = [currentPlayer EXCEPT ![c] = nextPlayerId]
        /\ greeted' = greeted \cup {c}
    BY <1>1, <2>1 DEF HandleHello, IInv, TypeOK
  <2>3. PICK m : m = HelloMessage(currentPlayer'[c])
    OBVIOUS
  <2>4. m \in Message /\ m.type = "Hello" /\ m.id = currentPlayer'[c]
    BY <2>2, <2>3 DEF Message, HelloMessage
  <2>5. Fits(c, m)
    BY <2>2, <2>4 DEF Fits
  <2>6. /\ Sent(c, m) \in Seq(Message)
        /\ Sent(c, m) = toClient[c] \/ Sent(c, m) = Append(toClient[c], m)
    BY <1>1, <2>4, SentOrLost
  <2>7. toClient' = [toClient EXCEPT ![c] = Sent(c, m)]
    BY <1>2, <1>5, <2>3
  <2>8. toClient' \in [Connections -> Seq(Message)]
    BY <1>4, <2>6, <2>7
  <2>9. ASSUME NEW d \in Connections
        PROVE  \/ toClient'[d] = toClient[d]
               \/ toClient'[d] = Append(toClient[d], m) /\ Fits(d, m)
    BY <1>4, <2>5, <2>6, <2>7
  <2> QED
    BY <1>2, <1>3, <2>4, <2>8, <2>9, ServerStep
<1>6. CASE Head(received[c]) # "Hello"
  <2>1. toClient' = toClient
    BY <1>2, <1>6
  <2> QED
    BY <1>2, <1>3, <1>4, <2>1, ServerStep
<1> QED
  BY <1>5, <1>6

\* A Sync carries all the players there are.
LEMMA EndOfStep ==
  ASSUME VInv, VAnotherStep \/ SyncFrame \/ SilentFrame
  PROVE  VInv'
<1>1. IInv /\ ViewsTypeOK
  BY DEF VInv
<1>2. /\ AnotherStep \/ EndFrame
      /\ UNCHANGED clientVars
      /\ SendSync \/ toClient' = toClient
  BY DEF VAnotherStep, SyncFrame, SilentFrame
<1>3. [Next]_vars /\ UNCHANGED worldVars
  BY <1>2 DEF Next, Simulate, AnotherStep, EndFrame
<1>4. toClient \in [Connections -> Seq(Message)]
  BY <1>1 DEF ViewsTypeOK
<1>5. CASE SendSync
  <2>1. PICK m : m = SyncMessage(players)
    OBVIOUS
  <2>2. players \in SUBSET Nat
    BY <1>1 DEF IInv, TypeOK
  <2>3. m \in Message /\ m.type = "Sync" /\ m.players = players
    BY <2>1, <2>2 DEF Message, SyncMessage
  <2>4. \A d \in connections : d \in Connections /\ Fits(d, m)
    <3>1. connections \subseteq Connections
      BY <1>1 DEF IInv, TypeOK
    <3>2. \A d \in connections \cap greeted :
            currentPlayer[d] \in players \/ TakenAway(currentPlayer[d])
      BY <1>1 DEF IInv, TakenForGood
    <3> QED
      BY <2>3, <3>1, <3>2 DEF Fits
  <2>5. \A d \in Connections :
          /\ Sent(d, m) \in Seq(Message)
          /\ Sent(d, m) = toClient[d] \/ Sent(d, m) = Append(toClient[d], m)
    BY <1>1, <2>3, SentOrLost
  <2>6. toClient' = [d \in Connections |->
                       IF d \in connections THEN Sent(d, m) ELSE toClient[d]]
    BY <1>5, <2>1 DEF SendSync
  <2>7. toClient' \in [Connections -> Seq(Message)]
    BY <1>4, <2>5, <2>6
  <2>8. ASSUME NEW d \in Connections
        PROVE  \/ toClient'[d] = toClient[d]
               \/ toClient'[d] = Append(toClient[d], m) /\ Fits(d, m)
    BY <2>4, <2>5, <2>6
  <2> QED
    BY <1>2, <1>3, <2>3, <2>7, <2>8, ServerStep
<1>6. CASE toClient' = toClient
  BY <1>2, <1>3, <1>4, <1>6, ServerStep
<1> QED
  BY <1>2, <1>5, <1>6

LEMMA ViewsStep == VInv /\ [VNext]_allVars => VInv'
<1> SUFFICES ASSUME VInv, [VNext]_allVars PROVE VInv'
  OBVIOUS
<1>1. [Next]_vars
  BY StepsOfServer
<1>2. toClient \in [Connections -> Seq(Message)]
  BY DEF VInv, ViewsTypeOK
<1>3. CASE UNCHANGED clientVars /\ toClient' = toClient
  BY <1>1, <1>2, <1>3, ServerStep
<1>4. CASE \E c \in Connections : ClientReceive(c)
  BY <1>4, ReceiveStep
<1>5. CASE VListeners
  <2>1. UNCHANGED clientVars
    BY <1>5 DEF VListeners
  <2>2. \/ toClient' = toClient
        \/ \E c \in Connections : toClient' = [toClient EXCEPT ![c] = <<>>]
    BY <1>5 DEF VListeners
  <2>3. toClient' \in [Connections -> Seq(Message)]
    BY <1>2, <2>2, EmptySeq
  <2>4. \A c \in Connections :
          toClient'[c] = toClient[c] \/ toClient'[c] = <<>>
    BY <1>2, <2>2
  <2> QED
    BY <1>1, <2>1, <2>3, <2>4, ServerStep
<1>6. CASE VProcessConnections
  BY <1>3, <1>6 DEF VProcessConnections, viewVars
<1>7. CASE VProcessMessages
  BY <1>3, <1>7, AnswerStep DEF VProcessMessages, viewVars
<1>8. CASE VSimulate
  BY <1>3, <1>8, EndOfStep DEF VSimulate, viewVars
<1>9. CASE UNCHANGED allVars
  BY <1>3, <1>9 DEF allVars, viewVars
<1> QED
  BY <1>4, <1>5, <1>6, <1>7, <1>8, <1>9 DEF VNext

\* The invariant behind the theorem below: what the messages on their way and
\* the clients know of the players made for them.
THEOREM ViewsInvariant == VSpec => []VInv
<1> QED
  BY ViewsInit, ViewsStep, PTL DEF VSpec

\* With the clients and what is sent to them, the server behaves as in
\* ServerConnections, so all that is proved of it there holds here.
THEOREM ViewsRefineServer == VSpec => Spec
<1>1. VInit => Init
  BY DEF VInit
<1> QED
  BY <1>1, StepsOfServer, PTL DEF VSpec, Spec

\* However the messages to and from several clients interleave, the at() of a
\* client's Handle(Sync) throws only for a player that a connection closed
\* before its Hello took away.
THEOREM ClientCrashesOnlyIfRobbed == VSpec => []CrashOnlyIfRobbed
<1>1. VInv => CrashOnlyIfRobbed
  <2> SUFFICES ASSUME VInv, NEW c \in crashed PROVE Robbed(own[c])
    BY DEF CrashOnlyIfRobbed
  <2>1. /\ c \in Connections /\ own[c] = currentPlayer[c]
        /\ TakenAway(currentPlayer[c])
    BY DEF VInv, ViewsTypeOK, OwnIsCurrent, SyncsHaveOwn
  <2> QED
    BY <2>1 DEF TakenAway, Robbed
<1> QED
  BY <1>1, ViewsInvariant, PTL
=============================================================================
