-------------------------- MODULE InputSyncProofs --------------------------
(***************************************************************************)
(* Proofs about InputSync, for all values of its constants.  The           *)
(* properties of the histories need NoWrap: no input id is given twice.    *)
(***************************************************************************)
EXTENDS InputSync, SequenceTheorems, TLAPS

USE ConstantsAssumption DEF ConstantsAssumption

\* The id after an id is an id.
LEMMA NextIdType == \A id \in Ids : NextId(id) \in Ids
  BY DEF NextId, Ids

\* What the messages are: their types and the fields of those that are built.
LEMMA ServerMessages ==
  /\ HelloMessage \in ServerMessage
  /\ HelloMessage.type = "Hello"
  /\ \A state \in Controls, dur \in Nat :
       /\ InputMessage(state, dur) \in ServerMessage
       /\ InputMessage(state, dur).type = "Input"
       /\ InputMessage(state, dur).state = state
       /\ InputMessage(state, dur).dur = dur
  /\ \A m \in ServerMessage :
       /\ m.type = "Input" => m.state \in Controls /\ m.dur \in Nat
       /\ m.type = "Input" \/ m = HelloMessage
  BY DEF ServerMessage, HelloMessage, InputMessage

LEMMA ClientMessages ==
  /\ HelloMessage \in ClientMessage
  /\ HelloMessage.type # "Sync"
  /\ \A ack \in Ids, delta \in Int, player \in BOOLEAN :
       /\ SyncMessage(ack, delta, player) \in ClientMessage
       /\ SyncMessage(ack, delta, player).type = "Sync"
       /\ SyncMessage(ack, delta, player).ack = ack
       /\ SyncMessage(ack, delta, player).player = player
  /\ \A m \in ClientMessage :
       m.type = "Sync" => m.ack \in Ids /\ m.player \in BOOLEAN
  BY DEF ClientMessage, HelloMessage, SyncMessage
-----------------------------------------------------------------------------
(***************************************************************************)
(* Types.                                                                  *)
(***************************************************************************)
LEMMA TypeInit == Init => TypeOK
<1> SUFFICES ASSUME Init PROVE TypeOK
  OBVIOUS
<1>1. clientHistory \in Seq(ClientInput) /\ serverHistory \in Seq(ServerInput)
  BY DEF Init, ClientInput, ServerInput, Ids
<1>2. toServer \in Seq(ServerMessage)
  BY ServerMessages DEF Init
<1>3. nextId \in Ids /\ lastInputId \in Ids
  BY NextIdType DEF Init, Ids
<1>4. toClient \in Seq(ClientMessage) /\ sent \in Seq(SentInput)
  BY DEF Init
<1>5. simulationTick \in 0 .. SyncPeriod - 1 /\ frameTicks \in 0 .. MaxFrameTicks - 1
  BY DEF Init
<1>6. /\ joined \in BOOLEAN /\ greeted \in BOOLEAN /\ playerControls \in Controls
      /\ currentInputDelta \in Nat /\ lastInputDelta \in Nat /\ applied \in Nat
      /\ clientTicks \in Nat /\ serverTicks \in Nat
  BY DEF Init
<1> QED
  BY <1>1, <1>2, <1>3, <1>4, <1>5, <1>6 DEF TypeOK

\* The newest input is one of the client's history.
LEMMA NewestType ==
  ASSUME TypeOK, clientHistory # <<>>
  PROVE  /\ Len(clientHistory) \in 1 .. Len(clientHistory)
         /\ Newest \in ClientInput
         /\ Newest.state \in Controls /\ Newest.dur \in Nat
<1>1. clientHistory \in Seq(ClientInput)
  BY DEF TypeOK
<1>2. Len(clientHistory) \in 1 .. Len(clientHistory)
  BY <1>1, clientHistory # <<>>, EmptySeq
<1>3. Newest \in ClientInput
  BY <1>1, <1>2, ElementOfSeq DEF Newest
<1> QED
  BY <1>2, <1>3 DEF ClientInput

LEMMA ChangeControlsType ==
  ASSUME TypeOK, clientHistory # <<>>, NEW c \in Controls, ChangeControls(c)
  PROVE  /\ clientHistory' \in Seq(ClientInput)
         /\ nextId' \in Ids
         /\ sent' \in Seq(SentInput)
         /\ toServer' \in Seq(ServerMessage)
<1>1. Newest.dur \in Nat /\ clientTicks \in Nat /\ nextId \in Ids
  BY NewestType DEF TypeOK
<1>2. [id |-> nextId, state |-> c, dur |-> 1] \in ClientInput
  BY <1>1 DEF ClientInput
<1>3. [state |-> c, dur |-> Newest.dur, at |-> clientTicks] \in SentInput
  BY <1>1 DEF SentInput
<1>4. InputMessage(c, Newest.dur) \in ServerMessage
  BY <1>1, ServerMessages
<1>5. nextId' \in Ids
  BY <1>1, NextIdType DEF ChangeControls
<1>6. clientHistory' \in Seq(ClientInput)
  BY <1>2, AppendProperties DEF ChangeControls, TypeOK
<1>7. sent' \in Seq(SentInput)
  BY <1>3, AppendProperties DEF ChangeControls, TypeOK
<1>8. toServer' \in Seq(ServerMessage)
  BY <1>4, AppendProperties DEF ChangeControls, TypeOK
<1> QED
  BY <1>5, <1>6, <1>7, <1>8

\* KeepControls changes the duration of the newest input and nothing else.
LEMMA KeepControlsHistory ==
  ASSUME TypeOK, clientHistory # <<>>, NEW c \in Controls, KeepControls(c)
  PROVE  /\ clientHistory' \in Seq(ClientInput)
         /\ Len(clientHistory') = Len(clientHistory)
         /\ \A i \in 1 .. Len(clientHistory) :
              /\ clientHistory'[i].id = clientHistory[i].id
              /\ clientHistory'[i].state = clientHistory[i].state
         /\ clientHistory'[Len(clientHistory)].dur = Newest.dur + 1
<1> DEFINE last == Len(clientHistory)
           longer == [clientHistory[last] EXCEPT !.dur = @ + 1]
<1>1. clientHistory \in Seq(ClientInput) /\ last \in 1 .. Len(clientHistory)
  BY NewestType DEF TypeOK
<1>2. clientHistory[last] \in ClientInput
  BY NewestType DEF Newest
<1>3. /\ longer \in ClientInput
      /\ longer.id = clientHistory[last].id
      /\ longer.state = clientHistory[last].state
      /\ longer.dur = clientHistory[last].dur + 1
  BY <1>2 DEF ClientInput
<1>4. clientHistory' = [clientHistory EXCEPT ![last] = longer]
  BY DEF KeepControls
<1> HIDE DEF last, longer
<1>5. /\ clientHistory' \in Seq(ClientInput)
      /\ Len(clientHistory') = Len(clientHistory)
      /\ \A i \in 1 .. Len(clientHistory) :
           clientHistory'[i] = IF i = last THEN longer ELSE clientHistory[i]
  BY <1>1, <1>3, <1>4, ExceptSeq
<1> QED
  BY <1>1, <1>3, <1>5 DEF last, Newest

\* Receive keeps the part of the client's history from some place on.
LEMMA ReceiveSyncHistory ==
  ASSUME TypeOK, clientHistory # <<>>,
         NEW i \in 1 .. Len(clientHistory) + 1,
         clientHistory' = SubSeq(clientHistory, i, Len(clientHistory))
  PROVE  /\ clientHistory' \in Seq(ClientInput)
         /\ Len(clientHistory') = Len(clientHistory) - i + 1
         /\ \A j \in 1 .. Len(clientHistory') :
              clientHistory'[j] = clientHistory[i + j - 1]
<1>1. clientHistory \in Seq(ClientInput) /\ Len(clientHistory) \in Nat
  BY LenProperties DEF TypeOK
<1>2. \A j \in i .. Len(clientHistory) : clientHistory[j] \in ClientInput
  BY <1>1, ElementOfSeq
<1>3. i \in Int /\ Len(clientHistory) \in Int
  BY <1>1
<1>4. /\ clientHistory' \in Seq(ClientInput)
      /\ Len(clientHistory')
           = IF i <= Len(clientHistory) THEN Len(clientHistory) - i + 1 ELSE 0
      /\ \A j \in 1 .. Len(clientHistory) - i + 1 :
           clientHistory'[j] = clientHistory[i + j - 1]
  BY <1>2, <1>3, SubSeqProperties
<1> QED
  BY <1>1, <1>4

\* A receiver takes the first message and leaves the others in their order.
LEMMA Dequeue ==
  ASSUME NEW S, NEW q \in Seq(S), q # <<>>
  PROVE  /\ Head(q) \in S /\ Head(q) = q[1]
         /\ Len(q) \in Nat \ {0}
         /\ Tail(q) \in Seq(S)
         /\ Len(Tail(q)) = Len(q) - 1
         /\ \A i \in 1 .. Len(q) - 1 : Tail(q)[i] = q[i + 1]
  BY HeadTailProperties, EmptySeq

LEMMA SwitchMoveType ==
  ASSUME TypeOK, SwitchMove
  PROVE  /\ serverHistory' \in Seq(ServerInput)
         /\ currentInputDelta' \in Nat /\ lastInputDelta' \in Nat
         /\ lastInputId' \in Ids
         /\ playerControls' \in Controls
         /\ applied' \in Nat
<1>1. serverHistory \in Seq(ServerInput) /\ serverHistory # <<>>
  BY DEF TypeOK, SwitchMove
<1>2. serverHistory[2] \in ServerInput
  BY <1>1, ElementOfSeq, LenProperties DEF SwitchMove
<1>3. serverHistory[2].state \in Controls /\ serverHistory[2].dur \in Nat
  BY <1>2 DEF ServerInput
<1>4. serverHistory' \in Seq(ServerInput)
  BY <1>1, Dequeue DEF SwitchMove
<1>5. currentInputDelta' \in Nat /\ lastInputDelta' \in Nat
  BY <1>3 DEF SwitchMove, TypeOK
<1>6. lastInputId' \in Ids
  BY NextIdType DEF SwitchMove, TypeOK
<1> QED
  BY <1>3, <1>4, <1>5, <1>6 DEF SwitchMove, TypeOK

LEMMA KeepMoveType ==
  ASSUME TypeOK, KeepMove
  PROVE  /\ serverHistory' \in Seq(ServerInput)
         /\ currentInputDelta' \in Nat /\ lastInputDelta' \in Nat
         /\ lastInputId' \in Ids
         /\ playerControls' \in Controls
         /\ applied' \in Nat
  BY DEF KeepMove, TypeOK

\* A Sync is appended to the messages for the client, or nothing is.
LEMMA ServerSimulateToClient ==
  ASSUME TypeOK, NEW more \in BOOLEAN, ServerSimulate(more)
  PROVE  /\ toClient' \in Seq(ClientMessage)
         /\ \/ toClient' = toClient
            \/ /\ CurrentSync \in ClientMessage
               /\ toClient' = Append(toClient, CurrentSync)
<1>1. /\ lastInputId' \in Ids
      /\ currentInputDelta' \in Nat /\ lastInputDelta' \in Nat
  BY SwitchMoveType, KeepMoveType DEF ServerSimulate
<1>2. CurrentSync \in ClientMessage
  BY <1>1, ClientMessages DEF CurrentSync, TypeOK
<1>3. toClient \in Seq(ClientMessage)
  BY DEF TypeOK
<1>4. toClient' = toClient \/ toClient' = Append(toClient, CurrentSync)
  BY DEF ServerSimulate, PostSimulate
<1>5. Append(toClient, CurrentSync) \in Seq(ClientMessage)
  BY <1>2, <1>3, AppendProperties
<1> QED
  BY <1>2, <1>3, <1>4, <1>5

LEMMA TypeStep == TypeOK /\ [Next]_vars => TypeOK'
<1> SUFFICES ASSUME TypeOK, [Next]_vars
             PROVE  TypeOK'
  OBVIOUS
<1>1. ASSUME NEW c \in Controls, ClientSimulate(c) PROVE TypeOK'
  <2>1. clientHistory # <<>> /\ clientTicks' \in Nat
    BY <1>1 DEF ClientSimulate, TypeOK
  <2>2. CASE ChangeControls(c)
    BY <1>1, <2>1, <2>2, ChangeControlsType
       DEF ClientSimulate, TypeOK, serverVars
  <2>3. CASE KeepControls(c)
    <3>1. clientHistory' \in Seq(ClientInput)
      BY <2>1, <2>3, KeepControlsHistory
    <3> QED
      BY <1>1, <2>1, <2>3, <3>1
         DEF ClientSimulate, KeepControls, TypeOK, serverVars
  <2> QED
    BY <1>1, <2>2, <2>3 DEF ClientSimulate
<1>2. CASE ClientReceiveHello
  BY <1>2, Dequeue DEF ClientReceiveHello, TypeOK, serverVars
<1>3. CASE ClientReceiveSync
  <2>1. clientHistory' \in Seq(ClientInput)
    <3>1. CASE joined
      BY <1>3, <3>1, ReceiveSyncHistory DEF ClientReceiveSync, LowerBounds
    <3>2. CASE ~joined
      BY <1>3, <3>2 DEF ClientReceiveSync, TypeOK
    <3> QED
      BY <3>1, <3>2
  <2>2. toClient' \in Seq(ClientMessage)
    BY <1>3, Dequeue DEF ClientReceiveSync, TypeOK
  <2> QED
    BY <1>3, <2>1, <2>2 DEF ClientReceiveSync, TypeOK, serverVars
<1>4. CASE ServerReceive
  <2>1. /\ toServer' \in Seq(ServerMessage)
        /\ Head(toServer) \in ServerMessage
    BY <1>4, Dequeue DEF ServerReceive, TypeOK
  <2>2. CASE HandleHello
    <3>1. toClient' \in Seq(ClientMessage)
      BY <2>2, ClientMessages, AppendProperties DEF HandleHello, TypeOK
    <3> QED
      BY <1>4, <2>1, <2>2, <3>1
         DEF ServerReceive, HandleHello, TypeOK, clientVars
  <2>3. CASE HandleInput
    <3>1. [state |-> Head(toServer).state, dur |-> Head(toServer).dur]
            \in ServerInput
      BY <2>1, <2>3, ServerMessages DEF HandleInput, ServerInput
    <3>2. serverHistory' \in Seq(ServerInput)
      BY <2>3, <3>1, AppendProperties DEF HandleInput, TypeOK
    <3> QED
      BY <1>4, <2>1, <2>3, <3>2
         DEF ServerReceive, HandleInput, TypeOK, clientVars
  <2> QED
    BY <1>4, <2>2, <2>3 DEF ServerReceive
<1>5. ASSUME NEW more \in BOOLEAN, ServerSimulate(more) PROVE TypeOK'
  <2>1. toClient' \in Seq(ClientMessage)
    BY <1>5, ServerSimulateToClient
  <2>2. /\ serverHistory' \in Seq(ServerInput)
        /\ currentInputDelta' \in Nat /\ lastInputDelta' \in Nat
        /\ lastInputId' \in Ids
        /\ playerControls' \in Controls
        /\ applied' \in Nat
    BY <1>5, SwitchMoveType, KeepMoveType DEF ServerSimulate
  <2>3. simulationTick' \in 0 .. SyncPeriod - 1
    BY <1>5 DEF ServerSimulate, TypeOK
  <2>4. frameTicks' \in 0 .. MaxFrameTicks - 1
    BY <1>5 DEF ServerSimulate, TypeOK
  <2> QED
    BY <1>5, <2>1, <2>2, <2>3, <2>4 DEF ServerSimulate, TypeOK, clientVars
<1>6. CASE UNCHANGED vars
  BY <1>6 DEF vars, clientVars, serverVars, TypeOK
<1> QED
  BY <1>1, <1>2, <1>3, <1>4, <1>5, <1>6 DEF Next, ClientReceive

\* Every variable keeps to its range, whatever the bounds and the number of
\* ids: in particular UpdateMove never takes more time off the clock of the
\* input in force than has passed.
THEOREM TypeCorrect == Spec => []TypeOK
<1>1. Init => TypeOK
  BY TypeInit
<1>2. TypeOK /\ [Next]_vars => TypeOK'
  BY TypeStep
<1> QED
  BY <1>1, <1>2, PTL DEF Spec
-----------------------------------------------------------------------------
(***************************************************************************)
(* The greeting: who is in whose world, and what is in the queues.         *)
(***************************************************************************)
GreetingInv == TypeOK /\ Greeting /\ SyncCarriesPlayer

\* What the client may append to toServer is an Input.
LEMMA ClientSimulateToServer ==
  ASSUME TypeOK, NEW c \in Controls, ClientSimulate(c)
  PROVE  \/ toServer' = toServer
         \/ ChangeControls(c) /\ InputMessage(c, Newest.dur) \in ServerMessage
<1>1. CASE ChangeControls(c)
  BY <1>1, NewestType, ServerMessages DEF ClientSimulate
<1>2. CASE KeepControls(c)
  BY <1>2 DEF KeepControls
<1> QED
  BY <1>1, <1>2 DEF ClientSimulate

\* The Hello is read before the player is in the server's world, an Input
\* after.
LEMMA ReceiveWhen ==
  ASSUME TypeOK, Greeting, ServerReceive
  PROVE  /\ HandleHello => ~greeted /\ toServer = <<HelloMessage>>
         /\ HandleInput => greeted
<1>1. toServer # <<>> /\ toServer \in Seq(ServerMessage)
  BY DEF ServerReceive, TypeOK
<1>2. Head(toServer) = toServer[1] /\ Len(toServer) \in Nat \ {0}
  BY <1>1, Dequeue
<1>3. greeted => toServer[1].type = "Input"
  BY <1>2 DEF Greeting
<1>4. ~greeted => toServer = <<HelloMessage>> /\ toServer[1] = HelloMessage
  BY DEF Greeting
<1> QED
  BY <1>2, <1>3, <1>4, ServerMessages DEF HandleHello, HandleInput

LEMMA GreetingStep ==
  ASSUME GreetingInv, [Next]_vars
  PROVE  Greeting' /\ SyncCarriesPlayer'
<1> USE DEF GreetingInv
<1>0. /\ toServer \in Seq(ServerMessage) /\ toClient \in Seq(ClientMessage)
      /\ Len(toServer) \in Nat /\ Len(toClient) \in Nat
      /\ joined \in BOOLEAN /\ greeted \in BOOLEAN
  BY LenProperties DEF TypeOK
<1>1. ASSUME NEW c \in Controls, ClientSimulate(c)
      PROVE  Greeting' /\ SyncCarriesPlayer'
  <2>1. /\ greeted /\ greeted' = greeted
        /\ joined' = joined /\ toClient' = toClient
    BY <1>1 DEF ClientSimulate, Greeting, serverVars
  <2>2. \A i \in 1 .. Len(toServer') : toServer'[i].type = "Input"
    <3>1. CASE toServer' = toServer
      BY <2>1, <3>1 DEF Greeting
    <3>2. CASE /\ ChangeControls(c)
               /\ InputMessage(c, Newest.dur) \in ServerMessage
      <4>1. InputMessage(c, Newest.dur).type = "Input"
        BY DEF InputMessage
      <4> QED
        BY <1>0, <2>1, <3>2, <4>1, AppendProperties
           DEF ChangeControls, Greeting
    <3> QED
      BY <1>1, <3>1, <3>2, ClientSimulateToServer
  <2> QED
    BY <2>1, <2>2 DEF Greeting, SyncCarriesPlayer
<1>2. CASE ClientReceiveHello
  <2>1. /\ toClient # <<>> /\ toClient[1] = HelloMessage
        /\ Len(toClient') = Len(toClient) - 1
        /\ \A i \in 1 .. Len(toClient) - 1 : toClient'[i] = toClient[i + 1]
        /\ toServer' = toServer /\ greeted' = greeted
    BY <1>0, <1>2, Dequeue DEF ClientReceiveHello, serverVars
  <2>2. greeted
    BY <1>0, <2>1, EmptySeq, ClientMessages DEF Greeting
  <2>3. Greeting'
    BY <2>1, <2>2 DEF Greeting
  <2>4. SyncCarriesPlayer'
    BY <1>0, <2>1 DEF SyncCarriesPlayer
  <2> QED
    BY <2>3, <2>4
<1>3. CASE ClientReceiveSync
  <2>1. /\ Len(toClient') = Len(toClient) - 1
        /\ \A i \in 1 .. Len(toClient) - 1 : toClient'[i] = toClient[i + 1]
        /\ UNCHANGED <<toServer, greeted, joined, sent>>
    BY <1>0, <1>3, Dequeue DEF ClientReceiveSync, serverVars
  <2>2. Greeting'
    BY <1>0, <2>1 DEF Greeting
  <2>3. SyncCarriesPlayer'
    <3> SUFFICES ASSUME NEW i \in 1 .. Len(toClient'),
                        toClient'[i].type = "Sync",
                        joined \/ \E j \in 1 .. i - 1 :
                                    toClient'[j] = HelloMessage
                 PROVE  toClient'[i].player
      BY <2>1 DEF SyncCarriesPlayer
    <3>1. i + 1 \in 1 .. Len(toClient) /\ toClient'[i] = toClient[i + 1]
      BY <1>0, <2>1
    <3>2. \A j \in 1 .. i - 1 :
            /\ j + 1 \in 1 .. (i + 1) - 1
            /\ toClient'[j] = toClient[j + 1]
      BY <1>0, <2>1
    <3> QED
      BY <3>1, <3>2 DEF SyncCarriesPlayer
  <2> QED
    BY <2>2, <2>3
<1>4. CASE ServerReceive
  <2>1. /\ toServer # <<>> /\ toServer' = Tail(toServer)
        /\ joined' = joined /\ sent' = sent
        /\ Len(toServer') = Len(toServer) - 1
        /\ \A i \in 1 .. Len(toServer) - 1 : toServer'[i] = toServer[i + 1]
    BY <1>0, <1>4, Dequeue DEF ServerReceive, clientVars
  <2>2. CASE HandleHello
    <3>1. greeted' /\ toServer = <<HelloMessage>> /\ ~greeted
      BY <1>4, <2>2, ReceiveWhen DEF HandleHello
    <3>2. Len(toServer') = 0
      BY <2>1, <3>1
    <3>3. /\ Len(toClient') = Len(toClient) + 1
          /\ \A i \in 1 .. Len(toClient) : toClient'[i] = toClient[i]
          /\ toClient'[Len(toClient) + 1] = HelloMessage
      BY <1>0, <2>2, ClientMessages, AppendProperties DEF HandleHello
    <3>4. Greeting'
      BY <3>1, <3>2 DEF Greeting
    <3>5. SyncCarriesPlayer'
      BY <1>0, <2>1, <3>3, ClientMessages DEF SyncCarriesPlayer
    <3> QED
      BY <3>4, <3>5
  <2>3. CASE HandleInput
    <3>1. greeted /\ greeted' = greeted /\ toClient' = toClient
      BY <1>4, <2>3, ReceiveWhen DEF HandleInput
    <3> QED
      BY <1>0, <2>1, <3>1 DEF Greeting, SyncCarriesPlayer
  <2> QED
    BY <1>4, <2>2, <2>3 DEF ServerReceive
<1>5. ASSUME NEW more \in BOOLEAN, ServerSimulate(more)
      PROVE  Greeting' /\ SyncCarriesPlayer'
  <2>1. UNCHANGED <<joined, greeted, toServer, sent>>
    BY <1>5 DEF ServerSimulate, clientVars
  <2>2. CASE toClient' = toClient
    BY <2>1, <2>2 DEF Greeting, SyncCarriesPlayer
  <2>3. CASE /\ CurrentSync \in ClientMessage
             /\ toClient' = Append(toClient, CurrentSync)
    <3>1. CurrentSync.type = "Sync" /\ CurrentSync.player = greeted
      BY DEF CurrentSync, SyncMessage
    <3>2. /\ Len(toClient') = Len(toClient) + 1
          /\ \A i \in 1 .. Len(toClient) : toClient'[i] = toClient[i]
          /\ toClient'[Len(toClient) + 1] = CurrentSync
      BY <1>0, <2>3, AppendProperties
    <3>3. Greeting'
      BY <1>0, <2>1, <3>1, <3>2 DEF Greeting
    <3>4. SyncCarriesPlayer'
      <4>1. ~greeted => \A i \in 1 .. Len(toClient) : toClient[i] # HelloMessage
        BY ClientMessages DEF Greeting
      <4> QED
        BY <1>0, <2>1, <3>1, <3>2, <4>1 DEF SyncCarriesPlayer, Greeting
    <3> QED
      BY <3>3, <3>4
  <2> QED
    BY <1>5, <2>2, <2>3, ServerSimulateToClient
<1>6. CASE UNCHANGED vars
  BY <1>6 DEF vars, clientVars, serverVars, Greeting, SyncCarriesPlayer
<1> QED
  BY <1>1, <1>2, <1>3, <1>4, <1>5, <1>6 DEF Next, ClientReceive

LEMMA GreetingInit == Init => Greeting /\ SyncCarriesPlayer
<1> SUFFICES ASSUME Init PROVE Greeting /\ SyncCarriesPlayer
  OBVIOUS
<1>1. toClient = <<>> /\ Len(toClient) = 0
  BY DEF Init
<1> QED
  BY <1>1 DEF Init, Greeting, SyncCarriesPlayer

\* However Syncs and the Hello are interleaved, a client that has its player
\* finds it in every Sync it gets: Handle(Sync) may look it up with at().
THEOREM SyncAlwaysCarriesPlayer == Spec => []SyncCarriesPlayer
<1>1. Init => GreetingInv
  BY TypeInit, GreetingInit DEF GreetingInv
<1>2. GreetingInv /\ [Next]_vars => GreetingInv'
  BY TypeStep, GreetingStep DEF GreetingInv
<1>3. GreetingInv => SyncCarriesPlayer
  BY DEF GreetingInv
<1> QED
  BY <1>1, <1>2, <1>3, PTL DEF Spec
-----------------------------------------------------------------------------
(***************************************************************************)
(* The inputs: where each of them is, and at what time.                    *)
(***************************************************************************)
Inputs ==
  /\ HistoryNeverEmpty
  /\ EveryInputSomewhere
  /\ IdsCount
  /\ AcksInOrder
  /\ InputsInOrder
  /\ ClientTimeline
  /\ ServerTimeline
  /\ ControlsFollow

LEMMA Lengths ==
  ASSUME IInv
  PROVE  /\ Len(clientHistory) \in Nat \ {0}
         /\ Len(serverHistory) \in Nat \ {0}
         /\ Waiting \in Nat
         /\ Len(sent) \in Nat /\ Len(toServer) \in Nat /\ Len(toClient) \in Nat
         /\ applied \in Nat /\ applied + Waiting <= Len(sent)
         /\ greeted => Len(sent) = applied + Waiting + Len(toServer)
         /\ \A i \in 1 .. Len(sent) : sent[i].at \in Nat /\ sent[i].dur \in Nat
<1>1. /\ Len(clientHistory) \in Nat \ {0} /\ Len(serverHistory) \in Nat \ {0}
      /\ Len(sent) \in Nat /\ Len(toServer) \in Nat /\ Len(toClient) \in Nat
  BY EmptySeq, LenProperties DEF IInv, TypeOK, HistoryNeverEmpty
<1>2. \A i \in 1 .. Len(sent) : sent[i].at \in Nat /\ sent[i].dur \in Nat
  <2>1. sent \in Seq(SentInput)
    BY DEF IInv, TypeOK
  <2>2. \A i \in 1 .. Len(sent) : sent[i] \in SentInput
    BY <2>1, ElementOfSeq
  <2> QED
    BY <2>2 DEF SentInput
<1>3. greeted \in BOOLEAN /\ applied \in Nat
  BY DEF IInv, TypeOK
<1>4. Waiting \in Nat
  BY <1>1 DEF Waiting
<1>5. Len(sent) = applied + Waiting + IF greeted THEN Len(toServer) ELSE 0
  BY DEF IInv, EveryInputSomewhere
<1>6. CASE greeted
  BY <1>1, <1>2, <1>3, <1>4, <1>5, <1>6
<1>7. CASE ~greeted
  BY <1>1, <1>2, <1>3, <1>4, <1>5, <1>7
<1> QED
  BY <1>6, <1>7

LEMMA FirstIdType == ASSUME IInv PROVE clientHistory[1].id \in Nat
<1>1. clientHistory \in Seq(ClientInput) /\ 1 \in 1 .. Len(clientHistory)
  BY Lengths DEF IInv, TypeOK
<1>2. clientHistory[1] \in ClientInput
  BY <1>1, ElementOfSeq
<1> QED
  BY <1>2 DEF ClientInput, Ids

LEMMA ChangeControlsStep ==
  ASSUME NoWrap, IInv, NEW c \in Controls, ClientSimulate(c), ChangeControls(c)
  PROVE  Inputs'
<1> DEFINE n == Len(sent)
           L == Len(clientHistory)
<1>1. /\ n \in Nat /\ L \in Nat \ {0} /\ n + 1 < IdModulus
      /\ n + 1 <= MaxInputs
  BY Lengths DEF NoWrap, ChangeControls
<1>2. greeted /\ TypeOK /\ clientHistory # <<>>
  BY DEF ClientSimulate, IInv, Greeting, TypeOK
<1>3. nextId = n + 1
  BY <1>1 DEF IInv, IdsCount, NextId
<1>4. /\ Newest.dur \in Nat /\ clientTicks \in Nat
      /\ Newest = clientHistory[L]
  BY <1>2, NewestType DEF TypeOK, Newest
<1>5. /\ Len(sent') = n + 1
      /\ \A i \in 1 .. n : sent'[i] = sent[i]
      /\ sent'[n + 1].state = c
      /\ sent'[n + 1].dur = Newest.dur
      /\ sent'[n + 1].at = clientTicks
  <2>1. [state |-> c, dur |-> Newest.dur, at |-> clientTicks] \in SentInput
    BY <1>4 DEF SentInput
  <2> QED
    BY <1>2, <2>1, AppendProperties DEF ChangeControls, TypeOK
<1>6. /\ Len(clientHistory') = L + 1
      /\ \A i \in 1 .. L : clientHistory'[i] = clientHistory[i]
      /\ clientHistory'[L + 1].id = n + 1
      /\ clientHistory'[L + 1].state = c
      /\ clientHistory'[L + 1].dur = 1
      /\ clientHistory' # <<>>
  <2>1. [id |-> nextId, state |-> c, dur |-> 1] \in ClientInput
    BY <1>2 DEF ClientInput, TypeOK
  <2> QED
    BY <1>2, <1>3, <2>1, AppendProperties DEF ChangeControls, TypeOK
<1>7. /\ Len(toServer') = Len(toServer) + 1
      /\ \A i \in 1 .. Len(toServer) : toServer'[i] = toServer[i]
      /\ toServer'[Len(toServer) + 1].state = c
      /\ toServer'[Len(toServer) + 1].dur = Newest.dur
  BY <1>2, <1>4, ServerMessages, AppendProperties DEF ChangeControls, TypeOK
<1>8. /\ UNCHANGED <<toClient, greeted, serverHistory, applied, lastInputId,
                     currentInputDelta, playerControls, serverTicks>>
      /\ clientTicks' = clientTicks + 1
      /\ Waiting' = Waiting
  BY DEF ClientSimulate, serverVars, Waiting
<1>9. /\ Waiting \in Nat /\ Len(serverHistory) = Waiting + 1
      /\ applied \in Nat /\ Len(toServer) \in Nat
      /\ n = applied + Waiting + Len(toServer)
  BY <1>2, Lengths DEF Waiting
<1> HIDE DEF n, L
<1>10. HistoryNeverEmpty'
  BY <1>6, <1>8 DEF IInv, HistoryNeverEmpty
<1>11. EveryInputSomewhere'
  BY <1>2, <1>5, <1>7, <1>8, <1>9 DEF EveryInputSomewhere
<1>12. IdsCount'
  <2>1. nextId' = NextId(Len(sent'))
    BY <1>3, <1>5 DEF ChangeControls
  <2>2. \A i \in 1 .. L : clientHistory[i].id = n - L + i
    BY DEF IInv, IdsCount, n, L
  <2>3. lastInputId' = applied'
    BY <1>8 DEF IInv, IdsCount
  <2> QED
    BY <1>1, <1>5, <1>6, <2>1, <2>2, <2>3 DEF IdsCount
<1>13. AcksInOrder'
  BY <1>1, <1>6, <1>8 DEF IInv, AcksInOrder
<1>14. InputsInOrder'
  <2>1. \A i \in 2 .. Len(serverHistory) : applied + i - 1 \in 1 .. n
    BY <1>9
  <2>2. \A i \in 1 .. Len(toServer) : applied + Waiting + i \in 1 .. n
    BY <1>9
  <2>3. applied + Waiting + (Len(toServer) + 1) = n + 1
    BY <1>9
  <2>4. InputsInOrder
    BY DEF IInv
  <2>5. \A i \in 2 .. Len(serverHistory') :
          /\ serverHistory'[i].state = sent'[applied' + i - 1].state
          /\ serverHistory'[i].dur = sent'[applied' + i - 1].dur
    BY <1>5, <1>8, <2>1, <2>4 DEF InputsInOrder
  <2>6. \A i \in 1 .. Len(toServer) + 1 :
          /\ toServer'[i].state = sent'[applied + Waiting + i].state
          /\ toServer'[i].dur = sent'[applied + Waiting + i].dur
    <3>1. \A i \in 1 .. Len(toServer) :
            /\ toServer'[i].state = sent'[applied + Waiting + i].state
            /\ toServer'[i].dur = sent'[applied + Waiting + i].dur
      BY <1>2, <1>5, <1>7, <2>2, <2>4 DEF InputsInOrder
    <3>2. \A i \in 1 .. Len(toServer) + 1 :
            i \in 1 .. Len(toServer) \/ i = Len(toServer) + 1
      BY <1>9
    <3> QED
      BY <1>5, <1>7, <2>3, <3>1, <3>2
  <2> QED
    BY <1>7, <1>8, <2>5, <2>6 DEF InputsInOrder
<1>15. \A k \in 0 .. n : /\ TimeAfter(sent', k) = TimeAfter(sent, k)
                         /\ StateAfter(sent', k) = StateAfter(sent, k)
  BY <1>1, <1>5 DEF TimeAfter, StateAfter
<1>16. ClientTimeline'
  <2>1. clientTicks = TimeAfter(sent, n) + Newest.dur
    BY DEF IInv, ClientTimeline, n
  <2>2. TimeAfter(sent', n + 1) = clientTicks
    BY <1>1, <1>5 DEF TimeAfter
  <2>3. \A k \in 1 .. n :
          TimeAfter(sent', k) = TimeAfter(sent', k - 1) + sent'[k].dur
    BY <1>1, <1>5, <1>15 DEF IInv, ClientTimeline, n
  <2>4. TimeAfter(sent', n + 1) = TimeAfter(sent', n) + sent'[n + 1].dur
    BY <1>1, <1>5, <1>15, <2>1, <2>2
  <2>5. (Newest').dur = 1
    BY <1>1, <1>6 DEF Newest
  <2>6. clientTicks' = TimeAfter(sent', n + 1) + (Newest').dur
    BY <1>8, <2>2, <2>5
  <2> QED
    BY <1>1, <1>5, <2>3, <2>4, <2>6 DEF ClientTimeline
<1>17. ServerTimeline'
  BY <1>8, <1>9, <1>15 DEF IInv, ServerTimeline
<1>18. ControlsFollow'
  <2>1. (Newest').state = StateAfter(sent', n + 1)
    BY <1>1, <1>5, <1>6 DEF Newest, StateAfter
  <2>2. StateAfter(sent', applied) = StateAfter(sent, applied)
    BY <1>9, <1>15
  <2> QED
    BY <1>5, <1>8, <2>1, <2>2 DEF IInv, ControlsFollow
<1> QED
  BY <1>10, <1>11, <1>12, <1>13, <1>14, <1>16, <1>17, <1>18 DEF Inputs

LEMMA KeepControlsStep ==
  ASSUME IInv, NEW c \in Controls, ClientSimulate(c), KeepControls(c)
  PROVE  Inputs'
<1>1. /\ Len(clientHistory') = Len(clientHistory)
      /\ \A i \in 1 .. Len(clientHistory) :
           /\ clientHistory'[i].id = clientHistory[i].id
           /\ clientHistory'[i].state = clientHistory[i].state
      /\ clientHistory'[Len(clientHistory)].dur = Newest.dur + 1
  BY KeepControlsHistory DEF ClientSimulate, IInv
<1>2. /\ Len(clientHistory) \in Nat \ {0} /\ clientTicks \in Nat
      /\ Newest.dur \in Nat /\ TimeAfter(sent, Len(sent)) \in Nat
  BY Lengths, NewestType DEF ClientSimulate, IInv, TypeOK, TimeAfter
<1>3. /\ UNCHANGED <<nextId, sent, toServer, toClient, greeted, serverHistory,
                     applied, lastInputId, currentInputDelta, playerControls,
                     serverTicks>>
      /\ clientTicks' = clientTicks + 1
      /\ Waiting' = Waiting
  BY DEF ClientSimulate, KeepControls, serverVars, Waiting
<1>4. HistoryNeverEmpty'
  BY <1>1, <1>2, <1>3 DEF IInv, HistoryNeverEmpty
<1>5. EveryInputSomewhere' /\ InputsInOrder' /\ ServerTimeline'
  BY <1>3 DEF IInv, EveryInputSomewhere, InputsInOrder, ServerTimeline
<1>6. IdsCount'
  BY <1>1, <1>2, <1>3 DEF IInv, IdsCount
<1>7. AcksInOrder'
  BY <1>1, <1>2, <1>3 DEF IInv, AcksInOrder
<1>8. (Newest').dur = Newest.dur + 1 /\ (Newest').state = Newest.state
  BY <1>1, <1>2 DEF Newest
<1>9. ClientTimeline'
  BY <1>2, <1>3, <1>8 DEF IInv, ClientTimeline
<1>10. ControlsFollow'
  BY <1>3, <1>8 DEF IInv, ControlsFollow
<1> QED
  BY <1>4, <1>5, <1>6, <1>7, <1>9, <1>10 DEF Inputs

LEMMA ReceiveHelloStep ==
  ASSUME IInv, ClientReceiveHello
  PROVE  Inputs'
<1>1. /\ Len(toClient') = Len(toClient) - 1
      /\ Len(toClient) \in Nat
      /\ \A i \in 1 .. Len(toClient) - 1 : toClient'[i] = toClient[i + 1]
  BY Dequeue DEF ClientReceiveHello, IInv, TypeOK
<1>2. AcksInOrder'
  BY <1>1 DEF IInv, AcksInOrder, ClientReceiveHello, serverVars
<1> QED
  BY <1>2
     DEF Inputs, IInv, ClientReceiveHello, serverVars, HistoryNeverEmpty,
         EveryInputSomewhere, IdsCount, InputsInOrder, ClientTimeline,
         ServerTimeline, ControlsFollow, Newest, Waiting

\* The acknowledgements name inputs of the client's history, so lower_bound
\* finds them.
LEMMA AckFound ==
  ASSUME IInv, NEW i \in 1 .. Len(toClient), toClient[i].type = "Sync"
  PROVE  \E j \in 1 .. Len(clientHistory) : clientHistory[j].id = toClient[i].ack
<1> DEFINE n == Len(sent)
           L == Len(clientHistory)
           j == toClient[i].ack - n + L
<1>1. L \in Nat \ {0} /\ n \in Nat /\ applied \in Nat /\ applied <= n
  BY Lengths
<1>2. toClient[i] \in ClientMessage
  BY ElementOfSeq DEF IInv, TypeOK
<1>3. toClient[i].ack \in Nat
  BY <1>2, ClientMessages DEF Ids
<1>4. \A k \in 1 .. L : clientHistory[k].id = n - L + k
  BY DEF IInv, IdsCount
<1>5. clientHistory[1].id <= toClient[i].ack /\ toClient[i].ack <= applied
  BY DEF IInv, AcksInOrder
<1> HIDE DEF n, L
<1>6. j \in 1 .. L
  BY <1>1, <1>3, <1>4, <1>5
<1>7. clientHistory[j].id = toClient[i].ack
  BY <1>1, <1>3, <1>4, <1>6
<1> QED
  BY <1>6, <1>7 DEF L

\* Taking a message from toClient leaves the acknowledgements in order if the
\* history does not begin after those that remain.
LEMMA AcksAfterReceive ==
  ASSUME IInv,
         Len(toClient) \in Nat \ {0},
         Len(toClient') = Len(toClient) - 1,
         \A i \in 1 .. Len(toClient) - 1 : toClient'[i] = toClient[i + 1],
         applied' = applied,
         clientHistory'[1].id <= applied,
         \A k \in 2 .. Len(toClient) :
           toClient[k].type = "Sync" =>
             clientHistory'[1].id <= toClient[k].ack
  PROVE  AcksInOrder'
<1> SUFFICES ASSUME NEW k \in 1 .. Len(toClient'),
                    toClient'[k].type = "Sync"
             PROVE  /\ clientHistory'[1].id <= toClient'[k].ack
                    /\ toClient'[k].ack <= applied'
                    /\ \A m \in 1 .. k - 1 :
                         toClient'[m].type = "Sync" =>
                           toClient'[m].ack <= toClient'[k].ack
  BY DEF AcksInOrder
<1>1. /\ toClient'[k] = toClient[k + 1]
      /\ k + 1 \in 2 .. Len(toClient) /\ k + 1 \in 1 .. Len(toClient)
  OBVIOUS
<1>2. toClient'[k].ack <= applied'
  BY <1>1 DEF IInv, AcksInOrder
<1>3. ASSUME NEW m \in 1 .. k - 1, toClient'[m].type = "Sync"
      PROVE  toClient'[m].ack <= toClient'[k].ack
  <2>1. k \in Nat /\ k <= Len(toClient) - 1
    OBVIOUS
  <2>2. m + 1 \in 1 .. (k + 1) - 1 /\ m \in 1 .. Len(toClient) - 1
    BY <2>1
  <2>3. toClient'[m] = toClient[m + 1]
    BY <2>2
  <2> QED
    BY <1>1, <1>3, <2>2, <2>3 DEF IInv, AcksInOrder
<1> QED
  BY <1>1, <1>2, <1>3

LEMMA ReceiveSyncStep ==
  ASSUME IInv, ClientReceiveSync
  PROVE  Inputs'
<1>1. /\ Len(toClient') = Len(toClient) - 1
      /\ Len(toClient) \in Nat \ {0} /\ toClient[1] = Head(toClient)
      /\ \A i \in 1 .. Len(toClient) - 1 : toClient'[i] = toClient[i + 1]
  BY Dequeue DEF ClientReceiveSync, IInv, TypeOK
<1>2. UNCHANGED <<nextId, sent, clientTicks, toServer, greeted, serverHistory,
                  applied, lastInputId, currentInputDelta, playerControls,
                  serverTicks>>
  BY DEF ClientReceiveSync, serverVars
<1>3. EveryInputSomewhere' /\ InputsInOrder' /\ ServerTimeline'
  BY <1>2 DEF IInv, EveryInputSomewhere, InputsInOrder, ServerTimeline, Waiting
<1>4. CASE ~joined
  <2>1. clientHistory' = clientHistory
    BY <1>4 DEF ClientReceiveSync
  <2>2. /\ clientHistory[1].id <= applied
        /\ \A k \in 2 .. Len(toClient) :
             toClient[k].type = "Sync" => clientHistory[1].id <= toClient[k].ack
    BY <1>1 DEF IInv, AcksInOrder
  <2>3. AcksInOrder'
    BY <1>1, <1>2, <2>1, <2>2, AcksAfterReceive
  <2> QED
    BY <1>2, <1>3, <2>1, <2>3
       DEF Inputs, IInv, HistoryNeverEmpty, IdsCount, ClientTimeline,
           ControlsFollow, Newest
<1>5. CASE joined
  <2> DEFINE n == Len(sent)
             L == Len(clientHistory)
             ack == toClient[1].ack
  <2>1. PICK i \in LowerBounds(clientHistory, ack) :
               clientHistory' = SubSeq(clientHistory, i, Len(clientHistory))
    BY <1>1, <1>5 DEF ClientReceiveSync
  <2>2. /\ i \in 1 .. L + 1
        /\ i > 1 => clientHistory[i - 1].id < ack
        /\ i <= L => clientHistory[i].id >= ack
    BY DEF LowerBounds
  <2>3. PICK j \in 1 .. L : clientHistory[j].id = ack
    BY <1>1, AckFound DEF ClientReceiveSync
  <2>4. \A k \in 1 .. L : clientHistory[k].id = n - L + k
    BY DEF IInv, IdsCount
  <2>5. L \in Nat \ {0} /\ n \in Nat
    BY Lengths
  <2>6. /\ Len(clientHistory') = L - i + 1
        /\ \A k \in 1 .. Len(clientHistory') :
             clientHistory'[k] = clientHistory[i + k - 1]
    BY <2>1, <2>2, ReceiveSyncHistory DEF ClientReceiveSync, IInv
  <2> HIDE DEF n, L
  <2>7. i = j
    BY <2>2, <2>3, <2>4, <2>5
  <2>8. /\ i \in 1 .. L /\ clientHistory'[1].id = ack
        /\ Len(clientHistory') \in Nat \ {0}
        /\ clientHistory'[Len(clientHistory')] = clientHistory[L]
    BY <2>3, <2>5, <2>6, <2>7
  <2>9. HistoryNeverEmpty'
    BY <1>2, <2>8 DEF IInv, HistoryNeverEmpty
  <2>10. IdsCount'
    <3>1. \A k \in 1 .. Len(clientHistory') :
            clientHistory'[k].id = n - Len(clientHistory') + k
      <4> SUFFICES ASSUME NEW k \in 1 .. Len(clientHistory')
                   PROVE  clientHistory'[k].id = n - Len(clientHistory') + k
        OBVIOUS
      <4>1. i + k - 1 \in 1 .. L
        BY <2>5, <2>6, <2>8
      <4>2. clientHistory'[k].id = n - L + (i + k - 1)
        BY <2>4, <2>6, <4>1
      <4>3. k \in Int /\ i \in Int /\ Len(clientHistory') = L - i + 1
        BY <2>6, <2>8
      <4> QED
        BY <2>5, <4>2, <4>3
    <3> QED
      BY <1>2, <3>1 DEF IInv, IdsCount, n
  <2>11. AcksInOrder'
    <3>1. 1 \in 1 .. Len(toClient) /\ toClient[1].type = "Sync"
      BY <1>1 DEF ClientReceiveSync
    <3>2. ack <= applied
      BY <3>1 DEF IInv, AcksInOrder
    <3>3. \A k \in 2 .. Len(toClient) :
            toClient[k].type = "Sync" => ack <= toClient[k].ack
      BY <1>1, <3>1 DEF IInv, AcksInOrder
    <3> QED
      BY <1>1, <1>2, <2>8, <3>2, <3>3, AcksAfterReceive
  <2>12. Newest' = Newest
    BY <2>8 DEF Newest, L
  <2>13. ClientTimeline' /\ ControlsFollow'
    BY <1>2, <2>12 DEF IInv, ClientTimeline, ControlsFollow
  <2> QED
    BY <1>3, <2>9, <2>10, <2>11, <2>13 DEF Inputs
<1> QED
  BY <1>4, <1>5

\* Appending a message to toClient leaves the acknowledgements in order if it
\* is no Sync, or acknowledges all that is applied.
LEMMA AcksAfterSend ==
  ASSUME IInv, NEW m \in ClientMessage,
         toClient' = Append(toClient, m),
         m.type = "Sync" => m.ack = applied',
         applied' \in Nat, applied <= applied',
         clientHistory' = clientHistory
  PROVE  AcksInOrder'
<1>1. /\ Len(toClient) \in Nat /\ Len(toClient') = Len(toClient) + 1
      /\ \A i \in 1 .. Len(toClient) : toClient'[i] = toClient[i]
      /\ toClient'[Len(toClient) + 1] = m
  BY AppendProperties, LenProperties DEF IInv, TypeOK
<1>2. /\ applied \in Nat /\ clientHistory[1].id \in Nat
      /\ clientHistory[1].id <= applied
  BY FirstIdType, Lengths DEF IInv, AcksInOrder
<1>3. \A i \in 1 .. Len(toClient) : toClient[i].type = "Sync" =>
        /\ toClient[i].ack \in Nat
        /\ clientHistory[1].id <= toClient[i].ack
        /\ toClient[i].ack <= applied
        /\ \A j \in 1 .. i - 1 :
             toClient[j].type = "Sync" => toClient[j].ack <= toClient[i].ack
  <2>1. \A i \in 1 .. Len(toClient) : toClient[i] \in ClientMessage
    BY ElementOfSeq DEF IInv, TypeOK
  <2>2. \A i \in 1 .. Len(toClient) :
          toClient[i].type = "Sync" => toClient[i].ack \in Nat
    BY <2>1, ClientMessages DEF Ids
  <2> QED
    BY <2>2 DEF IInv, AcksInOrder
<1> SUFFICES ASSUME NEW i \in 1 .. Len(toClient'), toClient'[i].type = "Sync"
             PROVE  /\ clientHistory[1].id <= toClient'[i].ack
                    /\ toClient'[i].ack <= applied'
                    /\ \A j \in 1 .. i - 1 :
                         toClient'[j].type = "Sync" =>
                           toClient'[j].ack <= toClient'[i].ack
  BY <1>2 DEF AcksInOrder
<1>4. CASE i \in 1 .. Len(toClient)
  <2>1. \A j \in 1 .. i - 1 : j \in 1 .. Len(toClient)
    BY <1>1, <1>4
  <2> QED
    BY <1>1, <1>2, <1>3, <1>4, <2>1
<1>5. CASE i = Len(toClient) + 1
  <2>1. \A j \in 1 .. i - 1 : j \in 1 .. Len(toClient)
    BY <1>1, <1>5
  <2>2. toClient'[i].ack = applied'
    BY <1>1, <1>5
  <2> QED
    BY <1>1, <1>2, <1>3, <2>1, <2>2
<1> QED
  BY <1>1, <1>4, <1>5

LEMMA HandleHelloStep ==
  ASSUME IInv, ServerReceive, HandleHello
  PROVE  Inputs'
<1>1. ~greeted /\ toServer = <<HelloMessage>> /\ sent = <<>>
  BY ReceiveWhen DEF IInv, Greeting
<1>2. /\ applied = 0 /\ Waiting = 0 /\ Len(serverHistory) = 1 /\ Len(sent) = 0
  <2>1. Len(sent) = 0 /\ Len(sent) = applied + Waiting
    BY <1>1, Lengths DEF IInv, EveryInputSomewhere
  <2>2. applied \in Nat /\ Waiting \in Nat /\ Len(serverHistory) \in Nat \ {0}
    BY Lengths
  <2>3. applied = 0 /\ Waiting = 0
    BY <2>1, <2>2
  <2> QED
    BY <2>1, <2>2, <2>3 DEF Waiting
<1>3. /\ UNCHANGED <<clientHistory, nextId, sent, clientTicks, serverHistory,
                     applied, lastInputId, currentInputDelta, serverTicks>>
      /\ greeted' /\ playerControls' = NoControls
      /\ toServer' = Tail(toServer) /\ toClient' = Append(toClient, HelloMessage)
      /\ Waiting' = Waiting
  BY DEF ServerReceive, HandleHello, clientVars, Waiting
<1>4. Len(toServer') = 0
  BY <1>1, <1>3
<1>5. HistoryNeverEmpty' /\ IdsCount' /\ ClientTimeline' /\ ServerTimeline'
  BY <1>3 DEF IInv, HistoryNeverEmpty, IdsCount, ClientTimeline, Newest,
              ServerTimeline
<1>6. EveryInputSomewhere' /\ InputsInOrder'
  <2>1. Len(serverHistory') = 1 /\ Len(sent') = 0 /\ applied' = 0 /\ Waiting' = 0
    BY <1>2, <1>3
  <2>2. 2 .. Len(serverHistory') = {} /\ 1 .. Len(toServer') = {}
    BY <1>4, <2>1
  <2>3. EveryInputSomewhere'
    BY <1>3, <1>4, <2>1 DEF EveryInputSomewhere
  <2>4. InputsInOrder'
    BY <2>2 DEF InputsInOrder
  <2> QED
    BY <2>3, <2>4
<1>7. AcksInOrder'
  <2>1. applied' \in Nat /\ applied <= applied'
    BY <1>2, <1>3
  <2> QED
    BY <1>3, <2>1, ClientMessages, AcksAfterSend
<1>8. ControlsFollow'
  BY <1>2, <1>3 DEF IInv, ControlsFollow, Newest, StateAfter
<1> QED
  BY <1>5, <1>6, <1>7, <1>8 DEF Inputs

LEMMA HandleInputStep ==
  ASSUME IInv, ServerReceive, HandleInput
  PROVE  Inputs'
<1>1. /\ greeted /\ greeted' = greeted
      /\ UNCHANGED <<clientHistory, nextId, sent, clientTicks, applied, toClient,
                     lastInputId, currentInputDelta, serverTicks, playerControls>>
  BY ReceiveWhen DEF IInv, ServerReceive, HandleInput, clientVars
<1>2. /\ Len(toServer) \in Nat \ {0} /\ Head(toServer) = toServer[1]
      /\ Head(toServer) \in ServerMessage
      /\ Len(toServer') = Len(toServer) - 1
      /\ \A i \in 1 .. Len(toServer) - 1 : toServer'[i] = toServer[i + 1]
  BY Dequeue DEF ServerReceive, IInv, TypeOK
<1>3. /\ Len(serverHistory') = Len(serverHistory) + 1
      /\ \A i \in 1 .. Len(serverHistory) : serverHistory'[i] = serverHistory[i]
      /\ serverHistory'[Len(serverHistory) + 1].state = toServer[1].state
      /\ serverHistory'[Len(serverHistory) + 1].dur = toServer[1].dur
      /\ serverHistory' # <<>>
  <2>1. [state |-> Head(toServer).state, dur |-> Head(toServer).dur]
          \in ServerInput
    BY <1>2, ServerMessages DEF HandleInput, ServerInput
  <2>2. serverHistory \in Seq(ServerInput)
    BY DEF IInv, TypeOK
  <2> DEFINE input == [state |-> Head(toServer).state, dur |-> Head(toServer).dur]
  <2>3. serverHistory' = Append(serverHistory, input)
    BY DEF HandleInput
  <2>4. input.state = toServer[1].state /\ input.dur = toServer[1].dur
    BY <1>2
  <2> HIDE DEF input
  <2>5. /\ Len(serverHistory') = Len(serverHistory) + 1
        /\ \A i \in 1 .. Len(serverHistory) : serverHistory'[i] = serverHistory[i]
        /\ serverHistory'[Len(serverHistory) + 1] = input
        /\ serverHistory' # <<>>
    BY <2>1, <2>2, <2>3, AppendProperties DEF input
  <2> QED
    BY <2>4, <2>5
<1>4. /\ Waiting \in Nat /\ Len(serverHistory) = Waiting + 1 /\ applied \in Nat
      /\ Waiting' = Waiting + 1
      /\ Len(sent) = applied + Waiting + Len(toServer)
  BY <1>1, <1>3, Lengths DEF Waiting
<1>5. HistoryNeverEmpty' /\ IdsCount' /\ ClientTimeline' /\ ServerTimeline'
  BY <1>1, <1>3 DEF IInv, HistoryNeverEmpty, IdsCount, ClientTimeline, Newest,
                    ServerTimeline
<1>6. AcksInOrder' /\ ControlsFollow'
  BY <1>1 DEF IInv, AcksInOrder, ControlsFollow, Newest
<1>7. EveryInputSomewhere'
  BY <1>1, <1>2, <1>4 DEF EveryInputSomewhere
<1>8. InputsInOrder'
  <2>1. InputsInOrder
    BY DEF IInv
  <2>2. \A i \in 2 .. Len(serverHistory) + 1 :
          /\ serverHistory'[i].state = sent[applied + i - 1].state
          /\ serverHistory'[i].dur = sent[applied + i - 1].dur
    <3>1. \A i \in 2 .. Len(serverHistory) + 1 :
            i \in 2 .. Len(serverHistory) \/ i = Len(serverHistory) + 1
      BY <1>4
    <3>2. \A i \in 2 .. Len(serverHistory) : i \in 1 .. Len(serverHistory)
      BY <1>4
    <3>3. /\ toServer[1].state = sent[applied + Waiting + 1].state
          /\ toServer[1].dur = sent[applied + Waiting + 1].dur
      BY <1>1, <1>2, <2>1 DEF InputsInOrder
    <3>4. applied + (Len(serverHistory) + 1) - 1 = applied + Waiting + 1
      BY <1>4
    <3> QED
      BY <1>3, <2>1, <3>1, <3>2, <3>3, <3>4 DEF InputsInOrder
  <2>3. \A i \in 1 .. Len(toServer') :
          /\ toServer'[i].state = sent[applied + Waiting' + i].state
          /\ toServer'[i].dur = sent[applied + Waiting' + i].dur
    <3> SUFFICES ASSUME NEW i \in 1 .. Len(toServer')
                 PROVE  /\ toServer'[i].state = sent[applied + Waiting' + i].state
                        /\ toServer'[i].dur = sent[applied + Waiting' + i].dur
      OBVIOUS
    <3>1. i + 1 \in 1 .. Len(toServer) /\ toServer'[i] = toServer[i + 1]
      BY <1>2
    <3>2. applied + Waiting' + i = applied + Waiting + (i + 1)
      BY <1>2, <1>4
    <3> QED
      BY <1>1, <2>1, <3>1, <3>2 DEF InputsInOrder
  <2> QED
    BY <1>1, <1>3, <2>2, <2>3 DEF InputsInOrder
<1> QED
  BY <1>5, <1>6, <1>7, <1>8 DEF Inputs

LEMMA SwitchMoveStep ==
  ASSUME NoWrap, IInv, NEW more \in BOOLEAN, ServerSimulate(more), SwitchMove
  PROVE  Inputs'
<1> DEFINE n == Len(sent)
<1>1. UNCHANGED <<greeted, toServer, clientHistory, nextId, sent, clientTicks>>
  BY DEF ServerSimulate, clientVars
<1>2. /\ applied \in Nat /\ n \in Nat /\ n <= MaxInputs /\ n < IdModulus
      /\ Waiting \in Nat \ {0} /\ Len(serverHistory) = Waiting + 1
      /\ applied + 1 \in 1 .. n
  BY Lengths DEF SwitchMove, Waiting, IInv, IdsCount, NoWrap
<1>3. /\ Len(serverHistory') = Len(serverHistory) - 1
      /\ \A i \in 1 .. Len(serverHistory) - 1 :
           serverHistory'[i] = serverHistory[i + 1]
      /\ serverHistory' # <<>>
  <2>1. serverHistory \in Seq(ServerInput) /\ serverHistory # <<>>
    BY DEF IInv, TypeOK, HistoryNeverEmpty
  <2>2. /\ Len(serverHistory') = Len(serverHistory) - 1
        /\ \A i \in 1 .. Len(serverHistory) - 1 :
             serverHistory'[i] = serverHistory[i + 1]
    BY <2>1, Dequeue DEF SwitchMove
  <2> QED
    BY <1>2, <2>2
<1>4. /\ applied' = applied + 1 /\ lastInputId' = applied + 1
      /\ Waiting' = Waiting - 1
  <2>1. lastInputId = applied /\ applied + 1 # IdModulus
    BY <1>2 DEF IInv, IdsCount
  <2> QED
    BY <1>2, <1>3, <2>1 DEF SwitchMove, NextId, Waiting
<1>5. /\ serverHistory[2].state = sent[applied + 1].state
      /\ serverHistory[2].dur = sent[applied + 1].dur
      /\ sent[applied + 1].dur \in Nat
  <2>1. 2 \in 2 .. Len(serverHistory) /\ applied + 2 - 1 = applied + 1
    BY <1>2
  <2>2. InputsInOrder
    BY DEF IInv
  <2>3. /\ serverHistory[2].state = sent[applied + 2 - 1].state
        /\ serverHistory[2].dur = sent[applied + 2 - 1].dur
    BY <2>1, <2>2 DEF InputsInOrder
  <2> QED
    BY <1>2, <2>1, <2>3, Lengths
<1>6. HistoryNeverEmpty' /\ ClientTimeline'
  BY <1>1, <1>3 DEF IInv, HistoryNeverEmpty, ClientTimeline, Newest
<1>7. IdsCount'
  BY <1>1, <1>4 DEF IInv, IdsCount
<1>8. EveryInputSomewhere'
  <2> DEFINE coming == IF greeted THEN Len(toServer) ELSE 0
  <2>1. n = applied + Waiting + coming
    BY DEF IInv, EveryInputSomewhere
  <2>2. coming \in Nat
    BY Lengths
  <2>3. Len(sent') = n /\ (IF greeted' THEN Len(toServer') ELSE 0) = coming
    BY <1>1
  <2> HIDE DEF coming, n
  <2>4. n = applied' + Waiting' + coming
    BY <1>2, <1>4, <2>1, <2>2
  <2> QED
    BY <2>3, <2>4 DEF EveryInputSomewhere
<1>9. AcksInOrder'
  <2>1. applied' \in Nat /\ applied <= applied'
    BY <1>2, <1>4
  <2>2. CASE toClient' = toClient
    <3>1. clientHistory'[1].id <= applied' /\ clientHistory'[1].id = clientHistory[1].id
      <4>1. clientHistory[1].id \in Nat /\ clientHistory[1].id <= applied
        BY FirstIdType DEF IInv, AcksInOrder
      <4> QED
        BY <1>1, <1>2, <1>4, <4>1
    <3>2. \A i \in 1 .. Len(toClient) : toClient[i].type = "Sync" =>
            toClient[i].ack \in Nat /\ toClient[i].ack <= applied
      <4>1. \A i \in 1 .. Len(toClient) : toClient[i] \in ClientMessage
        BY ElementOfSeq DEF IInv, TypeOK
      <4> QED
        BY <4>1, ClientMessages DEF Ids, IInv, AcksInOrder
    <3>3. \A i \in 1 .. Len(toClient) :
            toClient[i].type = "Sync" => toClient[i].ack <= applied'
      BY <1>2, <1>4, <3>2
    <3> QED
      BY <2>2, <3>1, <3>3 DEF IInv, AcksInOrder
  <2>3. CASE /\ CurrentSync \in ClientMessage
             /\ toClient' = Append(toClient, CurrentSync)
    <3>1. CurrentSync.ack = applied'
      BY <1>4 DEF CurrentSync, SyncMessage
    <3> QED
      BY <1>1, <2>1, <2>3, <3>1, AcksAfterSend
  <2> QED
    BY <2>2, <2>3, ServerSimulateToClient DEF IInv
<1>10. InputsInOrder'
  <2>1. InputsInOrder
    BY DEF IInv
  <2>2. ASSUME NEW i \in 2 .. Len(serverHistory')
        PROVE  /\ serverHistory'[i].state = sent[applied' + i - 1].state
               /\ serverHistory'[i].dur = sent[applied' + i - 1].dur
    <3>1. i + 1 \in 2 .. Len(serverHistory) /\ i \in 1 .. Len(serverHistory) - 1
      BY <1>2, <1>3
    <3>2. applied' + i - 1 = applied + (i + 1) - 1
      BY <1>2, <1>4
    <3>3. /\ serverHistory[i + 1].state = sent[applied + (i + 1) - 1].state
          /\ serverHistory[i + 1].dur = sent[applied + (i + 1) - 1].dur
      BY <2>1, <3>1 DEF InputsInOrder
    <3> QED
      BY <1>3, <3>1, <3>2, <3>3
  <2>3. applied' + Waiting' = applied + Waiting
    BY <1>2, <1>4
  <2> QED
    BY <1>1, <2>1, <2>2, <2>3 DEF InputsInOrder
<1>11. ServerTimeline'
  <2>1. serverTicks = TimeAfter(sent, applied) + currentInputDelta
    BY DEF IInv, ServerTimeline
  <2>2. TimeAfter(sent, applied + 1)
          = TimeAfter(sent, applied) + sent[applied + 1].dur
    <3>1. TimeAfter(sent, applied + 1)
            = TimeAfter(sent, (applied + 1) - 1) + sent[applied + 1].dur
      BY <1>2 DEF IInv, ClientTimeline
    <3>2. (applied + 1) - 1 = applied
      BY <1>2
    <3> QED
      BY <3>1, <3>2
  <2>3. /\ serverTicks' = serverTicks + 1
        /\ currentInputDelta' = currentInputDelta + 1 - sent[applied + 1].dur
    BY <1>5 DEF ServerSimulate, SwitchMove
  <2>4. /\ TimeAfter(sent, applied) \in Nat
        /\ currentInputDelta \in Nat /\ serverTicks \in Nat
    BY <1>2, Lengths DEF TimeAfter, IInv, TypeOK
  <2> QED
    BY <1>1, <1>4, <1>5, <2>1, <2>2, <2>3, <2>4 DEF ServerTimeline
<1>12. ControlsFollow'
  <2>1. playerControls' = StateAfter(sent, applied + 1)
    BY <1>2, <1>5 DEF SwitchMove, StateAfter
  <2> QED
    BY <1>1, <1>4, <2>1 DEF IInv, ControlsFollow, Newest
<1> QED
  BY <1>6, <1>7, <1>8, <1>9, <1>10, <1>11, <1>12 DEF Inputs

LEMMA KeepMoveStep ==
  ASSUME IInv, NEW more \in BOOLEAN, ServerSimulate(more), KeepMove
  PROVE  Inputs'
<1>1. UNCHANGED <<greeted, toServer, clientHistory, nextId, sent, clientTicks,
                  serverHistory, applied, lastInputId, playerControls>>
  BY DEF ServerSimulate, KeepMove, clientVars
<1>2. HistoryNeverEmpty' /\ IdsCount' /\ ClientTimeline' /\ ControlsFollow'
  BY <1>1 DEF IInv, HistoryNeverEmpty, IdsCount, ClientTimeline, ControlsFollow,
              Newest
<1>3. EveryInputSomewhere' /\ InputsInOrder'
  BY <1>1 DEF IInv, EveryInputSomewhere, InputsInOrder, Waiting
<1>4. AcksInOrder'
  <2>1. CASE toClient' = toClient
    BY <1>1, <2>1 DEF IInv, AcksInOrder
  <2>2. CASE /\ CurrentSync \in ClientMessage
             /\ toClient' = Append(toClient, CurrentSync)
    <3>1. CurrentSync.ack = applied' /\ applied' \in Nat /\ applied <= applied'
      BY <1>1 DEF CurrentSync, SyncMessage, IInv, IdsCount, TypeOK
    <3> QED
      BY <1>1, <2>2, <3>1, AcksAfterSend
  <2> QED
    BY <2>1, <2>2, ServerSimulateToClient DEF IInv
<1>5. ServerTimeline'
  <2>1. /\ currentInputDelta' = currentInputDelta + 1
        /\ serverTicks' = serverTicks + 1
    BY DEF ServerSimulate, KeepMove
  <2>2. currentInputDelta \in Nat /\ serverTicks \in Nat
    BY DEF IInv, TypeOK
  <2>3. TimeAfter(sent, applied) \in Nat
    <3>1. applied \in Nat /\ applied <= Len(sent)
      BY Lengths
    <3>2. applied # 0 => sent[applied].at \in Nat
      BY <3>1, Lengths
    <3> QED
      BY <3>2 DEF TimeAfter
  <2> QED
    BY <1>1, <2>1, <2>2, <2>3 DEF IInv, ServerTimeline
<1> QED
  BY <1>2, <1>3, <1>4, <1>5 DEF Inputs

LEMMA IInvInit == ASSUME NoWrap, Init PROVE IInv
<1>1. TypeOK /\ Greeting /\ SyncCarriesPlayer
  BY TypeInit, GreetingInit
<1>2. /\ Len(sent) = 0 /\ Len(toClient) = 0 /\ Len(clientHistory) = 1
      /\ Len(serverHistory) = 1 /\ Waiting = 0
      /\ clientHistory[1] = [id |-> 0, state |-> NoControls, dur |-> 0]
      /\ Newest = clientHistory[1]
  BY DEF Init, Waiting, Newest
<1>3. HistoryNeverEmpty /\ EveryInputSomewhere
  BY <1>2 DEF Init, HistoryNeverEmpty, EveryInputSomewhere
<1>4. IdsCount
  BY <1>2 DEF Init, IdsCount
<1>5. AcksInOrder
  BY <1>2 DEF Init, AcksInOrder
<1>6. InputsInOrder
  BY <1>2 DEF Init, InputsInOrder
<1>7. ClientTimeline /\ ServerTimeline
  BY <1>2 DEF Init, ClientTimeline, ServerTimeline, TimeAfter
<1>8. ControlsFollow
  BY <1>2 DEF Init, ControlsFollow, StateAfter
<1> QED
  BY <1>1, <1>3, <1>4, <1>5, <1>6, <1>7, <1>8 DEF IInv

LEMMA IInvStep == ASSUME NoWrap, IInv, [Next]_vars PROVE IInv'
<1>1. TypeOK' /\ Greeting' /\ SyncCarriesPlayer'
  BY TypeStep, GreetingStep DEF IInv, GreetingInv
<1>2. ASSUME NEW c \in Controls, ClientSimulate(c) PROVE Inputs'
  BY <1>2, ChangeControlsStep, KeepControlsStep DEF ClientSimulate
<1>3. ASSUME ClientReceive PROVE Inputs'
  BY <1>3, ReceiveHelloStep, ReceiveSyncStep DEF ClientReceive
<1>4. ASSUME ServerReceive PROVE Inputs'
  BY <1>4, HandleHelloStep, HandleInputStep DEF ServerReceive
<1>5. ASSUME NEW more \in BOOLEAN, ServerSimulate(more) PROVE Inputs'
  BY <1>5, SwitchMoveStep, KeepMoveStep DEF ServerSimulate
<1>6. ASSUME UNCHANGED vars PROVE Inputs'
  BY <1>6
     DEF vars, clientVars, serverVars, IInv, Inputs, HistoryNeverEmpty,
         EveryInputSomewhere, IdsCount, AcksInOrder, InputsInOrder,
         ClientTimeline, ServerTimeline, ControlsFollow, Newest, Waiting
<1>7. Inputs'
  BY <1>2, <1>3, <1>4, <1>5, <1>6 DEF Next
<1> QED
  BY <1>1, <1>7 DEF IInv, Inputs

\* The inductive invariant is one: at every moment every input is in one place
\* only and every clock and id agrees with it.
THEOREM InductiveInvariant == ASSUME NoWrap PROVE Spec => []IInv
<1>1. Init => IInv
  BY IInvInit
<1>2. IInv /\ [Next]_vars => IInv'
  BY IInvStep
<1> QED
  BY <1>1, <1>2, PTL DEF Spec

\* The assertion in ProcessControls and the front() in Receive are safe.
THEOREM HistoryIsNeverEmpty == ASSUME NoWrap PROVE Spec => []HistoryNeverEmpty
<1>1. IInv => HistoryNeverEmpty
  BY DEF IInv
<1> QED
  BY <1>1, InductiveInvariant, PTL

\* ClearHistory always searches an ascending history, as lower_bound requires.
THEOREM IdsAlwaysAscend == ASSUME NoWrap PROVE Spec => []IdsAscend
<1>1. IInv => IdsAscend
  BY Lengths DEF IInv, IdsCount, IdsAscend
<1> QED
  BY <1>1, InductiveInvariant, PTL

\* The count a Sync carries is always the id of an input of the client's
\* history: Receive replays from the right one.
THEOREM AckAlwaysInHistory == ASSUME NoWrap PROVE Spec => []AckInHistory
<1>1. IInv => AckInHistory
  BY AckFound DEF AckInHistory
<1> QED
  BY <1>1, InductiveInvariant, PTL

\* UpdateMove keeps the server on the client's timeline however late inputs
\* arrive and however many arrive at once.
THEOREM ServerKeepsTimeline == ASSUME NoWrap PROVE Spec => []ServerTimeline
<1>1. IInv => ServerTimeline
  BY DEF IInv
<1> QED
  BY <1>1, InductiveInvariant, PTL
-----------------------------------------------------------------------------
(***************************************************************************)
(* InputSync implements InputStream.                                       *)
(***************************************************************************)

\* The control states of a sequence of inputs, and of a longer one.
LEMMA StatesOfInputs ==
  ASSUME NEW s \in Seq(SentInput)
  PROVE  /\ StatesOf(s) \in Seq(Controls)
         /\ Len(StatesOf(s)) = Len(s)
         /\ \A i \in 1 .. Len(s) : StatesOf(s)[i] = s[i].state
<1>1. Len(s) \in Nat /\ \A i \in 1 .. Len(s) : s[i] \in SentInput
  BY ElementOfSeq, LenProperties
<1>2. \A i \in 1 .. Len(s) : s[i].state \in Controls
  BY <1>1 DEF SentInput
<1>3. StatesOf(s) \in [1 .. Len(s) -> Controls]
  BY <1>2 DEF StatesOf
<1>4. StatesOf(s) \in Seq(Controls)
  BY <1>1, <1>3, SeqDef
<1>5. Len(StatesOf(s)) = Len(s)
  BY <1>1, <1>3, <1>4, LenProperties
<1> QED
  BY <1>4, <1>5 DEF StatesOf

LEMMA StatesOfAppend ==
  ASSUME NEW s \in Seq(SentInput), NEW e \in SentInput
  PROVE  StatesOf(Append(s, e)) = Append(StatesOf(s), e.state)
<1> DEFINE t == Append(s, e)
           u == Append(StatesOf(s), e.state)
<1>1. /\ t \in Seq(SentInput) /\ Len(t) = Len(s) + 1 /\ Len(s) \in Nat
      /\ \A i \in 1 .. Len(s) : t[i] = s[i]
      /\ t[Len(s) + 1] = e
  BY AppendProperties, LenProperties
<1>2. /\ StatesOf(t) \in Seq(Controls) /\ Len(StatesOf(t)) = Len(s) + 1
      /\ \A i \in 1 .. Len(s) + 1 : StatesOf(t)[i] = t[i].state
  BY <1>1, StatesOfInputs
<1>3. e.state \in Controls
  BY DEF SentInput
<1>4. /\ StatesOf(s) \in Seq(Controls) /\ Len(StatesOf(s)) = Len(s)
      /\ \A i \in 1 .. Len(s) : StatesOf(s)[i] = s[i].state
  BY StatesOfInputs
<1>5. /\ u \in Seq(Controls) /\ Len(u) = Len(s) + 1
      /\ \A i \in 1 .. Len(s) : u[i] = s[i].state
      /\ u[Len(s) + 1] = e.state
  BY <1>3, <1>4, AppendProperties
<1> HIDE DEF t, u
<1>6. \A i \in 1 .. Len(s) + 1 : StatesOf(t)[i] = u[i]
  <2>1. \A i \in 1 .. Len(s) + 1 : i \in 1 .. Len(s) \/ i = Len(s) + 1
    BY <1>1
  <2>2. \A i \in 1 .. Len(s) : StatesOf(t)[i] = u[i]
    BY <1>1, <1>2, <1>5
  <2>3. StatesOf(t)[Len(s) + 1] = u[Len(s) + 1]
    BY <1>1, <1>2, <1>5
  <2> QED
    BY <2>1, <2>2, <2>3
<1>7. StatesOf(t) = u
  BY <1>2, <1>5, <1>6, SeqEqual
<1> QED
  BY <1>7 DEF t, u

LEMMA AfterStates ==
  ASSUME NEW s \in Seq(SentInput), NEW k \in 0 .. Len(s)
  PROVE  Stream!After(StatesOf(s), k) = StateAfter(s, k)
<1>1. k = 0 \/ k \in 1 .. Len(s)
  BY LenProperties
<1> QED
  BY <1>1, StatesOfInputs DEF Stream!After, StateAfter

LEMMA StreamInit == ASSUME Init PROVE Stream!Init
<1>1. sent = <<>> /\ clientHistory[1].id = 0 /\ applied = 0
      /\ playerControls = NoControls
  BY DEF Init
<1>2. StatesOf(sent) \in Seq(Controls) /\ Len(StatesOf(sent)) = 0
  BY <1>1, StatesOfInputs, EmptySeq
<1>3. StatesOf(sent) = <<>>
  BY <1>2, EmptySeq
<1> QED
  BY <1>1, <1>3 DEF Stream!Init

LEMMA StreamStep ==
  ASSUME NoWrap, IInv, IInv', [Next]_vars
  PROVE  [Stream!Next]_(Stream!vars)
<1>1. ASSUME NEW c \in Controls, ClientSimulate(c)
      PROVE  [Stream!Next]_(Stream!vars)
  <2>1. UNCHANGED <<applied, playerControls>> /\ clientHistory # <<>>
    BY <1>1 DEF ClientSimulate, serverVars
  <2>2. CASE ChangeControls(c)
    <3> DEFINE e == [state |-> c, dur |-> Newest.dur, at |-> clientTicks]
    <3>1. sent \in Seq(SentInput) /\ e \in SentInput /\ e.state = c
      BY <2>1, NewestType DEF IInv, TypeOK, SentInput
    <3>2. sent' = Append(sent, e)
      BY <2>2 DEF ChangeControls
    <3>3. StatesOf(sent') = Append(StatesOf(sent), c)
      BY <3>1, <3>2, StatesOfAppend
    <3>4. c # StateAfter(sent, Len(sent))
      BY <2>2 DEF ChangeControls, IInv, ControlsFollow
    <3>5. c # Stream!After(StatesOf(sent), Len(StatesOf(sent)))
      BY <3>1, <3>4, AfterStates, StatesOfInputs, LenProperties
    <3>6. clientHistory'[1].id = clientHistory[1].id
      <4>1. [id |-> nextId, state |-> c, dur |-> 1] \in ClientInput
        BY DEF IInv, TypeOK, ClientInput
      <4> QED
        BY <2>2, <4>1, Lengths, AppendProperties
           DEF ChangeControls, IInv, TypeOK
    <3> QED
      BY <2>1, <3>3, <3>5, <3>6 DEF Stream!Next, Stream!Issue
  <2>3. CASE KeepControls(c)
    <3>1. clientHistory'[1].id = clientHistory[1].id /\ sent' = sent
      BY <2>1, <2>3, Lengths, KeepControlsHistory DEF KeepControls, IInv
    <3> QED
      BY <2>1, <3>1 DEF Stream!vars
  <2> QED
    BY <1>1, <2>2, <2>3 DEF ClientSimulate
<1>2. CASE ClientReceiveHello
  BY <1>2 DEF ClientReceiveHello, serverVars, Stream!vars
<1>3. CASE ClientReceiveSync
  <2> DEFINE k == clientHistory'[1].id
  <2>1. UNCHANGED <<sent, applied, playerControls>>
    BY <1>3 DEF ClientReceiveSync, serverVars
  <2>2. k <= applied /\ k \in Nat
    <3>1. clientHistory' \in Seq(ClientInput) /\ clientHistory' # <<>>
      BY DEF IInv, TypeOK, HistoryNeverEmpty
    <3>2. clientHistory'[1] \in ClientInput
      BY <3>1, EmptySeq, ElementOfSeq
    <3> QED
      BY <2>1, <3>2 DEF IInv, AcksInOrder, ClientInput, Ids
  <2>3. clientHistory[1].id <= k
    <3>1. /\ Len(clientHistory) \in Nat \ {0}
          /\ \A i \in 1 .. Len(clientHistory) :
               clientHistory[i].id = Len(sent) - Len(clientHistory) + i
          /\ Len(sent) \in Nat
      BY Lengths DEF IInv, IdsCount
    <3>2. CASE joined
      <4>1. PICK i \in 1 .. Len(clientHistory) + 1 :
                   clientHistory' = SubSeq(clientHistory, i, Len(clientHistory))
        BY <1>3, <3>2 DEF ClientReceiveSync, LowerBounds
      <4>2. /\ Len(clientHistory') = Len(clientHistory) - i + 1
            /\ \A j \in 1 .. Len(clientHistory') :
                 clientHistory'[j] = clientHistory[i + j - 1]
        BY <1>3, <4>1, ReceiveSyncHistory DEF ClientReceiveSync, IInv
      <4>3. Len(clientHistory') \in Nat \ {0}
        BY EmptySeq DEF IInv, TypeOK, HistoryNeverEmpty
      <4>4. k = clientHistory[i].id /\ i \in 1 .. Len(clientHistory)
        <5>1. 1 \in 1 .. Len(clientHistory')
          BY <4>3
        <5>2. k = clientHistory[i + 1 - 1].id
          BY <4>2, <5>1
        <5>3. i \in Int /\ i >= 1 /\ i <= Len(clientHistory)
          BY <3>1, <4>2, <4>3
        <5> QED
          BY <3>1, <5>2, <5>3
      <4> QED
        BY <3>1, <4>4
    <3>3. CASE ~joined
      <4>1. clientHistory' = clientHistory
        BY <1>3, <3>3 DEF ClientReceiveSync
      <4> QED
        BY <2>2, <4>1
    <3> QED
      BY <3>2, <3>3
  <2>4. clientHistory[1].id \in Nat /\ applied \in Nat
    BY FirstIdType, Lengths
  <2>5. CASE k = clientHistory[1].id
    BY <2>1, <2>5 DEF Stream!vars
  <2>6. CASE k # clientHistory[1].id
    <3>1. clientHistory[1].id < k /\ k \in 1 .. applied
      BY <2>2, <2>3, <2>4, <2>6
    <3>2. Stream!Forget(k)
      BY <2>1, <2>2, <3>1 DEF Stream!Forget
    <3> QED
      BY <3>1, <3>2 DEF Stream!Next
  <2> QED
    BY <2>5, <2>6
<1>4. CASE ServerReceive
  <2>1. UNCHANGED <<sent, clientHistory, applied>>
    BY <1>4 DEF ServerReceive, clientVars
  <2>2. playerControls' = playerControls
    BY <2>1 DEF IInv, ControlsFollow
  <2> QED
    BY <2>1, <2>2 DEF Stream!vars
<1>5. ASSUME NEW more \in BOOLEAN, ServerSimulate(more)
      PROVE  [Stream!Next]_(Stream!vars)
  <2>1. UNCHANGED <<sent, clientHistory>>
    BY <1>5 DEF ServerSimulate, clientVars
  <2>2. CASE KeepMove
    BY <2>1, <2>2 DEF KeepMove, Stream!vars
  <2>3. CASE SwitchMove
    <3>1. applied' = applied + 1
      BY <2>3 DEF SwitchMove
    <3>2. sent \in Seq(SentInput) /\ applied + 1 \in 1 .. Len(sent)
      <4>1. Waiting \in Nat \ {0}
        BY <2>3, Lengths DEF SwitchMove, Waiting
      <4>2. applied \in Nat /\ Len(sent) \in Nat /\ applied + Waiting <= Len(sent)
        BY Lengths
      <4>3. sent \in Seq(SentInput)
        BY DEF IInv, TypeOK
      <4> QED
        BY <4>1, <4>2, <4>3
    <3>3. playerControls' = StatesOf(sent)[applied + 1]
      <4>1. playerControls' = StateAfter(sent, applied + 1)
        BY <2>1, <3>1 DEF IInv, ControlsFollow
      <4> QED
        BY <3>2, <4>1, StatesOfInputs DEF StateAfter
    <3>4. applied < Len(StatesOf(sent))
      BY <3>2, StatesOfInputs, LenProperties DEF IInv, TypeOK
    <3>5. Stream!Apply
      BY <2>1, <3>1, <3>3, <3>4 DEF Stream!Apply
    <3> QED
      BY <3>5 DEF Stream!Next
  <2> QED
    BY <1>5, <2>2, <2>3 DEF ServerSimulate
<1>6. CASE UNCHANGED vars
  BY <1>6 DEF vars, clientVars, serverVars, Stream!vars
<1> QED
  BY <1>1, <1>2, <1>3, <1>4, <1>5, <1>6 DEF Next, ClientReceive

\* The two managers and the queues between them do what InputStream promises.
THEOREM ImplementsStream == ASSUME NoWrap PROVE Spec => ImplementsInputStream
<1>1. Init => Stream!Init
  BY StreamInit
<1>2. IInv /\ IInv' /\ [Next]_vars => [Stream!Next]_(Stream!vars)
  BY StreamStep
<1> QED
  BY <1>1, <1>2, InductiveInvariant, PTL
     DEF Spec, ImplementsInputStream, Stream!Spec
=============================================================================
