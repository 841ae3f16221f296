----------------------------- MODULE InputSync -----------------------------
(***************************************************************************)
(* One client's input stream: NetworkInputManager on the client, the       *)
(* ProtocolImpl of its connection on the server, and the messages between  *)
(* them.  The client keeps every input until a Sync acknowledges it; the   *)
(* server keeps every input until the one before it has been in force for  *)
(* as long as the client kept it.  The messages carry no acknowledgement   *)
(* of their own: the server counts the inputs it applied, and the client   *)
(* takes that count for an input id.                                       *)
(*                                                                         *)
(* Time is counted in simulation steps of m_desired_delta.  Sockets, the   *)
(* framed connection and the queue of received messages of one direction   *)
(* are one FIFO: a message is "sent" or it is read by the game loop.       *)
(***************************************************************************)
EXTENDS Integers, Sequences

CONSTANTS
  Controls,        \* control states
  NoControls,      \* ControlsState{}: no direction pressed
  IdModulus,       \* input ids are unsigned, modulo 2^32 in the code
  SyncPeriod,      \* a Sync is sent when m_simulation_tick % SyncPeriod = 0
  MaxFrameTicks,   \* bound: simulation steps one server frame makes up for
  MaxInputs,       \* bound: inputs the player gives
  MaxClientTicks,  \* bound: steps the client simulates with its player
  MaxServerTicks   \* bound: steps the server simulates with nothing to do

ASSUME ConstantsAssumption ==
  /\ NoControls \in Controls
  /\ IdModulus \in Nat \ {0}
  /\ SyncPeriod \in Nat \ {0}
  /\ MaxFrameTicks \in Nat \ {0}
  /\ MaxInputs \in Nat
  /\ MaxClientTicks \in Nat
  /\ MaxServerTicks \in Nat

VARIABLES
  joined,            \* client: the world has the client's own player
  clientHistory,     \* client: inputs not known to be applied, newest last
  nextId,            \* client: the id the next input gets
  greeted,           \* server: the world has the connection's player
  serverHistory,     \* server: the input in force and those waiting
  currentInputDelta, \* server: time spent in the input in force
  lastInputDelta,    \* server: the part of it brought over at the last switch
  lastInputId,       \* server: number of inputs applied
  playerControls,    \* server: what moves the player
  simulationTick,    \* server: m_simulation_tick modulo SyncPeriod
  frameTicks,        \* server: steps already made in the running frame
  toServer,          \* messages of the client the server has not read
  toClient           \* messages of the server the client has not read

\* History variables, read by the properties and the bounds only.
VARIABLES
  sent,              \* every input ever sent, with the client clock it was
                     \* given at
  applied,           \* lastInputId, not reduced modulo IdModulus
  clientTicks,       \* the client's clock: steps simulated with its player
  serverTicks        \* the server's clock: steps since the connection

clientVars == <<joined, clientHistory, nextId, sent, clientTicks>>
serverVars == <<greeted, serverHistory, currentInputDelta, lastInputDelta,
                lastInputId, playerControls, simulationTick, frameTicks,
                applied, serverTicks>>
vars == <<clientVars, serverVars, toServer, toClient>>

Ids == 0 .. IdModulus - 1

ClientInput == [id : Ids, state : Controls, dur : Nat]
ServerInput == [state : Controls, dur : Nat]
SentInput   == [state : Controls, dur : Nat, at : Nat]

\* Messages: ServerMessages::Hello and Input, ClientMessages::Hello and Sync.
\* Of the world in a Sync only one thing matters here: is the player in it.
HelloMessage == [type |-> "Hello"]
InputMessage(state, dur) == [type |-> "Input", state |-> state, dur |-> dur]
SyncMessage(ack, delta, player) ==
  [type |-> "Sync", ack |-> ack, delta |-> delta, player |-> player]

ServerMessage ==
  {HelloMessage} \cup [type : {"Input"}, state : Controls, dur : Nat]
ClientMessage ==
  {HelloMessage}
    \cup [type : {"Sync"}, ack : Ids, delta : Int, player : BOOLEAN]

\* The id after id, as the unsigned m_next_id++ and m_last_input_id++ do it.
NextId(id) == IF id + 1 = IdModulus THEN 0 ELSE id + 1

\* After NewConnect on the server and App::Init on the client, which sent its
\* Hello.  The simulation tick is the server's, not the connection's.
Init ==
  /\ joined = FALSE
  /\ clientHistory = <<[id |-> 0, state |-> NoControls, dur |-> 0]>>
  /\ nextId = NextId(0)
  /\ greeted = FALSE
  /\ serverHistory = <<[state |-> NoControls, dur |-> 0]>>
  /\ currentInputDelta = 0
  /\ lastInputDelta = 0
  /\ lastInputId = 0
  /\ playerControls = NoControls
  /\ simulationTick \in 0 .. SyncPeriod - 1
  /\ frameTicks = 0
  /\ toServer = <<HelloMessage>>
  /\ toClient = <<>>
  /\ sent = <<>>
  /\ applied = 0
  /\ clientTicks = 0
  /\ serverTicks = 0
-----------------------------------------------------------------------------
(***************************************************************************)
(* The client.                                                             *)
(***************************************************************************)
Newest == clientHistory[Len(clientHistory)]

\* ProcessControls when the controls are not those of the newest input: the
\* Input message says how long the newest input lasted and what follows it.
ChangeControls(c) ==
  /\ c # Newest.state
  /\ Len(sent) < MaxInputs
  /\ toServer' = Append(toServer, InputMessage(c, Newest.dur))
  /\ clientHistory' =
       Append(clientHistory, [id |-> nextId, state |-> c, dur |-> 1])
  /\ nextId' = NextId(nextId)
  /\ sent' =
       Append(sent, [state |-> c, dur |-> Newest.dur, at |-> clientTicks])

KeepControls(c) ==
  /\ c = Newest.state
  /\ clientHistory' = [clientHistory EXCEPT ![Len(clientHistory)].dur = @ + 1]
  /\ UNCHANGED <<nextId, sent, toServer>>

\* App::Simulate once the client's own player is in its world.
ClientSimulate(c) ==
  /\ joined
  /\ clientHistory # <<>>
  /\ clientTicks < MaxClientTicks
  /\ ChangeControls(c) \/ KeepControls(c)
  /\ clientTicks' = clientTicks + 1
  /\ UNCHANGED <<joined, serverVars, toClient>>

ClientReceiveHello ==
  /\ toClient # <<>> /\ Head(toClient) = HelloMessage
  /\ joined' = TRUE
  /\ toClient' = Tail(toClient)
  /\ UNCHANGED <<clientHistory, nextId, sent, clientTicks, serverVars,
                 toServer>>

LowerBounds_NothingErased(h, id) == {1}

LowerBounds_UpperBound(h, id) ==
  {i \in 1 .. Len(h) + 1 : /\ i > 1 => h[i - 1].id <= id
                           /\ i <= Len(h) => h[i].id > id}

\* The positions std::lower_bound can return for id.  The binary search asks
\* the middle element first, and stops between an element below id and one
\* that is not; when the ids ascend there is one such place.
LowerBounds(h, id) ==
  LET middle == Len(h) \div 2 + 1
  IN  {i \in 1 .. Len(h) + 1 : /\ i > middle <=> h[middle].id < id
                               /\ i > 1 => h[i - 1].id < id
                               /\ i <= Len(h) => h[i].id >= id}

\* A Sync is ignored until the player is in the world, whose entry in the Sync
\* is then read with at().  Receive erases the history before the
\* acknowledged input.
ClientReceiveSync ==
  /\ toClient # <<>> /\ Head(toClient).type = "Sync"
  /\ IF joined
     THEN /\ Head(toClient).player
          /\ clientHistory # <<>>
          /\ \E i \in LowerBounds(clientHistory, Head(toClient).ack) :
               clientHistory' = SubSeq(clientHistory, i, Len(clientHistory))
     ELSE UNCHANGED clientHistory
  /\ toClient' = Tail(toClient)
  /\ UNCHANGED <<joined, nextId, sent, clientTicks, serverVars, toServer>>

ClientReceive == ClientReceiveHello \/ ClientReceiveSync
-----------------------------------------------------------------------------
(***************************************************************************)
(* The server.                                                             *)
(***************************************************************************)
HandleHello_NoPlayer ==
  /\ Head(toServer) = HelloMessage
  /\ toClient' = Append(toClient, HelloMessage)
  /\ UNCHANGED <<greeted, playerControls, serverHistory>>

HandleHello ==
  /\ Head(toServer) = HelloMessage
  /\ greeted' = TRUE
  /\ playerControls' = NoControls
  /\ toClient' = Append(toClient, HelloMessage)
  /\ UNCHANGED serverHistory

\* The branch on a history of one element is never taken: the history holds
\* the input in force, so it has at least two elements after the push.
HandleInput ==
  /\ Head(toServer).type = "Input"
  /\ serverHistory' =
       Append(serverHistory,
              [state |-> Head(toServer).state, dur |-> Head(toServer).dur])
  /\ UNCHANGED <<greeted, playerControls, toClient>>

\* PreSimulate reads messages at the start of a frame, between no two steps.
ServerReceive ==
  /\ frameTicks = 0
  /\ toServer # <<>>
  /\ HandleHello \/ HandleInput
  /\ toServer' = Tail(toServer)
  /\ UNCHANGED <<currentInputDelta, lastInputDelta, lastInputId, simulationTick,
                 frameTicks, applied, serverTicks, clientVars>>

\* UpdateMove, when the input in force lasted as long as on the client: the
\* next one takes over, and starts with the time that was spent too much.
SwitchMove_NoCarry ==
  /\ Len(serverHistory) >= 2
  /\ currentInputDelta + 1 >= serverHistory[2].dur
  /\ currentInputDelta' = 0
  /\ lastInputDelta' = currentInputDelta'
  /\ playerControls' = serverHistory[2].state
  /\ lastInputId' = NextId(lastInputId)
  /\ serverHistory' = Tail(serverHistory)
  /\ applied' = applied + 1

SwitchMove_TooSoon ==
  /\ Len(serverHistory) >= 2
  /\ currentInputDelta' = currentInputDelta + 1 - serverHistory[2].dur
  /\ lastInputDelta' = currentInputDelta'
  /\ playerControls' = serverHistory[2].state
  /\ lastInputId' = NextId(lastInputId)
  /\ serverHistory' = Tail(serverHistory)
  /\ applied' = applied + 1

SwitchMove_Newest ==
  /\ Len(serverHistory) >= 2
  /\ currentInputDelta + 1 >= serverHistory[2].dur
  /\ currentInputDelta' = currentInputDelta + 1 - serverHistory[2].dur
  /\ lastInputDelta' = currentInputDelta'
  /\ playerControls' = serverHistory[Len(serverHistory)].state
  /\ lastInputId' = NextId(lastInputId)
  /\ serverHistory' = Tail(serverHistory)
  /\ applied' = applied + 1

SwitchMove ==
  /\ Len(serverHistory) >= 2
  /\ currentInputDelta + 1 >= serverHistory[2].dur
  /\ currentInputDelta' = currentInputDelta + 1 - serverHistory[2].dur
  /\ lastInputDelta' = currentInputDelta'
  /\ playerControls' = serverHistory[2].state
  /\ lastInputId' = NextId(lastInputId)
  /\ serverHistory' = Tail(serverHistory)
  /\ applied' = applied + 1

KeepMove ==
  /\ Len(serverHistory) >= 2 => currentInputDelta + 1 < serverHistory[2].dur
  /\ currentInputDelta' = currentInputDelta + 1
  /\ UNCHANGED <<lastInputDelta, playerControls, lastInputId, serverHistory,
                 applied>>

CurrentSync_NextExpected ==
  SyncMessage(NextId(lastInputId'), currentInputDelta' - lastInputDelta',
              greeted)

\* SendSync: LastInputId() and InputDelta() as the step leaves them.
CurrentSync ==
  SyncMessage(lastInputId', currentInputDelta' - lastInputDelta', greeted)

\* PostSimulate runs once, after the last step of the frame.
PostSimulate ==
  IF simulationTick' = 0
  THEN toClient' = Append(toClient, CurrentSync)
  ELSE UNCHANGED toClient

\* The bounds: past MaxServerTicks the server only works off what waits.
ServerTickBound ==
  \/ serverTicks < MaxServerTicks
  \/ Len(serverHistory) >= 2
  \/ simulationTick # 0
  \/ frameTicks # 0

\* One turn of the loop of Frame; "more" says whether the lag asks for another
\* step before the frame ends.
ServerSimulate(more) ==
  /\ ServerTickBound
  /\ more => /\ frameTicks + 1 < MaxFrameTicks
             /\ serverTicks < MaxServerTicks
  /\ SwitchMove \/ KeepMove
  /\ simulationTick' = (simulationTick + 1) % SyncPeriod
  /\ serverTicks' = serverTicks + 1
  /\ IF more
     THEN frameTicks' = frameTicks + 1 /\ UNCHANGED toClient
     ELSE frameTicks' = 0 /\ PostSimulate
  /\ UNCHANGED <<greeted, toServer, clientVars>>
-----------------------------------------------------------------------------
Next ==
  \/ \E c \in Controls : ClientSimulate(c)
  \/ ClientReceive
  \/ ServerReceive
  \/ \E more \in BOOLEAN : ServerSimulate(more)

Spec == Init /\ [][Next]_vars

\* Within its bound, or while an input waits or a frame is under way, the
\* server's loop goes round.  Past it the steps are not counted any more, and
\* a server that stops there stands for one that makes further frames.
Busy ==
  \/ serverTicks < MaxServerTicks
  \/ Len(serverHistory) >= 2
  \/ frameTicks # 0

\* Messages arrive, the server's game loop runs, and a frame of it reads what
\* has arrived.  The player need not do anything.
Fairness ==
  /\ WF_vars(ClientReceive)
  /\ SF_vars(ServerReceive)
  /\ WF_vars(Busy /\ \E more \in BOOLEAN : ServerSimulate(more))

\* An assumption on the server that the code does not meet by itself: a frame
\* ends at a tick of a Sync again and again.  A server that makes two steps in
\* every frame and ends each at an odd tick sends no Sync ever.
SyncsAgain == SF_vars(ServerSimulate(FALSE) /\ simulationTick' = 0)
-----------------------------------------------------------------------------
(***************************************************************************)
(* Properties.                                                             *)
(***************************************************************************)

\* Every variable keeps to its range; for currentInputDelta that means that
\* UpdateMove never subtracts more time than has passed.
TypeOK ==
  /\ joined \in BOOLEAN
  /\ clientHistory \in Seq(ClientInput)
  /\ nextId \in Ids
  /\ greeted \in BOOLEAN
  /\ serverHistory \in Seq(ServerInput)
  /\ currentInputDelta \in Nat
  /\ lastInputDelta \in Nat
  /\ lastInputId \in Ids
  /\ playerControls \in Controls
  /\ simulationTick \in 0 .. SyncPeriod - 1
  /\ frameTicks \in 0 .. MaxFrameTicks - 1
  /\ toServer \in Seq(ServerMessage)
  /\ toClient \in Seq(ClientMessage)
  /\ sent \in Seq(SentInput)
  /\ applied \in Nat
  /\ clientTicks \in Nat
  /\ serverTicks \in Nat

\* No history is ever empty: Receive and ProcessControls take front() and
\* back() of the client's (network_input_manager.hpp asserts it), UpdateMove
\* and Handle(Input) index the server's.
HistoryNeverEmpty ==
  /\ clientHistory # <<>>
  /\ serverHistory # <<>>

\* The client's ids ascend, which lower_bound in ClearHistory needs.
IdsAscend ==
  \A i, j \in 1 .. Len(clientHistory) :
    i < j => clientHistory[i].id < clientHistory[j].id

\* Every acknowledgement on its way to the client names an input the client
\* still has.  So Receive subtracts the server's input_delta from the duration
\* of the input it belongs to, although neither message carries a common id.
AckInHistory ==
  \A i \in 1 .. Len(toClient) :
    toClient[i].type = "Sync" =>
      \E j \in 1 .. Len(clientHistory) : clientHistory[j].id = toClient[i].ack

\* A Sync sent before the server handled the Hello has no player in it.  None
\* of these reaches a client that already has its player and would look it up
\* in the Sync with at().
SyncCarriesPlayer ==
  \A i \in 1 .. Len(toClient) :
    /\ toClient[i].type = "Sync"
    /\ joined \/ \E j \in 1 .. i - 1 : toClient[j] = HelloMessage
    => toClient[i].player

\* The client clock at which the k-th of the inputs s was given, and the
\* control state after it.
TimeAfter(s, k) == IF k = 0 THEN 0 ELSE s[k].at
StateAfter(s, k) == IF k = 0 THEN NoControls ELSE s[k].state

\* However late inputs arrive, the server's clock stays the client's clock of
\* the input in force plus the time spent in it: no time is lost or counted
\* twice by the subtractions in UpdateMove, and no input takes effect before
\* the time the client gave it at.
ServerTimeline == serverTicks = TimeAfter(sent, applied) + currentInputDelta

\* The control states of the inputs s.
StatesOf(s) == [i \in 1 .. Len(s) |-> s[i].state]

\* The stream of InputStream.tla, in terms of this state.  The client has
\* forgotten the inputs before the first one of its history.
Stream == INSTANCE InputStream WITH
            issued    <- StatesOf(sent),
            inForce   <- playerControls,
            forgotten <- clientHistory[1].id

\* Inputs are applied in the order given, none lost and none twice, and the
\* client drops none from its history that the server has not applied.
ImplementsInputStream == Stream!Spec

\* Every input sent is applied by the server in the end, and then leaves the
\* history the client replays, up to the one in force, if the server does not
\* skip the ticks of its Syncs for ever (SyncsAgain).
EveryInputForgotten ==
  \A k \in 1 .. MaxInputs : Len(sent) >= k ~> clientHistory[1].id >= k
-----------------------------------------------------------------------------
(***************************************************************************)
(* The inductive invariant behind the safety properties.  It holds as long *)
(* as no id is given twice.                                                *)
(***************************************************************************)
NoWrap == MaxInputs < IdModulus

\* Inputs on the server that are not in force yet.
Waiting == Len(serverHistory) - 1

\* The Hello is the first message each way, and nothing the client does
\* before it reaches the server.
Greeting ==
  /\ ~greeted => /\ toServer = <<HelloMessage>>
                 /\ sent = <<>>
                 /\ ~joined
                 /\ \A i \in 1 .. Len(toClient) : toClient[i].type = "Sync"
  /\ greeted => \A i \in 1 .. Len(toServer) : toServer[i].type = "Input"

\* Each input sent is applied, waiting on the server, or on its way.
EveryInputSomewhere ==
  Len(sent) = applied + Waiting + (IF greeted THEN Len(toServer) ELSE 0)

\* The ids count the inputs, and the client's history holds a run of ids that
\* ends with the last one given.
IdsCount ==
  /\ Len(sent) <= MaxInputs
  /\ lastInputId = applied
  /\ nextId = NextId(Len(sent))
  /\ \A i \in 1 .. Len(clientHistory) :
       clientHistory[i].id = Len(sent) - Len(clientHistory) + i

\* Acknowledgements on their way do not decrease, name no input before the
\* client's history and none that is not applied.
AcksInOrder ==
  /\ clientHistory[1].id <= applied
  /\ \A i \in 1 .. Len(toClient) :
       toClient[i].type = "Sync" =>
         /\ clientHistory[1].id <= toClient[i].ack
         /\ toClient[i].ack <= applied
         /\ \A j \in 1 .. i - 1 :
              toClient[j].type = "Sync" => toClient[j].ack <= toClient[i].ack

\* What waits on the server and what is on its way to it are the inputs sent
\* after those applied, in order.
InputsInOrder ==
  /\ \A i \in 2 .. Len(serverHistory) :
       /\ serverHistory[i].state = sent[applied + i - 1].state
       /\ serverHistory[i].dur = sent[applied + i - 1].dur
  /\ greeted =>
       \A i \in 1 .. Len(toServer) :
         /\ toServer[i].state = sent[applied + Waiting + i].state
         /\ toServer[i].dur = sent[applied + Waiting + i].dur

\* The durations sent are the times between the inputs.
ClientTimeline ==
  /\ \A k \in 1 .. Len(sent) :
       TimeAfter(sent, k) = TimeAfter(sent, k - 1) + sent[k].dur
  /\ clientTicks = TimeAfter(sent, Len(sent)) + Newest.dur

ControlsFollow ==
  /\ Newest.state = StateAfter(sent, Len(sent))
  /\ playerControls = StateAfter(sent, applied)

\* Where every input is and what every clock shows, at any moment: the facts
\* about ProcessControls, Receive, UpdateMove and the queues between them that
\* the other properties follow from.
IInv ==
  /\ TypeOK
  /\ HistoryNeverEmpty
  /\ Greeting
  /\ EveryInputSomewhere
  /\ IdsCount
  /\ AcksInOrder
  /\ SyncCarriesPlayer
  /\ InputsInOrder
  /\ ClientTimeline
  /\ ServerTimeline
  /\ ControlsFollow
=============================================================================
