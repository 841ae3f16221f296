---------------------------- MODULE ClientViews ----------------------------
(***************************************************************************)
(* What the clients see of each other.  The server's Syncs carry all its   *)
(* players to every connection; a client takes them over, once Hello has   *)
(* given it its own, and looks its own up in them.                         *)
(*                                                                         *)
(* Each action of the server is the one of ServerConnections with what it  *)
(* sends; each client is its ProtocolImpl and the keys of its m_players.   *)
(* Positions and inputs are in Reconciliation.                             *)
(***************************************************************************)
EXTENDS ServerConnections

CONSTANTS
  SyncPeriod,   \* PostSimulate sends when the tick is a multiple of it
  MaxInFlight   \* bound: messages to a client it has not read

ASSUME ViewsAssumption ==
  /\ SyncPeriod \in Nat \ {0}
  /\ MaxInFlight \in Nat

VARIABLES
  tick,       \* m_simulation_tick modulo SyncPeriod
  toClient,   \* per connection: messages the client has not read
  own,        \* per client: m_current_player_id, 0 until Hello sets it
  view,       \* per client: keys of World::m_players
  crashed     \* clients that at() ended

clientVars == <<own, view, crashed>>
viewVars == <<tick, toClient, clientVars>>
allVars == <<vars, viewVars>>

HelloMessage(id) == [type |-> "Hello", id |-> id]
SyncMessage(ids) == [type |-> "Sync", players |-> ids]

VInit ==
  /\ Init
  /\ tick = 0
  /\ toClient = [c \in Connections |-> <<>>]
  /\ own = [c \in Connections |-> 0]
  /\ view = [c \in Connections |-> {}]
  /\ crashed = {}

\* World::HasPlayer with the client's own id.
Joined(c) == own[c] \in view[c]
-----------------------------------------------------------------------------
(***************************************************************************)
(* The clients.                                                            *)
(***************************************************************************)
ClientReceiveHello(c) ==
  /\ Head(toClient[c]).type = "Hello"
  /\ own' = [own EXCEPT ![c] = Head(toClient[c]).id]
  /\ view' = [view EXCEPT ![c] = @ \cup {Head(toClient[c]).id}]
  /\ UNCHANGED crashed

ClientReceiveSync_PlayersAdded(c) ==
  /\ Head(toClient[c]).type = "Sync"
  /\ IF Joined(c)
     THEN view' = [view EXCEPT ![c] = @ \cup Head(toClient[c]).players]
     ELSE UNCHANGED view
  /\ UNCHANGED <<own, crashed>>

ClientReceiveSync_NotJoined(c) ==
  /\ Head(toClient[c]).type = "Sync"
  /\ IF own[c] \in Head(toClient[c]).players
     THEN view' = [view EXCEPT ![c] = Head(toClient[c]).players]
          /\ UNCHANGED crashed
     ELSE crashed' = crashed \cup {c} /\ UNCHANGED view
  /\ UNCHANGED own

\* Handle(Sync) is skipped before Hello; at() throws if the client's own player
\* is not among the server's.
ClientReceiveSync(c) ==
  /\ Head(toClient[c]).type = "Sync"
  /\ IF Joined(c) /\ own[c] \notin Head(toClient[c]).players
     THEN crashed' = crashed \cup {c} /\ UNCHANGED view
     ELSE /\ view' = IF Joined(c)
                     THEN [view EXCEPT ![c] = Head(toClient[c]).players]
                     ELSE view
          /\ UNCHANGED crashed
  /\ UNCHANGED own

ClientReceive(c) ==
  /\ socket[c] = "open"
  /\ c \notin crashed
  /\ toClient[c] # <<>>
  /\ ClientReceiveHello(c) \/ ClientReceiveSync(c)
  /\ toClient' = [toClient EXCEPT ![c] = Tail(@)]
  /\ UNCHANGED <<vars, tick>>

\* The client's messages and its end, at whatever time.
VListeners ==
  /\ pc # "aborted"
  /\ \E c \in Connections :
       \/ /\ Accept(c) \/ ReceiveHello(c) \/ UseClosedSocket(c)
          /\ UNCHANGED toClient
       \/ /\ Joined(c) /\ c \notin crashed
          /\ ReceiveInput(c)
          /\ UNCHANGED toClient
       \/ Close(c) /\ toClient' = [toClient EXCEPT ![c] = <<>>]
  /\ UNCHANGED <<tick, clientVars>>
-----------------------------------------------------------------------------
(***************************************************************************)
(* The server.                                                             *)
(***************************************************************************)
VProcessConnections == ProcessConnections /\ UNCHANGED viewVars

\* What is sent to a connection that is closed is lost: the write fails, or of
\* a websocket UseClosedSocket says what happens.
Sent(c, message) ==
  IF socket[c] = "open" THEN Append(toClient[c], message) ELSE toClient[c]

\* Handle(Hello) answers with the new player's id.
VHandleMessage(c) ==
  /\ HandleMessage(c)
  /\ toClient' =
       IF Head(received[c]) = "Hello"
       THEN [toClient EXCEPT ![c] = Sent(c, HelloMessage(currentPlayer'[c]))]
       ELSE toClient
  /\ UNCHANGED <<tick, clientVars>>

VProcessMessages ==
  \/ \E c \in Connections : VHandleMessage(c)
  \/ /\ EndMessages \/ \E c \in Connections : NoMoreMessages(c)
     /\ UNCHANGED viewVars

SendSync_OwnOnly ==
  toClient' =
    [c \in Connections |->
       IF c \in connections
       THEN Sent(c, SyncMessage(players \cap {currentPlayer[c]}))
       ELSE toClient[c]]

SendSync ==
  toClient' = [c \in Connections |->
                 IF c \in connections THEN Sent(c, SyncMessage(players))
                                      ELSE toClient[c]]

\* m_simulation_tick++, after every step.
CountStep == tick' = (tick + 1) % SyncPeriod

VAnotherStep ==
  /\ AnotherStep
  /\ CountStep
  /\ UNCHANGED <<toClient, clientVars>>

\* PostSimulate looks at the tick once, after the last step of the frame.
SyncFrame ==
  /\ EndFrame
  /\ CountStep
  /\ tick' = 0
  /\ \A c \in connections : Len(toClient[c]) < MaxInFlight
  /\ SendSync
  /\ UNCHANGED clientVars

SilentFrame ==
  /\ EndFrame
  /\ CountStep
  /\ tick' # 0
  /\ UNCHANGED <<toClient, clientVars>>

VSimulate ==
  \/ (\E c \in Connections : UpdateMove(c)) /\ UNCHANGED viewVars
  \/ VAnotherStep
  \/ SyncFrame
  \/ SilentFrame
-----------------------------------------------------------------------------
VNext ==
  \/ \E c \in Connections : ClientReceive(c)
  \/ VListeners
  \/ VProcessConnections
  \/ VProcessMessages
  \/ VSimulate

VSpec == VInit /\ [][VNext]_allVars

\* The game loops of the server and of the clients run.
LoopsRun ==
  /\ WF_allVars(VProcessConnections \/ VProcessMessages \/ VSimulate)
  /\ \A c \in Connections : WF_allVars(ClientReceive(c))

\* The server is not late for ever: again and again a frame of it ends with the
\* step that makes the tick a multiple of SyncPeriod.  The code does not see to
\* that: a server that makes two steps in every frame, at odd ticks, runs and
\* sends no Sync.  A server that keeps up misses none (GameLoop's
\* SyncEveryPeriod).
SyncsAgain == SF_allVars(SyncFrame)

VFairSpec == VSpec /\ LoopsRun /\ SyncsAgain
-----------------------------------------------------------------------------
(***************************************************************************)
(* Properties.                                                             *)
(***************************************************************************)

\* No Sync makes the client's at() throw, in whatever order Hello and Syncs of
\* several connections come, unless its player was taken from it by a
\* connection that closed before its Hello.
CrashOnlyIfRobbed == \A c \in crashed : Robbed(own[c])

\* A player a Hello makes appears in the end on every client, on the client's
\* own as the one it moves, unless the connection or that client goes before.
HelloAppears ==
  \A c, d \in Connections :
    received[c] # <<>> /\ Joined(d) ~>
      \/ socket[c] = "closed" \/ socket[d] = "closed"
      \/ Joined(c) /\ own[c] \in view[d]

\* A closed connection leaves the server in the end, and its player leaves the
\* server's world and every client's.
ClosedDisappears ==
  \A c \in Connections :
    socket[c] = "closed" ~>
      /\ c \notin Range(pendingConnect) \cup Range(pendingDisconnect)
      /\ c \notin connections
      /\ \A id \in players : OwnerOf(id) # c
      /\ \A d \in Connections :
           socket[d] = "open" => \A id \in view[d] : OwnerOf(id) # c
-----------------------------------------------------------------------------
(***************************************************************************)
(* The inductive invariant behind CrashOnlyIfRobbed.                       *)
(***************************************************************************)
Message == [type : {"Hello"}, id : Nat]
             \cup [type : {"Sync"}, players : SUBSET Nat]

ViewsTypeOK ==
  /\ toClient \in [Connections -> Seq(Message)]
  /\ own \in [Connections -> Nat]
  /\ view \in [Connections -> SUBSET Nat]
  /\ crashed \subseteq Connections

\* Hello tells a client the id of its player once and for all.
OwnIsCurrent ==
  \A c \in Connections :
    /\ Joined(c) \/ c \in crashed =>
         c \in greeted /\ own[c] = currentPlayer[c]
    /\ \A i \in 1 .. Len(toClient[c]) :
         toClient[c][i].type = "Hello" =>
           c \in greeted /\ toClient[c][i].id = currentPlayer[c]

\* Of the messages to c the one at i will find its player known to c.
AfterHello(c, i) ==
  Joined(c) \/ \E j \in 1 .. i - 1 : toClient[c][j].type = "Hello"

\* A Sync on its way that the client will not skip has the client's player in
\* it, or that player was taken away.
SyncsHaveOwn ==
  \A c \in Connections :
    /\ \A i \in 1 .. Len(toClient[c]) :
         toClient[c][i].type = "Sync" /\ AfterHello(c, i) =>
           \/ currentPlayer[c] \in toClient[c][i].players
           \/ TakenAway(currentPlayer[c])
    /\ c \in crashed => TakenAway(currentPlayer[c])

VInv == IInv /\ ViewsTypeOK /\ OwnIsCurrent /\ SyncsHaveOwn
=============================================================================
