------------------------- MODULE ServerConnections -------------------------
(***************************************************************************)
(* The server's connections and their players: the threads of the TCP and  *)
(* the websocket listener accept connections, receive messages and report  *)
(* closed connections; the game loop's thread takes all that over once a   *)
(* frame.  ConnectionManager's mutex guards the two lists of pending       *)
(* events, and the game loop holds it while it goes through both.          *)
(*                                                                         *)
(* m_current_player of a new ProtocolImpl is not initialised, so until the *)
(* Hello is handled it may hold any value, the id of another's player too. *)
(***************************************************************************)
EXTENDS Naturals, Sequences, FiniteSets, Functions

CONSTANTS
  Connections,  \* the connections clients make, each once
  WebSockets,   \* those of them that are websockets, not TCP connections
  Garbage,      \* what an uninitialised m_current_player may hold
  MaxInputs     \* bound: inputs a client sends

ASSUME ConstantsAssumption ==
  /\ IsFiniteSet(Connections)
  /\ WebSockets \subseteq Connections
  /\ Garbage \subseteq Nat /\ Garbage # {}
  /\ MaxInputs \in Nat

VARIABLES
  socket,             \* per connection: "none", "open" or "closed"
  received,           \* per connection: m_received
  inputs,             \* per connection: inputs the client sent (bound)
  pendingConnect,     \* m_pending_connect
  pendingDisconnect,  \* m_pending_disconnect
  mutex,              \* who holds m_connections_mutex: "nobody" or "game"
  pc,                 \* where the game loop's frame is
  index,              \* the next element of the list it goes through
  visited,            \* the connections the running loop is done with
  connections,        \* keys of Server::m_connections
  currentPlayer,      \* per connection: m_current_player
  waiting,            \* per connection: inputs in m_history not in force
  players,            \* keys of World::m_players
  nextPlayerId        \* World::m_next_player_id

\* History variables, read by the properties and as the client's knowledge.
VARIABLES
  greeted,            \* connections whose Hello is handled
  owner               \* per player id: the connection it was made for

ioVars == <<socket, received, inputs>>
pendingVars == <<pendingConnect, pendingDisconnect>>
worldVars == <<players, nextPlayerId, greeted, owner>>
vars == <<ioVars, pendingVars, mutex, pc, index, visited, connections,
          currentPlayer, waiting, worldVars>>

Init ==
  /\ socket = [c \in Connections |-> "none"]
  /\ received = [c \in Connections |-> <<>>]
  /\ inputs = [c \in Connections |-> 0]
  /\ pendingConnect = <<>>
  /\ pendingDisconnect = <<>>
  /\ mutex = "nobody"
  /\ pc = "frame"
  /\ index = 1
  /\ visited = {}
  /\ connections = {}
  /\ currentPlayer \in [Connections -> Garbage]
  /\ waiting = [c \in Connections |-> 0]
  /\ players = {}
  /\ nextPlayerId = 0
  /\ greeted = {}
  /\ owner = <<>>
-----------------------------------------------------------------------------
(***************************************************************************)
(* The listeners' threads.                                                 *)
(***************************************************************************)

\* The handler of an accepted connection calls PendingConnect before another
\* handler of its thread can run.
Accept(c) ==
  /\ socket[c] = "none"
  /\ mutex = "nobody"
  /\ socket' = [socket EXCEPT ![c] = "open"]
  /\ pendingConnect' = Append(pendingConnect, c)
  /\ UNCHANGED <<received, inputs, pendingDisconnect, mutex, pc, index, visited,
                 connections, currentPlayer, waiting, worldVars>>

\* NewMessage with the client's first message.
ReceiveHello(c) ==
  /\ socket[c] = "open"
  /\ c \notin greeted /\ received[c] = <<>>
  /\ received' = [received EXCEPT ![c] = <<"Hello">>]
  /\ UNCHANGED <<socket, inputs, pendingVars, mutex, pc, index, visited,
                 connections, currentPlayer, waiting, worldVars>>

\* NewMessage with an Input, which a client sends after the server's Hello.
ReceiveInput(c) ==
  /\ socket[c] = "open"
  /\ c \in greeted
  /\ inputs[c] < MaxInputs
  /\ inputs' = [inputs EXCEPT ![c] = @ + 1]
  /\ received' = [received EXCEPT ![c] = Append(@, "Input")]
  /\ UNCHANGED <<socket, pendingVars, mutex, pc, index, visited, connections,
                 currentPlayer, waiting, worldVars>>

\* A read fails, or the websocket is closed; no message comes after that.
Close(c) ==
  /\ socket[c] = "open"
  /\ mutex = "nobody"
  /\ socket' = [socket EXCEPT ![c] = "closed"]
  /\ pendingDisconnect' = Append(pendingDisconnect, c)
  /\ UNCHANGED <<received, inputs, pendingConnect, mutex, pc, index, visited,
                 connections, currentPlayer, waiting, worldVars>>

\* The listener's thread runs what a Send deferred to it, which calls the socket
\* of a websocket that has been closed since.  The behaviour is undefined: the
\* message is lost and nothing happens, or the server ends.  (It makes no
\* difference whether it ends while the game loop goes through the lists.)
UseClosedSocket(c) ==
  /\ c \in WebSockets \cap (greeted \cup connections)
  /\ socket[c] = "closed"
  /\ mutex = "nobody"
  /\ pc' = "aborted"
  /\ UNCHANGED <<ioVars, pendingVars, mutex, index, visited, connections,
                 currentPlayer, waiting, worldVars>>
-----------------------------------------------------------------------------
(***************************************************************************)
(* The game loop's thread: ProcessConnections.                             *)
(***************************************************************************)

StartFrame_NoLock ==
  /\ pc = "frame"
  /\ mutex = "nobody"
  /\ pc' = "connects"
  /\ index' = 1
  /\ UNCHANGED <<ioVars, pendingVars, mutex, visited, connections,
                 currentPlayer, waiting, worldVars>>

\* ProcessConnections takes the mutex.
StartFrame ==
  /\ pc = "frame"
  /\ mutex = "nobody"
  /\ mutex' = "game"
  /\ pc' = "connects"
  /\ index' = 1
  /\ UNCHANGED <<ioVars, pendingVars, visited, connections, currentPlayer,
                 waiting, worldVars>>

NewConnect ==
  /\ pc = "connects"
  /\ index <= Len(pendingConnect)
  /\ connections' = connections \cup {pendingConnect[index]}
  /\ index' = index + 1
  /\ UNCHANGED <<ioVars, pendingVars, mutex, pc, visited, currentPlayer,
                 waiting, worldVars>>

ClearConnects_WrongList ==
  /\ pc = "connects"
  /\ index > Len(pendingConnect)
  /\ pendingDisconnect' = <<>>
  /\ pc' = "disconnects"
  /\ index' = 1
  /\ UNCHANGED <<ioVars, pendingConnect, mutex, visited, connections,
                 currentPlayer, waiting, worldVars>>

ClearConnects ==
  /\ pc = "connects"
  /\ index > Len(pendingConnect)
  /\ pendingConnect' = <<>>
  /\ pc' = "disconnects"
  /\ index' = 1
  /\ UNCHANGED <<ioVars, pendingDisconnect, mutex, visited, connections,
                 currentPlayer, waiting, worldVars>>

Disconnect_PlayerKept ==
  /\ pc = "disconnects"
  /\ index <= Len(pendingDisconnect)
  /\ LET c == pendingDisconnect[index]
     IN  /\ c \in connections
         /\ connections' = connections \ {c}
  /\ index' = index + 1
  /\ UNCHANGED <<ioVars, pendingVars, mutex, pc, visited, currentPlayer,
                 waiting, worldVars>>

\* Server::Disconnect and ProtocolImpl::Disconnect: the connection goes and,
\* if there is one with that id, a player.
Disconnect ==
  /\ pc = "disconnects"
  /\ index <= Len(pendingDisconnect)
  /\ LET c == pendingDisconnect[index]
     IN  /\ c \in connections
         /\ players' = players \ {currentPlayer[c]}
         /\ connections' = connections \ {c}
  /\ index' = index + 1
  /\ UNCHANGED <<ioVars, pendingVars, mutex, pc, visited, currentPlayer,
                 waiting, nextPlayerId, greeted, owner>>

ClearDisconnects_NotCleared ==
  /\ pc = "disconnects"
  /\ index > Len(pendingDisconnect)
  /\ mutex' = "nobody"
  /\ pc' = "messages"
  /\ visited' = {}
  /\ UNCHANGED <<ioVars, pendingVars, index, connections, currentPlayer,
                 waiting, worldVars>>

\* ProcessConnections ends and gives the mutex back.
ClearDisconnects ==
  /\ pc = "disconnects"
  /\ index > Len(pendingDisconnect)
  /\ pendingDisconnect' = <<>>
  /\ mutex' = "nobody"
  /\ pc' = "messages"
  /\ visited' = {}
  /\ UNCHANGED <<ioVars, pendingConnect, index, connections, currentPlayer,
                 waiting, worldVars>>
-----------------------------------------------------------------------------
(***************************************************************************)
(* ProcessMessages and Simulate.  Each is a loop over m_connections, whose *)
(* order is that of a hash table.                                          *)
(***************************************************************************)
HandleHello_IdNotAdvanced(c) ==
  /\ Head(received[c]) = "Hello"
  /\ players' = players \cup {nextPlayerId}
  /\ currentPlayer' = [currentPlayer EXCEPT ![c] = nextPlayerId]
  /\ owner' = Append(owner, c)
  /\ greeted' = greeted \cup {c}
  /\ UNCHANGED <<waiting, nextPlayerId>>

HandleHello(c) ==
  /\ Head(received[c]) = "Hello"
  /\ players' = players \cup {nextPlayerId}
  /\ currentPlayer' = [currentPlayer EXCEPT ![c] = nextPlayerId]
  /\ owner' = Append(owner, c)
  /\ nextPlayerId' = nextPlayerId + 1
  /\ greeted' = greeted \cup {c}
  /\ UNCHANGED waiting

HandleInput(c) ==
  /\ Head(received[c]) = "Input"
  /\ waiting' = [waiting EXCEPT ![c] = @ + 1]
  /\ UNCHANGED <<currentPlayer, worldVars>>

\* The next message of a connection, whose lock is held only to take it out.
HandleMessage(c) ==
  /\ pc = "messages"
  /\ c \in connections \ visited
  /\ received[c] # <<>>
  /\ HandleHello(c) \/ HandleInput(c)
  /\ received' = [received EXCEPT ![c] = Tail(@)]
  /\ UNCHANGED <<socket, inputs, pendingVars, mutex, pc, index, visited,
                 connections>>

NoMoreMessages(c) ==
  /\ pc = "messages"
  /\ c \in connections \ visited
  /\ received[c] = <<>>
  /\ visited' = visited \cup {c}
  /\ UNCHANGED <<ioVars, pendingVars, mutex, pc, index, connections,
                 currentPlayer, waiting, worldVars>>

EndMessages ==
  /\ pc = "messages"
  /\ connections = visited
  /\ pc' = "simulate"
  /\ visited' = {}
  /\ UNCHANGED <<ioVars, pendingVars, mutex, index, connections, currentPlayer,
                 waiting, worldVars>>

\* UpdateMove puts the next input in force when its time has come.  at() throws
\* when the player is not in the world, and nothing catches that.
SwitchMove(c) ==
  /\ waiting[c] > 0
  /\ IF currentPlayer[c] \in players
     THEN /\ waiting' = [waiting EXCEPT ![c] = @ - 1]
          /\ visited' = visited \cup {c}
          /\ UNCHANGED pc
     ELSE pc' = "aborted" /\ UNCHANGED <<waiting, visited>>

KeepMove(c) ==
  /\ visited' = visited \cup {c}
  /\ UNCHANGED <<pc, waiting>>

UpdateMove(c) ==
  /\ pc = "simulate"
  /\ c \in connections \ visited
  /\ SwitchMove(c) \/ KeepMove(c)
  /\ UNCHANGED <<ioVars, pendingVars, mutex, index, connections, currentPlayer,
                 worldVars>>

\* A step is over, and m_lag asks for another one in the same frame.
AnotherStep ==
  /\ pc = "simulate"
  /\ connections = visited
  /\ visited' = {}
  /\ UNCHANGED <<ioVars, pendingVars, mutex, pc, index, connections,
                 currentPlayer, waiting, worldVars>>

\* The last step of the frame is over.
EndFrame ==
  /\ pc = "simulate"
  /\ connections = visited
  /\ pc' = "frame"
  /\ visited' = {}
  /\ UNCHANGED <<ioVars, pendingVars, mutex, index, connections, currentPlayer,
                 waiting, worldVars>>
-----------------------------------------------------------------------------
Listeners ==
  /\ pc # "aborted"
  /\ \E c \in Connections :
       \/ Accept(c) \/ ReceiveHello(c) \/ ReceiveInput(c) \/ Close(c)
       \/ UseClosedSocket(c)

ProcessConnections ==
  StartFrame \/ NewConnect \/ ClearConnects \/ Disconnect \/ ClearDisconnects

ProcessMessages ==
  (\E c \in Connections : HandleMessage(c) \/ NoMoreMessages(c)) \/ EndMessages

Simulate == (\E c \in Connections : UpdateMove(c)) \/ AnotherStep \/ EndFrame

Next == Listeners \/ ProcessConnections \/ ProcessMessages \/ Simulate

Spec == Init /\ [][Next]_vars
-----------------------------------------------------------------------------
(***************************************************************************)
(* Properties.                                                             *)
(***************************************************************************)

\* The variables keep to their ranges, and the game loop holds the mutex as
\* long as it goes through the two lists.
TypeOK ==
  /\ socket \in [Connections -> {"none", "open", "closed"}]
  /\ received \in [Connections -> Seq({"Hello", "Input"})]
  /\ inputs \in [Connections -> 0 .. MaxInputs]
  /\ pendingConnect \in Seq(Connections)
  /\ pendingDisconnect \in Seq(Connections)
  /\ pc \in {"frame", "connects", "disconnects", "messages", "simulate",
             "aborted"}
  /\ mutex = IF pc \in {"connects", "disconnects"} THEN "game" ELSE "nobody"
  /\ index \in Nat \ {0}
  /\ visited \subseteq connections
  /\ connections \subseteq Connections
  /\ currentPlayer \in [Connections -> Nat]
  /\ waiting \in [Connections -> 0 .. MaxInputs]
  /\ nextPlayerId \in Nat
  /\ players \subseteq 0 .. nextPlayerId - 1
  /\ greeted \subseteq Connections
  /\ owner \in Seq(Connections)
  /\ Len(owner) = nextPlayerId

\* No accepted connection and no closed one escapes the game loop: it is in a
\* list of pending events until Server::m_connections says the same of it.
NoEventLost ==
  \A c \in Connections :
    /\ socket[c] = "open" =>
         c \in Range(pendingConnect) \/ c \in connections
    /\ socket[c] = "closed" /\ c \in Range(pendingConnect) \cup connections =>
         c \in Range(pendingDisconnect)

\* Server::Disconnect uses the result of find() unchecked: a connection that
\* closes, even in the frame it was accepted in, is in m_connections by then.
DisconnectFindsConnection ==
  pc = "disconnects" =>
    \A i \in index .. Len(pendingDisconnect) :
      pendingDisconnect[i] \in connections

\* The connection Handle(Hello) made the player id for.
OwnerOf(id) == owner[id + 1]

\* No player outlives its connection.
NoOrphanPlayers == \A id \in players : OwnerOf(id) \in connections

\* A connection that closed before its Hello was handled took the player away:
\* its uninitialised m_current_player held the player's id.
Robbed(id) ==
  \E d \in Connections :
    /\ socket[d] = "closed"
    /\ d \notin greeted \cup connections
    /\ currentPlayer[d] = id

\* A connection keeps the player its Hello made, which only the disconnect of a
\* connection without a Hello can take from it: nothing else can make the at()
\* of UpdateMove throw and so stop the server, which without it only the socket
\* of a closed websocket can.
ServedHasPlayer ==
  /\ \A c \in connections \cap greeted :
       currentPlayer[c] \in players \/ Robbed(currentPlayer[c])
  /\ pc = "aborted" =>
       \/ \E c \in connections \cap greeted :
            waiting[c] > 0 /\ Robbed(currentPlayer[c])
       \/ \E c \in WebSockets : socket[c] = "closed"
-----------------------------------------------------------------------------
(***************************************************************************)
(* The inductive invariant behind the safety properties.                   *)
(***************************************************************************)

\* What the game loop has not gone through of the two lists is still to be
\* done, and what it has gone through is done.
ListsInOrder ==
  /\ \A c \in Connections :
       socket[c] = "none" => c \notin Range(pendingConnect) \cup connections
  /\ \A i \in 1 .. Len(pendingDisconnect) :
       socket[pendingDisconnect[i]] = "closed"
  /\ \A i, j \in 1 .. Len(pendingDisconnect) :
       pendingDisconnect[i] = pendingDisconnect[j] => i = j
  /\ \A i \in 1 .. Len(pendingDisconnect) :
       IF pc = "disconnects" /\ i < index
       THEN pendingDisconnect[i] \notin connections
       ELSE pendingDisconnect[i] \in Range(pendingConnect) \cup connections
  /\ pc = "connects" =>
       \A i \in 1 .. Len(pendingConnect) :
         i < index => pendingConnect[i] \in connections
  /\ pc = "disconnects" => pendingConnect = <<>>
  /\ pc \in {"frame", "connects", "disconnects"} => visited = {}

\* A connection enters m_connections once, and before its Hello is handled.
ConnectedOnce ==
  /\ \A c \in greeted : socket[c] # "none" /\ c \notin Range(pendingConnect)
  /\ pc # "connects" => connections \cap Range(pendingConnect) = {}

\* A client sends its Hello first and once, and inputs after the answer.
HelloFirst ==
  \A c \in Connections :
    IF c \in greeted
    THEN /\ received[c] \in Seq({"Input"})
         /\ waiting[c] + Len(received[c]) <= inputs[c]
    ELSE /\ received[c] \in {<<>>, <<"Hello">>}
         /\ waiting[c] = 0 /\ inputs[c] = 0

\* A connection with a Hello and the player made for it know each other.
PlayersKnown ==
  /\ \A k \in 1 .. Len(owner) : owner[k] \in greeted
  /\ \A id \in players : currentPlayer[OwnerOf(id)] = id
  /\ \A c \in greeted :
       /\ currentPlayer[c] \in 0 .. nextPlayerId - 1
       /\ OwnerOf(currentPlayer[c]) = c

\* Whoever took the player away is gone for good.
TakenAway(id) ==
  \E d \in Connections :
    /\ socket[d] = "closed"
    /\ d \notin greeted \cup connections \cup Range(pendingConnect)
    /\ currentPlayer[d] = id

TakenForGood ==
  \A c \in connections \cap greeted :
    currentPlayer[c] \in players \/ TakenAway(currentPlayer[c])

IInv ==
  /\ TypeOK
  /\ NoEventLost
  /\ ListsInOrder
  /\ ConnectedOnce
  /\ HelloFirst
  /\ PlayersKnown
  /\ NoOrphanPlayers
  /\ TakenForGood
  /\ ServedHasPlayer
=============================================================================
