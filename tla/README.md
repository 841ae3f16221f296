# Enflopio: specification and proofs

Enflopio is a multiplayer game: a server simulates a world of circles and
players, and clients (native over TCP, browser over WebSocket) send it their
controls, predict their own player and correct it with the server's Syncs.
This directory holds TLA+ models of the parts with logic that is hard to test,
the TLC configurations that check them and TLAPS proofs of every safety property
they find to hold.
All definitions are translated from the code; comments in the modules name it.

## 1. Inventory

| part | state | operations | interacts with |
|---|---|---|---|
| `NetworkInputManager` (client) | `m_history` (input, duration), `m_next_id` | `ProcessControls`, `Receive` with `ClearHistory` | sends `Input`, reads `Sync` |
| `ProtocolImpl` (server, one per connection) | `m_history`, `m_current_input_delta`, `m_last_input_delta`, `m_last_input_id`, `m_current_player` | `Handle(Hello)`, `Handle(Input)`, `UpdateMove`, `Disconnect` | world, connection |
| `ProtocolImpl` (client) | none of its own | `Handle(Hello)`, `Handle(Sync)` | world, `NetworkInputManager` |
| `GameLoop` (both) | `m_lag`, `m_last_update`, ticks | `Run`, `Frame` | clock, sleep, the hooks of `Server` and `App` |
| `Server` | `m_connections`, world | `PreSimulate` (`ProcessConnections`, `ProcessMessages`), `Simulate`, `PostSimulate` | everything on the server |
| `ConnectionManager`, listeners | two lists of pending events, a mutex | `PendingConnect`, `PendingDisconnect`, `ProcessConnections` | threads of the listeners, game loop |
| `Connection` | `m_received`, a mutex | `NewMessage`, `HasNext`, `ReadNext` | listener's thread, game loop |
| `TCPConnection`, `ASIOConnection` | output queue, current header and message | `Send`, `Write`, `ReadNextMessage`, `ReadMessage` | io_context thread, socket |
| `WebSocketConnection`, `WebsocketConnection` | a socket | `Send`, callbacks | uWebSockets, browser |
| `World`, `Player` | players, circles, next id | `AddPlayer`, `RemovePlayer`, `Update` | physics |
| `CirclePhysics` | positions, velocities | `Proccess`, `ResolveCollisions`, `Move` | world |
| `ProcessManager`, `Process` | list of processes, state, successor | `Add`, `Update`, `SetNext`, `Stop` | client's game loop |
| generic processes | times, callbacks, children | `Init`, `Update` | `ProcessManager` |
| `InterpolationProcess`, `Camera` | offset, position | `Update` | client's world |
| `Repl` | queue of commands, a thread | `StartInput`, `ProcessCommands` | `Server` |
| `App`, rendering, logging | window, batches | GLFW, ImGui, OpenGL | I/O only |

What is hard about it: nothing in the messages says which input of the client a
Sync is about, apart from a count; two game loops run at their own pace, a frame
makes no step, one or several; connections come and go in other threads; a
member is read before it is ever set; a queue of asynchronous writes shares one
header; a list is walked while it changes; a correction of the client's player
is worked off over many steps while the next Syncs replace it. `PROJECT.json`
lists these hazards at their lines, with the properties about them.

What makes each part correct: inputs take effect once, in order, at the time the
client gave them (input protocol); acknowledgements name inputs the client still
has; the server moves the player as the client did, and a correction brings the
client's player to the server's and nowhere else (reconciliation); all clients
see the same players come and go; no simulated time is lost and Syncs keep their
period (game loop); every connection event reaches the game loop and a player
lives as long as its connection (connections); messages arrive whole and in order (framed
connection); each process gets one turn a pass (process manager) and its
composites run their children as they say (generic processes).

## 2. Modules

### InputSync, InputStream: the input protocol

`InputSync` models one client and its connection on the server. Its time is
counted in simulation steps: `delta` is always `m_desired_delta`, so a duration
is a number of steps. Controls are model values. Each direction is one FIFO of
messages, which stands for the socket, the queue of received messages and
everything between; `FramedConnection` is about that part.

| model | code |
|---|---|
| `clientHistory`, `nextId` | `NetworkInputManager::m_history`, `m_next_id` |
| `serverHistory`, `currentInputDelta`, `lastInputDelta`, `lastInputId` | the members of the server's `ProtocolImpl` |
| `joined`, `greeted` | the world of the client, of the server, has the player |
| `simulationTick`, `frameTicks` | `m_simulation_tick % 4`, the turn of the loop in `Frame` |
| `ClientSimulate` = `ChangeControls` or `KeepControls` | `App::Simulate`, `ProcessControls` |
| `ClientReceiveHello`, `ClientReceiveSync` | the client's `ProtocolImpl`, `Receive`, `ClearHistory` |
| `ServerReceive` = `HandleHello` or `HandleInput` | `Server::ProcessMessages` and the two handlers |
| `ServerSimulate` = `SwitchMove` or `KeepMove`, then `PostSimulate` | `UpdateMove`, `Server::PostSimulate`, `SendSync` |

`LowerBounds` gives the positions `std::lower_bound` can return, also when ids
do not ascend; ids are taken modulo `IdModulus`, 2^32 in the code. `sent`,
`applied`, `clientTicks`, `serverTicks` are history variables: the properties
and the bounds read them, no action's guard otherwise.

`InputStream` is the promise: controls are issued, applied one at a time in that
order, and forgotten by the client only once applied. `InputSync` implements it
with `issued` the states of all inputs sent, `inForce` the controls of the
player on the server, and `forgotten` the id at the front of the client's history.

### Reconciliation, PlayerMotion: what the inputs do to the player

`PlayerMotion` gives `Player::Update`, the replay's inner loop, an Update of
`InterpolationProcess` and the end of `Receive` as operators, in one dimension
and integers. With the constants of the code a velocity is a whole number of
half units a second and a position a whole number of 1/120 units, so nothing is
rounded but the interpolation's dynamic part, a sixtieth of the offset, which is
taken either way.

`Reconciliation` EXTENDS both: each action is the one of `InputSync` with what it
does to the players.

| model | code |
|---|---|
| `serverPlayer`, `clientPlayer` | the player in the server's and in the client's `World` |
| `offset` | `InterpolationProcess::offset` |
| `snapshots` | the player in each Hello and Sync on its way |
| `RClientSimulate` | `App::Simulate`: controls, interpolation, world |
| `RClientReceiveSync` with `Replayed`, `KeptPlayer`, `NewOffset` | `Handle(Sync)` and `Receive` |
| `RServerSimulate` with `MoveServerPlayer` | `Server::Simulate`: `UpdateMove`, then `World::Update` |

`moved`, `late` and `onTime` are history variables: the steps made under the
input in force, by how many steps each input was applied too late (what
`UpdateMove` carries over at the switch), and whether none was. `Path` is the
reference: where the inputs the client gave lead if each lasts as long as its
message says. `AsApplied` are those inputs with the lateness of each: one that is
late leaves the input before it in force for longer, and is cut short by as much.

### Settling

The end of a movement: the player has come to rest on the server, every Sync
says the same place, and only interpolation moves the client's player. It
isolates the one hazard that `Reconciliation` is too large for: `Receive` leaves
an offset alone when the difference is small at that moment, however large the
offset that is still being worked off.

### GameLoop

`Frame` in steps: `BeginFrame` (up to the loop), `SimulateStep`, `EndFrame`,
`Sleep`; `Work` lets the clock advance while a frame runs, `SetClockBack` lets
the system set the clock back. `Sleeps` tells the server from the client. Time
is an integer; a step is `DesiredDelta` units. `onTime` (no frame took more than
a step yet) and `setBack` (how far the clock has been set back) are history
variables: one instance with frames of any length then says both what a server
that keeps up does and what a late one does.

### ServerConnections

The listeners' threads (`Accept`, `ReceiveHello`, `ReceiveInput`, `Close`) and
the game loop's frame, step by step: `StartFrame` takes the mutex, `NewConnect`
and `Disconnect` handle one element of a list each, `ClearConnects` and
`ClearDisconnects` clear the lists, then `HandleMessage`, `UpdateMove` for every
connection in any order (the map is a hash table), once for each step of the
frame: after a step `AnotherStep` begins the next one of the same frame, or
`EndFrame` ends it. The steps of a frame interleave with the listeners' wherever
no mutex forbids it. When an input is
due is left open (`InputSync` says it): `SwitchMove` and `KeepMove` are both
possible.

`m_current_player` of a new `ProtocolImpl` is not initialised; here it starts
with any value of `Garbage`, which may be another player's id. The properties
say how far the harm goes: a connection closed before its Hello was handled may
take that player away, and nothing else can. `at()` throwing ends the server
(`pc = "aborted"`). So may, by `UseClosedSocket`, a message to a websocket that
is closed: the event loop then sends through a dangling pointer
(`websocket_connection.cpp:11-17`), which is undefined, and the model lets the
server end by it or lose the message. `WebSockets` are the connections of that
kind; the properties name this end beside the other.

### ClientViews

`ClientViews` composes `ServerConnections` with the clients: each action of the
server is the one of `ServerConnections` with what it sends, and each client has
the id Hello gave it (`own`) and the keys of its `World::m_players` (`view`). A
Sync carries all players of the server; `Handle(Sync)` takes them over once the
client has its own, and ends the client (`crashed`) if that one is missing. A
frame makes one step or several (`VAnotherStep`), each of which counts the tick;
at its end `PostSimulate` looks at the tick once and sends (`SyncFrame`) or does
not (`SilentFrame`).

### FramedConnection, FifoChannel

One direction of a TCP connection; the server's `TCPConnection` and the client's
`ASIOConnection` have the same code for it. `Send` posts, `RunPosted` queues and
starts a write if none runs, `Transfer` moves one unit of a running
`async_write` to the wire, `Written` and `WriteFails` are its handler, the
receiver reads a header and then a body. The header of a running write is read
from the shared member at the time it is transferred, and any number of writes
could run at once: that only one does is a property. `Break` breaks the
connection at any time, with what is on the wire lost or not. Each end notices
it by itself, or never: nothing is sent to keep the connection alive and no read
has a timeout, so to a peer that is lost silently writes go on for a while, into
nothing, and reads wait. `FifoChannel` is the promise that `InputSync` relies on.

### ProcessManager, GenericProcesses

`ProcessManager` models `Update` turn by turn with arbitrary processes that may
stop, append processes and set successors within their turn. `GenericProcesses`
models the leaf classes and `Consecutive` and `And` of them, driven as the
manager drives them.

## 3. Runs

| run | bounds | shows |
|---|---|---|
| `InputSync_safety` | 3 inputs over 3 control states, client 4 and server 5 idle steps, frames of 1 or 2 steps, Sync every 4th step, 4 ids | histories, acknowledgements, timeline, refinement of `InputStream` |
| `InputSync_wrap` | 2 inputs, 2 ids | expected violation, see Findings |
| `Reconciliation` | 2 inputs over 3 directions, client 5 and server 4 idle steps, frames of 1 or 2 steps, Sync every 2nd step, cap 5, acceleration and damping 2 | the server follows the client's path however late inputs are, what the replay counts, velocity, inputs are forgotten |
| `Reconciliation_replay` | the same with client 3 steps | expected violation, see Findings |
| `Settling` | the code's constants, distances and offsets to 70 (of 120 a unit) | comes only closer, comes to rest |
| `GameLoop` | step 3, frames up to 8, oversleep 1, set back by 2 in all, clock to 24 | time conserved and made up for, sleeps, Syncs of a server in time |
| `ServerConnections` | 3 connections, one of them a websocket, 1 input each, frames of any number of steps, garbage a player's id or none's | events, players, aborts |
| `ClientViews_live` | 2 clients, 1 input each, harmless garbage, frames of any number of steps, Sync every 2nd step, 2 messages in flight | players appear and disappear on all clients; no deadlock |
| `ClientViews_safety` | 3 clients, no inputs, garbage a player's id or none's, Sync every step | when a client's `at()` throws |
| `FramedConnection` | 4 messages of 1 or 2 bytes, a break anywhere | framing, one write, arrival, when a sender stays mute, refinement of `FifoChannel` |
| `ProcessManager` | 3 processes, any number of turns | turns, ownership, ended ones erased, successors run |
| `GenericProcesses` | 3 leaves of 8 classes, times 0 to 2, 9 Updates | order and times, composites end |

Why the bounds are enough. Three inputs let one input be in force, one wait on
the server and one be on its way while Syncs for two others are in flight;
frames of two steps skip a Sync's tick and reach it at a frame's end; four ids
for three inputs are the tightest that do not wrap. Past `MaxServerTicks` the
server works off what waits, so that every input can still be applied, and need
not go on: one that stops at an odd tick stands for one that makes two steps in
every further frame. In
`Reconciliation` two inputs are one in force and one that follows, early, in
time or late; five steps of the client reach the velocity cap, turn, and damp a
velocity that is not a multiple of the damping (5 against 2). In `Settling`,
70 lies on both sides of 60, where the dynamic part of the interpolation
becomes a whole step, and is many times the tolerance of 2. In `GameLoop`, a
frame of 2 and an oversleep of 1 are the edge of keeping up, and 8 units of work
the case of several steps in one frame. Three connections are one that owns a
player, one that can take it and one beside them; two are enough for one client
to see the other come and go. In `FramedConnection` four messages are one
written, one queued, one posted and one received. Three processes are two in the
list and a successor, or one that runs and two it adds; each can be stopped
before its turn, in it and after it. Nine Updates are what a Consecutive of
three leaves with times of 2 needs.

The names of controls (`InputSync_safety`, `InputSync_wrap`) and of the
connections that are no websockets (`ServerConnections`) are symmetric; no liveness run uses symmetry, and in
`Reconciliation` directions are numbers. Deadlock is checked in `Settling`,
`ClientViews_live` and `ProcessManager`; elsewhere a bound, the end of all
inputs, or (in `ServerConnections`, `ClientViews_safety`) an abort ends
behaviours. `SyncFrame` waits while a client has `MaxInFlight` unread messages:
a bound on the queue, not a wait of the code, and the clients' fairness ends it.
The client's game loop (`Sleeps = FALSE`) has no run of its own: the theorems of
`GameLoopProofs` hold for either value of `Sleeps`.

Fairness. `InputSync`, `Reconciliation`: the client's loop reads what has
arrived (weak), the server makes steps within its bound and while an input waits
or a frame is under way (weak), and frames of the server read what has arrived:
strong, as reading is possible only between frames and so is not continuously
enabled. The user owes nothing. `Reconciliation` asks it of the actions of
`InputSync`, which the players never keep from happening. `Settling`: the client
simulates and Syncs keep coming (weak). `GameLoop`: the loop's own steps (weak).
`ClientViews`: the server's game loop runs (weak), also through the mutex, which
listeners hold only for one `push_back`, and each client reads what has arrived
(weak). `FramedConnection`: as long as the connection works the two io_context
threads run and the socket takes bytes (weak); nothing is promised of a broken
one. `ProcessManager`, `GenericProcesses`: the client's loop calls `Update`
(weak).

One assumption is not of this kind, and has a name: `SyncsAgain`, in `InputSync`
and in `ClientViews`. `PostSimulate` looks at `m_simulation_tick % 4` once a
frame (`server.cpp:162`), and `Frame` may make several steps before it
(`game_loop.hpp:96-102`). A server whose frames take between one and two steps
makes two steps in every frame; if they end at odd ticks it runs for ever and
sends no Sync. No history is shortened then and no player appears or disappears.
Nothing in the code prevents that. `EveryInputForgotten`, `HelloAppears` and
`ClosedDisappears` therefore assume `SyncsAgain`, that a frame ends at a Sync's
tick again and again, as a strong fairness condition; without it TLC finds each
of the three violated by just that behaviour. A server that was never late meets
the assumption: `SyncEveryPeriod` of `GameLoop`, proved as `SyncIsNeverMissed`.

Each property of a passing run has a mutant in `PROJECT.json`: an operator of
the module (named `<definition>_<mistake>`) that a plausible bug would put in
the place of a definition, and that makes TLC find the property violated.

## 4. Findings

`InputSync_wrap`: the comment "Intsdtst history is never empty"
(`client/src/network_input_manager.hpp:18`) and the assertion in
`ProcessControls` (line 26) fail once the ids wrap around. Ids 2^32 - 1 and 0 are
in the history together, `lower_bound` (line 56) searches a range that is not
sorted, may return the end, and everything is erased; `Receive` then uses
`front()` of an empty deque. It takes 2^32 changes of controls in one session,
so it is a limit rather than a danger; the proofs make it the hypothesis `NoWrap`.

`Reconciliation_replay`: `Receive` is to move the server's player by the inputs
the server has not applied ("//Simulate server_player for history",
`client/src/network_input_manager.cpp:25`), and `client_player` was moved by all
of them, so without latency jitter the two should agree. They do not.
`UpdateMove` switches the controls and calls `ResetMove` before `World::Update`
moves the player in the same step, so the player has moved once under an input
of which `InputDelta()` says that no time has passed. `Receive` subtracts
`InputDelta()` from the input's duration and replays one step too many; each
Sync while the player moves then starts a correction of up to a step's way
(8/60 units), and it is taken back when the player rests. `ReplaysOneStepMore`,
checked and proved, says exactly how far the count is off, and
`ServerFollowsPath` that only the count is: the server's own movement is right,
of inputs that come late too.
`ReplayIsOneStepOff`, proved for inputs of any number and length, says where the
replay ends instead of where `ReplayGivesPrediction` expects it: where the
inputs lead when the acknowledged one lasts the step of its switch longer. That
step is the whole of the defect. The first input is not switched to, and has no
such step.

## 5. Proofs

`tlapm` checks `InputSyncProofs`, `ReconciliationProofs`, `SettlingProofs`,
`GameLoopProofs`, `ServerConnectionsProofs` (also of `ClientViews`),
`FramedConnectionProofs`, `ProcessManagerProofs` and `GenericProcessesProofs`.
The only assumptions are the modules' assumptions on their constants
(`ConstantsAssumption`, `MotionAssumption`, `DirectionAssumption`,
`MaxDistanceAssumption`, `ViewsAssumption`) and, where stated,
`NoWrap == MaxInputs < IdModulus`.

**InputSyncProofs.** `TypeCorrect` and `SyncAlwaysCarriesPlayer` need no
hypothesis. Type correctness includes that `currentInputDelta` stays a natural
number: `UpdateMove` never subtracts more than has passed. The other theorems
follow from `InductiveInvariant`: `NoWrap => (Spec => []IInv)`. `IInv` says

- `Greeting`: before the Hello is handled nothing but it is on its way, after it
  only inputs are;
- `EveryInputSomewhere`: inputs sent = applied + waiting + on their way;
- `IdsCount`: ids are positions in the stream of inputs, and the client's
  history is a run of ids that ends with the last;
- `AcksInOrder`: acknowledgements in flight ascend, from the front of the
  client's history to the number applied;
- `InputsInOrder`: what waits and what is on its way are the next inputs sent;
- `ClientTimeline`, `ServerTimeline`, `ControlsFollow`: the clocks and the
  controls are those of the stream.

TLC checked each conjunct of `IInv` on the instance of `InputSync_safety` before
it was proved. `AckInHistory` alone is not inductive: that an acknowledgement
still names an input of the history after another Sync has cleared part of it
needs the order of acknowledgements in flight, that order needs the count on the server, and
that count needs every input to be somewhere. One lemma per action shows that
`IInv` is preserved. From it follow `HistoryIsNeverEmpty`, `IdsAlwaysAscend`,
`AckAlwaysInHistory`, `ServerKeepsTimeline`, and `ImplementsStream`: every step
of `InputSync` is a step of `InputStream` or leaves it unchanged (`Issue` for a
change of controls, `Apply` for a switch, `Forget` for a Sync).

**ReconciliationProofs.** `RefinesInputSync`: `RSpec => Spec`, so all of the
above holds with positions too. `ReplayIsOneStepMore` needs `RIInv`: every
message has its snapshot, and `StepsCounted`, which says of the present and of
each Sync on its way that `InputDelta()` counts the steps under the input in
force but for the one of the switch. That the history `Receive` replays begins
with a duration at all comes from `IInv`: `lower_bound` finds the acknowledged
input. `RTypeCorrect` needs no hypothesis.

Where the players are is `PlayersInv`. `VelocityIsOwn` is not inductive: the
client takes over a player from a message, and replays from a history.
`PlayersInv` adds

- `HelloOnce`: one Hello, with the player at rest, before the first input;
- `SnapshotsFollow`: each player on its way is where the inputs applied when it
  was sent lead, if all were on time, and its Sync acknowledges just those;
- `OnTimeFollowsPath`: while all were on time, the server's player is where the
  client's inputs lead;
- `HistoryIsSent`: the history is the end of the stream of inputs, duration by
  duration, so that what is replayed is what was given.

`VelocityIsAlwaysOwn` and `ReplayIsAlwaysOneStepOff` follow, under `NoWrap`.
`ServerAlwaysFollows` is about inputs as late as they may be. Its invariant is
`LateInv`: the lateness of the input in force is `lastInputDelta`, and each input
that is over lasted the client's duration and the lateness of the next, less its
own, and never less than nothing. `SwitchFollows` has the arithmetic: the steps
made under the old input are `currentInputDelta + 1 - lastInputDelta`, of which
`UpdateMove` takes the client's duration off and leaves the rest to the next.
 `Run`, `Replayed` and `Path` are recursive functions, and
what they yield for every number of steps needs induction over data. The
library's induction theorems take an operator as a parameter, which no prover
here can instantiate; the proofs go by the least counterexample instead:
`SetInduction` takes the set of the numbers for which a fact holds, and follows
from `WFMin` (a non-empty set of naturals has a least element). The lemma
`StepsLead` shows first that the recursion defines a function at all.

**SettlingProofs.** `OnlyComesCloser` for every distance and all constants: an
Update of the interpolation shortens the offset (`CorrectionShortens`), and
`Receive` keeps an offset only where it is the right one, if it was once.

**GameLoopProofs.** `InductiveInvariant` needs `Measured` (what has passed since
the clock was read, how far back it can be, and that `needed` says whether the
loop runs), `StepsLeft` (while `onTime`, the lag is at most two steps before and
one step after the first turn) and `SyncPhase` (the tick is the number of steps
since the last Sync). `TimeIsConserved`, `SleepIsWithinAStep`,
`AtMostOneStepAFrame` and `SyncIsNeverMissed` follow.

**ServerConnectionsProofs.** For any number of connections and any values an
uninitialised `m_current_player` may hold. The invariants the run checks are not
inductive: that a closed connection is still in `m_connections` when `Disconnect`
comes to it needs to know what the game loop has gone through of the two lists.
`IInv`, which stands at the end of `ServerConnections`, adds

- `ListsInOrder`: what is before `index` is done, what is not is still to do,
  no connection is reported twice, and the first list is empty when the second
  is gone through;
- `ConnectedOnce`: a connection enters the map once, before its Hello;
- `HelloFirst`: what a connection without a Hello and one with it can have
  received, so that every input is one of a connection with a player;
- `PlayersKnown`: a player's connection and a connection's player know each
  other, so that a disconnect after the Hello takes the right player;
- `TakenForGood`: who took another's player (`TakenAway`) is out of the map and
  both lists.

`NoEventIsLost`, `DisconnectAlwaysFinds`, `NoPlayerIsOrphaned` and
`ServedKeepsPlayer` follow. The last is as strong as the code allows: the
disconnect of a connection without a Hello can take a served player away, and
nothing else can; and the server ends only by that or by a send through a closed
websocket.

The second half of the module is about `ClientViews`. `ViewsRefineServer`
(`VSpec => Spec`) carries all that over. `ClientCrashesOnlyIfRobbed` is the
client's side: it cannot be read off the present state, as the Sync that ends a
client may have been sent long ago. `VInv`, at the end of `ClientViews`, adds

- `OwnIsCurrent`: the Hello on its way, and what the client has of it, name the
  player the server has for that connection;
- `SyncsHaveOwn`: a Sync that the client will not skip, because it has its player
  or a Hello is before it, contains that player, or the player was taken away.

A Sync sent before the Hello may lack the player: that none of these counts is
the order of the messages of one connection. The other half is that a player
taken away stays so (`TakenAwayStays`), however connections come and go before
the Sync is read. TLC checked `VInv` on the instance of `ClientViews_safety`
before it was proved.

**FramedConnectionProofs.** For messages of any sizes and any number of them.
`OnlyOneWrite` is the invariant the code relies on (one member holds the header);
`ImplementsChannel` says that `FramedConnection` implements `FifoChannel`. The
heart of `IInv` is `WireInOrder`: every unit on the wire has a place, a message
and an offset in its frame; the first place is the one the receiver reads next,
each has its successor behind it, and after the last one the running write goes
on. Sender and receiver agree on the frames although the wire carries no message
numbers, which is what keeps `m_current_message` and the headers in step.
`QueueInOrder` (what is queued and posted is what was sent after the messages
written) and `BufferInOrder` (what has been read of a message is its beginning)
complete it. A failed write drops messages, so both the order of the queue and
the end of the wire are claimed only while the connection holds; a broken one
carries nothing more. `NewMessage` then is `Deliver`, `ReadFails` is `Close`, and
every other step but `Send` is a stutter. `WireInOrder` says that a list of
places exists, which TLC cannot enumerate; TLC checks `ImplementsFifoChannel`
itself. `MuteForGood` is about `Send`'s condition: it starts a write only if the
queue was empty, so a sender with messages queued and no write running stays so.
Only `WriteFails` gets there (`MuteOnlyAfterFailure`).

**ProcessManagerProofs.** For any processes, whatever they append, chain or stop
in their turns. The difficulty is that the list changes under the iterator: an
erased process shifts what follows it to the left, and its successor is appended
at the end of the list the iterator still goes through. `OneTurnAPass`
says during a pass only that nobody has had two turns; `PassInOrder` adds: what the
iterator has passed has had its turn, what it comes to and what waits for a
predecessor has not. `OneOwner` keeps the two apart and the list free of
repetitions, `OwnedIsCreated` tells a new process from those a pass counts, and
`FirstTurnToCome` says that one without an `Init` is not running. `Removed` says what
erasing does to a list; `EveryProcessHasOneOwner` and `EveryProcessOneTurn`
follow.

**GenericProcessesProofs.** For any number of leaves of any kinds and times.
`IInv` adds to `OneAfterTheOther` and `InStep` the counts of a leaf
(`LeafCounts`: a `Timed` that has not ended called back in every Update, the one
that ends it is the only one without a call) and `Beginning` (nothing runs before
`Init`). `FirstThatStops`, from `WFMin` again, finds the child at which a pass of
`And` ends. `RunOneAfterTheOther`, `RunInStep` and `EveryLeafRunsItsTime` follow.
The bound `MaxUpdates` is at least 1, as an `Init` may call a callback once.

Every invariant and every safety property over steps that a passing run checks
is stated by one of these theorems. Only model-checked are the liveness
properties: `EveryInputForgotten`, `Settles`, `CatchesUp`, `HelloAppears`,
`ClosedDisappears`, `EveryMessageArrives`, `EndedIsErased`,
`SuccessorGetsItsTurn` and `EndsWithItsChildren`. Liveness under fairness needs
`ENABLED`, which is out of the prover's reach.

## 6. Not modelled

- Circle physics: `World::Update` hands it copies of the players, so no player
  and no message but the circles themselves depends on it. A circle exactly at a
  player's position becomes NaN (`circle_physics.hpp:40`); reals are out of
  TLC's reach. Rendering and the camera are output only.
- The second dimension: directions, velocities and offsets are along one axis.
  The cap and the damping act on the length of the vector, in two dimensions
  they also turn it.
- Rounding: durations are whole steps. Sums of doubles can move a switch by a
  step, which TLC cannot explore.
- The size limits of the 32-bit frame header and 64-bit ticks, and of player ids.
- `Serialize` and `Deserialize` carry the fields of the message unchanged; a
  message of an unknown type cannot come from either program.
- The destruction of connection objects. Reads run only while a list or the map
  holds the connection; a posted `Send` or a write in progress keeps nothing
  alive (`tcp_connection.cpp:17`), and what a handler of a destroyed connection
  does is undefined. Of a websocket, the use of the socket after its close is
  modelled (`UseClosedSocket`), as an end of the server or a lost message.
- Shutdown: nothing sets `m_should_stop`, so `Terminate`, `StopListening` and
  `StopInput` are not reached. The REPL is a queue of lines that is taken over
  once a frame and answered with text; no other state depends on it.
- WebSocket connections frame and order messages themselves; only their events
  are modelled.
- `Stop` within `Process::Init` is overwritten by the manager. No class does it,
  and the model gives `Init` no influence on the state.
- `SetNext` on a process that has a successor destroys the successor unrun. No
  code does it, and the model's `SetNext` asks for a process without one.
- In `InputSync` and `Reconciliation` there is one connection; a client whose
  player is taken away is in `ClientViews`.

## 7. Plan

Done: `InputStream`, `InputSync`, `PlayerMotion`, `Reconciliation`, `Settling`,
`GameLoop`, `ServerConnections`, `ClientViews`, `FifoChannel`,
`FramedConnection`, `ProcessManager`, `GenericProcesses`, and the proofs of their
safety properties. Left:

1. A composition of `GameLoop` and `InputSync` in place of the free choice of
   `more`, so that `SyncsAgain` follows for a server that keeps up.
2. Proofs: that `Reconciliation`'s replay, on time and with the step counted,
   would end in the prediction itself, as the statement a corrected `Receive`
   is to meet; that a framed connection refines the channels of `InputSync`.
