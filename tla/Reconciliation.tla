--------------------------- MODULE Reconciliation ---------------------------
(***************************************************************************)
(* The client's player beside the server's.  The client moves its player   *)
(* at once; the server moves it when it applies the inputs, and every Sync *)
(* says where it is.  Receive replays the inputs the Sync does not include *)
(* yet and has the difference worked off by the interpolation.             *)
(*                                                                         *)
(* Each action is the one of InputSync with what it does to the players.   *)
(* Positions are relative to the one Hello gives the player.               *)
(***************************************************************************)
EXTENDS InputSync, PlayerMotion

CONSTANT Direction   \* ControlsState::direction along the axis

ASSUME DirectionAssumption ==
  /\ Direction \in [Controls -> Directions]
  /\ Direction[NoControls] = 0

VARIABLES
  serverPlayer,  \* server: the connection's player
  clientPlayer,  \* client: its own player
  offset,        \* client: InterpolationProcess::offset
  snapshots      \* what the messages of toClient say of the player

\* History variables, read by the properties only.
VARIABLES
  moved,         \* steps the server's player made under the input in force
  late,          \* for each input applied, the time UpdateMove credited it
                 \* with at once because it was applied later than due
  onTime         \* no input so far was applied later than it was due

motionVars == <<serverPlayer, clientPlayer, offset, snapshots, moved, late,
                onTime>>
allVars == <<vars, motionVars>>

Start == [pos |-> 0, vel |-> 0]

\* What a message of the server carries beside InputSync's part of it, and,
\* for the properties, how it came about.
Snapshot == [player : Player, moved : Nat, applied : Nat, onTime : BOOLEAN]
CurrentSnapshot ==
  [player |-> serverPlayer', moved |-> moved', applied |-> applied',
   onTime |-> onTime']

RInit ==
  /\ Init
  /\ serverPlayer = Start
  /\ clientPlayer = Start
  /\ offset = 0
  /\ snapshots = <<>>
  /\ moved = 0
  /\ late = <<>>
  /\ onTime = TRUE
-----------------------------------------------------------------------------
\* InterpolationProcess::Update: what leaves the offset goes into the position.
Interpolated(p, correction) == [p EXCEPT !.pos = @ + correction]

\* App::Simulate: controls, then interpolation, then the world.
RClientSimulate(c) ==
  /\ ClientSimulate(c)
  /\ \E correction \in Corrections(offset) :
       /\ clientPlayer' =
            Move(Interpolated(clientPlayer, correction), Direction[c])
       /\ offset' = offset - correction
  /\ UNCHANGED <<serverPlayer, snapshots, moved, late, onTime>>

RClientReceiveHello ==
  /\ ClientReceiveHello
  /\ clientPlayer' = Head(snapshots).player
  /\ offset' = 0
  /\ snapshots' = Tail(snapshots)
  /\ UNCHANGED <<serverPlayer, moved, late, onTime>>

ReplaySteps_WholeInput(h, i, delta) == h[i].dur

\* How many steps Receive makes under the i-th input of the history h, whose
\* first duration it has reduced by the server's input_delta: none if that is
\* negative.
ReplaySteps(h, i, delta) ==
  LET rest == h[i].dur - (IF i = 1 THEN delta ELSE 0)
  IN  IF rest > 0 THEN rest ELSE 0

\* Receive: the server's player p, moved by the inputs of the history h.
Replayed(p, h, delta) ==
  RunThrough(p, [i \in 1 .. Len(h) |-> Direction[h[i].state]],
             [i \in 1 .. Len(h) |-> ReplaySteps(h, i, delta)], Len(h))

KeptPlayer_TakeServers(p) == p

\* Handle(Sync) takes over the server's players, but puts its own one back.
KeptPlayer(p) == clientPlayer

RClientReceiveSync ==
  /\ ClientReceiveSync
  /\ IF joined
     THEN LET target == Replayed(Head(snapshots).player, clientHistory',
                                 Head(toClient).delta)
          IN  /\ clientPlayer' = KeptPlayer(target)
              /\ offset' = NewOffset(offset, target.pos - clientPlayer.pos)
     ELSE UNCHANGED <<clientPlayer, offset>>
  /\ snapshots' = Tail(snapshots)
  /\ UNCHANGED <<serverPlayer, moved, late, onTime>>

RClientReceive == RClientReceiveHello \/ RClientReceiveSync
-----------------------------------------------------------------------------
\* The player is in the server's world from the Hello on, at rest.
RServerReceive ==
  /\ ServerReceive
  /\ UNCHANGED <<serverPlayer, moved, late, onTime>>
  /\ snapshots' = IF Head(toServer) = HelloMessage
                  THEN Append(snapshots, CurrentSnapshot)
                  ELSE snapshots
  /\ UNCHANGED <<clientPlayer, offset>>

MoveServerPlayer_OldControls ==
  serverPlayer' = Move(serverPlayer, Direction[playerControls])

\* Server::Simulate: UpdateMove has set the controls when the world moves.
MoveServerPlayer ==
  serverPlayer' = Move(serverPlayer, Direction[playerControls'])

RServerSimulate(more) ==
  /\ ServerSimulate(more)
  /\ IF greeted THEN MoveServerPlayer ELSE UNCHANGED serverPlayer
  /\ moved' = IF applied' = applied THEN moved + 1 ELSE 1
  /\ late' = IF applied' = applied THEN late
             ELSE Append(late, currentInputDelta')
  /\ onTime' = (onTime /\ (applied' = applied \/ currentInputDelta' = 0))
  /\ snapshots' = IF ~more /\ simulationTick' = 0
                  THEN Append(snapshots, CurrentSnapshot)
                  ELSE snapshots
  /\ UNCHANGED <<clientPlayer, offset>>
-----------------------------------------------------------------------------
RNext ==
  \/ \E c \in Controls : RClientSimulate(c)
  \/ RClientReceive
  \/ RServerReceive
  \/ \E more \in BOOLEAN : RServerSimulate(more)

RSpec == RInit /\ [][RNext]_allVars

\* The players never keep an action of InputSync from happening.
RFairSpec == RSpec /\ Fairness /\ SyncsAgain
-----------------------------------------------------------------------------
(***************************************************************************)
(* Properties.                                                             *)
(***************************************************************************)

\* Every variable keeps to its range, and every message has its snapshot.
RTypeOK ==
  /\ TypeOK
  /\ serverPlayer \in Player
  /\ clientPlayer \in Player
  /\ offset \in Int
  /\ snapshots \in Seq(Snapshot)
  /\ Len(snapshots) = Len(toClient)
  /\ moved \in Nat
  /\ late \in Seq(Nat)
  /\ onTime \in BOOLEAN

\* Where the first k of the inputs s lead, when the k-th lasts n steps: each of
\* the others lasted until the next one, whose message says how long.
Path(s, k, n) ==
  RunThrough(Start, [i \in 1 .. k |-> Direction[s[i].state]],
             [i \in 1 .. k |-> IF i = k THEN n ELSE s[i + 1].dur], k)

\* How late the k-th input was applied, if it was; the first is there from the
\* start.
LateBy(l, k) == IF k = 0 THEN 0 ELSE l[k]

\* The inputs s as the server applied them, the k-th l[k] steps late: each lasts
\* longer by the lateness of the next one, and is cut short by its own.
AsApplied(s, l) ==
  [k \in 1 .. Len(l) |->
     [s[k] EXCEPT !.dur = @ + LateBy(l, k) - LateBy(l, k - 1)]]

\* However late inputs arrive, the server's player makes the client's movements:
\* each input that is over moved it in as many steps as on the client, and those
\* it made too many waiting for the next input are taken off that one.  This is
\* so although the step UpdateMove switches in counts for the old input's time
\* and moves the player with the new one.
ServerFollowsPath ==
  serverPlayer = Path(AsApplied(sent, late), applied, moved)

\* The next message the client handles is a Sync that it replays the history
\* for, and what it may leave of the history.
NextSync == joined /\ toClient # <<>> /\ Head(toClient).type = "Sync"
NextHistories ==
  {SubSeq(clientHistory, i, Len(clientHistory)) :
     i \in LowerBounds(clientHistory, Head(toClient).ack)}

\* The step that an input moves the player in before its time is counted: the
\* one UpdateMove switches to it in.  Nothing switches to the first input.
SwitchStep(k) == IF k = 0 THEN 0 ELSE 1

\* The steps the server made under the acknowledged input, and those Receive
\* makes under it, are together one more than the client has made: input_delta
\* leaves out the step of the switch.  If the server is ahead of the client in
\* the input, nothing of it is replayed.
ReplaysOneStepMore ==
  NextSync =>
    \A h \in NextHistories :
      LET delta == Head(toClient).delta
      IN  Head(snapshots).moved + ReplaySteps(h, 1, delta) =
            SwitchStep(Head(snapshots).applied)
              + IF delta <= h[1].dur THEN h[1].dur ELSE delta

\* The velocity of the client's player comes from its own inputs alone: a Sync
\* corrects where the player is and never how fast it goes, although it
\* replaces all players.
VelocityIsOwn ==
  joined =>
    clientPlayer.vel = Path(sent, Len(sent), Newest.dur).vel

\* "Simulate server_player for history" (network_input_manager.cpp:25): if the
\* server applied every input on time and is not ahead, the server's player
\* moved by the history is where the client's own inputs lead.
ReplayGivesPrediction ==
  NextSync /\ Head(snapshots).onTime =>
    \A h \in NextHistories :
      Head(toClient).delta <= h[1].dur =>
        Replayed(Head(snapshots).player, h, Head(toClient).delta)
          = Path(sent, Len(sent), Newest.dur)

\* The inputs s when the k-th of them lasts a number of steps longer.
Lengthened(s, k, steps) ==
  IF k < Len(s) THEN [s EXCEPT ![k + 1].dur = @ + steps] ELSE s

\* Where the history moves the server's player instead, if the server applied
\* every input on time and is not ahead: to where the inputs lead when the
\* acknowledged one lasts the step of the switch longer.
ReplayIsOneStepOff ==
  NextSync /\ Head(snapshots).onTime =>
    \A h \in NextHistories :
      LET k    == Head(snapshots).applied
          last == Newest.dur + (IF k = Len(sent) THEN SwitchStep(k) ELSE 0)
      IN  Head(toClient).delta <= h[1].dur =>
            Replayed(Head(snapshots).player, h, Head(toClient).delta) =
              Path(Lengthened(sent, k, SwitchStep(k)), Len(sent), last)
-----------------------------------------------------------------------------
(***************************************************************************)
(* The inductive invariants behind these properties, beside InputSync's.   *)
(***************************************************************************)

\* InputDelta(), now and in the Syncs on their way, is the number of steps the
\* player moved under the input in force, but for the one of the switch.
StepsCounted ==
  /\ lastInputDelta <= currentInputDelta
  /\ moved = currentInputDelta - lastInputDelta + SwitchStep(applied)
  /\ \A i \in 1 .. Len(toClient) :
       toClient[i].type = "Sync" =>
         /\ toClient[i].delta \in Nat
         /\ snapshots[i].moved =
              toClient[i].delta + SwitchStep(snapshots[i].applied)

RIInv ==
  /\ serverPlayer \in Player
  /\ snapshots \in Seq(Snapshot)
  /\ Len(snapshots) = Len(toClient)
  /\ moved \in Nat
  /\ late \in Seq(Nat)
  /\ onTime \in BOOLEAN
  /\ StepsCounted

\* One Hello comes, with the player at rest, before the client gives an input.
HelloOnce ==
  /\ ~joined => sent = <<>>
  /\ \A i \in 1 .. Len(toClient) :
       toClient[i] = HelloMessage =>
         /\ ~joined /\ snapshots[i].player = Start
         /\ \A j \in 1 .. Len(toClient) : toClient[j] = HelloMessage => j = i

\* Each Sync on its way counts the inputs applied when it was sent, and says
\* where they led, if all were on time.
SnapshotsFollow ==
  \A i \in 1 .. Len(toClient) :
    /\ snapshots[i].applied <= applied
    /\ toClient[i].type = "Sync" => toClient[i].ack = snapshots[i].applied
    /\ snapshots[i].onTime =>
         snapshots[i].player =
           Path(sent, snapshots[i].applied, snapshots[i].moved)

\* The client's history is the end of what it sent.
HistoryIsSent ==
  \A i \in 1 .. Len(clientHistory) :
    LET k == Len(sent) - Len(clientHistory) + i
    IN  /\ clientHistory[i].state = StateAfter(sent, k)
        /\ i < Len(clientHistory) => clientHistory[i].dur = sent[k + 1].dur

\* While every input is applied on time, the path is the client's own.
OnTimeFollowsPath == onTime => serverPlayer = Path(sent, applied, moved)

\* Where the players and the messages about them are.
PlayersInv ==
  /\ HelloOnce
  /\ ~greeted => serverPlayer = Start
  /\ onTime => lastInputDelta = 0
  /\ OnTimeFollowsPath
  /\ VelocityIsOwn
  /\ SnapshotsFollow
  /\ HistoryIsSent

\* What UpdateMove credits an input with is what it subtracts again, in
\* InputDelta(), and no input is cut short by more than it lasted.
LateInv ==
  /\ Len(late) = applied
  /\ lastInputDelta = LateBy(late, applied)
  /\ AsApplied(sent, late) \in Seq(SentInput)
  /\ ServerFollowsPath
=============================================================================
