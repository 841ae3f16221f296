--------------------------- MODULE ProcessManager ---------------------------
(***************************************************************************)
(* ProcessManager::Update: it goes once through the list of processes,     *)
(* while it erases those that ended, appends their successors, and the     *)
(* processes' own code appends more.  What a process does is arbitrary.    *)
(*                                                                         *)
(* A call of Stop within Init is lost, as the state is set to RUNNING      *)
(* after it; so Init has no influence on the state here.                   *)
(***************************************************************************)
EXTENDS Naturals, Sequences, SequencesExt

CONSTANTS
  Processes,   \* the processes a run can create
  NoProcess    \* a null ProcessPtr

ASSUME ConstantsAssumption == NoProcess \notin Processes

VARIABLES
  processes,   \* m_processes
  state,       \* per process: state_
  next,        \* per process: next_
  pc,          \* "idle", or in Update: "loop" or "settle"
  position     \* process_it, the position it is at

\* History variables, read by the properties only.
VARIABLES
  created,     \* the processes made so far
  inits,       \* per process: calls of Init
  turns        \* per process: calls of its Update in the last pass

vars == <<processes, state, next, pc, position, created, inits, turns>>

Init ==
  /\ processes = <<>>
  /\ state = [p \in Processes |-> "UNINITIALIZED"]
  /\ next = [p \in Processes |-> NoProcess]
  /\ pc = "idle"
  /\ position = 1
  /\ created = {}
  /\ inits = [p \in Processes |-> 0]
  /\ turns = [p \in Processes |-> 0]

Current == processes[position]
Listed(p) == \E i \in 1 .. Len(processes) : processes[i] = p
Successor(p) == \E q \in Processes : next[q] = p
-----------------------------------------------------------------------------
\* Add, by any code that has the manager: also from within Init or Update of
\* the process whose turn it is.
Add(p) ==
  /\ pc \in {"idle", "settle"}
  /\ p \notin created
  /\ created' = created \cup {p}
  /\ processes' = Append(processes, p)
  /\ UNCHANGED <<state, next, pc, position, inits, turns>>

\* SetNext, on a process that is not erased and has no successor yet.
SetNext(p, q) ==
  /\ pc \in {"idle", "settle"}
  /\ Listed(p) \/ Successor(p)
  /\ next[p] = NoProcess
  /\ q \notin created
  /\ created' = created \cup {q}
  /\ next' = [next EXCEPT ![p] = q]
  /\ UNCHANGED <<processes, state, pc, position, inits, turns>>

\* Stop, on a process that is not erased, by any code that knows it.
Stop(p) ==
  /\ pc \in {"idle", "settle"}
  /\ Listed(p) \/ Successor(p)
  /\ state' = [state EXCEPT ![p] = "ENDED"]
  /\ UNCHANGED <<processes, next, pc, position, created, inits, turns>>

StartUpdate ==
  /\ pc = "idle"
  /\ pc' = "loop"
  /\ position' = 1
  /\ turns' = [p \in Processes |-> 0]
  /\ UNCHANGED <<processes, state, next, created, inits>>

Turn_InitAgain(stops) ==
  /\ pc = "loop"
  /\ position <= Len(processes)
  /\ state[Current] # "ENDED"
  /\ inits' = [inits EXCEPT ![Current] = @ + 1]
  /\ state' = [state EXCEPT ![Current] = IF stops THEN "ENDED" ELSE "RUNNING"]
  /\ turns' = [turns EXCEPT ![Current] = @ + 1]
  /\ pc' = "settle"
  /\ UNCHANGED <<processes, next, position, created>>

\* The current process gets its turn, before the first one its Init, and may
\* stop.
Turn(stops) ==
  /\ pc = "loop"
  /\ position <= Len(processes)
  /\ state[Current] # "ENDED"
  /\ inits' = IF state[Current] = "UNINITIALIZED"
              THEN [inits EXCEPT ![Current] = @ + 1] ELSE inits
  /\ state' = [state EXCEPT ![Current] = IF stops THEN "ENDED" ELSE "RUNNING"]
  /\ turns' = [turns EXCEPT ![Current] = @ + 1]
  /\ pc' = "settle"
  /\ UNCHANGED <<processes, next, position, created>>

\* A process that was stopped before its turn gets none.
PassOver ==
  /\ pc = "loop"
  /\ position <= Len(processes)
  /\ state[Current] = "ENDED"
  /\ pc' = "settle"
  /\ UNCHANGED <<processes, state, next, position, created, inits, turns>>

Erase_ThenSkip ==
  /\ pc = "settle" /\ state[Current] = "ENDED"
  /\ processes' =
       RemoveAt(IF next[Current] = NoProcess
                THEN processes ELSE Append(processes, next[Current]), position)
  /\ next' = [next EXCEPT ![Current] = NoProcess]
  /\ position' = position + 1
  /\ pc' = "loop"
  /\ UNCHANGED <<state, created, inits, turns>>

Erase_NextDropped ==
  /\ pc = "settle" /\ state[Current] = "ENDED"
  /\ processes' = RemoveAt(processes, position)
  /\ next' = [next EXCEPT ![Current] = NoProcess]
  /\ pc' = "loop"
  /\ UNCHANGED <<state, position, created, inits, turns>>

\* The current process has ended: its successor goes to the end of the list,
\* and it is erased.
Erase ==
  /\ pc = "settle" /\ state[Current] = "ENDED"
  /\ processes' =
       RemoveAt(IF next[Current] = NoProcess
                THEN processes ELSE Append(processes, next[Current]), position)
  /\ next' = [next EXCEPT ![Current] = NoProcess]
  /\ pc' = "loop"
  /\ UNCHANGED <<state, position, created, inits, turns>>

Advance_AlsoPastEnded ==
  /\ pc = "settle"
  /\ position' = position + 1
  /\ pc' = "loop"
  /\ UNCHANGED <<processes, state, next, created, inits, turns>>

Advance ==
  /\ pc = "settle" /\ state[Current] # "ENDED"
  /\ position' = position + 1
  /\ pc' = "loop"
  /\ UNCHANGED <<processes, state, next, created, inits, turns>>

PassDone == pc = "loop" /\ position > Len(processes)

EndUpdate ==
  /\ PassDone
  /\ pc' = "idle"
  /\ UNCHANGED <<processes, state, next, position, created, inits, turns>>
-----------------------------------------------------------------------------
Step ==
  \/ \E stops \in BOOLEAN : Turn(stops)
  \/ PassOver
  \/ Erase
  \/ Advance
  \/ EndUpdate

Next ==
  \/ \E p \in Processes : Add(p) \/ Stop(p)
  \/ \E p, q \in Processes : SetNext(p, q)
  \/ StartUpdate
  \/ Step

Spec == Init /\ [][Next]_vars

\* The game loop calls Update in every step, and Update does not block.
Fairness == WF_vars(StartUpdate) /\ WF_vars(Step)

FairSpec == Spec /\ Fairness
-----------------------------------------------------------------------------
(***************************************************************************)
(* Properties.                                                             *)
(***************************************************************************)
TypeOK ==
  /\ processes \in Seq(Processes)
  /\ state \in [Processes -> {"UNINITIALIZED", "RUNNING", "ENDED"}]
  /\ next \in [Processes -> Processes \cup {NoProcess}]
  /\ pc \in {"idle", "loop", "settle"}
  /\ position \in 1 .. Len(processes) + 1
  /\ created \subseteq Processes
  /\ inits \in [Processes -> {0, 1}]
  /\ turns \in [Processes -> Nat]

\* A process has one owner, the list or its predecessor, until it has ended and
\* is erased; none is lost and none is erased while it runs.
OneOwner ==
  /\ \A i, j \in 1 .. Len(processes) : processes[i] = processes[j] => i = j
  /\ \A p, q \in Processes : next[p] = next[q] /\ next[p] # NoProcess => p = q
  /\ \A p \in created :
       /\ ~(Listed(p) /\ Successor(p))
       /\ Listed(p) \/ Successor(p) \/ state[p] = "ENDED"

\* Although the list changes under the iterator, no pass skips a process or
\* gives it two turns, also not one that was added in the pass.
OneTurnAPass ==
  /\ \A p \in Processes : turns[p] <= 1
  /\ PassDone => \A i \in 1 .. Len(processes) : turns[processes[i]] = 1

\* A process that has ended is erased, if not in this pass then in the next.
EndedIsErased ==
  \A p \in Processes : Listed(p) /\ state[p] = "ENDED" ~> ~Listed(p)

\* When a process of the list has ended, its successor gets its turn, unless it
\* was stopped before; whatever the others do, some of which never end.
SuccessorGetsItsTurn ==
  \A p, q \in Processes :
    Listed(p) /\ state[p] = "ENDED" /\ next[p] = q ~>
      state[q] # "UNINITIALIZED"
-----------------------------------------------------------------------------
(***************************************************************************)
(* The inductive invariant behind the safety properties.                   *)
(***************************************************************************)

\* What is listed or has a predecessor exists, and a turn has a process.
OwnedIsCreated ==
  /\ \A p \in Processes : Listed(p) \/ Successor(p) => p \in created
  /\ pc = "settle" => position <= Len(processes)

\* A process that has had no Init yet waits for its first turn.
FirstTurnToCome ==
  \A p \in Processes : state[p] = "UNINITIALIZED" => inits[p] = 0

HadItsTurn(p) == turns[p] = 1
NoTurnYet(p) == turns[p] = 0

\* In a pass, the processes the iterator has passed have had their turn, those
\* it comes to and those that wait for a predecessor have not.
PassInOrder ==
  pc # "idle" =>
    /\ \A i \in 1 .. Len(processes) :
         /\ i < position => HadItsTurn(processes[i])
         /\ i > position => NoTurnYet(processes[i])
         /\ i = position =>
              IF pc = "loop"
              THEN NoTurnYet(processes[i])
              ELSE state[processes[i]] = "ENDED" \/ HadItsTurn(processes[i])
    /\ \A p \in Processes : Successor(p) \/ p \notin created => NoTurnYet(p)

IInv ==
  /\ TypeOK
  /\ OneOwner
  /\ OneTurnAPass
  /\ OwnedIsCreated
  /\ FirstTurnToCome
  /\ PassInOrder
=============================================================================
