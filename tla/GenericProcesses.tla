-------------------------- MODULE GenericProcesses --------------------------
(***************************************************************************)
(* The processes of generic_processes.hpp: a Consecutive or an And of leaf *)
(* processes, as ProcessManager drives it, one Init and then Updates until *)
(* it has stopped.  Time is counted in Updates.                            *)
(***************************************************************************)
EXTENDS Naturals

CONSTANTS
  N,           \* the number of leaf processes
  Times,       \* the times Wait, Timed and InterpolateCallback are made with
  MaxUpdates   \* bound: Updates of the whole

ASSUME ConstantsAssumption ==
  /\ N \in Nat \ {0}
  /\ Times \subseteq Nat
  /\ MaxUpdates \in Nat \ {0}

Kinds == {"None", "Wait", "Endless", "Callback", "WhileTrue", "Generic",
          "Timed", "InterpolateCallback"}
Children == 1 .. N

VARIABLES
  composite,   \* "Consecutive" or "And"
  kind,        \* per child: its class
  time,        \* per child: m_time
  passed,      \* per child: m_time_passed
  ended,       \* per child: its state is ENDED
  state,       \* the composite's state
  current      \* Consecutive: m_current, N + 1 for end()

\* History variables, read by the properties and the bound.
VARIABLES
  inits,       \* per child: calls of Init
  updates,     \* per child: calls of Update
  calls,       \* per child: calls of m_callback
  stopCalls,   \* per child: calls of m_stop_callback
  total        \* calls of the composite's Update

shape == <<composite, kind, time>>
children == <<passed, ended, inits, updates, calls, stopCalls>>
vars == <<shape, children, state, current, total>>

Zero == [c \in Children |-> 0]

Init ==
  /\ composite \in {"Consecutive", "And"}
  /\ kind \in [Children -> Kinds]
  /\ time \in [Children -> Times]
  /\ passed = Zero
  /\ ended = [c \in Children |-> FALSE]
  /\ state = "UNINITIALIZED"
  /\ current = 1
  /\ inits = Zero
  /\ updates = Zero
  /\ calls = Zero
  /\ stopCalls = Zero
  /\ total = 0
-----------------------------------------------------------------------------
(***************************************************************************)
(* What one Update does to a leaf: does it call its callback, does it end, *)
(* does its time go on.  "goesOn" is what Generic's callback returns.      *)
(***************************************************************************)
TimeIsUp_TooLate(c) == passed[c] > time[c]

\* Timed and InterpolateCallback.
TimeIsUp(c) == passed[c] >= time[c]

\* m_callback runs in Init of a Callback, in Update of the others.
CallsBack(c) ==
  \/ kind[c] \in {"WhileTrue", "Generic"}
  \/ kind[c] \in {"Timed", "InterpolateCallback"} /\ ~TimeIsUp(c)

Passes(c) ==
  \/ kind[c] = "Wait"
  \/ kind[c] \in {"Timed", "InterpolateCallback"} /\ ~TimeIsUp(c)

Stops(c, goesOn) ==
  CASE kind[c] \in {"None", "Callback"}             -> TRUE
    [] kind[c] \in {"Endless", "WhileTrue"}         -> FALSE
    [] kind[c] = "Generic"                          -> ~goesOn
    [] kind[c] = "Wait"                             -> passed[c] + 1 > time[c]
    [] kind[c] \in {"Timed", "InterpolateCallback"} -> TimeIsUp(c)

Count(count, members) ==
  [c \in Children |-> IF c \in members THEN count[c] + 1 ELSE count[c]]

\* The children in "updated" get their Update and those in "started" their
\* Init; those in "stopped" end by it.
Run(started, updated, stopped) ==
  /\ ended' = [c \in Children |-> ended[c] \/ c \in stopped]
  /\ passed' = Count(passed, {c \in updated : Passes(c)})
  /\ updates' = Count(updates, updated)
  /\ inits' = Count(inits, started)
  /\ calls' = Count(calls, {c \in updated : CallsBack(c)}
                             \cup {c \in started : kind[c] = "Callback"})
  /\ stopCalls' = Count(stopCalls, {c \in stopped : kind[c] = "Timed"})

\* Init of a Consecutive and of an And.
Start ==
  /\ state = "UNINITIALIZED"
  /\ Run(IF composite = "And" THEN Children ELSE {current}, {}, {})
  /\ state' = "RUNNING"
  /\ UNCHANGED <<shape, current, total>>

UpdateConsecutive_NoInit(goesOn) ==
  LET ends == Stops(current, goesOn[current])
      more == current < N
  IN  /\ composite = "Consecutive"
      /\ Run({}, {current}, IF ends THEN {current} ELSE {})
      /\ current' = IF ends THEN current + 1 ELSE current
      /\ state' = IF ends /\ ~more THEN "ENDED" ELSE state

\* The child at m_current; when it ends the next one gets its Init at once,
\* and its first Update with the next Update of the whole.
UpdateConsecutive(goesOn) ==
  LET ends == Stops(current, goesOn[current])
      more == current < N
  IN  /\ composite = "Consecutive"
      /\ Run(IF ends /\ more THEN {current + 1} ELSE {}, {current},
             IF ends THEN {current} ELSE {})
      /\ current' = IF ends THEN current + 1 ELSE current
      /\ state' = IF ends /\ ~more THEN "ENDED" ELSE state

UpdateAnd_NeverStops(goesOn) ==
  LET updated == {c \in Children : \A d \in 1 .. c - 1 : ~Stops(d, goesOn[d])}
      stopped == {c \in updated : Stops(c, goesOn[c])}
  IN  /\ composite = "And"
      /\ Run({}, updated, stopped)
      /\ UNCHANGED <<state, current>>

UpdateAnd_All(goesOn) ==
  LET stopped == {c \in Children : Stops(c, goesOn[c])}
  IN  /\ composite = "And"
      /\ Run({}, Children, stopped)
      /\ state' = IF stopped # {} THEN "ENDED" ELSE state
      /\ UNCHANGED current

\* The children in turn, up to the first that ends: then the And has ended.
UpdateAnd(goesOn) ==
  LET updated == {c \in Children : \A d \in 1 .. c - 1 : ~Stops(d, goesOn[d])}
      stopped == {c \in updated : Stops(c, goesOn[c])}
  IN  /\ composite = "And"
      /\ Run({}, updated, stopped)
      /\ state' = IF stopped # {} THEN "ENDED" ELSE state
      /\ UNCHANGED current

Update(goesOn) ==
  /\ state = "RUNNING"
  /\ total < MaxUpdates
  /\ UpdateConsecutive(goesOn) \/ UpdateAnd(goesOn)
  /\ total' = total + 1
  /\ UNCHANGED shape

Next == Start \/ \E goesOn \in [Children -> BOOLEAN] : Update(goesOn)

Spec == Init /\ [][Next]_vars

\* The game loop calls ProcessManager::Update in every step.
FairSpec == Spec /\ WF_vars(Next)
-----------------------------------------------------------------------------
(***************************************************************************)
(* Properties.                                                             *)
(***************************************************************************)
TypeOK ==
  /\ composite \in {"Consecutive", "And"}
  /\ kind \in [Children -> Kinds]
  /\ time \in [Children -> Times]
  /\ passed \in [Children -> 0 .. MaxUpdates]
  /\ ended \in [Children -> BOOLEAN]
  /\ state \in {"UNINITIALIZED", "RUNNING", "ENDED"}
  /\ current \in 1 .. N + 1
  /\ inits \in [Children -> {0, 1}]
  /\ updates \in [Children -> 0 .. MaxUpdates]
  /\ calls \in [Children -> 0 .. MaxUpdates]
  /\ stopCalls \in [Children -> {0, 1}]
  /\ total \in 0 .. MaxUpdates

\* The children of a Consecutive run one after the other, each from its Init
\* to its end; the whole has ended exactly when m_current is its end().
OneAfterTheOther ==
  composite = "Consecutive" /\ state # "UNINITIALIZED" =>
    /\ current = N + 1 <=> state = "ENDED"
    /\ \A c \in Children :
         /\ ended[c] <=> c < current
         /\ inits[c] = 1 <=> c <= current
         /\ c > current => updates[c] = 0

\* The children of an And run in step, up to its end: those after the one that
\* ended it miss the last Update, those before it do not.
InStep ==
  composite = "And" =>
    /\ \A c \in Children : updates[c] \in {total - 1, total}
    /\ state # "ENDED" => \A c \in Children : ~ended[c] /\ updates[c] = total
    /\ state = "ENDED" =>
         \E e \in Children :
           \A c \in Children :
             /\ ended[c] <=> c = e
             /\ updates[c] = IF c <= e THEN total ELSE total - 1

\* However a child is run, a Timed and an InterpolateCallback that has ended
\* called back once for each unit of its time and had one Update more, and
\* a Timed, not an interrupted one, called its stop callback.
RunsItsTime ==
  \A c \in Children :
    kind[c] \in {"Timed", "InterpolateCallback"} =>
      /\ calls[c] = passed[c] /\ passed[c] <= time[c]
      /\ ended[c] => calls[c] = time[c] /\ updates[c] = time[c] + 1
      /\ stopCalls[c] = 1 <=> ended[c] /\ kind[c] = "Timed"

\* An And has ended when one of its children must have, a Consecutive when all
\* have; the bound on the Updates is enough for any children that all end.
Ending == {"None", "Wait", "Callback", "Timed", "InterpolateCallback"}
EndsWithItsChildren ==
  (\/ composite = "And" /\ \E c \in Children : kind[c] \in Ending
   \/ composite = "Consecutive" /\ \A c \in Children : kind[c] \in Ending)
  ~> state = "ENDED"
=============================================================================
