-------------------------- MODULE FramedConnection --------------------------
(***************************************************************************)
(* One direction of a TCP connection: TCPConnection and ASIOConnection     *)
(* share the same code for it.  The sender's game loop posts each message  *)
(* to its io_context, whose thread queues it and writes it as a frame, a   *)
(* header with the size and the bytes of the message.  The thread of the   *)
(* receiver's io_context reads headers and bodies in turn and passes each  *)
(* message on to the receiver's game loop.                                 *)
(*                                                                         *)
(* The header of the frame being written is one member of the connection,  *)
(* which async_write reads when it comes to it.  A header and a byte of a  *)
(* message are one unit of what the socket carries.                        *)
(***************************************************************************)
EXTENDS Integers, Sequences, SequencesExt

CONSTANTS
  Messages,      \* the serialised messages
  Size,          \* per message: its number of bytes
  MaxSent        \* bound: messages sent

ASSUME ConstantsAssumption ==
  /\ Size \in [Messages -> Nat \ {0}]
  /\ MaxSent \in Nat

VARIABLES
  posted,       \* sender: handlers of Send the io_context has not run
  output,       \* sender: m_output_messages
  header,       \* sender: m_current_output_header
  writes,       \* sender: the async_writes that run, and how far each is
  wire,         \* units written and not read
  broken,       \* the TCP connection is broken
  reading,      \* receiver: "header", "body" or "failed"
  size,         \* receiver: m_current_input_header
  buffer,       \* receiver: the units of m_current_message read so far
  received      \* receiver: every message passed to the game loop

\* History variable, read by the properties and the bound only.
VARIABLE sent   \* every message Send was called with

senderVars == <<posted, output, header, writes>>
receiverVars == <<reading, size, buffer, received>>
vars == <<senderVars, wire, broken, receiverVars, sent>>

\* What is on the wire: the header of a frame, or the k-th byte of a message.
HeaderUnit(n) == [type |-> "header", size |-> n]
ByteUnit(m, k) == [type |-> "byte", message |-> m, k |-> k]
Body(m) == [k \in 1 .. Size[m] |-> ByteUnit(m, k)]

Units ==
  UNION {{HeaderUnit(Size[m])} \cup {ByteUnit(m, k) : k \in 1 .. Size[m]} :
           m \in Messages}

Init ==
  /\ posted = <<>>
  /\ output = <<>>
  /\ header = 0
  /\ writes = <<>>
  /\ wire = <<>>
  /\ broken = FALSE
  /\ reading = "header"
  /\ size = 0
  /\ buffer = <<>>
  /\ received = <<>>
  /\ sent = <<>>
-----------------------------------------------------------------------------
(***************************************************************************)
(* The sender.                                                             *)
(***************************************************************************)

\* Send, called by the game loop's thread.
Send(m) ==
  /\ Len(sent) < MaxSent
  /\ posted' = Append(posted, m)
  /\ sent' = Append(sent, m)
  /\ UNCHANGED <<output, header, writes, wire, broken, receiverVars>>

\* Write: starts an async_write of the message at the front of the queue.
Write(queue) ==
  /\ header' = Size[Head(queue)]
  /\ writes' = Append(writes, [message |-> Head(queue), done |-> 0])

RunPosted_AlwaysWrites ==
  /\ posted # <<>>
  /\ posted' = Tail(posted)
  /\ output' = Append(output, Head(posted))
  /\ Write(output')
  /\ UNCHANGED <<wire, broken, receiverVars, sent>>

\* The handler Send posted.  A write that runs takes the message along later.
RunPosted ==
  /\ posted # <<>>
  /\ posted' = Tail(posted)
  /\ output' = Append(output, Head(posted))
  /\ IF Len(output') > 1 THEN UNCHANGED <<header, writes>> ELSE Write(output')
  /\ UNCHANGED <<wire, broken, receiverVars, sent>>

\* What an async_write puts on the wire next.
NextUnit(w) ==
  IF w.done = 0 THEN HeaderUnit(header) ELSE ByteUnit(w.message, w.done)

\* An async_write hands some of its units to the system, which takes them also
\* when nothing arrives any more.
Transfer(i) ==
  /\ writes[i].done <= Size[writes[i].message]
  /\ wire' = IF broken THEN wire ELSE Append(wire, NextUnit(writes[i]))
  /\ writes' = [writes EXCEPT ![i].done = @ + 1]
  /\ UNCHANGED <<posted, output, header, broken, receiverVars, sent>>

Written_OneOnly(i) ==
  /\ writes[i].done > Size[writes[i].message]
  /\ output' = Tail(output)
  /\ writes' = RemoveAt(writes, i)
  /\ UNCHANGED <<posted, header, wire, broken, receiverVars, sent>>

\* The handler of an async_write that has written everything.
Written(i) ==
  /\ writes[i].done > Size[writes[i].message]
  /\ output' = Tail(output)
  /\ IF output' = <<>>
     THEN writes' = RemoveAt(writes, i) /\ UNCHANGED header
     ELSE /\ header' = Size[Head(output')]
          /\ writes' = Append(RemoveAt(writes, i),
                              [message |-> Head(output'), done |-> 0])
  /\ UNCHANGED <<posted, wire, broken, receiverVars, sent>>

WriteFails_BeforePop(i) ==
  /\ broken
  /\ writes[i].done <= Size[writes[i].message]
  /\ writes' = RemoveAt(writes, i)
  /\ UNCHANGED <<posted, output, header, wire, broken, receiverVars, sent>>

\* The handler of an async_write that failed.  If more messages are queued, no
\* write runs after this one, nor does RunPosted start one.
WriteFails(i) ==
  /\ broken
  /\ writes[i].done <= Size[writes[i].message]
  /\ output' = Tail(output)
  /\ writes' = RemoveAt(writes, i)
  /\ UNCHANGED <<posted, header, wire, broken, receiverVars, sent>>

\* The connection breaks: nothing that is written from now on arrives.  Each
\* end notices for itself, by a read or write that fails, or never: the code
\* has no timeout and asks for no keepalive.
Break ==
  /\ ~broken
  /\ broken' = TRUE
  /\ UNCHANGED <<senderVars, wire, receiverVars, sent>>
-----------------------------------------------------------------------------
(***************************************************************************)
(* The receiver.                                                           *)
(***************************************************************************)

ReadHeader_BufferKept ==
  /\ reading = "header"
  /\ wire # <<>> /\ Head(wire).type = "header"
  /\ wire' = Tail(wire)
  /\ size' = Head(wire).size
  /\ reading' = "body"
  /\ UNCHANGED <<senderVars, broken, buffer, received, sent>>

\* ReadNextMessage's handler; what the header holds is taken for a size.
ReadHeader ==
  /\ reading = "header"
  /\ wire # <<>> /\ Head(wire).type = "header"
  /\ wire' = Tail(wire)
  /\ size' = Head(wire).size
  /\ buffer' = <<>>
  /\ reading' = "body"
  /\ UNCHANGED <<senderVars, broken, received, sent>>

\* The async_read of ReadMessage gets another unit.
ReadBody ==
  /\ reading = "body"
  /\ Len(buffer) < size
  /\ wire # <<>>
  /\ wire' = Tail(wire)
  /\ buffer' = Append(buffer, Head(wire))
  /\ UNCHANGED <<senderVars, broken, reading, size, received, sent>>

\* ReadMessage's handler.
NewMessage ==
  /\ reading = "body"
  /\ Len(buffer) = size
  /\ received' = Append(received, buffer)
  /\ reading' = "header"
  /\ UNCHANGED <<senderVars, wire, broken, size, buffer, sent>>

\* The handler of a read that failed, with or without what the wire still held.
\* No read follows.  TCPConnection calls m_close_callback, this once; what is
\* left of an ASIOConnection is a game that hears nothing more.
ReadFails ==
  /\ broken
  /\ reading # "failed"
  /\ reading = "body" => Len(buffer) < size
  /\ reading' = "failed"
  /\ UNCHANGED <<senderVars, wire, broken, size, buffer, received, sent>>
-----------------------------------------------------------------------------
Sender ==
  \/ RunPosted
  \/ \E i \in 1 .. Len(writes) : Transfer(i) \/ Written(i) \/ WriteFails(i)

Receiver == ReadHeader \/ ReadBody \/ NewMessage \/ ReadFails

Next == (\E m \in Messages : Send(m)) \/ Sender \/ Break \/ Receiver

Spec == Init /\ [][Next]_vars

\* As long as the connection works both io_contexts run, and the socket takes
\* and gives bytes.  Nothing is promised of a broken one, whose ends may never
\* notice, and the game loop need not send anything.
Fairness == WF_vars(~broken /\ Sender) /\ WF_vars(~broken /\ Receiver)

FairSpec == Spec /\ Fairness
-----------------------------------------------------------------------------
(***************************************************************************)
(* Properties.                                                             *)
(***************************************************************************)
TypeOK ==
  /\ posted \in Seq(Messages)
  /\ output \in Seq(Messages)
  /\ header \in Nat
  /\ writes \in Seq([message : Messages, done : Nat])
  /\ wire \in Seq(Units)
  /\ broken \in BOOLEAN
  /\ reading \in {"header", "body", "failed"}
  /\ size \in Nat
  /\ buffer \in Seq(Units) /\ Len(buffer) <= size
  /\ received \in Seq(Seq(Units))
  /\ sent \in Seq(Messages)

\* Write reuses m_current_output_header and the front of m_output_messages:
\* no two async_writes run at once, and neither is touched while one runs.
OneWrite ==
  /\ Len(writes) <= 1
  /\ writes # <<>> =>
       /\ output # <<>>
       /\ writes[1].message = Head(output)
       /\ header = Size[Head(output)]

Channel == INSTANCE FifoChannel WITH
             Messages  <- {Body(m) : m \in Messages},
             sent      <- [i \in 1 .. Len(sent) |-> Body(sent[i])],
             delivered <- received,
             closed    <- reading = "failed"

\* Messages are passed to the game loop whole, in the order of Send, and none
\* after the close: the FIFO that InputSync takes for granted, and the close
\* that ServerConnections does.
ImplementsFifoChannel == Channel!Spec

\* Every message arrives, unless the connection breaks first.
EveryMessageArrives ==
  \A k \in 1 .. MaxSent :
    Len(sent) >= k ~> Len(received) >= k \/ broken

\* Messages are queued that no write will take along.
Mute == output # <<>> /\ writes = <<>>

\* A sender falls silent only by a write that failed while more was queued; then
\* it is for good, and every Send makes the queue longer: RunPosted leaves the
\* writing to a handler that will not run.
MuteOnlyAfterFailure ==
  [][/\ ~Mute /\ Mute' =>
          \E i \in 1 .. Len(writes) : WriteFails(i) /\ Len(output) > 1
     /\ Mute => Mute' /\ IsPrefix(output, output')]_vars
=============================================================================
