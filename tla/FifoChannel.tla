----------------------------- MODULE FifoChannel -----------------------------
(***************************************************************************)
(* What one direction of a connection promises, with no bytes, buffers or  *)
(* writes in it: messages are delivered whole, in the order they were      *)
(* sent, none twice, none skipped; once the receiver sees the channel      *)
(* closed, nothing more is delivered.  FramedConnection implements this    *)
(* specification.                                                          *)
(***************************************************************************)
EXTENDS Naturals, Sequences

CONSTANT Messages

VARIABLES
  sent,       \* every message sent, in order
  delivered,  \* every message delivered, in order
  closed      \* the receiver knows that no more will come

vars == <<sent, delivered, closed>>

Init ==
  /\ sent = <<>>
  /\ delivered = <<>>
  /\ closed = FALSE

Send(m) ==
  /\ sent' = Append(sent, m)
  /\ UNCHANGED <<delivered, closed>>

Deliver ==
  /\ ~closed
  /\ Len(delivered) < Len(sent)
  /\ delivered' = Append(delivered, sent[Len(delivered) + 1])
  /\ UNCHANGED <<sent, closed>>

Close ==
  /\ ~closed
  /\ closed' = TRUE
  /\ UNCHANGED <<sent, delivered>>

Next == (\E m \in Messages : Send(m)) \/ Deliver \/ Close

Spec == Init /\ [][Next]_vars
=============================================================================
