----------------------- MODULE FramedConnectionProofs -----------------------
(***************************************************************************)
(* Proofs about FramedConnection, for any messages, of any sizes, and any  *)
(* number of them: only one write runs at a time, and the frames implement *)
(* a channel that is FIFO.                                                 *)
(***************************************************************************)
EXTENDS FramedConnection, SequenceTheorems, TLAPS

USE ConstantsAssumption DEF ConstantsAssumption

-----------------------------------------------------------------------------
(***************************************************************************)
(* The inductive invariant.                                                *)
(***************************************************************************)

\* How many messages have been written whole.
Finished == Len(sent) - Len(output) - Len(posted)

\* As long as the connection holds, what is queued and posted is what was sent
\* after the messages that are written, and a write runs if any is queued.
QueueInOrder ==
  ~broken =>
    /\ Finished >= 0
    /\ \A j \in 1 .. Len(output) : output[j] = sent[Finished + j]
    /\ \A j \in 1 .. Len(posted) :
         posted[j] = sent[Finished + Len(output) + j]
    /\ output # <<>> => writes # <<>>

WriteWithinFrame ==
  writes # <<>> => writes[1].done <= Size[writes[1].message] + 1

\* The receiver reads the message after those it has passed on.
BufferInOrder ==
  /\ reading = "failed" => broken
  /\ reading = "body" =>
       /\ Len(received) < Len(sent)
       /\ size = Size[sent[Len(received) + 1]]
       /\ \A k \in 1 .. Len(buffer) :
            buffer[k] = ByteUnit(sent[Len(received) + 1], k)

\* A unit's place in the stream is the number of its message and its offset in
\* the frame, 0 for the header.
UnitAt(m, k) ==
  IF k = 0 THEN HeaderUnit(Size[sent[m]]) ELSE ByteUnit(sent[m], k)
NextMessage(m, k) == IF k < Size[sent[m]] THEN m ELSE m + 1
NextOffset(m, k) == IF k < Size[sent[m]] THEN k + 1 ELSE 0

\* The place of the unit the receiver reads next, and of the one a write puts
\* on the wire next.
BodyRead == reading = "body" /\ Len(buffer) = size
ReadMessage == IF BodyRead THEN Len(received) + 2 ELSE Len(received) + 1
ReadOffset ==
  IF reading = "body" /\ ~BodyRead THEN Len(buffer) + 1 ELSE 0

FrameWritten == writes # <<>> /\ writes[1].done > Size[writes[1].message]
WriteMessage == IF FrameWritten THEN Finished + 2 ELSE Finished + 1
WriteOffset ==
  IF writes # <<>> /\ ~FrameWritten THEN writes[1].done ELSE 0

\* The j-th unit on the wire is the one at message[j] and offset[j]; the places
\* go from the reader's to the writer's.
Places(message, offset) ==
  /\ \A j \in 1 .. Len(wire) + 1 : message[j] \in Nat /\ offset[j] \in Nat
  /\ message[1] = ReadMessage /\ offset[1] = ReadOffset
  /\ \A j \in 1 .. Len(wire) :
       /\ message[j] \in 1 .. Len(sent)
       /\ offset[j] \in 0 .. Size[sent[message[j]]]
       /\ wire[j] = UnitAt(message[j], offset[j])
       /\ message[j + 1] = NextMessage(message[j], offset[j])
       /\ offset[j + 1] = NextOffset(message[j], offset[j])
  /\ ~broken =>
       /\ message[Len(wire) + 1] = WriteMessage
       /\ offset[Len(wire) + 1] = WriteOffset

WireInOrder ==
  reading # "failed" => \E message, offset : Places(message, offset)

IInv ==
  /\ TypeOK
  /\ OneWrite
  /\ QueueInOrder
  /\ WriteWithinFrame
  /\ BufferInOrder
  /\ WireInOrder
-----------------------------------------------------------------------------
LEMMA AppendFacts ==
  ASSUME NEW S, NEW s \in Seq(S), NEW e \in S
  PROVE  /\ Append(s, e) \in Seq(S) /\ Append(s, e) # <<>>
         /\ Len(Append(s, e)) = Len(s) + 1 /\ Len(s) \in Nat
         /\ \A i \in 1 .. Len(s) : Append(s, e)[i] = s[i]
         /\ Append(s, e)[Len(s) + 1] = e
<1>1. /\ Append(s, e) \in Seq(S) /\ Len(Append(s, e)) = Len(s) + 1
      /\ Len(s) \in Nat
      /\ \A i \in 1 .. Len(s) : Append(s, e)[i] = s[i]
      /\ Append(s, e)[Len(s) + 1] = e
  BY AppendProperties, LenProperties
<1>2. Append(s, e) # <<>>
  BY <1>1, EmptySeq
<1> QED
  BY <1>1, <1>2

LEMMA TailFacts ==
  ASSUME NEW S, NEW s \in Seq(S), s # <<>>
  PROVE  /\ Tail(s) \in Seq(S) /\ Len(Tail(s)) = Len(s) - 1
         /\ Len(s) \in Nat \ {0} /\ Head(s) = s[1] /\ Head(s) \in S
         /\ \A i \in 1 .. Len(s) - 1 : Tail(s)[i] = s[i + 1]
<1>1. /\ Tail(s) \in Seq(S) /\ Len(Tail(s)) = Len(s) - 1
      /\ Head(s) \in S
      /\ \A i \in 1 .. Len(Tail(s)) : Tail(s)[i] = s[i + 1]
  BY HeadTailProperties
<1>2. Head(s) = s[1]
  OBVIOUS
<1>3. Len(s) \in Nat \ {0}
  BY LenProperties, EmptySeq
<1> QED
  BY <1>1, <1>2, <1>3

\* What is finished, queued or posted is at its place in what was sent.
LEMMA PlaceInSent ==
  ASSUME NEW n \in Nat, NEW o \in Nat, NEW p \in Nat, NEW f, f = n - o - p,
         f >= 0
  PROVE  /\ f \in Nat
         /\ \A j \in 1 .. o : f + j \in 1 .. n
         /\ \A j \in 1 .. p : f + o + j \in 1 .. n
         /\ f + o + (p + 1) = n + 1
  OBVIOUS

\* The write that runs.
LEMMA TheWrite ==
  ASSUME TypeOK, OneWrite, NEW i \in 1 .. Len(writes)
  PROVE  /\ i = 1 /\ Len(writes) = 1 /\ writes # <<>>
         /\ RemoveAt(writes, i) = <<>>
         /\ writes[1] \in [message : Messages, done : Nat]
         /\ output # <<>> /\ output[1] = Head(output)
         /\ writes[1].message = output[1]
         /\ output[1] \in Messages
         /\ Size[output[1]] \in Nat \ {0}
         /\ header = Size[output[1]]
<1>1. /\ Len(writes) \in Nat /\ Len(writes) <= 1
      /\ writes \in Seq([message : Messages, done : Nat])
  BY LenProperties DEF TypeOK, OneWrite
<1>2. i = 1 /\ Len(writes) = 1 /\ writes # <<>>
  <2> DEFINE n == Len(writes)
  <2>0. n \in Nat /\ n <= 1 /\ i \in 1 .. n
    BY <1>1
  <2> HIDE DEF n
  <2>1. i = 1 /\ n = 1
    BY <2>0
  <2>2. Len(<<>>) = 0
    OBVIOUS
  <2>3. writes # <<>>
    <3>1. ASSUME writes = <<>> PROVE n = 0
      BY <2>2, <3>1 DEF n
    <3> QED
      BY <2>1, <3>1
  <2> QED
    BY <2>1, <2>3 DEF n
<1>3. writes[1] \in [message : Messages, done : Nat]
  BY <1>1, <1>2, ElementOfSeq
<1>4. RemoveAt(writes, i) = <<>>
  <2>1. SubSeq(writes, 1, 0) = <<>> /\ SubSeq(writes, 2, 1) = <<>>
    BY <1>1
  <2>2. RemoveAt(writes, i) = SubSeq(writes, 1, 0) \o SubSeq(writes, 2, 1)
    BY <1>2 DEF RemoveAt
  <2>3. <<>> \o <<>> = <<>>
    OBVIOUS
  <2> QED
    BY <2>1, <2>2, <2>3
<1>5. output # <<>> /\ output \in Seq(Messages)
  BY <1>2 DEF OneWrite, TypeOK
<1>6. output[1] = Head(output) /\ output[1] \in Messages
  BY <1>5, TailFacts
<1>7. writes[1].message = output[1] /\ header = Size[output[1]]
  BY <1>2, <1>6 DEF OneWrite
<1>8. Size[output[1]] \in Nat \ {0}
  BY <1>6
<1> QED
  BY <1>2, <1>3, <1>4, <1>5, <1>6, <1>7, <1>8

LEMMA Lengths ==
  ASSUME TypeOK
  PROVE  /\ Len(posted) \in Nat /\ Len(output) \in Nat /\ Len(writes) \in Nat
         /\ Len(wire) \in Nat /\ Len(buffer) \in Nat /\ Len(received) \in Nat
         /\ Len(sent) \in Nat
         /\ \A i \in 1 .. Len(sent) :
              sent[i] \in Messages /\ Size[sent[i]] \in Nat \ {0}
  BY LenProperties, ElementOfSeq DEF TypeOK

LEMMA InitHolds == Init => IInv
<1> SUFFICES ASSUME Init PROVE IInv
  OBVIOUS
<1> USE DEF Init
<1>1. TypeOK
  <2>1. /\ posted \in Seq(Messages) /\ output \in Seq(Messages)
        /\ sent \in Seq(Messages) /\ wire \in Seq(Units)
        /\ buffer \in Seq(Units) /\ Len(buffer) <= size
    OBVIOUS
  <2>2. writes \in Seq([message : Messages, done : Nat])
    OBVIOUS
  <2>3. received \in Seq(Seq(Units))
    OBVIOUS
  <2> QED
    BY <2>1, <2>2, <2>3 DEF TypeOK
<1>2. OneWrite /\ QueueInOrder /\ WriteWithinFrame /\ BufferInOrder
  BY EmptySeq DEF OneWrite, QueueInOrder, WriteWithinFrame, BufferInOrder,
                  Finished
<1>3. WireInOrder
  <2>1. Places([j \in {1} |-> 1], [j \in {1} |-> 0])
    BY EmptySeq DEF Places, ReadMessage, ReadOffset, BodyRead, WriteMessage,
                    WriteOffset, FrameWritten, Finished
  <2> QED
    BY <2>1 DEF WireInOrder
<1> QED
  BY <1>1, <1>2, <1>3 DEF IInv
-----------------------------------------------------------------------------
LEMMA UnitFacts ==
  ASSUME NEW m \in Messages
  PROVE  /\ HeaderUnit(Size[m]) \in Units
         /\ \A k \in 1 .. Size[m] : ByteUnit(m, k) \in Units
  BY DEF Units

\* A write of the front of the queue is the only one.
LEMMA WriteStarts ==
  ASSUME NEW queue \in Seq(Messages), queue # <<>>, writes = <<>>, Write(queue)
  PROVE  /\ writes' = <<[message |-> queue[1], done |-> 0]>>
         /\ writes' \in Seq([message : Messages, done : Nat])
         /\ writes' # <<>> /\ Len(writes') = 1
         /\ writes'[1].message = Head(queue) /\ writes'[1].done = 0
         /\ header' = Size[Head(queue)] /\ header' \in Nat
<1>1. Head(queue) = queue[1] /\ Head(queue) \in Messages
  BY TailFacts
<1>2. writes' = <<[message |-> queue[1], done |-> 0]>>
  BY <1>1 DEF Write
<1>3. [message |-> queue[1], done |-> 0] \in [message : Messages, done : Nat]
  BY <1>1
<1> QED
  BY <1>1, <1>2, <1>3 DEF Write

\* The reader's side of the invariant, which the sender's steps leave alone but
\* for what they put on the wire.
LEMMA SenderKeepsReader ==
  ASSUME BufferInOrder, UNCHANGED <<receiverVars, sent>>, broken => broken'
  PROVE  BufferInOrder'
  BY DEF BufferInOrder, receiverVars

LEMMA PlacesKept ==
  ASSUME WireInOrder, UNCHANGED <<wire, receiverVars, sent>>,
         broken => broken',
         ~broken' => WriteMessage' = WriteMessage /\ WriteOffset' = WriteOffset
  PROVE  WireInOrder'
<1>1. reading' = reading
  BY DEF receiverVars
<1> SUFFICES ASSUME reading # "failed"
             PROVE  \E message, offset : Places(message, offset)'
  BY <1>1 DEF WireInOrder
<1>2. PICK message, offset : Places(message, offset)
  BY DEF WireInOrder
<1>3. Places(message, offset)'
  BY <1>2 DEF Places, ReadMessage, ReadOffset, BodyRead, UnitAt, NextMessage,
              NextOffset, receiverVars
<1> QED
  BY <1>3

LEMMA SendStep ==
  ASSUME IInv, NEW m \in Messages, Send(m)
  PROVE  IInv'
<1> USE DEF IInv, Send
<1> DEFINE n == Len(sent)
           o == Len(output)
           p == Len(posted)
<1>1. /\ sent \in Seq(Messages) /\ posted \in Seq(Messages)
      /\ output \in Seq(Messages)
  BY DEF TypeOK
<1>2. /\ sent' \in Seq(Messages) /\ Len(sent') = n + 1 /\ n \in Nat
      /\ \A j \in 1 .. n : sent'[j] = sent[j]
      /\ sent'[n + 1] = m
  BY <1>1, AppendFacts
<1>3. /\ posted' \in Seq(Messages) /\ Len(posted') = p + 1 /\ p \in Nat
      /\ \A j \in 1 .. p : posted'[j] = posted[j]
      /\ posted'[p + 1] = m
  BY <1>1, AppendFacts
<1>4. o \in Nat /\ Len(output') = o
  BY <1>1, LenProperties
<1>5. TypeOK'
  BY <1>2, <1>3 DEF TypeOK, receiverVars
<1>6. OneWrite' /\ WriteWithinFrame'
  BY DEF OneWrite, WriteWithinFrame
<1>7. Finished' = Finished /\ Finished = n - o - p
  <2>1. Finished' = (n + 1) - o - (p + 1) /\ Finished = n - o - p
    BY <1>2, <1>3, <1>4 DEF Finished
  <2> HIDE DEF n, o, p
  <2> QED
    BY <1>2, <1>3, <1>4, <2>1
<1>8. QueueInOrder'
  <2> SUFFICES ASSUME ~broken
               PROVE  /\ Finished >= 0
                      /\ \A j \in 1 .. o : output[j] = sent'[Finished + j]
                      /\ \A j \in 1 .. p + 1 :
                           posted'[j] = sent'[Finished + o + j]
                      /\ output # <<>> => writes # <<>>
    BY <1>3, <1>4, <1>7 DEF QueueInOrder
  <2>1. /\ Finished >= 0
        /\ \A j \in 1 .. o : output[j] = sent[Finished + j]
        /\ \A j \in 1 .. p : posted[j] = sent[Finished + o + j]
        /\ output # <<>> => writes # <<>>
    BY DEF QueueInOrder
  <2> HIDE DEF n, o, p
  <2>0. /\ \A j \in 1 .. o : Finished + j \in 1 .. n
        /\ \A j \in 1 .. p : Finished + o + j \in 1 .. n
        /\ Finished + o + (p + 1) = n + 1
    <3>1. n \in Nat /\ o \in Nat /\ p \in Nat
      BY <1>2, <1>3, <1>4
    <3> QED
      BY <1>7, <2>1, <3>1, PlaceInSent
  <2>2. ASSUME NEW j \in 1 .. o PROVE output[j] = sent'[Finished + j]
    <3>1. Finished + j \in 1 .. n
      BY <2>0
    <3> QED
      BY <1>2, <2>1, <3>1
  <2>3. ASSUME NEW j \in 1 .. p + 1 PROVE posted'[j] = sent'[Finished + o + j]
    <3>1. CASE j = p + 1
      <4>1. Finished + o + j = n + 1
        BY <2>0, <3>1
      <4> QED
        BY <1>2, <1>3, <3>1, <4>1
    <3>2. CASE j \in 1 .. p
      <4>1. Finished + o + j \in 1 .. n
        BY <2>0, <3>2
      <4>2. posted'[j] = posted[j] /\ posted[j] = sent[Finished + o + j]
        BY <1>3, <2>1, <3>2
      <4>3. sent'[Finished + o + j] = sent[Finished + o + j]
        BY <1>2, <4>1
      <4> QED
        BY <4>2, <4>3
    <3>3. p \in Nat
      BY <1>3
    <3>4. j = p + 1 \/ j \in 1 .. p
      BY <3>3
    <3> QED
      BY <3>1, <3>2, <3>4
  <2> QED
    BY <2>1, <2>2, <2>3
<1>9. Len(received) \in Nat
  BY LenProperties DEF TypeOK
<1>10. BufferInOrder'
  <2>1. reading = "body" => Len(received) + 1 \in 1 .. n
    <3>1. reading = "body" => Len(received) < n
      BY DEF BufferInOrder
    <3> HIDE DEF n
    <3> QED
      BY <1>2, <1>9, <3>1
  <2>2. reading = "body" => Len(received) < n + 1
    <3> HIDE DEF n
    <3> QED
      BY <1>2, <1>9, <2>1
  <2>3. reading = "body" => sent'[Len(received) + 1] = sent[Len(received) + 1]
    BY <1>2, <2>1
  <2> QED
    BY <1>2, <2>2, <2>3 DEF BufferInOrder, receiverVars
<1>11. WireInOrder'
  <2> SUFFICES ASSUME reading # "failed"
               PROVE  \E message, offset : Places(message, offset)'
    BY DEF WireInOrder, receiverVars
  <2>1. PICK message, offset : Places(message, offset)
    BY DEF WireInOrder
  <2>2. /\ ReadMessage' = ReadMessage /\ ReadOffset' = ReadOffset
        /\ WriteMessage' = WriteMessage /\ WriteOffset' = WriteOffset
    BY <1>7 DEF ReadMessage, ReadOffset, BodyRead, WriteMessage, WriteOffset,
                FrameWritten, receiverVars
  <2>3. ASSUME NEW j \in 1 .. Len(wire)
        PROVE  /\ message[j] \in 1 .. n + 1
               /\ offset[j] \in 0 .. Size[sent'[message[j]]]
               /\ wire[j] = UnitAt(message[j], offset[j])'
               /\ message[j + 1] = NextMessage(message[j], offset[j])'
               /\ offset[j + 1] = NextOffset(message[j], offset[j])'
    <3>1. message[j] \in 1 .. n
      BY <2>1 DEF Places
    <3>2. message[j] \in 1 .. n + 1
      <4> HIDE DEF n
      <4> QED
        BY <1>2, <3>1
    <3>3. sent'[message[j]] = sent[message[j]]
      BY <1>2, <3>1
    <3> QED
      BY <2>1, <3>2, <3>3 DEF Places, UnitAt, NextMessage, NextOffset
  <2>4. Places(message, offset)'
    BY <1>2, <2>1, <2>2, <2>3 DEF Places
  <2> QED
    BY <2>4
<1> QED
  BY <1>5, <1>6, <1>8, <1>10, <1>11

LEMMA QueueStaysInOrder ==
  ASSUME ~broken' =>
           /\ Finished' >= 0
           /\ \A j \in 1 .. Len(output') :
                output'[j] = sent'[Finished' + j]
           /\ \A j \in 1 .. Len(posted') :
                posted'[j] = sent'[Finished' + Len(output') + j]
           /\ writes' # <<>>
  PROVE  QueueInOrder'
  BY DEF QueueInOrder

LEMMA RunPostedStep == IInv /\ RunPosted => IInv'
<1> SUFFICES ASSUME IInv, RunPosted PROVE IInv'
  OBVIOUS
<1> USE DEF IInv, RunPosted
<1> DEFINE n == Len(sent)
           o == Len(output)
           p == Len(posted)
<1>1. /\ posted \in Seq(Messages) /\ posted # <<>>
      /\ output \in Seq(Messages)
      /\ n \in Nat /\ o \in Nat
  BY LenProperties DEF TypeOK
<1>2. /\ posted' \in Seq(Messages) /\ Len(posted') = p - 1 /\ p \in Nat \ {0}
      /\ Head(posted) = posted[1] /\ Head(posted) \in Messages
      /\ \A j \in 1 .. p - 1 : posted'[j] = posted[j + 1]
  BY <1>1, TailFacts
<1>3. /\ output' \in Seq(Messages) /\ Len(output') = o + 1
      /\ output' # <<>>
      /\ \A j \in 1 .. o : output'[j] = output[j]
      /\ output'[o + 1] = posted[1]
  <2>1. output' = Append(output, posted[1]) /\ posted[1] \in Messages
    BY <1>2
  <2> QED
    BY <1>1, <2>1, AppendFacts
<1>4. Finished' = Finished /\ Finished = n - o - p
  <2>1. Finished' = n - (o + 1) - (p - 1) /\ Finished = n - o - p
    BY <1>2, <1>3 DEF Finished
  <2> HIDE DEF n, o, p
  <2> QED
    BY <1>1, <1>2, <2>1
<1>5. \/ /\ o > 0 /\ UNCHANGED <<header, writes>>
      \/ o = 0 /\ Write(output')
  <2>1. \/ Len(output') > 1 /\ UNCHANGED <<header, writes>>
        \/ ~(Len(output') > 1) /\ Write(output')
    OBVIOUS
  <2> HIDE DEF o
  <2> QED
    BY <1>1, <1>3, <2>1
<1>6. o = 0 => output = <<>> /\ writes = <<>>
  BY <1>1, EmptySeq DEF OneWrite
<1>7. o > 0 => output # <<>>
  BY EmptySeq
<1>8. Head(output') = output'[1]
  BY <1>3, TailFacts
<1>9. Len(wire) \in Nat /\ wire' = wire /\ broken' = broken /\ sent' = sent
  BY LenProperties DEF TypeOK
<1>10. ~broken => /\ Finished >= 0
                  /\ \A j \in 1 .. o : output[j] = sent[Finished + j]
                  /\ \A j \in 1 .. p : posted[j] = sent[Finished + o + j]
                  /\ output # <<>> => writes # <<>>
  BY DEF QueueInOrder
<1>11. writes' # <<>> \/ (o > 0 /\ writes' = writes)
  BY <1>3, <1>5, <1>6, WriteStarts
<1>12. QueueInOrder'
  <2> SUFFICES ASSUME ~broken
               PROVE  /\ Finished' >= 0
                      /\ \A j \in 1 .. Len(output') :
                           output'[j] = sent'[Finished' + j]
                      /\ \A j \in 1 .. Len(posted') :
                           posted'[j] = sent'[Finished' + Len(output') + j]
                      /\ writes' # <<>>
    BY <1>9, QueueStaysInOrder
  <2>0. Len(output') = o + 1 /\ Len(posted') = p - 1 /\ Finished' = Finished
    BY <1>2, <1>3, <1>4
  <2>1. writes' # <<>>
    BY <1>7, <1>10, <1>11
  <2> HIDE DEF n, o, p
  <2>2. ASSUME NEW j \in 1 .. o + 1 PROVE output'[j] = sent[Finished + j]
    <3>1. CASE j = o + 1
      <4>1. posted[1] = sent[Finished + o + 1]
        BY <1>2, <1>10
      <4>2. Finished + o + 1 = Finished + j
        BY <1>1, <1>2, <1>4, <3>1
      <4> QED
        BY <1>3, <3>1, <4>1, <4>2
    <3>2. CASE j \in 1 .. o
      BY <1>3, <1>10, <3>2
    <3>3. o \in Nat
      BY <1>1
    <3>4. j = o + 1 \/ j \in 1 .. o
      BY <3>3
    <3> QED
      BY <3>1, <3>2, <3>4
  <2>3. ASSUME NEW j \in 1 .. p - 1
        PROVE  posted'[j] = sent[Finished + (o + 1) + j]
    <3>1. j + 1 \in 1 .. p
      BY <1>2
    <3>2. /\ posted'[j] = posted[j + 1]
          /\ posted[j + 1] = sent[Finished + o + (j + 1)]
      BY <1>2, <1>10, <3>1
    <3>3. Finished + o + (j + 1) = Finished + (o + 1) + j
      BY <1>1, <1>2, <1>4
    <3> QED
      BY <3>2, <3>3
  <2>4. \A j \in 1 .. Len(output') : output'[j] = sent'[Finished' + j]
    BY <1>9, <2>0, <2>2
  <2>5. \A j \in 1 .. Len(posted') :
          posted'[j] = sent'[Finished' + Len(output') + j]
    BY <1>9, <2>0, <2>3
  <2>6. Finished' >= 0
    BY <1>10, <2>0
  <2> QED
    BY <2>1, <2>4, <2>5, <2>6
<1>13. CASE o > 0 /\ UNCHANGED <<header, writes>>
  <2>1. TypeOK'
    BY <1>2, <1>3, <1>13 DEF TypeOK, receiverVars
  <2>2. output[1] = Head(output) /\ output'[1] = output[1]
    <3>1. output[1] = Head(output)
      BY <1>1, <1>7, <1>13, TailFacts
    <3>2. 1 \in 1 .. o
      <4> HIDE DEF o
      <4> QED
        BY <1>1, <1>13
    <3> QED
      BY <1>3, <3>1, <3>2
  <2>3. OneWrite' /\ WriteWithinFrame'
    BY <1>3, <1>8, <1>13, <2>2 DEF OneWrite, WriteWithinFrame
  <2>4. WriteMessage' = WriteMessage /\ WriteOffset' = WriteOffset
    BY <1>4, <1>13 DEF WriteMessage, WriteOffset, FrameWritten
  <2>5. BufferInOrder' /\ WireInOrder'
    BY <1>9, <2>4, SenderKeepsReader, PlacesKept
  <2> QED
    BY <1>12, <2>1, <2>3, <2>5
<1>14. CASE o = 0 /\ Write(output')
  <2>1. /\ writes' = <<[message |-> output'[1], done |-> 0]>>
        /\ writes' \in Seq([message : Messages, done : Nat])
        /\ writes' # <<>> /\ Len(writes') = 1
        /\ writes'[1].message = Head(output') /\ writes'[1].done = 0
        /\ header' = Size[Head(output')] /\ header' \in Nat
    BY <1>3, <1>6, <1>14, WriteStarts
  <2>2. TypeOK'
    BY <1>2, <1>3, <2>1 DEF TypeOK, receiverVars
  <2>3. OneWrite'
    BY <1>3, <2>1 DEF OneWrite
  <2>4. Size[Head(output')] \in Nat
    BY <2>1
  <2>5. WriteWithinFrame'
    BY <2>1, <2>4 DEF WriteWithinFrame
  <2>6. WriteMessage' = WriteMessage /\ WriteOffset' = WriteOffset
    <3>1. ~FrameWritten /\ ~FrameWritten' /\ writes = <<>>
      BY <1>6, <1>14, <2>1, <2>4 DEF FrameWritten
    <3> QED
      BY <1>4, <2>1, <3>1 DEF WriteMessage, WriteOffset
  <2>7. BufferInOrder' /\ WireInOrder'
    BY <1>9, <2>6, SenderKeepsReader, PlacesKept
  <2> QED
    BY <1>12, <2>2, <2>3, <2>5, <2>7
<1> QED
  BY <1>5, <1>13, <1>14

\* What Transfer does to the one write and to the wire.
LEMMA TransferFacts ==
  ASSUME IInv, NEW i \in 1 .. Len(writes), Transfer(i),
         NEW m, m = output[1], NEW d, d = writes[1].done
  PROVE  /\ m \in Messages /\ Size[m] \in Nat \ {0} /\ d \in 0 .. Size[m]
         /\ Head(output) = m /\ writes[1].message = m /\ writes # <<>>
         /\ output # <<>> /\ header = Size[m] /\ Len(writes') = 1
         /\ writes' \in Seq([message : Messages, done : Nat])
         /\ writes'[1].message = m /\ writes'[1].done = d + 1
         /\ writes' # <<>>
         /\ ~broken => wire' = Append(wire, IF d = 0 THEN HeaderUnit(Size[m])
                                                     ELSE ByteUnit(m, d))
<1> USE DEF IInv, Transfer
<1>1. /\ i = 1 /\ Len(writes) = 1 /\ writes # <<>>
      /\ writes[1] \in [message : Messages, done : Nat]
      /\ output # <<>> /\ Head(output) = m /\ writes[1].message = m
      /\ m \in Messages /\ Size[m] \in Nat \ {0} /\ header = Size[m]
  BY TheWrite
<1>2. d \in Nat /\ d <= Size[m]
  BY <1>1
<1>3. writes' = [writes EXCEPT ![1] = [writes[1] EXCEPT !.done = d + 1]]
  BY <1>1
<1>4. [writes[1] EXCEPT !.done = d + 1] = [message |-> m, done |-> d + 1]
  BY <1>1
<1>5. writes \in Seq([message : Messages, done : Nat])
  BY DEF TypeOK
<1>6. /\ writes' \in Seq([message : Messages, done : Nat])
      /\ Len(writes') = 1 /\ writes'[1] = [message |-> m, done |-> d + 1]
  <2>1. [message |-> m, done |-> d + 1] \in [message : Messages, done : Nat]
    BY <1>1, <1>2
  <2>2. 1 \in 1 .. Len(writes)
    BY <1>1
  <2> QED
    BY <1>1, <1>3, <1>4, <1>5, <2>1, <2>2, ExceptSeq
<1>7. writes' # <<>>
  BY <1>6, EmptySeq
<1>8. ~broken => wire' = Append(wire, IF d = 0 THEN HeaderUnit(Size[m])
                                               ELSE ByteUnit(m, d))
  BY <1>1 DEF NextUnit
<1> QED
  BY <1>1, <1>2, <1>6, <1>7, <1>8

LEMMA TransferArrives ==
  ASSUME IInv, NEW i \in 1 .. Len(writes), Transfer(i), ~broken
  PROVE  IInv'
<1> USE DEF IInv, Transfer
<1>1. PICK m : m = output[1]
  OBVIOUS
<1>2. PICK d : d = writes[1].done
  OBVIOUS
<1>3. PICK u : u = IF d = 0 THEN HeaderUnit(Size[m]) ELSE ByteUnit(m, d)
  OBVIOUS
<1>4. /\ m \in Messages /\ Size[m] \in Nat \ {0} /\ d \in 0 .. Size[m]
      /\ Head(output) = m /\ writes[1].message = m /\ writes # <<>>
      /\ output # <<>> /\ header = Size[m] /\ Len(writes') = 1
      /\ writes' \in Seq([message : Messages, done : Nat])
      /\ writes'[1].message = m /\ writes'[1].done = d + 1
      /\ writes' # <<>>
      /\ wire' = Append(wire, u)
  BY <1>1, <1>2, <1>3, TransferFacts
<1>5. u \in Units /\ wire \in Seq(Units)
  <2>1. d = 0 \/ d \in 1 .. Size[m]
    BY <1>4
  <2> QED
    BY <1>3, <1>4, <2>1, UnitFacts DEF TypeOK
<1> DEFINE n == Len(wire)
<1>6. /\ wire' \in Seq(Units) /\ Len(wire') = n + 1 /\ n \in Nat
      /\ \A j \in 1 .. n : wire'[j] = wire[j]
      /\ wire'[n + 1] = u
  BY <1>4, <1>5, AppendFacts
<1>7. TypeOK'
  BY <1>4, <1>6 DEF TypeOK, receiverVars
<1>8. OneWrite' /\ WriteWithinFrame'
  BY <1>4 DEF OneWrite, WriteWithinFrame
<1>9. QueueInOrder' /\ Finished' = Finished
  BY <1>4 DEF QueueInOrder, Finished
<1>10. BufferInOrder' /\ reading # "failed"
  BY DEF BufferInOrder, receiverVars
<1>11. Finished + 1 \in 1 .. Len(sent) /\ sent[Finished + 1] = m
  <2>1. Len(output) \in Nat \ {0} /\ Len(posted) \in Nat /\ Len(sent) \in Nat
    BY <1>4, TailFacts, Lengths DEF TypeOK
  <2>2. Finished >= 0 /\ output[1] = sent[Finished + 1]
    BY <2>1 DEF QueueInOrder
  <2>3. Finished + 1 \in 1 .. Len(sent)
    <3>1. ASSUME NEW a \in Nat, NEW b \in Nat \ {0}, NEW c \in Nat,
                 a - b - c >= 0
          PROVE  (a - b - c) + 1 \in 1 .. a
      BY <3>1
    <3> QED
      BY <2>1, <2>2, <3>1 DEF Finished
  <2> QED
    BY <1>1, <2>2, <2>3
<1>12. /\ WriteMessage = Finished + 1 /\ WriteOffset = d
       /\ WriteMessage' = NextMessage(Finished + 1, d)
       /\ WriteOffset' = NextOffset(Finished + 1, d)
  <2>1. ~FrameWritten /\ (FrameWritten' <=> ~(d < Size[m]))
    <3>0. ASSUME NEW a \in Nat, NEW b \in 0 .. a
          PROVE  ~(b > a) /\ (b + 1 > a <=> ~(b < a))
      OBVIOUS
    <3>1. ~(d > Size[m]) /\ (d + 1 > Size[m] <=> ~(d < Size[m]))
      BY <1>4, <3>0
    <3>2. /\ writes # <<>> /\ writes[1].done = d /\ writes[1].message = m
          /\ writes' # <<>> /\ writes'[1].done = d + 1
          /\ writes'[1].message = m
      BY <1>2, <1>4
    <3> QED
      BY <3>1, <3>2 DEF FrameWritten
  <2>2. Finished \in Int /\ (Finished + 1) + 1 = Finished + 2
    <3>1. Len(sent) \in Nat /\ Len(output) \in Nat /\ Len(posted) \in Nat
      BY Lengths
    <3>2. Finished \in Int
      BY <3>1 DEF Finished
    <3> QED
      BY <3>2
  <2> QED
    BY <1>2, <1>4, <1>9, <1>11, <2>1, <2>2
       DEF WriteMessage, WriteOffset, NextMessage, NextOffset
<1>13. WireInOrder'
  <2>1. PICK message, offset : Places(message, offset)
    BY <1>10 DEF WireInOrder
  <2>2. message[n + 1] = Finished + 1 /\ offset[n + 1] = d
    BY <1>12, <2>1 DEF Places
  <2>3. PICK x, y : /\ x = NextMessage(Finished + 1, d)
                    /\ y = NextOffset(Finished + 1, d)
    OBVIOUS
  <2>4. PICK k : k = n
    OBVIOUS
  <2>5. k \in Nat
    BY <1>6, <2>4
  <2>6. PICK message2, offset2 :
          /\ message2 = [j \in 1 .. k + 2 |->
                           IF j = k + 2 THEN x ELSE message[j]]
          /\ offset2 = [j \in 1 .. k + 2 |->
                          IF j = k + 2 THEN y ELSE offset[j]]
    OBVIOUS
  <2>7. /\ message2[k + 2] = x /\ offset2[k + 2] = y
        /\ \A j \in 1 .. k + 1 :
             message2[j] = message[j] /\ offset2[j] = offset[j]
    BY <2>5, <2>6
  <2>8. x \in Nat /\ y \in Nat
    <3>1. Finished + 1 \in Nat /\ (Finished + 1) + 1 \in Nat
      BY <1>11
    <3>2. d \in Nat /\ d + 1 \in Nat
      <4>1. ASSUME NEW a \in Nat, NEW b \in 0 .. a
            PROVE  b \in Nat /\ b + 1 \in Nat
        OBVIOUS
      <4> QED
        BY <1>4, <4>1
    <3>3. x \in {Finished + 1, (Finished + 1) + 1} /\ y \in {d + 1, 0}
      BY <2>3 DEF NextMessage, NextOffset
    <3> HIDE DEF IInv, Transfer
    <3> QED
      BY <3>1, <3>2, <3>3
  <2>9. /\ ReadMessage' = ReadMessage /\ ReadOffset' = ReadOffset
        /\ sent' = sent /\ broken' = broken
    BY DEF ReadMessage, ReadOffset, BodyRead, receiverVars
  <2>10. \A j \in 1 .. k + 2 : message2[j] \in Nat /\ offset2[j] \in Nat
    <3> SUFFICES ASSUME NEW j \in 1 .. k + 2
                 PROVE  message2[j] \in Nat /\ offset2[j] \in Nat
      OBVIOUS
    <3>1. j = k + 2 \/ j \in 1 .. k + 1
      BY <2>5
    <3> QED
      BY <2>1, <2>4, <2>7, <2>8, <3>1 DEF Places
  <2>11. ASSUME NEW j \in 1 .. k + 1
         PROVE  /\ message2[j] \in 1 .. Len(sent)
                /\ offset2[j] \in 0 .. Size[sent[message2[j]]]
                /\ wire'[j] = UnitAt(message2[j], offset2[j])
                /\ message2[j + 1] = NextMessage(message2[j], offset2[j])
                /\ offset2[j + 1] = NextOffset(message2[j], offset2[j])
    <3>1. CASE j = k + 1
      <4>1. /\ message2[j] = Finished + 1 /\ offset2[j] = d
            /\ message2[j + 1] = x /\ offset2[j + 1] = y
        <5>1. j + 1 = k + 2 /\ j \in 1 .. k + 1
          BY <2>5, <3>1
        <5> QED
          BY <2>2, <2>4, <2>7, <3>1, <5>1
      <4>2. wire'[j] = u
        BY <1>6, <2>4, <3>1
      <4> QED
        BY <1>3, <1>4, <1>11, <2>3, <4>1, <4>2 DEF UnitAt
    <3>2. CASE j \in 1 .. k
      <4>1. j \in 1 .. k + 1 /\ j + 1 \in 1 .. k + 1
        BY <2>5, <3>2
      <4>2. /\ message2[j] = message[j] /\ offset2[j] = offset[j]
            /\ message2[j + 1] = message[j + 1]
            /\ offset2[j + 1] = offset[j + 1]
        BY <2>7, <4>1
      <4>3. wire'[j] = wire[j]
        BY <1>6, <2>4, <3>2
      <4> QED
        BY <2>1, <2>4, <3>2, <4>2, <4>3 DEF Places
    <3>3. j = k + 1 \/ j \in 1 .. k
      BY <2>5
    <3> QED
      BY <3>1, <3>2, <3>3
  <2>12. Len(wire') = k + 1 /\ (k + 1) + 1 = k + 2 /\ 1 \in 1 .. k + 1
    BY <1>6, <2>4, <2>5
  <2>13. message2[1] = ReadMessage /\ offset2[1] = ReadOffset
    BY <2>1, <2>7, <2>12 DEF Places
  <2>14. Places(message2, offset2)'
    BY <1>12, <2>3, <2>7, <2>9, <2>10, <2>11, <2>12, <2>13
       DEF Places, UnitAt, NextMessage, NextOffset
  <2> QED
    BY <2>14 DEF WireInOrder
<1> QED
  BY <1>7, <1>8, <1>9, <1>10, <1>13

LEMMA TransferLost ==
  ASSUME IInv, NEW i \in 1 .. Len(writes), Transfer(i), broken
  PROVE  IInv'
<1> USE DEF IInv, Transfer
<1>1. PICK m : m = output[1]
  OBVIOUS
<1>2. PICK d : d = writes[1].done
  OBVIOUS
<1>3. /\ d \in 0 .. Size[m] /\ Size[m] \in Nat \ {0}
      /\ Head(output) = m /\ output # <<>> /\ header = Size[m]
      /\ Len(writes') = 1 /\ writes' # <<>>
      /\ writes' \in Seq([message : Messages, done : Nat])
      /\ writes'[1].message = m /\ writes'[1].done = d + 1
  BY <1>1, <1>2, TransferFacts
<1>4. wire' = wire /\ broken' = broken
  OBVIOUS
<1>5. TypeOK'
  BY <1>3, <1>4 DEF TypeOK, receiverVars
<1>6. OneWrite' /\ WriteWithinFrame'
  BY <1>3 DEF OneWrite, WriteWithinFrame
<1>7. QueueInOrder'
  BY <1>4 DEF QueueInOrder
<1>8. BufferInOrder' /\ WireInOrder'
  BY <1>4, SenderKeepsReader, PlacesKept
<1> QED
  BY <1>5, <1>6, <1>7, <1>8

LEMMA TransferStep ==
  ASSUME IInv, NEW i \in 1 .. Len(writes), Transfer(i)
  PROVE  IInv'
<1> QED
  BY TransferArrives, TransferLost

LEMMA WrittenStep ==
  ASSUME IInv, NEW i \in 1 .. Len(writes), Written(i)
  PROVE  IInv'
<1> USE DEF IInv, Written
<1> DEFINE n == Len(sent)
           o == Len(output)
           p == Len(posted)
<1>1. /\ i = 1 /\ Len(writes) = 1 /\ writes # <<>>
      /\ RemoveAt(writes, i) = <<>>
      /\ writes[1] \in [message : Messages, done : Nat]
      /\ output # <<>> /\ Size[writes[1].message] \in Nat \ {0}
  BY TheWrite
<1>2. output \in Seq(Messages) /\ n \in Nat /\ p \in Nat
  BY Lengths DEF TypeOK
<1>3. /\ output' \in Seq(Messages) /\ Len(output') = o - 1
      /\ o \in Nat \ {0}
      /\ \A j \in 1 .. o - 1 : output'[j] = output[j + 1]
  BY <1>1, <1>2, TailFacts
<1>4. Finished' = Finished + 1 /\ Finished \in Int
  <2>1. Finished' = n - (o - 1) - p /\ Finished = n - o - p
    BY <1>2, <1>3 DEF Finished
  <2>2. n \in Nat /\ o \in Nat /\ p \in Nat
    BY <1>2, <1>3
  <2> HIDE DEF n, o, p
  <2> QED
    BY <2>1, <2>2
<1>5. /\ output' = <<>> => writes' = <<>> /\ header' = header
      /\ output' # <<>> =>
           /\ header' = Size[Head(output')]
           /\ writes' = Append(<<>>, [message |-> Head(output'), done |-> 0])
  BY <1>1
<1>6. output' # <<>> => /\ Head(output') = output'[1]
                        /\ Head(output') \in Messages
                        /\ Size[Head(output')] \in Nat \ {0}
  BY <1>3, TailFacts
<1>7. output' # <<>> =>
        /\ writes' \in Seq([message : Messages, done : Nat])
        /\ writes' # <<>> /\ Len(writes') = 1
        /\ writes'[1].message = Head(output') /\ writes'[1].done = 0
  <2> SUFFICES ASSUME output' # <<>>
               PROVE  /\ writes' \in Seq([message : Messages, done : Nat])
                      /\ writes' # <<>> /\ Len(writes') = 1
                      /\ writes'[1].message = Head(output')
                      /\ writes'[1].done = 0
    OBVIOUS
  <2>0. ASSUME NEW w PROVE Append(<<>>, w) = <<w>>
    OBVIOUS
  <2>1. writes' = <<[message |-> Head(output'), done |-> 0]>>
    BY <1>5, <2>0
  <2>2. [message |-> Head(output'), done |-> 0]
          \in [message : Messages, done : Nat]
    BY <1>6
  <2> QED
    BY <2>1, <2>2
<1>8. TypeOK'
  <2>1. header' \in Nat
    BY <1>5, <1>6 DEF TypeOK
  <2>2. writes' \in Seq([message : Messages, done : Nat])
    <3>1. <<>> \in Seq([message : Messages, done : Nat])
      OBVIOUS
    <3> QED
      BY <1>5, <1>7, <3>1
  <2> QED
    BY <1>3, <2>1, <2>2 DEF TypeOK, receiverVars
<1>9. OneWrite'
  <2>1. CASE output' = <<>>
    <3>1. Len(<<>>) = 0
      OBVIOUS
    <3> QED
      BY <1>5, <2>1, <3>1 DEF OneWrite
  <2>2. CASE output' # <<>>
    <3>1. Len(writes') = 1 /\ writes'[1].message = Head(output')
      BY <1>7, <2>2
    <3>2. Len(writes') <= 1
      BY <3>1
    <3>3. header' = Size[Head(output')]
      BY <1>5, <2>2
    <3> QED
      BY <2>2, <3>1, <3>2, <3>3 DEF OneWrite
  <2> QED
    BY <2>1, <2>2
<1>10. WriteWithinFrame'
  <2>1. CASE output' = <<>>
    BY <1>5, <2>1 DEF WriteWithinFrame
  <2>2. CASE output' # <<>>
    <3>1. Size[Head(output')] \in Nat /\ 0 <= Size[Head(output')] + 1
      BY <1>6, <2>2
    <3> QED
      BY <1>7, <2>2, <3>1 DEF WriteWithinFrame
  <2> QED
    BY <2>1, <2>2
<1>11. QueueInOrder'
  <2> SUFFICES ASSUME ~broken
               PROVE  /\ Finished + 1 >= 0
                      /\ \A j \in 1 .. o - 1 :
                           output'[j] = sent[Finished + 1 + j]
                      /\ \A j \in 1 .. p :
                           posted[j] = sent[Finished + 1 + (o - 1) + j]
                      /\ output' # <<>> => writes' # <<>>
    BY <1>3, <1>4 DEF QueueInOrder
  <2>1. /\ Finished >= 0
        /\ \A j \in 1 .. o : output[j] = sent[Finished + j]
        /\ \A j \in 1 .. p : posted[j] = sent[Finished + o + j]
    BY DEF QueueInOrder
  <2>2. Finished + 1 >= 0
    BY <1>4, <2>1
  <2> HIDE DEF n, o, p
  <2>3. ASSUME NEW j \in 1 .. o - 1
        PROVE  output'[j] = sent[Finished + 1 + j]
    <3>1. j + 1 \in 1 .. o /\ Finished + (j + 1) = Finished + 1 + j
      BY <1>3, <1>4
    <3>2. output'[j] = output[j + 1] /\ output[j + 1] = sent[Finished + (j + 1)]
      BY <1>3, <2>1, <3>1
    <3> QED
      BY <3>1, <3>2
  <2>4. ASSUME NEW j \in 1 .. p
        PROVE  posted[j] = sent[Finished + 1 + (o - 1) + j]
    <3>1. Finished + 1 + (o - 1) + j = Finished + o + j
      BY <1>3, <1>4
    <3> QED
      BY <2>1, <3>1
  <2> QED
    BY <1>7, <2>2, <2>3, <2>4
<1>12. WriteMessage' = WriteMessage /\ WriteOffset' = WriteOffset
  <2>1. FrameWritten
    BY <1>1 DEF FrameWritten
  <2>2. ~FrameWritten' /\ WriteOffset' = 0
    BY <1>5, <1>6, <1>7 DEF FrameWritten, WriteOffset
  <2>3. (Finished + 1) + 1 = Finished + 2
    BY <1>4
  <2> QED
    BY <1>4, <2>1, <2>2, <2>3 DEF WriteMessage, WriteOffset
<1>13. BufferInOrder' /\ WireInOrder'
  BY <1>12, SenderKeepsReader, PlacesKept
<1> QED
  BY <1>8, <1>9, <1>10, <1>11, <1>13

LEMMA WriteFailsStep ==
  ASSUME IInv, NEW i \in 1 .. Len(writes), WriteFails(i)
  PROVE  IInv'
<1> USE DEF IInv, WriteFails
<1>1. RemoveAt(writes, i) = <<>> /\ output # <<>>
  BY TheWrite
<1>2. output \in Seq(Messages)
  BY DEF TypeOK
<1>3. output' \in Seq(Messages) /\ writes' = <<>>
  BY <1>1, <1>2, TailFacts
<1>4. TypeOK'
  BY <1>3 DEF TypeOK, receiverVars
<1>5. OneWrite' /\ QueueInOrder' /\ WriteWithinFrame'
  BY <1>3 DEF OneWrite, QueueInOrder, WriteWithinFrame
<1>6. BufferInOrder' /\ WireInOrder'
  BY SenderKeepsReader, PlacesKept
<1> QED
  BY <1>4, <1>5, <1>6

LEMMA BreakStep == IInv /\ Break => IInv'
<1> SUFFICES ASSUME IInv, Break PROVE IInv'
  OBVIOUS
<1> USE DEF IInv, Break, senderVars
<1>1. TypeOK'
  BY DEF TypeOK, receiverVars
<1>2. OneWrite' /\ QueueInOrder' /\ WriteWithinFrame'
  BY DEF OneWrite, QueueInOrder, WriteWithinFrame
<1>3. BufferInOrder' /\ WireInOrder'
  BY SenderKeepsReader, PlacesKept
<1> QED
  BY <1>1, <1>2, <1>3
-----------------------------------------------------------------------------
\* What the receiver's steps leave alone.
LEMMA ReceiverKeepsSender ==
  ASSUME OneWrite, QueueInOrder, WriteWithinFrame,
         UNCHANGED <<senderVars, broken, sent>>
  PROVE  /\ OneWrite' /\ QueueInOrder' /\ WriteWithinFrame'
         /\ WriteMessage' = WriteMessage /\ WriteOffset' = WriteOffset
  BY DEF OneWrite, QueueInOrder, WriteWithinFrame, Finished, WriteMessage,
         WriteOffset, FrameWritten, senderVars

\* A unit is read, and the reader goes on to the next place.
LEMMA UnitRead ==
  ASSUME TypeOK, NEW message, NEW offset, Places(message, offset),
         wire # <<>>, wire' = Tail(wire), UNCHANGED <<broken, sent>>,
         WriteMessage' = WriteMessage, WriteOffset' = WriteOffset,
         ReadMessage' = NextMessage(ReadMessage, ReadOffset),
         ReadOffset' = NextOffset(ReadMessage, ReadOffset)
  PROVE  WireInOrder'
<1>1. /\ wire \in Seq(Units)
      /\ Len(wire') = Len(wire) - 1 /\ Len(wire) \in Nat \ {0}
      /\ \A j \in 1 .. Len(wire) - 1 : wire'[j] = wire[j + 1]
  BY TailFacts DEF TypeOK
<1>2. PICK n : n = Len(wire)
  OBVIOUS
<1>3. /\ n \in Nat \ {0} /\ Len(wire') = n - 1
      /\ \A j \in 1 .. n - 1 : wire'[j] = wire[j + 1]
  BY <1>1, <1>2
<1>4. PICK message2, offset2 :
        /\ message2 = [j \in 1 .. n |-> message[j + 1]]
        /\ offset2 = [j \in 1 .. n |-> offset[j + 1]]
  OBVIOUS
<1>5. \A j \in 1 .. n : /\ message2[j] = message[j + 1]
                        /\ offset2[j] = offset[j + 1]
  BY <1>4
<1>6. (n - 1) + 1 = n /\ 1 \in 1 .. n /\ n \in 1 .. n
  BY <1>3
<1>7. ASSUME NEW j \in 1 .. n
      PROVE  message2[j] \in Nat /\ offset2[j] \in Nat
  <2>1. j + 1 \in 1 .. n + 1
    BY <1>3
  <2> QED
    BY <1>2, <1>5, <2>1 DEF Places
<1>8. message2[1] = ReadMessage' /\ offset2[1] = ReadOffset'
  BY <1>2, <1>5, <1>6 DEF Places
<1>9. ASSUME NEW j \in 1 .. n - 1
      PROVE  /\ message2[j] \in 1 .. Len(sent)
             /\ offset2[j] \in 0 .. Size[sent[message2[j]]]
             /\ wire'[j] = UnitAt(message2[j], offset2[j])
             /\ message2[j + 1] = NextMessage(message2[j], offset2[j])
             /\ offset2[j + 1] = NextOffset(message2[j], offset2[j])
  <2>1. j \in 1 .. n /\ j + 1 \in 1 .. n
    BY <1>3
  <2>2. /\ message2[j] = message[j + 1] /\ offset2[j] = offset[j + 1]
        /\ message2[j + 1] = message[(j + 1) + 1]
        /\ offset2[j + 1] = offset[(j + 1) + 1]
    BY <1>5, <2>1
  <2> QED
    BY <1>2, <1>3, <2>1, <2>2 DEF Places
<1>10. ~broken => message2[n] = WriteMessage /\ offset2[n] = WriteOffset
  BY <1>2, <1>5, <1>6 DEF Places
<1>11. Places(message2, offset2)'
  BY <1>3, <1>6, <1>7, <1>8, <1>9, <1>10
     DEF Places, UnitAt, NextMessage, NextOffset
<1> QED
  BY <1>11 DEF WireInOrder

LEMMA ReadHeaderStep == IInv /\ ReadHeader => IInv'
<1> SUFFICES ASSUME IInv, ReadHeader PROVE IInv'
  OBVIOUS
<1> USE DEF IInv, ReadHeader
<1>1. PICK message, offset : Places(message, offset)
  BY DEF WireInOrder
<1>2. PICK r : r = Len(received) + 1
  OBVIOUS
<1>3. /\ wire \in Seq(Units) /\ wire' = Tail(wire)
      /\ wire' \in Seq(Units) /\ Head(wire) = wire[1]
      /\ Len(wire) \in Nat \ {0}
  BY TailFacts DEF TypeOK
<1>4. ReadMessage = r /\ ReadOffset = 0
  BY <1>2 DEF ReadMessage, ReadOffset, BodyRead
<1>5. r \in 1 .. Len(sent) /\ wire[1] = HeaderUnit(Size[sent[r]])
  <2>1. 1 \in 1 .. Len(wire)
    BY <1>3
  <2>2. message[1] = r /\ offset[1] = 0
    BY <1>1, <1>4 DEF Places
  <2> QED
    BY <1>1, <2>1, <2>2 DEF Places, UnitAt
<1>6. Size[sent[r]] \in Nat \ {0}
  BY <1>5, Lengths
<1>7. size' = Size[sent[r]] /\ buffer' = <<>> /\ Len(buffer') = 0
  <2>1. Len(<<>>) = 0
    OBVIOUS
  <2> QED
    BY <1>3, <1>5, <2>1 DEF HeaderUnit
<1>8. TypeOK'
  <2>1. buffer' \in Seq(Units) /\ size' \in Nat /\ Len(buffer') <= size'
    BY <1>6, <1>7
  <2> QED
    BY <1>3, <2>1 DEF TypeOK, senderVars
<1>9. BufferInOrder'
  <2>1. Len(received) < Len(sent)
    BY <1>2, <1>5, Lengths
  <2>2. 1 .. Len(buffer') = {}
    BY <1>7
  <2> QED
    BY <1>2, <1>7, <2>1, <2>2 DEF BufferInOrder
<1>10. /\ OneWrite' /\ QueueInOrder' /\ WriteWithinFrame'
       /\ WriteMessage' = WriteMessage /\ WriteOffset' = WriteOffset
  BY ReceiverKeepsSender
<1>11. /\ ReadMessage' = NextMessage(ReadMessage, ReadOffset)
       /\ ReadOffset' = NextOffset(ReadMessage, ReadOffset)
  <2>1. ReadMessage' = r /\ ReadOffset' = 0 + 1
    BY <1>2, <1>6, <1>7 DEF ReadMessage, ReadOffset, BodyRead
  <2> QED
    BY <1>4, <1>6, <2>1 DEF NextMessage, NextOffset
<1>12. WireInOrder'
  BY <1>1, <1>10, <1>11, UnitRead
<1> QED
  BY <1>8, <1>9, <1>10, <1>12

LEMMA ReadBodyStep == IInv /\ ReadBody => IInv'
<1> SUFFICES ASSUME IInv, ReadBody PROVE IInv'
  OBVIOUS
<1> USE DEF IInv, ReadBody
<1>1. PICK message, offset : Places(message, offset)
  BY DEF WireInOrder
<1>2. PICK r : r = Len(received) + 1
  OBVIOUS
<1>3. PICK b : b = Len(buffer)
  OBVIOUS
<1>4. /\ wire \in Seq(Units) /\ wire' = Tail(wire)
      /\ wire' \in Seq(Units) /\ Head(wire) = wire[1]
      /\ Head(wire) \in Units
      /\ Len(wire) \in Nat \ {0}
  BY TailFacts DEF TypeOK
<1>5. /\ buffer' \in Seq(Units) /\ Len(buffer') = b + 1 /\ b \in Nat
      /\ \A k \in 1 .. b : buffer'[k] = buffer[k]
      /\ buffer'[b + 1] = Head(wire)
  <2>1. buffer \in Seq(Units) /\ buffer' = Append(buffer, Head(wire))
    BY DEF TypeOK
  <2> QED
    BY <1>3, <1>4, <2>1, AppendFacts
<1>6. ReadMessage = r /\ ReadOffset = b + 1
  BY <1>2, <1>3 DEF ReadMessage, ReadOffset, BodyRead
<1>7. /\ b < size /\ size \in Nat /\ size = Size[sent[r]]
      /\ \A k \in 1 .. b : buffer[k] = ByteUnit(sent[r], k)
  BY <1>2, <1>3 DEF BufferInOrder, TypeOK
<1>8. wire[1] = ByteUnit(sent[r], b + 1)
  <2>1. 1 \in 1 .. Len(wire) /\ b + 1 # 0
    BY <1>4, <1>5
  <2>2. message[1] = r /\ offset[1] = b + 1
    BY <1>1, <1>6 DEF Places
  <2>3. wire[1] = UnitAt(message[1], offset[1])
    BY <1>1, <2>1 DEF Places
  <2> QED
    BY <2>1, <2>2, <2>3 DEF UnitAt
<1>9. TypeOK'
  <2>1. Len(buffer') <= size
    BY <1>5, <1>7
  <2> QED
    BY <1>4, <1>5, <2>1 DEF TypeOK, senderVars
<1>10. BufferInOrder'
  <2>1. ASSUME NEW k \in 1 .. b + 1
        PROVE  buffer'[k] = ByteUnit(sent[r], k)
    <3>1. CASE k = b + 1
      BY <1>4, <1>5, <1>8, <3>1
    <3>2. CASE k \in 1 .. b
      BY <1>5, <1>7, <3>2
    <3>3. k = b + 1 \/ k \in 1 .. b
      BY <1>7, <1>5
    <3> QED
      BY <3>1, <3>2, <3>3
  <2> QED
    BY <1>2, <1>5, <2>1 DEF BufferInOrder
<1>11. /\ OneWrite' /\ QueueInOrder' /\ WriteWithinFrame'
       /\ WriteMessage' = WriteMessage /\ WriteOffset' = WriteOffset
  BY ReceiverKeepsSender
<1>12. /\ ReadMessage' = NextMessage(ReadMessage, ReadOffset)
       /\ ReadOffset' = NextOffset(ReadMessage, ReadOffset)
  <2>1. BodyRead' <=> b + 1 = size
    BY <1>5 DEF BodyRead
  <2>2. b + 1 = size <=> ~(b + 1 < size)
    BY <1>5, <1>7
  <2>3. Len(received) \in Nat /\ r + 1 = Len(received) + 2
    BY <1>2, Lengths
  <2>4. /\ ReadMessage' = IF b + 1 < size THEN r ELSE r + 1
        /\ ReadOffset' = IF b + 1 < size THEN (b + 1) + 1 ELSE 0
    BY <1>2, <1>5, <2>1, <2>2, <2>3 DEF ReadMessage, ReadOffset
  <2> QED
    BY <1>6, <1>7, <2>4 DEF NextMessage, NextOffset
<1>13. WireInOrder'
  BY <1>1, <1>11, <1>12, UnitRead
<1> QED
  BY <1>9, <1>10, <1>11, <1>13

LEMMA NewMessageStep == IInv /\ NewMessage => IInv'
<1> SUFFICES ASSUME IInv, NewMessage PROVE IInv'
  OBVIOUS
<1> USE DEF IInv, NewMessage
<1>1. /\ received' \in Seq(Seq(Units)) /\ Len(received') = Len(received) + 1
      /\ Len(received) \in Nat
  BY AppendFacts DEF TypeOK
<1>2. TypeOK'
  BY <1>1 DEF TypeOK, senderVars
<1>3. BufferInOrder'
  BY DEF BufferInOrder
<1>4. /\ OneWrite' /\ QueueInOrder' /\ WriteWithinFrame'
      /\ WriteMessage' = WriteMessage /\ WriteOffset' = WriteOffset
  BY ReceiverKeepsSender
<1>5. ReadMessage' = ReadMessage /\ ReadOffset' = ReadOffset
  <2>1. (Len(received) + 1) + 1 = Len(received) + 2
    BY <1>1
  <2> QED
    BY <1>1, <2>1 DEF ReadMessage, ReadOffset, BodyRead
<1>6. WireInOrder'
  <2>1. PICK message, offset : Places(message, offset)
    BY DEF WireInOrder
  <2>2. Places(message, offset)'
    BY <1>4, <1>5, <2>1 DEF Places, UnitAt, NextMessage, NextOffset
  <2> QED
    BY <2>2 DEF WireInOrder
<1> QED
  BY <1>2, <1>3, <1>4, <1>6

LEMMA ReadFailsStep == IInv /\ ReadFails => IInv'
<1> SUFFICES ASSUME IInv, ReadFails PROVE IInv'
  OBVIOUS
<1> USE DEF IInv, ReadFails
<1>1. TypeOK'
  BY DEF TypeOK, senderVars
<1>2. BufferInOrder' /\ WireInOrder'
  BY DEF BufferInOrder, WireInOrder
<1> QED
  BY <1>1, <1>2, ReceiverKeepsSender

LEMMA NextStep == IInv /\ [Next]_vars => IInv'
<1> SUFFICES ASSUME IInv, [Next]_vars PROVE IInv'
  OBVIOUS
<1>1. CASE \E m \in Messages : Send(m)
  BY <1>1, SendStep
<1>2. CASE Sender
  BY <1>2, RunPostedStep, TransferStep, WrittenStep, WriteFailsStep DEF Sender
<1>3. CASE Break
  BY <1>3, BreakStep
<1>4. CASE Receiver
  BY <1>4, ReadHeaderStep, ReadBodyStep, NewMessageStep, ReadFailsStep
     DEF Receiver
<1>5. CASE UNCHANGED vars
  <2> USE <1>5 DEF IInv, vars, senderVars, receiverVars
  <2>1. TypeOK'
    BY DEF TypeOK
  <2>2. /\ OneWrite' /\ QueueInOrder' /\ WriteWithinFrame'
        /\ WriteMessage' = WriteMessage /\ WriteOffset' = WriteOffset
    BY ReceiverKeepsSender
  <2>3. BufferInOrder' /\ WireInOrder'
    BY <2>2, SenderKeepsReader, PlacesKept
  <2> QED
    BY <2>1, <2>2, <2>3
<1> QED
  BY <1>1, <1>2, <1>3, <1>4, <1>5 DEF Next
-----------------------------------------------------------------------------
\* The invariant behind the theorems below.
THEOREM InductiveInvariant == Spec => []IInv
<1> QED
  BY InitHolds, NextStep, PTL DEF Spec

\* Lengths, sizes and units keep to their ranges; the receiver never holds more
\* of a message than its header announced.
THEOREM TypeCorrect == Spec => []TypeOK
<1>1. IInv => TypeOK
  BY DEF IInv
<1> QED
  BY <1>1, InductiveInvariant, PTL

\* RunPosted and Written start a write only where none runs, so the one header
\* and the front of the queue are those of the write that runs.
THEOREM OnlyOneWrite == Spec => []OneWrite
<1>1. IInv => OneWrite
  BY DEF IInv
<1> QED
  BY <1>1, InductiveInvariant, PTL

LEMMA AppendedPrefix ==
  ASSUME NEW S, NEW s \in Seq(S), NEW e \in S
  PROVE  IsPrefix(s, Append(s, e))
<1>1. PICK t : t = Append(s, e)
  OBVIOUS
<1>2. PICK n : n = Len(s)
  OBVIOUS
<1>3. /\ t \in Seq(S) /\ Len(t) = n + 1 /\ n \in Nat
      /\ \A i \in 1 .. n : t[i] = s[i]
  BY <1>1, <1>2, AppendFacts
<1>4. \A i \in 1 .. n : s[i] \in S /\ t[i] \in S
  BY <1>2, <1>3, ElementOfSeq
<1>5. /\ SubSeq(t, 1, n) \in Seq(S) /\ Len(SubSeq(t, 1, n)) = n
      /\ \A i \in 1 .. n : SubSeq(t, 1, n)[i] = t[i]
  <2>1. /\ SubSeq(t, 1, n) \in Seq(S)
        /\ Len(SubSeq(t, 1, n)) = IF 1 <= n THEN n - 1 + 1 ELSE 0
        /\ \A i \in 1 .. n - 1 + 1 : SubSeq(t, 1, n)[i] = t[1 + i - 1]
    BY <1>3, <1>4, SubSeqProperties
  <2>2. (IF 1 <= n THEN n - 1 + 1 ELSE 0) = n
    BY <1>3
  <2>3. ASSUME NEW i \in 1 .. n PROVE SubSeq(t, 1, n)[i] = t[i]
    <3>1. i \in 1 .. n - 1 + 1 /\ 1 + i - 1 = i
      BY <1>3
    <3> QED
      BY <2>1, <3>1
  <2> QED
    BY <2>1, <2>2, <2>3
<1>6. SubSeq(t, 1, n) = s
  <2>1. PICK u : u = SubSeq(t, 1, n)
    OBVIOUS
  <2>2. u \in Seq(S) /\ Len(u) = Len(s) /\ \A i \in 1 .. Len(u) : u[i] = s[i]
    BY <1>2, <1>3, <1>5, <2>1
  <2>3. u = s
    BY ONLY <2>2, SeqEqual, s \in Seq(S)
  <2> QED
    BY <2>1, <2>3
<1>7. SubSeq(s, 1, n) = s
  BY <1>2, SubSeqFull
<1> QED
  BY <1>1, <1>2, <1>3, <1>6, <1>7 DEF IsPrefix

\* What a step of the sender does to the queue and the write.
LEMMA SenderMute ==
  ASSUME IInv, Sender
  PROVE  /\ ~Mute /\ Mute' =>
              \E i \in 1 .. Len(writes) : WriteFails(i) /\ Len(output) > 1
         /\ Mute => Mute' /\ IsPrefix(output, output')
<1>1. output \in Seq(Messages) /\ posted \in Seq(Messages)
  BY DEF IInv, TypeOK
<1>2. ASSUME RunPosted
      PROVE  /\ ~Mute => writes' # <<>>
             /\ Mute => Mute' /\ IsPrefix(output, output')
  <2>1. PICK o : o = Len(output)
    OBVIOUS
  <2>2. PICK m : m = Head(posted)
    OBVIOUS
  <2>3. m \in Messages /\ output' = Append(output, m)
    BY <1>1, <1>2, <2>2, HeadTailProperties DEF RunPosted
  <2>4. /\ o \in Nat /\ Len(output') = o + 1 /\ output' \in Seq(Messages)
        /\ output' # <<>>
    <3>1. output \in Seq(Messages) /\ m \in Messages
      BY <1>1, <2>3
    <3>2. /\ Append(output, m) \in Seq(Messages) /\ Append(output, m) # <<>>
          /\ Len(Append(output, m)) = Len(output) + 1 /\ Len(output) \in Nat
      BY ONLY <3>1, AppendFacts
    <3> QED
      BY ONLY <2>1, <2>3, <3>2
  <2>5. IF o + 1 > 1
        THEN writes' = writes
        ELSE writes' = Append(writes, [message |-> Head(output'), done |-> 0])
    BY <1>2, <2>4 DEF RunPosted, Write
  <2>6. output = <<>> <=> o = 0
    BY <1>1, <2>1, EmptySeq
  <2>7. ~Mute => writes' # <<>>
    <3>1. CASE o = 0
      <4>1. writes' = Append(writes, [message |-> Head(output'), done |-> 0])
        BY <2>5, <3>1
      <4>2. Head(output') \in Messages /\ 0 \in Nat
        BY <2>4, HeadTailProperties
      <4>3. writes \in Seq([message : Messages, done : Nat])
        BY DEF IInv, TypeOK
      <4> QED
        BY <4>1, <4>2, <4>3, AppendFacts
    <3>2. CASE o # 0
      <4>1. writes' = writes
        BY <2>4, <2>5, <3>2
      <4> QED
        BY <2>6, <3>2, <4>1 DEF Mute
    <3> QED
      BY <3>1, <3>2
  <2>8. ASSUME Mute PROVE Mute' /\ IsPrefix(output, output')
    <3>1. o + 1 > 1
      BY <2>4, <2>6, <2>8 DEF Mute
    <3>2. writes' = <<>>
      BY <2>5, <2>8, <3>1 DEF Mute
    <3> QED
      BY <1>1, <2>3, <2>4, <3>2, AppendedPrefix DEF Mute
  <2> QED
    BY <2>7, <2>8
<1>3. ASSUME NEW i \in 1 .. Len(writes)
      PROVE  /\ writes # <<>>
             /\ Transfer(i) => writes' # <<>>
             /\ Written(i) => ~Mute'
             /\ WriteFails(i) /\ Mute' => Len(output) > 1
  <2>1. /\ writes # <<>> /\ RemoveAt(writes, i) = <<>> /\ output # <<>>
    BY TheWrite DEF IInv
  <2>2. Transfer(i) => writes' # <<>>
    BY TransferFacts
  <2>3. ASSUME Written(i), Mute' PROVE FALSE
    <3>1. PICK w : w = [message |-> Head(output'), done |-> 0]
      OBVIOUS
    <3>2. writes' = Append(<<>>, w)
      BY <2>1, <2>3, <3>1 DEF Written, Mute
    <3>3. Len(writes') = 1
      BY <3>2
    <3> QED
      BY <2>3, <3>3 DEF Mute
  <2>4. ASSUME WriteFails(i), Mute' PROVE Len(output) > 1
    <3>1. output' = Tail(output) /\ output' # <<>>
      BY <2>4 DEF WriteFails, Mute
    <3>2. /\ Len(output') = Len(output) - 1 /\ Len(output) \in Nat \ {0}
          /\ output' \in Seq(Messages)
      BY <1>1, <2>1, <3>1, TailFacts
    <3>3. Len(output') # 0
      BY <3>1, <3>2, EmptySeq
    <3> QED
      BY <3>2, <3>3
  <2> QED
    BY <2>1, <2>2, <2>3, <2>4
<1>4. CASE RunPosted
  BY <1>2, <1>4 DEF Mute
<1>5. CASE \E i \in 1 .. Len(writes) :
             Transfer(i) \/ Written(i) \/ WriteFails(i)
  BY <1>3, <1>5 DEF Mute
<1> QED
  BY <1>4, <1>5 DEF Sender

LEMMA PrefixOfItself ==
  ASSUME NEW S, NEW s \in Seq(S)
  PROVE  IsPrefix(s, s)
BY LenProperties DEF IsPrefix

LEMMA MuteStep ==
  IInv /\ [Next]_vars =>
    [/\ ~Mute /\ Mute' =>
          \E i \in 1 .. Len(writes) : WriteFails(i) /\ Len(output) > 1
     /\ Mute => Mute' /\ IsPrefix(output, output')]_vars
<1> SUFFICES ASSUME IInv, Next
             PROVE  /\ ~Mute /\ Mute' =>
                         \E i \in 1 .. Len(writes) :
                           WriteFails(i) /\ Len(output) > 1
                    /\ Mute => Mute' /\ IsPrefix(output, output')
  OBVIOUS
<1>1. CASE Sender
  BY <1>1, SenderMute
<1>2. ASSUME output' = output, writes' = writes
      PROVE  (Mute' <=> Mute) /\ IsPrefix(output, output')
  BY <1>2, PrefixOfItself DEF Mute, IInv, TypeOK
<1>3. CASE (\E m \in Messages : Send(m)) \/ Break \/ Receiver
  <2>1. output' = output /\ writes' = writes
    BY <1>3 DEF Send, Break, Receiver, ReadHeader, ReadBody, NewMessage,
                ReadFails, senderVars
  <2> QED
    BY <1>2, <2>1
<1> QED
  BY <1>1, <1>3 DEF Next

\* While no write has failed with more behind it, whatever is queued has a write
\* that takes it along; after such a failure nothing is ever written again,
\* however often Send is called.
THEOREM MuteForGood == Spec => MuteOnlyAfterFailure
<1> QED
  BY InductiveInvariant, MuteStep, PTL DEF Spec, MuteOnlyAfterFailure

\* What has been given to the channel: the bodies of the messages sent.
SentBodies == [i \in 1 .. Len(sent) |-> Body(sent[i])]

\* Send appends to what the channel has been given.
LEMMA SendRefines ==
  ASSUME TypeOK, NEW m \in Messages, Send(m)
  PROVE  SentBodies' = Append(SentBodies, Body(m))
<1> DEFINE n == Len(sent)
           B == {Body(x) : x \in Messages}
<1>1. /\ Len(sent') = n + 1 /\ n \in Nat
      /\ \A j \in 1 .. n : sent'[j] = sent[j]
      /\ sent'[n + 1] = m
  BY AppendFacts DEF TypeOK, Send
<1>2. \A j \in 1 .. n : sent[j] \in Messages
  BY Lengths
<1>3. SentBodies = [i \in 1 .. n |-> Body(sent[i])]
  BY DEF SentBodies
<1> HIDE DEF n
<1>4. SentBodies \in Seq(B) /\ Len(SentBodies) = n
  BY <1>1, <1>2, <1>3
<1> HIDE DEF B
<1>5. Body(m) \in B
  BY DEF B
<1>6. /\ Append(SentBodies, Body(m)) \in Seq(B)
      /\ Len(Append(SentBodies, Body(m))) = n + 1
      /\ \A i \in 1 .. n : Append(SentBodies, Body(m))[i] = SentBodies[i]
      /\ Append(SentBodies, Body(m))[n + 1] = Body(m)
  BY <1>4, <1>5, AppendFacts
<1>7. SentBodies' = [i \in 1 .. n + 1 |-> Body(sent'[i])]
  BY <1>1 DEF SentBodies, Body
<1>8. SentBodies' \in Seq(B) /\ Len(SentBodies') = n + 1
  <2>1. \A i \in 1 .. n + 1 : Body(sent'[i]) \in B
    <3> SUFFICES ASSUME NEW i \in 1 .. n + 1 PROVE sent'[i] \in Messages
      BY DEF B
    <3>1. i \in 1 .. n \/ i = n + 1
      BY <1>1
    <3> QED
      BY <1>1, <1>2, <3>1
  <2> QED
    BY <1>1, <1>7, <2>1
<1>9. ASSUME NEW i \in 1 .. n + 1
      PROVE  SentBodies'[i] = Append(SentBodies, Body(m))[i]
  <2>1. i \in 1 .. n \/ i = n + 1
    BY <1>1
  <2>2. SentBodies'[i] = Body(sent'[i])
    BY <1>7
  <2>3. CASE i \in 1 .. n
    BY <1>1, <1>3, <1>6, <2>2, <2>3
  <2>4. CASE i = n + 1
    BY <1>1, <1>6, <2>2, <2>4
  <2> QED
    BY <2>1, <2>3, <2>4
<1> QED
  BY <1>6, <1>8, <1>9, SeqEqual

\* What NewMessage passes on is the next message of the channel, whole.
LEMMA NewMessageRefines ==
  ASSUME IInv, NewMessage
  PROVE  /\ Len(received) < Len(SentBodies)
         /\ received' = Append(received, SentBodies[Len(received) + 1])
<1> USE DEF IInv, NewMessage
<1>1. PICK r : r = Len(received) + 1
  OBVIOUS
<1>2. /\ Len(received) < Len(sent) /\ size = Size[sent[r]]
      /\ \A k \in 1 .. Len(buffer) : buffer[k] = ByteUnit(sent[r], k)
  BY <1>1 DEF BufferInOrder
<1>3. r \in 1 .. Len(sent) /\ Len(sent) \in Nat
  BY <1>1, <1>2, Lengths
<1>4. SentBodies[r] = Body(sent[r]) /\ Len(SentBodies) = Len(sent)
  BY <1>3 DEF SentBodies
<1>5. buffer = Body(sent[r])
  <2>1. buffer = [k \in 1 .. Len(buffer) |-> buffer[k]]
    BY DEF TypeOK
  <2> QED
    BY <1>2, <2>1 DEF Body
<1> QED
  BY <1>1, <1>2, <1>4, <1>5

\* The frames on the wire implement the channel: messages arrive whole, in the
\* order of Send, none twice, none skipped, and none after the close.
THEOREM ImplementsChannel == Spec => ImplementsFifoChannel
<1> USE DEF Channel!vars
<1>1. Init => Channel!Init
  <2> SUFFICES ASSUME Init PROVE Channel!Init
    OBVIOUS
  <2>1. [i \in 1 .. Len(sent) |-> Body(sent[i])] = <<>>
    BY DEF Init
  <2> QED
    BY <2>1 DEF Init, Channel!Init
<1>2. IInv /\ [Next]_vars => [Channel!Next]_(Channel!vars)
  <2> SUFFICES ASSUME IInv, [Next]_vars
               PROVE  Channel!Next \/ UNCHANGED Channel!vars
    OBVIOUS
  <2>1. ASSUME NEW m \in Messages, Send(m) PROVE Channel!Next
    <3>1. SentBodies' = Append(SentBodies, Body(m))
      BY <2>1, SendRefines DEF IInv
    <3>2. received' = received /\ reading' = reading
      BY <2>1 DEF Send, receiverVars
    <3>3. Channel!Send(Body(m))
      BY <3>1, <3>2 DEF Channel!Send, SentBodies
    <3> QED
      BY <3>3 DEF Channel!Next
  <2>2. CASE NewMessage
    <3>1. /\ Len(received) < Len(SentBodies)
          /\ received' = Append(received, SentBodies[Len(received) + 1])
      BY <2>2, NewMessageRefines
    <3>2. sent' = sent /\ reading = "body" /\ reading' = "header"
      BY <2>2 DEF NewMessage
    <3>3. Channel!Deliver
      BY <3>1, <3>2 DEF Channel!Deliver, SentBodies
    <3> QED
      BY <3>3 DEF Channel!Next
  <2>3. CASE ReadFails
    <3>1. Channel!Close
      BY <2>3 DEF ReadFails, Channel!Close
    <3> QED
      BY <3>1 DEF Channel!Next
  <2>4. CASE ReadHeader \/ ReadBody
    BY <2>4 DEF ReadHeader, ReadBody
  <2>5. CASE Sender
    BY <2>5 DEF Sender, RunPosted, Transfer, Written, WriteFails, receiverVars
  <2>6. CASE Break
    BY <2>6 DEF Break, receiverVars
  <2>7. CASE UNCHANGED vars
    BY <2>7 DEF vars, receiverVars
  <2> QED
    BY <2>1, <2>2, <2>3, <2>4, <2>5, <2>6, <2>7 DEF Next, Receiver
<1> QED
  BY <1>1, <1>2, InductiveInvariant, PTL
     DEF Spec, Channel!Spec, ImplementsFifoChannel
=============================================================================
