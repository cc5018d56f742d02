----------------------------- MODULE BuffStream -----------------------------
(***************************************************************************)
(* WiFiEspAtBuffStream: the transmit and the receive buffer of a            *)
(* connection.  Each is shown to be a Pipe: one between write() and the     *)
(* driver, one between the driver and read().                               *)
(*                                                                          *)
(* write(data, length) and read(data, size) call themselves for the rest;   *)
(* a step is one level of such a call, with the calls of the driver in it,  *)
(* and what happens to the connection happens between steps.  The driver is *)
(* the environment: a send is reported as done, in part or in whole, or     *)
(* fails; of bytes in a send that fails it is not known whether they went   *)
(* out, and the model does not count them as sent.                          *)
(***************************************************************************)
EXTENDS Integers, Sequences

CONSTANTS
  TxSize,       \* txBufferSize
  RxSize,       \* rxBufferSize
  Data,         \* what the sketch writes, sequences of bytes
  Sizes,        \* for how many bytes it reads
  MaxAccepted,  \* bound: bytes written over a connection
  MaxReceived   \* bound: bytes that arrive over a connection

ASSUME SizesAssumption == TxSize \in Nat \ {0} /\ RxSize \in Nat \ {0}
ASSUME DataAssumption == Data \subseteq Seq(Nat) /\ Sizes \subseteq Nat

VARIABLES
  w,          \* the stream, and what went in and out
  call,       \* the write or read that is not finished
  connected,  \* driver: the link is connected
  queue       \* driver: the data that can be received

vars == <<w, call, connected, queue>>
driver == <<connected, queue>>

NoCall == [op |-> "none", rest |-> <<>>, want |-> 0]
Shorter(m, n) == IF m < n THEN m ELSE n
First(s, n) == SubSeq(s, 1, n)
From(s, n) == SubSeq(s, n + 1, Len(s))

Init ==
  /\ w = [inUse |-> FALSE, linked |-> FALSE, tx |-> <<>>, rx |-> <<>>, writeError |-> FALSE,
          accepted |-> <<>>, sent |-> <<>>, received |-> <<>>, taken |-> <<>>, halfSent |-> FALSE]
  /\ call = NoCall
  /\ connected = FALSE /\ queue = <<>>

----------------------------------------------------------------------------
(* Parts of the calls; each gives the worlds that it may lead to.           *)

Free(v) == [v EXCEPT !.inUse = FALSE, !.linked = FALSE, !.tx = <<>>, !.rx = <<>>,
                     !.accepted = <<>>, !.sent = <<>>, !.received = <<>>, !.taken = <<>>]

\* A bug would be to free the stream whatever is left to read.
CheckLinkFrees(v, active) == IF ~v.linked \/ active THEN v ELSE Free(v)

\* checkLink() after a driver call; available() in it frees the stream if nothing is left to read.
CheckLink(v, active) ==
  IF ~v.linked \/ active THEN v
  ELSE IF v.rx = <<>> THEN Free(v) ELSE [v EXCEPT !.linked = FALSE]

\* What sendData() may report of so many bytes.
Reports(v, length) == IF v.linked /\ connected THEN 0 .. length ELSE {0}

Sent(v, bytes, n) == [v EXCEPT !.sent = @ \o First(bytes, n)]

\* A bug would be to keep what could not be sent for later.
FlushedKeeps(v) ==
  IF v.tx = <<>> THEN {v}
  ELSE {IF n = Len(v.tx) THEN [Sent(v, v.tx, n) EXCEPT !.tx = <<>>]
        ELSE CheckLink(Sent(v, v.tx, n), connected) : n \in Reports(v, Len(v.tx))}

Flushed(v) ==
  IF v.tx = <<>> THEN {v}
  ELSE {LET s == [Sent(v, v.tx, n) EXCEPT !.tx = <<>>]
        IN  IF n = Len(v.tx) THEN s ELSE CheckLink([s EXCEPT !.writeError = TRUE], connected)
        : n \in Reports(v, Len(v.tx))}

\* checkLinkId() accepts the link.
Valid == connected \/ queue # <<>>

(* available() if it is 0.  availData() may also say 0 of a queue that is    *)
(* not empty, when it could not ask the firmware.                           *)
NoneAvailable(v) ==
  IF v.rx # <<>> THEN {}
  ELSE IF ~v.linked THEN {Free(v)}
  ELSE IF ~Valid THEN {CheckLink(v, FALSE)}
  ELSE Flushed(v)

----------------------------------------------------------------------------
(* write *)

Counted(v, bytes) == [v EXCEPT !.accepted = @ \o bytes]

\* write(b): the byte is in the buffer, and sent with it if that is full.
WroteByte(b) ==
  LET v == [w EXCEPT !.tx = @ \o <<b>>]
  IN  IF ~w.linked THEN {[w EXCEPT !.writeError = TRUE]}
      ELSE IF Len(v.tx) < TxSize THEN {Counted(v, <<b>>)}
      ELSE {IF f.writeError THEN f ELSE Counted(f, <<b>>) : f \in Flushed(v)}

\* A large piece is sent from where it is.
SentDirectly(v, data) ==
  {LET s == Counted(Sent(v, data, n), First(data, n))
       c == CheckLink(s, connected)
   IN  IF n = Len(data) THEN s ELSE [c EXCEPT !.writeError = @ \/ ~c.linked]
   : n \in Reports(v, Len(data))}

\* A bug would be to send a large piece at once, whatever the buffer holds.
IsDirectAlways(v, data) == Len(data) > TxSize

IsDirect(v, data) == v.tx = <<>> /\ Len(data) > TxSize

Space(v) == TxSize - Len(v.tx)

\* As much as fits is copied; a full buffer is sent.
Copied(v, data) ==
  LET bytes == First(data, Shorter(Space(v), Len(data)))
      c == Counted([v EXCEPT !.tx = @ \o bytes], bytes)
  IN  IF Len(data) >= Space(v) THEN Flushed(c) ELSE {c}

Wrote(v, data) ==
  IF ~v.linked THEN {[v EXCEPT !.writeError = TRUE]}
  ELSE IF data = <<>> THEN {v}
  ELSE IF IsDirect(v, data) THEN SentDirectly(v, data)
  ELSE Copied(v, data)

\* What is left for the next level.
Left(v, data) ==
  IF ~v.linked \/ IsDirect(v, data) \/ Len(data) <= Space(v) THEN <<>> ELSE From(data, Space(v))

(* A file or a callback: sendData() reports what was sent, but of a file of  *)
(* several pieces nothing if a later one fails.                             *)
SentFile(v, data) ==
  {CheckLink(Counted(Sent(v, data, n), First(data, n)), connected) : n \in Reports(v, Len(data))}
  \cup {CheckLink([Sent(v, data, n) EXCEPT !.halfSent = TRUE], connected) : n \in Reports(v, Len(data) - 1) \ {0}}

----------------------------------------------------------------------------
(* read *)

Receives(n) == queue' = From(queue, n) /\ UNCHANGED connected

\* recvData() gives a part of the data, or none if it fails.
Handed(size) == 0 .. Shorter(size, Len(queue))

Filled(v, n) == [v EXCEPT !.rx = First(queue, n), !.received = @ \o First(queue, n)]
TookDirectly(v, n) == [v EXCEPT !.received = @ \o First(queue, n), !.taken = @ \o First(queue, n)]
Took(v, n) == [v EXCEPT !.rx = From(@, n), !.taken = @ \o First(v.rx, n)]

----------------------------------------------------------------------------
(* The calls of the sketch. *)

Idle == call = NoCall
Broken(v) == v.writeError \/ v.halfSent
\* What went in and out is not followed any more once something went wrong.
Followed(v) == IF Broken(v) THEN [v EXCEPT !.accepted = <<>>, !.sent = <<>>] ELSE v
Does(worlds) == \E v \in worlds : w' = Followed(v)
Room(n) == Len(w.accepted) + n <= MaxAccepted
Begin(op, rest, want) == Idle /\ call' = [op |-> op, rest |-> rest, want |-> want]

\* getBuffStream() takes a free stream for a new connection; the write error stays.
Attach ==
  /\ Idle /\ ~w.inUse
  /\ w' = [w EXCEPT !.inUse = TRUE, !.linked = TRUE]
  /\ connected' = TRUE /\ queue' = <<>> /\ UNCHANGED call

WriteByte(b) == Idle /\ w.inUse /\ Room(1) /\ Does(WroteByte(b)) /\ UNCHANGED <<call, driver>>

Write(data) ==
  /\ w.inUse /\ Room(Len(data)) /\ Begin("write", data, 0) /\ UNCHANGED <<w, driver>>

WriteLevel ==
  /\ call.op = "write" /\ Does(Wrote(w, call.rest))
  /\ call' = IF Left(w, call.rest) = <<>> THEN NoCall ELSE [call EXCEPT !.rest = Left(w, call.rest)]
  /\ UNCHANGED driver

\* write(file), write(callback): what is in the buffer goes first.
WriteFile(data) ==
  /\ w.inUse /\ Room(Len(data)) /\ Begin("file", data, 0) /\ Does(Flushed(w)) /\ UNCHANGED driver
FileLevel ==
  /\ call.op = "file" /\ call' = NoCall /\ Does(SentFile(w, call.rest)) /\ UNCHANGED driver

Flush == Idle /\ w.inUse /\ Does(Flushed(w)) /\ UNCHANGED <<call, driver>>

AvailableForWrite ==
  /\ Idle /\ w.inUse /\ ~w.linked
  /\ Does({[w EXCEPT !.writeError = TRUE]}) /\ UNCHANGED <<call, driver>>

Available == Idle /\ w.inUse /\ Does(NoneAvailable(w)) /\ UNCHANGED <<call, driver>>

Read(size) == w.inUse /\ Begin("read", <<>>, size) /\ UNCHANGED <<w, driver>>

\* A bug would be to fill the buffer although there is something in it.
CanFillAnyTime(v) == v.linked /\ queue # <<>>

CanFill(v) == v.linked /\ queue # <<>> /\ v.rx = <<>>

ReadLevel ==
  /\ call.op = "read"
  /\ \/ call.want = 0 /\ call' = NoCall /\ UNCHANGED <<w, driver>>
     \/ call.want > 0 /\ Does(NoneAvailable(w)) /\ call' = NoCall /\ UNCHANGED driver
     \/ /\ call.want > RxSize /\ CanFill(w) /\ call' = NoCall
        /\ \E n \in Handed(call.want) : w' = TookDirectly(w, n) /\ Receives(n)
     \/ /\ call.want \in 1 .. RxSize /\ CanFill(w) /\ UNCHANGED call
        /\ \E n \in Handed(RxSize) : w' = Filled(w, n) /\ Receives(n)
     \/ /\ call.want > 0 /\ w.rx # <<>> /\ UNCHANGED driver
        /\ LET n == Shorter(call.want, Len(w.rx))
           IN  /\ w' = Took(w, n)
               /\ call' = IF n = call.want THEN NoCall ELSE [call EXCEPT !.want = @ - n]

\* The first byte of the buffer, which is filled if it is empty, is given without taking it.
Peek ==
  /\ Idle /\ w.inUse /\ UNCHANGED call
  /\ \/ Does(NoneAvailable(w)) /\ UNCHANGED driver
     \/ CanFill(w) /\ \E n \in Handed(RxSize) : w' = Filled(w, n) /\ Receives(n)

Connected ==
  /\ Idle /\ w.inUse /\ w' = CheckLink(w, connected) /\ UNCHANGED <<call, driver>>

Close ==
  /\ Idle /\ w.inUse /\ w' = Free(w)
  /\ connected' = FALSE /\ queue' = <<>> /\ UNCHANGED call

Sketch ==
  \/ Attach \/ Flush \/ AvailableForWrite \/ Available \/ Peek \/ Connected \/ Close
  \/ \E data \in Data : Write(data) \/ WriteFile(data) \/ (data # <<>> /\ WriteByte(Head(data)))
  \/ \E size \in Sizes : Read(size)
  \/ WriteLevel \/ FileLevel \/ ReadLevel

\* The peer sends and closes; the driver may lose data and forget those of a closed link.
Environment ==
  /\ UNCHANGED <<w, call>>
  /\ \/ /\ connected /\ Len(w.received) + Len(queue) < MaxReceived
        /\ queue' = Append(queue, Len(w.received) + Len(queue)) /\ UNCHANGED connected
     \/ connected /\ connected' = FALSE /\ UNCHANGED queue
     \/ queue # <<>> /\ queue' = Tail(queue) /\ UNCHANGED connected

Next == Sketch \/ Environment

Spec == Init /\ [][Next]_vars

----------------------------------------------------------------------------
(* Properties. *)

(* The transmit buffer always has room for the next byte, which write(b)    *)
(* puts in before it looks whether the buffer is full; a stream that was    *)
(* freed in the middle of a call has nothing in its buffers.                *)
TypeOK ==
  /\ w.inUse \in BOOLEAN /\ w.linked \in BOOLEAN /\ w.writeError \in BOOLEAN /\ w.halfSent \in BOOLEAN
  /\ w.linked => w.inUse
  /\ Len(w.tx) < TxSize
  /\ Len(w.rx) <= RxSize
  /\ ~w.inUse => w.tx = <<>> /\ w.rx = <<>>
  /\ call.op \in {"none", "write", "file", "read"}

Transmit == INSTANCE Pipe WITH
  open <- w.inUse, broken <- Broken(w), given <- w.accepted, held <- w.tx, passed <- w.sent

Receive == INSTANCE Pipe WITH
  open <- w.inUse, broken <- FALSE, given <- w.received, held <- w.rx, passed <- w.taken

(* What write() counts as written is sent once and in order, or still in    *)
(* the buffer, whichever way it takes, as long as no send of buffered data  *)
(* failed (writeError) and no file was sent in part.                        *)
TransmitIsPipe == Transmit!Spec

(* What the driver hands over is read once and in order, whether it goes    *)
(* through the buffer or not.                                               *)
ReceiveIsPipe == Receive!Spec

(* A stream that loses its link keeps what is left to read; only close()    *)
(* drops it.                                                                *)
NothingUnreadDropped == [][w.rx # <<>> /\ ~w'.inUse => Close]_vars
=============================================================================
