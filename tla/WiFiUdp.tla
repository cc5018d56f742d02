------------------------------ MODULE WiFiUdp ------------------------------
(***************************************************************************)
(* WiFiUDP objects over the pool of BuffStreams, which they share with the  *)
(* clients.  The pool and the pointers are those of WiFiClients.tla; here   *)
(* the streams differ in the sizes of their buffers.                        *)
(*                                                                          *)
(* A call is a row of steps, each with at most one call of the driver.      *)
(* AT1 firmware sends datagrams unasked, and readRX hands them to           *)
(* readRxData wherever a call of the driver reads; that is an action of its *)
(* own, possible before every step that calls the driver.  AT2 firmware     *)
(* keeps them until they are asked for.                                     *)
(***************************************************************************)
EXTENDS Integers, Sequences, FiniteSets

CONSTANTS
  Udps,       \* the WiFiUDP variables of the sketch
  Objects,    \* addresses of BuffStream objects, naturals without 0
  LINKS,      \* WIFIESPAT_LINKS_COUNT: links of the firmware and size of the pool
  SERIALS,    \* values of a stream's serialId; bound: nothing is started that may exhaust them
  MaxConn,    \* bound: connections over the whole behaviour
  MaxPackets  \* bound: datagrams over the whole behaviour

ASSUME UdpsAssumption == IsFiniteSet(Udps) /\ Udps # {} /\ Objects \subseteq Nat \ {0} /\ IsFiniteSet(Objects)
ASSUME BoundsAssumption == {LINKS, SERIALS, MaxConn, MaxPackets} \subseteq Nat /\ SERIALS > 0
ASSUME ObjectsAssumption == Cardinality(Objects) >= LINKS

VARIABLES
  heap,       \* the BuffStream at an address
  pool,       \* WiFiEspAtBuffManagerClass::pool
  serialId,   \* WiFiEspAtBuffManagerClass::serialId
  sizes,      \* for whom the buffers of the object at an address have the right size
  packet,     \* the datagram in the receive buffer at an address, and if reading it has begun
  udp,        \* the fields of the WiFiUDP objects
  clients,    \* the pointers in the sketch's clients
  call,       \* the WiFiUDP whose call is running, and the steps left of it
  at1,        \* AT1 build
  live,       \* driver: the connections
  arrived,    \* datagrams with their connection: in the serial line (AT1), in the firmware (AT2)
  lastConn, lastPacket, \* ghosts: how many there were
  mixed       \* ghost: begin() was called for a WiFiUDP that was composing on a link of its own

streams == <<heap, pool, serialId, sizes, packet>>
outside == <<arrived, lastConn, lastPacket>>
vars == <<streams, udp, clients, call, at1, live, outside, mixed>>

C == INSTANCE WiFiClients WITH
  Clients <- Udps, stream <- [u \in Udps |-> udp[u].txStream], incoming <- {}, data <- {}, of <- 0

nullptr == 0
NO_LINK == 0
Slots == 0 .. LINKS - 1
Kinds == {"client", "txStream", "rxStream"}
NoPacket == [id |-> 0, conn |-> NO_LINK, begun |-> FALSE]
World == [heap |-> heap, live |-> live]

Init ==
  /\ heap = [o \in Objects |-> C!Empty]
  /\ pool = [i \in Slots |-> nullptr]
  /\ serialId = 0
  /\ sizes = [o \in Objects |-> "none"]
  /\ packet = [o \in Objects |-> NoPacket]
  /\ udp = [u \in Udps |-> [linkId |-> NO_LINK, listening |-> FALSE,
                            txStream |-> C!Fresh, rxStream |-> C!Fresh]]
  /\ clients = {} /\ live = {} /\ arrived = <<>>
  /\ call = [udp |-> CHOOSE u \in Udps : TRUE, steps |-> <<>>]
  /\ lastConn = 0 /\ lastPacket = 0 /\ mixed = FALSE
  /\ at1 \in BOOLEAN

----------------------------------------------------------------------------
(* The pool. *)

\* A bug would be not to look at the sizes.
CandidatesAnySize(w, kind) == {i \in Slots : i \in C!Filled => ~C!InUse(w, pool[i])}

\* The free streams of the right sizes, and the empty slots.
Candidates(w, kind) ==
  {i \in Slots : i \in C!Filled => ~C!InUse(w, pool[i]) /\ sizes[pool[i]] = kind}

\* getBuffStream(): the world, the pool and the pointer that is made of the result.
Request(w, conn, kind) ==
  IF Candidates(w, kind) = {}
    THEN [world |-> w, pool |-> pool, serialId |-> serialId, sizes |-> sizes, ptr |-> C!Fresh]
    ELSE
      LET i == CHOOSE i \in Candidates(w, kind) : \A j \in Candidates(w, kind) : i <= j
          o == IF i \in C!Filled THEN pool[i] ELSE C!NewObject
          s == C!NextSerialId(w)
          new == [serialId |-> s, refCount |-> 1, linkId |-> conn, rx |-> FALSE]
      IN  [world |-> [w EXCEPT !.heap[o] = new],
           pool |-> [pool EXCEPT ![i] = o], serialId |-> s,
           sizes |-> IF i \in C!Filled THEN sizes ELSE [sizes EXCEPT ![o] = kind],
           ptr |-> [ptr |-> o, serialId |-> s]]

Pooled(r) ==
  /\ pool' = r.pool /\ serialId' = r.serialId /\ sizes' = r.sizes
  /\ r.ptr # C!Fresh => serialId < SERIALS - 1  \* bound: it does not wrap around
SamePool == UNCHANGED <<pool, serialId, sizes>>
Worked(w) == heap' = w.heap /\ live' = w.live

----------------------------------------------------------------------------
(* Steps. *)

Tx(u) == udp[u].txStream
Rx(u) == udp[u].rxStream
Composing(u) == C!Valid(World, Tx(u))
Holding(u) == C!Valid(World, Rx(u))
Unread(u) == Holding(u) /\ heap[Rx(u).ptr].rx

Idle == call.steps = <<>>
Starts(u, steps) == call' = [udp |-> u, steps |-> steps]
At(step) == ~Idle /\ Head(call.steps) = step
Proceeds == call' = [call EXCEPT !.steps = Tail(@)]
Returns == call' = [call EXCEPT !.steps = <<>>]
It == call.udp

Connects(w) == Cardinality(w.live) < LINKS /\ lastConn < MaxConn /\ lastConn' = lastConn + 1

\* WiFiUDP::flush()
Flush ==
  /\ At("flush") /\ Proceeds
  /\ \E w \in C!Flushed(World, Tx(It).ptr) : Worked(w)
  /\ SamePool /\ UNCHANGED <<packet, udp, clients, at1, outside, mixed>>

\* A bug would be to close the link whose it may be.
ReleaseCloses ==
  /\ At("release") /\ Proceeds
  /\ LET r == C!TakeOver(C!Close(World, Tx(It).ptr), Tx(It), C!Fresh)
     IN  Worked(r.world) /\ udp' = [udp EXCEPT ![It].txStream = r.ptr]
  /\ SamePool /\ UNCHANGED <<packet, clients, at1, outside, mixed>>

\* A bug would be to close no link.
ReleaseFrees ==
  /\ At("release") /\ Proceeds
  /\ LET r == C!TakeOver(C!Free(World, Tx(It).ptr), Tx(It), C!Fresh)
     IN  Worked(r.world) /\ udp' = [udp EXCEPT ![It].txStream = r.ptr]
  /\ SamePool /\ UNCHANGED <<packet, clients, at1, outside, mixed>>

\* A listener's link stays open.
Release ==
  /\ At("release") /\ Proceeds
  /\ LET o == Tx(It).ptr
         w == IF udp[It].listening THEN C!Free(World, o) ELSE C!Close(World, o)
         r == C!TakeOver(w, Tx(It), C!Fresh)
     IN  Worked(r.world) /\ udp' = [udp EXCEPT ![It].txStream = r.ptr]
  /\ SamePool /\ UNCHANGED <<packet, clients, at1, outside, mixed>>

\* The stream for the message; without one a link made for it is closed again.
Compose(w, conn) ==
  LET q == Request(w, conn, "txStream")
      r == C!TakeOver(q.world, Tx(It), q.ptr)
      v == IF C!Valid(r.world, r.ptr) \/ udp[It].listening THEN r.world
           ELSE [r.world EXCEPT !.live = @ \ {conn}]
  IN  Pooled(q) /\ Worked(v) /\ udp' = [udp EXCEPT ![It].txStream = r.ptr]

Open ==
  /\ At("open") /\ Returns
  /\ \/ udp[It].listening /\ Compose(World, udp[It].linkId) /\ UNCHANGED lastConn
     \/ /\ ~udp[It].listening /\ Connects(World)
        /\ Compose([World EXCEPT !.live = @ \cup {lastConn + 1}], lastConn + 1)
     \/ ~udp[It].listening /\ SamePool /\ UNCHANGED <<heap, live, udp, lastConn>>
  /\ UNCHANGED <<packet, clients, at1, arrived, lastPacket, mixed>>

\* The listener's link, of begin()
Listen ==
  /\ At("listen") /\ Returns
  /\ \/ /\ Connects(World) /\ live' = live \cup {lastConn + 1}
        /\ udp' = [udp EXCEPT ![It].linkId = lastConn + 1, ![It].listening = TRUE]
     \/ udp' = [udp EXCEPT ![It].linkId = NO_LINK, ![It].listening = FALSE] /\ UNCHANGED <<live, lastConn>>
  /\ mixed' = (mixed \/ Composing(It))
  /\ UNCHANGED <<streams, clients, at1, arrived, lastPacket>>

\* A bug would be to forget a flag.
UnlistenForgets ==
  /\ At("unlisten") /\ Proceeds
  /\ live' = live \ {udp[It].linkId}
  /\ udp' = [udp EXCEPT ![It].linkId = NO_LINK]
  /\ UNCHANGED <<streams, clients, at1, outside, mixed>>

Unlisten ==
  /\ At("unlisten") /\ Proceeds
  /\ live' = live \ {udp[It].linkId}
  /\ udp' = [udp EXCEPT ![It].linkId = NO_LINK, ![It].listening = FALSE]
  /\ UNCHANGED <<streams, clients, at1, outside, mixed>>

----------------------------------------------------------------------------
(* Receiving. *)

\* The pointer is cleared after its stream was freed.
Dropped(w, p) == C!TakeOver(C!Free(w, p.ptr), p, C!Fresh)

\* WiFiUDP::available(): a stream with nothing left in it is freed.
Checked(w, p) == IF C!Valid(w, p) /\ ~w.heap[p.ptr].rx THEN C!Free(w, p.ptr) ELSE w

\* free() empties the buffer.
Emptied == packet' = [o \in Objects |-> IF heap'[o].serialId = 0 THEN NoPacket ELSE packet[o]]

Remove(n) == arrived' = SubSeq(arrived, 1, n - 1) \o SubSeq(arrived, n + 1, Len(arrived))

Room(w) == Candidates(w, "rxStream") # {}

\* A stream for what is received; its buffer then has unread bytes.
Fill(u, w, d) ==
  LET q == Request(w, NO_LINK, "rxStream")
      r == C!TakeOver(q.world, Rx(u), q.ptr)
      p == r.ptr
  IN  /\ Room(w) /\ Pooled(q)
      /\ heap' = [r.world.heap EXCEPT ![p.ptr].rx = TRUE]
      /\ packet' = [packet EXCEPT ![p.ptr] = d]
      /\ udp' = [udp EXCEPT ![u].rxStream = p]

Store(u, w, n) == Fill(u, w, [id |-> arrived[n].id, conn |-> arrived[n].conn, begun |-> FALSE])

(* AT+CIPRECVDATA was refused, but the length that was asked for is         *)
(* returned, and rxBufferLength set to it: the bytes that the buffer had,   *)
(* of an earlier datagram of any listener, are given to the sketch as one.  *)
Stale(u, w) == Fill(u, w, NoPacket)

\* The stream is freed again when the datagram could not be read.
Waste(u, w) ==
  LET q == Request(w, NO_LINK, "rxStream")
      r == C!TakeOver(q.world, Rx(u), q.ptr)
      d == Dropped(r.world, r.ptr)
  IN  /\ Room(w) /\ Pooled(q)
      /\ heap' = d.world.heap /\ Emptied
      /\ udp' = [udp EXCEPT ![u].rxStream = d.ptr]

\* The driver reads the serial line: in a step, or in any call of the sketch between two of u's.
Reading ==
  \/ Idle \/ At("listen") \/ At("unlisten") \/ At("maintain")
  \/ At("flush") /\ C!Linked(World, Tx(It).ptr)
  \/ (At("release") \/ At("open")) /\ ~udp[It].listening

\* A bug would be to replace a datagram that nobody has begun to read.
BusyReading(u) == Unread(u) /\ packet[Rx(u).ptr].begun

\* BUSY, to avoid overwrite of the previous packet
Busy(u) == Unread(u)

(* AT1: readRxData() of the listener, with the next datagram.  Of one that  *)
(* is refused (BUSY, LARGE) the text remains in the line, and is ignored.   *)
ReadRxData(u) ==
  /\ at1 /\ Reading /\ arrived # <<>> /\ arrived[1].conn = udp[u].linkId
  /\ Remove(1)
  /\ LET w == Checked(World, Rx(u))
     IN  \/ Busy(u) /\ UNCHANGED <<streams, udp>>
         \/ ~Busy(u) /\ heap' = w.heap /\ Emptied /\ SamePool /\ UNCHANGED udp
         \/ ~Busy(u) /\ (Store(u, w, 1) \/ Waste(u, w))
  /\ UNCHANGED <<clients, call, at1, live, lastConn, lastPacket, mixed>>

\* Nobody listens on the link any more.
Ignored ==
  /\ at1 /\ Reading /\ arrived # <<>> /\ \A u \in Udps : arrived[1].conn # udp[u].linkId
  /\ Remove(1)
  /\ UNCHANGED <<streams, udp, live, clients, call, at1, lastConn, lastPacket, mixed>>

\* The first of the datagrams that the firmware keeps for u
IsNext(u, n) ==
  arrived[n].conn = udp[u].linkId /\ \A m \in 1 .. n - 1 : arrived[m].conn # arrived[n].conn

(* AT2: availData(), which may find nothing, and recvDataWithInfo().  That  *)
(* returns 0 when AT+CIPDINFO fails or the bytes stop coming (Waste), but   *)
(* not when AT+CIPRECVDATA is refused.                                      *)
Receive ==
  /\ At("receive") /\ Returns
  /\ \/ UNCHANGED <<streams, udp, arrived>>
     \/ \E n \in DOMAIN arrived :
          /\ IsNext(It, n)
          /\ \/ Store(It, World, n) /\ Remove(n)
             \/ (Waste(It, World) \/ Stale(It, World)) /\ (Remove(n) \/ UNCHANGED arrived)
  /\ UNCHANGED <<clients, at1, live, lastConn, lastPacket, mixed>>

\* AT1: maintain(), in which ReadRxData may happen; then available()
Maintain ==
  /\ At("maintain") /\ Returns
  /\ heap' = Checked(World, Rx(It)).heap /\ Emptied
  /\ SamePool /\ UNCHANGED <<udp, live, clients, at1, outside, mixed>>

----------------------------------------------------------------------------
(* The calls of the sketch. *)

Ending(u) == IF Composing(u) THEN <<"flush", "release">> ELSE <<>>
Stopping(u) == Ending(u) \o (IF udp[u].linkId = NO_LINK THEN <<>> ELSE <<"unlisten">>)

Keeps == UNCHANGED <<heap, packet, udp>>

\* stop() and parsePacket() give up what was received.
DropsRx(u) ==
  LET r == Dropped(World, Rx(u))
  IN  IF Holding(u) THEN heap' = r.world.heap /\ Emptied /\ udp' = [udp EXCEPT ![u].rxStream = r.ptr]
      ELSE Keeps

Quietly == SamePool /\ UNCHANGED <<live, clients, at1, outside, mixed>>

\* What an unfinished message holds is sent first.
BeginPacket(u) == Idle /\ Starts(u, Ending(u) \o <<"open">>) /\ Keeps /\ Quietly
EndPacket(u) == Idle /\ Composing(u) /\ Starts(u, Ending(u)) /\ Keeps /\ Quietly
\* write(): BuffStream.tla has the details; a full buffer is flushed.
Write(u) == Idle /\ Composing(u) /\ Starts(u, <<"flush">>) /\ Keeps /\ Quietly

\* A bug would be to forget the datagram that was received.
StopKeepsRx(u) == Idle /\ Starts(u, Stopping(u)) /\ Keeps /\ Quietly

Stop(u) == Idle /\ Starts(u, Stopping(u)) /\ DropsRx(u) /\ Quietly

Begin(u) ==
  /\ Idle /\ Quietly
  /\ IF udp[u].linkId = NO_LINK THEN Starts(u, <<"listen">>) /\ Keeps
     ELSE Starts(u, Stopping(u) \o <<"listen">>) /\ DropsRx(u)

(* AT1 gives the same packet again until reading it has begun, AT2 the next. *)
ParsePacket(u) ==
  /\ Idle /\ udp[u].linkId # NO_LINK /\ Quietly
  /\ IF at1 THEN /\ Starts(u, <<"maintain">>)
                 /\ IF Holding(u) /\ packet[Rx(u).ptr].begun THEN DropsRx(u) ELSE Keeps
     ELSE Starts(u, <<"receive">>) /\ DropsRx(u)

\* AT2: parsePacket() into an array of the sketch, which is not modelled
ParsePacketInto(u) ==
  /\ Idle /\ ~at1
  /\ \E n \in DOMAIN arrived : IsNext(u, n) /\ Remove(n)
  /\ UNCHANGED <<streams, udp, clients, call, at1, live, lastConn, lastPacket, mixed>>

\* read() of some or all, and available()
Read(u) ==
  /\ Idle /\ Unread(u)
  /\ \E rest \in BOOLEAN : heap' = [heap EXCEPT ![Rx(u).ptr].rx = rest]
  /\ packet' = [packet EXCEPT ![Rx(u).ptr].begun = TRUE]
  /\ SamePool /\ UNCHANGED <<udp, clients, call, at1, live, outside, mixed>>

Available(u) ==
  /\ Idle /\ heap' = Checked(World, Rx(u)).heap /\ Emptied
  /\ SamePool /\ UNCHANGED <<udp, clients, call, at1, live, outside, mixed>>

\* A client takes a stream and gives it back; WiFiClients.tla has the details.
ConnectClient ==
  /\ Idle /\ Connects(World)
  /\ LET q == Request([World EXCEPT !.live = @ \cup {lastConn + 1}], lastConn + 1, "client")
     IN  /\ Pooled(q)
         /\ IF q.ptr = C!Fresh THEN UNCHANGED <<heap, live, clients>>
            ELSE Worked(q.world) /\ clients' = clients \cup {q.ptr}
  /\ UNCHANGED <<packet, udp, call, at1, arrived, lastPacket, mixed>>

StopClient(p) ==
  /\ Idle /\ clients' = clients \ {p} /\ Worked(C!DecreaseRefCount(World, p))
  /\ SamePool /\ UNCHANGED <<packet, udp, call, at1, outside, mixed>>

Sketch ==
  \/ \E u \in Udps : \/ BeginPacket(u) \/ EndPacket(u) \/ Write(u) \/ Stop(u) \/ Begin(u)
                     \/ ParsePacket(u) \/ ParsePacketInto(u) \/ Read(u) \/ Available(u)
  \/ ConnectClient \/ \E p \in clients : StopClient(p)

Steps == Flush \/ Release \/ Open \/ Listen \/ Unlisten \/ Maintain \/ Receive

\* The network: a datagram for a listener, a link that the firmware gives up.
Arrives(u) ==
  /\ udp[u].linkId \in live /\ lastPacket < MaxPackets /\ lastPacket' = lastPacket + 1
  /\ arrived' = Append(arrived, [id |-> lastPacket + 1, conn |-> udp[u].linkId])
  /\ UNCHANGED <<streams, udp, clients, call, at1, live, lastConn, mixed>>

LinkLost(n) ==
  /\ live' = live \ {n}
  /\ UNCHANGED <<streams, udp, clients, call, at1, outside, mixed>>

Network == (\E u \in Udps : Arrives(u)) \/ \E n \in live : LinkLost(n)

Next == Sketch \/ Steps \/ (\E u \in Udps : ReadRxData(u)) \/ Ignored \/ Network

Spec == Init /\ [][Next]_vars

----------------------------------------------------------------------------
(* Properties. *)

TypeOK ==
  /\ heap \in [Objects -> C!Streams]
  /\ pool \in [Slots -> Objects \cup {nullptr}] /\ serialId \in 0 .. SERIALS - 1
  /\ sizes \in [Objects -> Kinds \cup {"none"}]
  /\ \A u \in Udps : {Tx(u), Rx(u)} \subseteq C!Ptrs /\ udp[u].linkId \in 0 .. MaxConn
  /\ \A u \in Udps : udp[u].listening = (udp[u].linkId # NO_LINK)
  /\ Cardinality(live) <= LINKS

Holders(o) ==
  LET Holds(p) == p.ptr = o /\ C!Valid(World, p)
  IN  {<<u, "txStream">> : u \in {v \in Udps : Holds(Tx(v))}}
      \cup {<<u, "rxStream">> : u \in {v \in Udps : Holds(Rx(v))}}
      \cup {<<p, "client">> : p \in {p \in clients : Holds(p)}}

(* Every stream that is in use has one holder, which uses it as what its    *)
(* buffers were made for; whatever was stopped, refused, lost or interrupted *)
(* by the callback, no stream is lost to the pool or used by two.           *)
StreamsAccounted ==
  \A o \in Objects : C!InUse(World, o) =>
    \E h \in Holders(o) : Holders(o) = {h} /\ h[2] = sizes[o]

(* Every link that is open for UDP is a listener's, or has a message being  *)
(* composed on it by its own WiFiUDP; none is forgotten.  Exception:        *)
(* begin() between beginPacket() and endPacket(), after which endPacket()   *)
(* takes the link of the message for the listener's and leaves it open.     *)
LinksAccounted ==
  ~mixed => \A n \in live :
    \/ \E u \in Udps : udp[u].linkId = n \/ (Composing(u) /\ heap[Tx(u).ptr].linkId = n)
    \/ \E p \in clients : C!Valid(World, p) /\ heap[p.ptr].linkId = n

(* No message that is sent and no client that stops ends a listener; only   *)
(* stop(), also the one in begin(), and the network do.                     *)
ListenerStays ==
  [][\A u \in Udps : udp[u].linkId \in live /\ udp[u].linkId \notin live' =>
       LinkLost(udp[u].linkId) \/ (Unlisten /\ It = u) \/ (Flush /\ It = u)]_vars

(* A datagram that was received is not replaced before it was read: by the  *)
(* callback, in whatever call, never; by AT1's parsePacket() only when      *)
(* reading it has begun.                                                    *)
NothingOverwritten ==
  [][\A u \in Udps : Unread(u) =>
       \/ Unread(u)' /\ packet'[Rx(u)'.ptr].id = packet[Rx(u).ptr].id
       \/ Read(u) \/ Stop(u) \/ Begin(u)
       \/ ParsePacket(u) /\ (~at1 \/ packet[Rx(u).ptr].begun)]_vars

(* AT2: a datagram that a WiFiUDP gives to the sketch came to the listener  *)
(* it has now, although begin(), stop() and clients use its streams and     *)
(* links again.  Not of any link are bytes that are no datagram, those that *)
(* a refused AT+CIPRECVDATA leaves (Stale), and nothing else.  Not so in    *)
(* AT1: stop() gives up the receive stream first, and the callback may make *)
(* a new one while the rest of stop() runs.                                 *)
OwnPackets ==
  ~at1 => \A u \in Udps : Unread(u) => packet[Rx(u).ptr].conn \in {udp[u].linkId, NoPacket.conn}
=============================================================================
