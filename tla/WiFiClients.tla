----------------------------- MODULE WiFiClients -----------------------------
(***************************************************************************)
(* The client layer: WiFiClient objects, the reference counted pointers      *)
(* they are made of (WiFiEspAtSharedBuffStreamPtr), the BuffStreams these    *)
(* point to, and the pool of BuffStreams (WiFiEspAtBuffManager).            *)
(*                                                                          *)
(* A BuffStream object is never deleted while the pool holds it: it is freed *)
(* by clearing its serialId and reused for the next connection.  A pointer   *)
(* is valid as long as its own copy of the serialId agrees with the          *)
(* object's; copies that were left behind are found out that way.           *)
(*                                                                          *)
(* The driver is the environment here: live holds the connections for which *)
(* EspAtDrv.connected(linkId) is true.  A connection number stands for the  *)
(* linkId with its serial bits (EspAtDrv.tla has those in detail).  A peer   *)
(* may also close during an operation, between two calls of the driver.     *)
(***************************************************************************)
EXTENDS Integers, FiniteSets

CONSTANTS
  Clients,   \* the WiFiClient variables of the sketch
  Objects,   \* addresses of BuffStream objects, a set of naturals without 0
  LINKS,     \* WIFIESPAT_LINKS_COUNT: links of the firmware and size of the pool
  SERIALS,   \* values of serialId: 256 in the code (uint8_t)
  MaxConn    \* bound: connections over the whole behaviour

ASSUME ClientsAssumption == IsFiniteSet(Clients)
ASSUME ObjectsAssumption == Objects \subseteq Nat \ {0} /\ IsFiniteSet(Objects)
ASSUME LinksAssumption == LINKS \in Nat \ {0} /\ Cardinality(Objects) >= LINKS
ASSUME SerialsAssumption == SERIALS \in Nat /\ SERIALS > LINKS
ASSUME ConnAssumption == MaxConn \in Nat

VARIABLES
  heap,      \* heap[o]: the BuffStream object at o, empty if there is none
  pool,      \* WiFiEspAtBuffManagerClass::pool, nullptr is 0
  serialId,  \* WiFiEspAtBuffManagerClass::serialId
  stream,    \* stream[c]: the pointer in client c
  live,      \* driver: the connected connections
  incoming,  \* driver: those that wait for accept()
  data,      \* driver: those with unread data
  lastConn,  \* ghost: number of the latest connection
  of         \* ghost: of[c] is the connection client c was given, 0 if none

vars == <<heap, pool, serialId, stream, live, incoming, data, lastConn, of>>

nullptr == 0
NO_LINK == 0
Conns == 1 .. MaxConn
Slots == 0 .. LINKS - 1

(* rx: is there data in the receive buffer?  The transmit buffer is left out: *)
(* whatever flushes it may find it empty or not.                            *)
Streams == [serialId : 0 .. SERIALS - 1, refCount : Nat, linkId : Conns \cup {NO_LINK}, rx : BOOLEAN]
Empty == [serialId |-> 0, refCount |-> 0, linkId |-> NO_LINK, rx |-> FALSE]

(* The objects that exist. *)
Allocated == {pool[i] : i \in Slots} \ {nullptr}

Ptrs == [ptr : Objects \cup {nullptr}, serialId : 0 .. SERIALS - 1]
Fresh == [ptr |-> nullptr, serialId |-> 0]

TypeOK ==
  /\ heap \in [Objects -> Streams]
  /\ pool \in [Slots -> Objects \cup {nullptr}]
  /\ serialId \in 0 .. SERIALS - 1
  /\ stream \in [Clients -> Ptrs]
  /\ live \subseteq Conns /\ incoming \subseteq live /\ data \subseteq live
  /\ lastConn \in 0 .. MaxConn
  /\ of \in [Clients -> Conns \cup {NO_LINK}]
  /\ \A c \in Clients : stream[c].ptr \in Allocated \cup {nullptr}

Init ==
  /\ heap = [o \in Objects |-> Empty]
  /\ pool = [i \in Slots |-> nullptr]
  /\ serialId = 0
  /\ stream = [c \in Clients |-> Fresh]
  /\ live = {} /\ incoming = {} /\ data = {}
  /\ lastConn = 0
  /\ of = [c \in Clients |-> NO_LINK]

----------------------------------------------------------------------------
(* An operation of the sketch makes several calls in a row.  A world is what *)
(* they work on: the objects and the connections of the driver.             *)

World == [heap |-> heap, live |-> live]

InUse(w, o) == w.heap[o].serialId # 0

(* WiFiEspAtBuffStream::free *)
Free(w, o) == IF InUse(w, o) THEN [w EXCEPT !.heap[o] = Empty] ELSE w

(* Wrong: the link stays open. *)
CloseFreesOnly(w, o) == Free(w, o)

(* WiFiEspAtBuffStream::close; EspAtDrv.close() ends the connection. *)
Close(w, o) == Free([w EXCEPT !.live = @ \ {w.heap[o].linkId}], o)

(* The link is found closed: checkLink() and connected() forget it, and      *)
(* available() frees the object when nothing is left to read.               *)
ReleaseLink(w, o) ==
  LET v == [w EXCEPT !.heap[o].linkId = NO_LINK]
  IN IF v.heap[o].rx THEN v ELSE Free(v, o)

Linked(w, o) == w.heap[o].linkId # NO_LINK
Active(w, o) == w.heap[o].linkId \in w.live

(* The peer of o's connection hangs up in the middle of an operation. *)
HangUp(w, o) == [w EXCEPT !.live = @ \ {w.heap[o].linkId}]

(* EspAtDrv.sendData() and what follows it: of a failure only a link that is *)
(* not active any more changes more than the write error.                   *)
SendData(w, o) ==
  IF Linked(w, o) /\ ~Active(w, o) THEN ReleaseLink(w, o) ELSE w

(* The outcomes of a flush: nothing is buffered, or it is sent to a peer that *)
(* may hang up first.                                                       *)
Flushed(w, o) == {w, SendData(w, o), SendData(HangUp(w, o), o)}

(* WiFiEspAtBuffStream::available: the outcomes, and whether data are there. *)
HasData(w, o) == w.heap[o].rx \/ (Active(w, o) /\ w.heap[o].linkId \in data)

Available(w, o) ==
  IF ~Linked(w, o) THEN {IF w.heap[o].rx THEN w ELSE Free(w, o)}
  ELSE IF HasData(w, o) THEN {w}
  ELSE IF ~Active(w, o) THEN {ReleaseLink(w, o)}
  ELSE Flushed(w, o)

(* WiFiEspAtBuffStream::connected *)
Connected(w, o) == IF Linked(w, o) /\ ~Active(w, o) THEN ReleaseLink(w, o) ELSE w

----------------------------------------------------------------------------
(* WiFiEspAtSharedBuffStreamPtr.  operator bool compares the serialIds. *)

(* Wrong: a pointer left behind is not told apart. *)
ValidWhileInUse(w, p) == p.ptr # nullptr /\ InUse(w, p.ptr)

Valid(w, p) == p.ptr # nullptr /\ w.heap[p.ptr].serialId = p.serialId

CheckValid(w, p) == IF Valid(w, p) THEN p ELSE [p EXCEPT !.ptr = nullptr]

IncreaseRefCount(w, p) ==
  IF Valid(w, p) THEN [w EXCEPT !.heap[p.ptr].refCount = @ + 1] ELSE w

(* Wrong: the last reference does not close. *)
DecreaseNeverCloses(w, p) ==
  IF ~Valid(w, p) THEN w ELSE [w EXCEPT !.heap[p.ptr].refCount = @ - 1]

DecreaseRefCount(w, p) ==
  IF ~Valid(w, p) THEN w
  ELSE LET v == [w EXCEPT !.heap[p.ptr].refCount = @ - 1]
       IN IF v.heap[p.ptr].refCount = 0 THEN Close(v, p.ptr) ELSE v

(* Both must differ for an assignment to do anything. *)
Differs(p, q) == p.ptr # q.ptr /\ p.serialId # q.serialId

(* What an assignment leaves: the world, the assigned pointer, the other.   *)
Result(w, p, q) == [world |-> w, ptr |-> p, other |-> q]

CopyAssign(w, ptr, q) ==
  LET p == CheckValid(w, ptr) IN
  IF ~Differs(p, q) THEN Result(w, p, q)
  ELSE LET v == DecreaseRefCount(w, p)
       IN Result(IncreaseRefCount(v, q), CheckValid(v, q), q)

MoveAssign(w, ptr, q) ==
  LET p == CheckValid(w, ptr) IN
  IF ~Differs(p, q) THEN Result(w, p, q)
  ELSE Result(DecreaseRefCount(w, p), q, [q EXCEPT !.ptr = nullptr])

(* ptr = q for a q that is destroyed right after. *)
TakeOver(w, ptr, q) ==
  LET r == MoveAssign(w, ptr, q)
  IN [r EXCEPT !.world = DecreaseRefCount(r.world, r.other)]

----------------------------------------------------------------------------
(* WiFiEspAtBuffManager *)

(* The slots before the first empty one: the loops end there. *)
Filled == {i \in Slots : \A j \in 0 .. i : pool[j] # nullptr}

(* The next value that no object before the first empty slot has. *)
NextSerialId(w) ==
  LET Taken(n) == \E i \in Filled : w.heap[pool[i]].serialId = n
      k == CHOOSE k \in 1 .. SERIALS :
             /\ ~Taken((serialId + k) % SERIALS)
             /\ \A j \in 1 .. k - 1 : Taken((serialId + j) % SERIALS)
  IN (serialId + k) % SERIALS

(* The slot getBuffStream() takes: the first that is not in use. *)
Candidates(w) == {i \in Slots : i \in Filled => ~InUse(w, pool[i])}
Slot(w) == CHOOSE i \in Candidates(w) : \A j \in Candidates(w) : i <= j

(* The address of a new object. *)
NewObject == CHOOSE o \in Objects \ Allocated : \A p \in Objects \ Allocated : o <= p

(* getBuffStream() for connection n, with the temporary pointer made from it. *)
BuffStream(w, n) ==
  LET i == Slot(w)
      o == IF i \in Filled THEN pool[i] ELSE NewObject
      s == NextSerialId(w)
      new == [w.heap[o] EXCEPT !.serialId = s, !.linkId = n, !.refCount = @ + 1]
  IN [world |-> [w EXCEPT !.heap[o] = new], slot |-> i, ptr |-> [ptr |-> o, serialId |-> s]]

NoAllocation == UNCHANGED <<pool, serialId>>

(* The end of an operation on client c: the world and c's pointer. *)
Done(w, c, p) ==
  /\ heap' = w.heap
  /\ live' = w.live
  /\ stream' = [stream EXCEPT ![c] = p]

(* What the driver drops with a connection that ends. *)
DropEnded == incoming' = incoming \cap live' /\ data' = data \cap live'

(* Connection n, which the driver holds in world w, becomes client c's, whose *)
(* pointer is p: the end of connect() and of c = server.accept().           *)
Give(w, c, p, n) ==
  IF Candidates(w) = {}
    THEN LET r == TakeOver(w, p, Fresh)
         IN /\ Done([r.world EXCEPT !.live = @ \ {n}], c, r.ptr)
            /\ NoAllocation
            /\ of' = [of EXCEPT ![c] = NO_LINK]
    ELSE LET b == BuffStream(w, n)
             r == TakeOver(b.world, p, b.ptr)
         IN /\ Done(r.world, c, r.ptr)
            /\ pool' = [pool EXCEPT ![b.slot] = b.ptr.ptr]
            /\ serialId' = b.ptr.serialId
            /\ of' = [of EXCEPT ![c] = n]

----------------------------------------------------------------------------
(* Operations of the sketch on a client. *)

Bool(c) == Valid(World, stream[c])
Obj(c) == stream[c].ptr

(* stop() and abort(): the outcomes, with c's pointer. *)
Stopped(c) ==
  {TakeOver(Close(w, Obj(c)), stream[c], Fresh) : w \in Flushed(World, Obj(c))}

Stop(c) ==
  /\ Bool(c)
  /\ \E r \in Stopped(c) : Done(r.world, c, r.ptr)
  /\ DropEnded /\ NoAllocation
  /\ UNCHANGED <<lastConn, of>>

Connect(c) ==
  \E r \in IF Bool(c) THEN Stopped(c) ELSE {Result(World, stream[c], Fresh)} :
    /\ \/ /\ Done(r.world, c, r.ptr)
          /\ NoAllocation
          /\ UNCHANGED <<lastConn, of>>
       \/ /\ Cardinality(r.world.live) < LINKS /\ lastConn < MaxConn
          /\ lastConn' = lastConn + 1
          /\ Give([r.world EXCEPT !.live = @ \cup {lastConn + 1}], c, r.ptr, lastConn + 1)
    /\ DropEnded

(* c = WiFiClient(), also by an accept() that finds no connection. *)
Clear(c) ==
  /\ LET r == TakeOver(World, stream[c], Fresh) IN Done(r.world, c, r.ptr)
  /\ DropEnded /\ NoAllocation
  /\ UNCHANGED <<lastConn, of>>

(* c = server.accept() *)
Accept(c) ==
  \/ \E n \in incoming :
       /\ Give(World, c, stream[c], n)
       /\ incoming' = (incoming \ {n}) \cap live'
       /\ data' = data \cap live'
       /\ UNCHANGED lastConn
  \/ incoming = {} /\ Clear(c)

(* c goes out of scope; the name stands for a new client from then on. *)
Destroy(c) ==
  /\ Done(DecreaseRefCount(World, stream[c]), c, Fresh)
  /\ of' = [of EXCEPT ![c] = NO_LINK]
  /\ DropEnded /\ NoAllocation
  /\ UNCHANGED lastConn

(* c = d *)
Copy(c, d) ==
  /\ LET r == CopyAssign(World, stream[c], stream[d]) IN
       /\ Done(r.world, c, r.ptr)
       /\ of' = IF r.ptr = stream[c] THEN of ELSE [of EXCEPT ![c] = of[d]]
  /\ DropEnded /\ NoAllocation
  /\ UNCHANGED lastConn

(* c = std::move(d) *)
Move(c, d) ==
  /\ LET r == MoveAssign(World, stream[c], stream[d]) IN
       /\ heap' = r.world.heap /\ live' = r.world.live
       /\ stream' = [stream EXCEPT ![c] = r.ptr, ![d] = r.other]
       /\ of' = IF r.ptr = stream[c] THEN of ELSE [of EXCEPT ![c] = of[d]]
  /\ DropEnded /\ NoAllocation
  /\ UNCHANGED lastConn

(* WiFiClient c(d), WiFiClient c(std::move(d)) *)
Construct(c, d) ==
  /\ stream[c] = Fresh
  /\ \/ Done(IncreaseRefCount(World, stream[d]), c, CheckValid(World, stream[d]))
     \/ /\ stream' = [stream EXCEPT ![c] = stream[d], ![d].ptr = nullptr]
        /\ UNCHANGED <<heap, live>>
  /\ of' = [of EXCEPT ![c] = of[d]]
  /\ DropEnded /\ NoAllocation
  /\ UNCHANGED lastConn

(* Wrong: the link is forgotten, but the object is kept. *)
CheckConnectedKeeps(c) ==
  LET o == Obj(c) IN
  /\ Bool(c)
  /\ Done(IF Active(World, o) THEN World ELSE [World EXCEPT !.heap[o].linkId = NO_LINK], c, stream[c])
  /\ DropEnded /\ NoAllocation
  /\ UNCHANGED <<lastConn, of>>

(* connected() *)
CheckConnected(c) ==
  LET o == Obj(c)
      w == Connected(World, o)
  IN
  /\ Bool(c)
  /\ IF Linked(w, o) \/ w.heap[o].rx
       THEN Done(w, c, stream[c])
       ELSE LET r == TakeOver(Free(w, o), stream[c], Fresh) IN Done(r.world, c, r.ptr)
  /\ DropEnded /\ NoAllocation
  /\ UNCHANGED <<lastConn, of>>

(* status(), available(), flush() and write(): what they do to the world.   *)
Use(c) ==
  LET o == Obj(c)
      outcomes == {Connected(World, o)} \cup Available(World, o) \cup Flushed(World, o)
  IN
  /\ Bool(c)
  /\ \E w \in outcomes : Done(w, c, stream[c])
  /\ DropEnded /\ NoAllocation
  /\ UNCHANGED <<lastConn, of>>

(* read(): from the buffer, else from the driver; the peer may hang up       *)
(* between available() and recvData().                                      *)
Read(c) ==
  LET o == Obj(c) IN
  /\ Bool(c) /\ HasData(World, o)
  /\ \E rx, left \in BOOLEAN :
       /\ Done([World EXCEPT !.heap[o].rx = rx], c, stream[c])
       /\ data' = IF heap[o].rx \/ left THEN data ELSE data \ {heap[o].linkId}
  /\ NoAllocation
  /\ UNCHANGED <<incoming, lastConn, of>>

(* Wrong: what stands behind a gap is dropped. *)
CompactedFront(kept) ==
  [j \in Slots |-> IF \A i \in 0 .. j : i \in kept THEN pool[j] ELSE nullptr]

(* The slots that are kept close up, in their order. *)
Compacted(kept) ==
  [j \in Slots |->
     IF \E i \in kept : Cardinality({k \in kept : k < i}) = j
       THEN pool[CHOOSE i \in kept : Cardinality({k \in kept : k < i}) = j]
       ELSE nullptr]

(* freeUnused(): deletes the objects without a link, read empty or not.  The *)
(* code leaves it to the sketch that no client still points to one.          *)
FreeUnused ==
  LET unused == {i \in Filled : ~Linked(World, pool[i])}
      gone == {pool[i] : i \in unused}
  IN
  /\ unused # {}
  /\ \A c \in Clients : Obj(c) \notin gone
  /\ heap' = [o \in Objects |-> IF o \in gone THEN Empty ELSE heap[o]]
  /\ pool' = Compacted(Filled \ unused)
  /\ UNCHANGED <<serialId, stream, live, incoming, data, lastConn, of>>

----------------------------------------------------------------------------
(* The network. *)

PeerConnects ==
  /\ Cardinality(live) < LINKS /\ lastConn < MaxConn
  /\ lastConn' = lastConn + 1
  /\ live' = live \cup {lastConn + 1}
  /\ incoming' = incoming \cup {lastConn + 1}
  /\ UNCHANGED <<heap, pool, serialId, stream, data, of>>

PeerCloses(n) ==
  /\ n \in live
  /\ live' = live \ {n}
  /\ DropEnded
  /\ UNCHANGED <<heap, pool, serialId, stream, lastConn, of>>

DataArrives(n) ==
  /\ n \in live \ data
  /\ data' = data \cup {n}
  /\ UNCHANGED <<heap, pool, serialId, stream, live, incoming, lastConn, of>>

Next ==
  \/ \E c \in Clients :
       \/ Connect(c) \/ Accept(c) \/ Clear(c) \/ Destroy(c) \/ Stop(c)
       \/ CheckConnected(c) \/ Use(c) \/ Read(c)
       \/ \E d \in Clients \ {c} : Copy(c, d) \/ Move(c, d) \/ Construct(c, d)
  \/ FreeUnused
  \/ PeerConnects
  \/ \E n \in Conns : PeerCloses(n) \/ DataArrives(n)

Spec == Init /\ [][Next]_vars

----------------------------------------------------------------------------
(* Properties. *)

Users(o) == {c \in Clients : Obj(c) = o /\ Bool(c)}

(* A BuffStream's refCount is the number of clients that refer to it, and no *)
(* BuffStream is in use without one: none is lost for the pool.             *)
RefCountExact ==
  \A o \in Allocated :
    heap[o].serialId # 0
      => heap[o].refCount = Cardinality(Users(o)) /\ Users(o) # {}

(* A connection that the sketch was given stays open only as long as some    *)
(* client refers to it: the last copy that is cleared, assigned to or goes   *)
(* out of scope closes it.                                                  *)
ConnectionReferenced ==
  \A n \in live \ incoming : \E c \in Clients : Bool(c) /\ heap[Obj(c)].linkId = n

(* A client that is true reads from and writes to the connection it was      *)
(* given, never to a later one that took over its BuffStream.               *)
ClientKeepsConnection ==
  \A c \in Clients : Bool(c) => heap[Obj(c)].linkId \in {of[c], NO_LINK}

(* After the peer has closed and everything was read, connected() gives the  *)
(* BuffStream back to the pool; stop() is not needed.                       *)
ReleasedWhenRead ==
  [][ \A c \in Clients :
        Bool(c) /\ heap[Obj(c)].linkId \notin live /\ ~heap[Obj(c)].rx /\ CheckConnected(c)
          => heap'[Obj(c)].serialId = 0 ]_vars
=============================================================================
