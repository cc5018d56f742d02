--------------------------- MODULE WiFiUdpProofs ---------------------------
(***************************************************************************)
(* What TLAPS proves about WiFiUDP: the types, that every stream and every  *)
(* link has its owner, that a listener ends by its own stop() only, that a   *)
(* received datagram is not replaced, and in AT2 builds that it came to the *)
(* listener.                                                                *)
(*                                                                          *)
(* The argument is about pointers.  One that is not null leads to an object *)
(* of the pool with buffers of the right sizes and has a serialId that was  *)
(* given out; no two pointers are the same; and a stream in use is some     *)
(* pointer's (StreamsOK).  Links are compared by who may be on them         *)
(* (LinksOK), and the place in the running call says what is left to be     *)
(* given up (CallOK).                                                       *)
(***************************************************************************)
EXTENDS WiFiUdp, FiniteSetTheorems, SequenceTheorems, WellFoundedInduction, TLAPS

Udp == [linkId : 0 .. MaxConn, listening : BOOLEAN, txStream : C!Ptrs, rxStream : C!Ptrs]
Packets == [id : Nat, conn : 0 .. MaxConn, begun : BOOLEAN]

(* The rows of steps of a call, and those that end the listener *)
Short == {<<>>, <<"maintain">>, <<"receive">>, <<"flush">>, <<"open">>}
Ends == {<<"listen">>, <<"unlisten">>, <<"unlisten", "listen">>}
Releases == {<<"release">>, <<"release", "open">>, <<"flush", "release">>, <<"flush", "release", "open">>}
ReleasesEnds == {<<"release", "unlisten">>, <<"release", "unlisten", "listen">>,
                 <<"flush", "release", "unlisten">>, <<"flush", "release", "unlisten", "listen">>}
GivesUp == Ends \cup ReleasesEnds
Plans == Short \cup Releases \cup GivesUp

Fields ==
  /\ heap \in [Objects -> C!Streams]
  /\ pool \in [Slots -> Objects \cup {nullptr}] /\ serialId \in 0 .. SERIALS - 1
  /\ sizes \in [Objects -> Kinds \cup {"none"}] /\ packet \in [Objects -> Packets]
  /\ udp \in [Udps -> Udp] /\ clients \subseteq C!Ptrs
  /\ \A u \in Udps : udp[u].listening = (udp[u].linkId # NO_LINK)
  /\ call = [udp |-> It, steps |-> call.steps] /\ call.steps \in Plans /\ (~Idle => It \in Udps)
  /\ lastConn \in 0 .. MaxConn /\ live \subseteq 1 .. lastConn
  /\ IsFiniteSet(live) /\ Cardinality(live) <= LINKS
  /\ lastPacket \in Nat /\ arrived \in Seq([id : Nat, conn : 1 .. lastConn])

(* The pointer that refers to what is at o *)
To(o) == [ptr |-> o, serialId |-> heap[o].serialId]

(* A pointer of its kind *)
Leads(p, kind) ==
  /\ p.serialId \in 0 .. serialId
  /\ p.ptr # nullptr => p.ptr \in C!Allocated /\ sizes[p.ptr] = kind /\ p.serialId # 0

Held(o) ==
  heap[o].serialId # 0 =>
    /\ heap[o].refCount = 1 /\ heap[o].serialId <= serialId
    /\ (\E u \in Udps : Tx(u) = To(o)) \/ (\E u \in Udps : Rx(u) = To(o)) \/ To(o) \in clients

StreamsOK ==
  /\ \A u \in Udps : Leads(Tx(u), "txStream") /\ Leads(Rx(u), "rxStream")
  /\ \A p \in clients : p.ptr # nullptr /\ Leads(p, "client")
  /\ \A u, v \in Udps : Tx(u).ptr # nullptr /\ Tx(u) = Tx(v) => u = v
  /\ \A u, v \in Udps : Rx(u).ptr # nullptr /\ Rx(u) = Rx(v) => u = v
  /\ \A o \in Objects : Held(o) /\ (heap[o].serialId = 0 => heap[o] = C!Empty)

(* Who may be on a link *)
LinksOK ==
  /\ \A u \in Udps : udp[u].linkId <= lastConn
  /\ \A o \in Objects : heap[o].linkId <= lastConn
  /\ \A u, v \in Udps : udp[u].linkId # NO_LINK /\ udp[u].linkId = udp[v].linkId => u = v
  /\ \A u \in Udps, o \in Objects :
       udp[u].linkId # NO_LINK /\ heap[o].linkId = udp[u].linkId => To(o) = Tx(u)
  /\ \A o \in Objects : sizes[o] = "rxStream" => heap[o].linkId = NO_LINK
  /\ \A o \in Objects : sizes[o] # "rxStream" => heap[o].rx = FALSE
  /\ \A u \in Udps : ~mixed /\ udp[u].listening /\ Composing(u) =>
       heap[Tx(u).ptr].linkId \in {udp[u].linkId, NO_LINK}

(* What the running call has done already *)
CallOK ==
  /\ At("flush") => Composing(It)
  /\ At("release") => Tx(It).ptr # nullptr /\ (Composing(It) \/ heap[Tx(It).ptr].serialId = 0)
  /\ At("open") => ~Composing(It)
  /\ At("listen") => udp[It].linkId = NO_LINK
  /\ At("receive") => ~at1 /\ ~Holding(It)
  /\ call.steps \in GivesUp /\ ~at1 => ~Holding(It)

\* Of a listener, or no datagram (Stale)
Owned == ~at1 => \A u \in Udps : Holding(u) =>
           packet[Rx(u).ptr].conn \in {udp[u].linkId, NO_LINK} /\ udp[u].linkId # NO_LINK

IInv == Fields /\ StreamsOK /\ LinksOK /\ CallOK /\ Owned /\ LinksAccounted
----------------------------------------------------------------------------
(* The operators of WiFiClients that the calls use *)

Worlds == [heap : [Objects -> C!Streams], live : SUBSET C!Conns]

LEMMA Zeros ==
  /\ C!Empty \in C!Streams /\ C!Empty.serialId = 0 /\ C!Empty.refCount = 0 /\ C!Empty.linkId = NO_LINK
  /\ C!Empty.rx = FALSE /\ nullptr \notin Objects /\ nullptr = 0 /\ C!nullptr = 0 /\ NO_LINK = 0
  /\ C!Fresh = [ptr |-> nullptr, serialId |-> 0] /\ C!Fresh \in C!Ptrs
<1>1. 0 \in 0 .. SERIALS - 1 /\ 0 \notin Objects BY BoundsAssumption, UdpsAssumption
<1> QED BY <1>1 DEF C!Empty, C!Streams, NO_LINK, C!NO_LINK, C!Conns, nullptr, C!nullptr, C!Fresh, C!Ptrs

\* free() of an object that is not in use changes nothing.
LEMMA FreeIs ==
  ASSUME NEW w \in Worlds, NEW o \in Objects, w.heap[o].serialId = 0 => w.heap[o] = C!Empty
  PROVE  /\ C!Free(w, o).heap = [w.heap EXCEPT ![o] = C!Empty] /\ C!Free(w, o).live = w.live
         /\ C!Free(w, o) \in Worlds
<1>1. CASE w.heap[o].serialId = 0
  <2>1. w.heap = [w.heap EXCEPT ![o] = C!Empty] BY <1>1 DEF Worlds
  <2> QED BY <1>1, <2>1 DEF C!Free, C!InUse
<1>2. CASE w.heap[o].serialId # 0
  <2>1. C!Free(w, o) = [w EXCEPT !.heap[o] = C!Empty] BY <1>2 DEF C!Free, C!InUse
  <2> QED BY <2>1, Zeros DEF Worlds
<1> QED BY <1>1, <1>2

LEMMA CloseIs ==
  ASSUME NEW w \in Worlds, NEW o \in Objects, w.heap[o].serialId = 0 => w.heap[o] = C!Empty
  PROVE  /\ C!Close(w, o).heap = [w.heap EXCEPT ![o] = C!Empty]
         /\ C!Close(w, o).live = w.live \ {w.heap[o].linkId}
         /\ C!Close(w, o) \in Worlds
<1> DEFINE v == [w EXCEPT !.live = @ \ {w.heap[o].linkId}]
<1>1. v \in Worlds /\ v.heap = w.heap /\ v.live = w.live \ {w.heap[o].linkId} BY DEF Worlds
<1>2. C!Close(w, o) = C!Free(v, o) BY DEF C!Close
<1> HIDE DEF v
<1> QED BY <1>1, <1>2, FreeIs

\* Assignments to a pointer that refers to nothing
LEMMA TakeOverFresh ==
  ASSUME NEW w, NEW p \in C!Ptrs, ~C!Valid(w, p)
  PROVE  C!TakeOver(w, p, C!Fresh).world = w /\ C!TakeOver(w, p, C!Fresh).ptr = [p EXCEPT !.ptr = nullptr]
<1> DEFINE q == [p EXCEPT !.ptr = C!nullptr]
<1>1. C!CheckValid(w, p) = q /\ q.ptr = 0 /\ C!Fresh.ptr = 0 BY Zeros DEF C!CheckValid, C!Ptrs
<1>2. C!MoveAssign(w, p, C!Fresh) = C!Result(w, q, C!Fresh)
  BY <1>1, Zeros DEF C!MoveAssign, C!Differs
<1>3. C!DecreaseRefCount(w, C!Fresh) = w BY <1>1, Zeros DEF C!DecreaseRefCount, C!Valid
<1> QED BY <1>2, <1>3, Zeros DEF C!TakeOver, C!Result

LEMMA TakeOverNew ==
  ASSUME NEW w, NEW p \in C!Ptrs, NEW q \in C!Ptrs, ~C!Valid(w, p), q.ptr # nullptr, p.serialId # q.serialId
  PROVE  C!TakeOver(w, p, q).world = w /\ C!TakeOver(w, p, q).ptr = q
<1> DEFINE r == [p EXCEPT !.ptr = C!nullptr]
           n == [q EXCEPT !.ptr = C!nullptr]
<1>1. /\ C!CheckValid(w, p) = r /\ r.ptr = 0 /\ r.serialId = p.serialId /\ n.ptr = 0
  BY Zeros DEF C!CheckValid, C!Ptrs
<1>2. C!Differs(r, q) BY <1>1, Zeros DEF C!Differs
<1>3. C!DecreaseRefCount(w, r) = w /\ C!DecreaseRefCount(w, n) = w
  BY <1>1, Zeros DEF C!DecreaseRefCount, C!Valid
<1>4. C!MoveAssign(w, p, q) = C!Result(w, q, n)
  BY <1>1, <1>2, <1>3 DEF C!MoveAssign
<1> QED BY <1>3, <1>4 DEF C!TakeOver, C!Result

----------------------------------------------------------------------------
(* getBuffStream() *)

LEMMA SmallMod == ASSUME NEW N \in Nat, NEW a \in 0 .. N - 1 PROVE a % N = a
BY SMT

\* The library has well-foundedness for finite sets: a least number is a least initial segment.
LEMMA LeastNat ==
  ASSUME NEW T \in SUBSET Nat, T # {}
  PROVE  \E x \in T : \A y \in T : x <= y
<1> DEFINE Upto == {0 .. n : n \in T}
           R == StrictSubsetOrdering(Nat)
<1>1. Upto # {} /\ Upto \subseteq SUBSET Nat
  <2>1. \A n \in T : 0 .. n \subseteq Nat OBVIOUS
  <2>2. Upto # {} BY DEF Upto
  <2>3. ASSUME NEW U \in Upto PROVE U \in SUBSET Nat
    <3>1. PICK n \in T : U = 0 .. n BY <2>3
    <3> QED BY <2>1, <3>1
  <2> QED BY <2>2, <2>3
<1>2. \A U \in Upto : IsFiniteSet(U) BY FS_Interval
<1>3. Upto \subseteq FiniteSubsetsOf(Nat) BY <1>1, <1>2 DEF FiniteSubsetsOf
<1>4. PICK U \in Upto : \A V \in Upto : <<V, U>> \notin R
  BY <1>1, <1>3, FS_StrictSubsetOrderingWellFounded, WFMin
<1>5. PICK x \in T : U = 0 .. x OBVIOUS
<1>6. ASSUME NEW y \in T, y < x PROVE FALSE
  <2>1. 0 .. y \in Upto /\ 0 .. y \subseteq 0 .. x /\ x \notin 0 .. y /\ x \in 0 .. x BY <1>6
  <2>2. <<0 .. y, 0 .. x>> \in R BY <2>1, <1>1 DEF StrictSubsetOrdering
  <2> QED BY <1>4, <1>5, <2>1, <2>2
<1> QED BY <1>6

PoolType == pool \in [Slots -> Objects \cup {nullptr}] /\ serialId \in 0 .. SERIALS - 1

\* Until the values have been used up the next one is one more.
LEMMA NextSerialIs ==
  ASSUME PoolType, NEW w \in Worlds, serialId + 1 < SERIALS,
         \A o \in Objects : w.heap[o].serialId <= serialId
  PROVE  C!NextSerialId(w) = serialId + 1
<1> DEFINE Taken(n) == \E i \in C!Filled : w.heap[pool[i]].serialId = n
           P(k) == /\ ~Taken((serialId + k) % SERIALS)
                   /\ \A j \in 1 .. k - 1 : Taken((serialId + j) % SERIALS)
           K == CHOOSE k \in 1 .. SERIALS : P(k)
<1> USE DEF PoolType
<1>1. (serialId + 1) % SERIALS = serialId + 1 BY SmallMod, BoundsAssumption
<1>2. ~Taken(serialId + 1)
  <2> SUFFICES ASSUME NEW i \in C!Filled, w.heap[pool[i]].serialId = serialId + 1 PROVE FALSE OBVIOUS
  <2>1. pool[i] \in Objects
    <3>1. i \in Slots /\ i \in 0 .. i BY DEF C!Filled, Slots, C!Slots
    <3> QED BY <3>1, Zeros DEF C!Filled
  <2>2. w.heap[pool[i]].serialId \in Int BY <2>1, BoundsAssumption DEF Worlds, C!Streams
  <2> QED BY <2>1, <2>2
<1>3. P(1) BY <1>1, <1>2
<1>4. 1 \in 1 .. SERIALS BY BoundsAssumption
<1>5. \A k \in 1 .. SERIALS : P(k) => k = 1
  <2> SUFFICES ASSUME NEW k \in 1 .. SERIALS, P(k), k # 1 PROVE FALSE OBVIOUS
  <2>1. 1 \in 1 .. k - 1 BY BoundsAssumption
  <2>2. Taken((serialId + 1) % SERIALS) BY <2>1
  <2> QED BY <1>1, <1>2, <2>2
<1>6. K = 1
  <2> HIDE DEF P
  <2> QED BY <1>3, <1>4, <1>5
<1>7. C!NextSerialId(w) = (serialId + K) % SERIALS BY DEF C!NextSerialId
<1> QED BY <1>1, <1>6, <1>7

\* Behind the objects there is room for one more.
LEMMA RoomForObject ==
  ASSUME PoolType, NEW i \in Slots, pool[i] = nullptr
  PROVE  C!NewObject \in Objects \ C!Allocated
<1> USE DEF PoolType
<1>1. IsFiniteSet(Slots) /\ Cardinality(Slots) = LINKS /\ LINKS \in Nat
  <2>1. LINKS \in Nat /\ 0 \in Int /\ LINKS - 1 \in Int /\ (0 > LINKS - 1 => LINKS = 0) /\ LINKS - 1 - 0 + 1 = LINKS
    BY BoundsAssumption
  <2>2. IsFiniteSet(0 .. LINKS - 1) /\ Cardinality(0 .. LINKS - 1) = LINKS BY <2>1, FS_Interval
  <2> QED BY <2>1, <2>2 DEF Slots
<1>2. IsFiniteSet(Slots \ {i}) /\ Cardinality(Slots \ {i}) = LINKS - 1 BY <1>1, FS_RemoveElement
<1> DEFINE Used == {j \in Slots \ {i} : pool[j] # nullptr}
           f == [j \in Used |-> pool[j]]
<1>3. IsFiniteSet(Used) /\ Cardinality(Used) <= LINKS - 1
  BY <1>2, FS_Subset
<1>4. f \in Surjection(Used, C!Allocated)
  <2>1. \A j \in Used : pool[j] \in C!Allocated BY Zeros DEF C!Allocated, Slots, C!Slots
  <2>2. ASSUME NEW o \in C!Allocated PROVE \E j \in Used : f[j] = o BY Zeros DEF C!Allocated, Slots, C!Slots
  <2> QED BY <2>1, <2>2 DEF Surjection
<1>5. IsFiniteSet(C!Allocated) /\ Cardinality(C!Allocated) <= Cardinality(Used)
  BY <1>3, <1>4, FS_Surjection
<1>6. IsFiniteSet(Objects) /\ Cardinality(Objects) >= LINKS BY ObjectsAssumption, UdpsAssumption
<1>7. Objects \ C!Allocated # {}
  <2> SUFFICES ASSUME Objects \subseteq C!Allocated PROVE FALSE OBVIOUS
  <2>1. Cardinality(Objects) <= Cardinality(C!Allocated) BY <1>5, FS_Subset
  <2>2. /\ Cardinality(Objects) \in Nat /\ Cardinality(C!Allocated) \in Nat /\ Cardinality(Used) \in Nat
    BY <1>3, <1>5, <1>6, FS_CardinalityType
  <2> HIDE DEF Used
  <2> QED BY <1>1, <1>3, <1>5, <1>6, <2>1, <2>2
<1>8. Objects \ C!Allocated \subseteq Nat BY UdpsAssumption
<1>9. \E o \in Objects \ C!Allocated : \A p \in Objects \ C!Allocated : o <= p
  BY <1>7, <1>8, LeastNat
<1> QED BY <1>9 DEF C!NewObject

NewStream(s, conn) == [serialId |-> s, refCount |-> 1, linkId |-> conn, rx |-> FALSE]
NewPtr(o) == [ptr |-> o, serialId |-> serialId + 1]

(* Object o is taken for the new pointer. *)
Taken(w, kind, o) ==
  /\ w.heap[o].serialId = 0 /\ (o \in C!Allocated => sizes[o] = kind)
  /\ pool' \in [Slots -> Objects \cup {nullptr}]
  /\ C!Allocated \subseteq C!Allocated' /\ o \in C!Allocated'
  /\ sizes' \in [Objects -> Kinds \cup {"none"}] /\ sizes'[o] = kind
  /\ \A p \in Objects \ {o} : sizes'[p] = sizes[p]
  /\ serialId' = serialId + 1 /\ serialId' \in 0 .. SERIALS - 1

LEMMA RequestIs ==
  ASSUME PoolType, sizes \in [Objects -> Kinds \cup {"none"}], NEW w \in Worlds,
         NEW conn \in C!Conns \cup {NO_LINK}, NEW kind \in Kinds,
         \A o \in Objects : w.heap[o].serialId <= serialId,
         \A o \in Objects \ C!Allocated : w.heap[o].serialId = 0,
         NEW q, q = Request(w, conn, kind), Pooled(q)
  PROVE  \/ Candidates(w, kind) = {} /\ q.world = w /\ q.ptr = C!Fresh /\ SamePool
         \/ /\ Candidates(w, kind) # {}
            /\ \E o \in Objects :
                 /\ Taken(w, kind, o)
                 /\ q.world.heap = [w.heap EXCEPT ![o] = NewStream(serialId + 1, conn)]
                 /\ q.world.live = w.live /\ q.ptr = NewPtr(o) /\ q.world \in Worlds
<1>1. CASE Candidates(w, kind) = {}
  BY <1>1 DEF Request, Pooled, SamePool
<1>2. CASE Candidates(w, kind) # {}
  <2> DEFINE i == CHOOSE j \in Candidates(w, kind) : \A k \in Candidates(w, kind) : j <= k
             o == IF i \in C!Filled THEN pool[i] ELSE C!NewObject
             s == C!NextSerialId(w)
             new == [serialId |-> s, refCount |-> 1, linkId |-> conn, rx |-> FALSE]
  <2>1. Candidates(w, kind) \in SUBSET Nat
    <3>1. \A j \in Slots : j \in Nat BY BoundsAssumption DEF Slots
    <3> QED BY <3>1 DEF Candidates
  <2>2. i \in Candidates(w, kind) /\ \A k \in Candidates(w, kind) : i <= k BY <1>2, <2>1, LeastNat
  <2>3. i \in Slots BY <2>2 DEF Candidates
  <2>4. q = [world |-> [w EXCEPT !.heap[o] = new], pool |-> [pool EXCEPT ![i] = o], serialId |-> s,
             sizes |-> IF i \in C!Filled THEN sizes ELSE [sizes EXCEPT ![o] = kind],
             ptr |-> [ptr |-> o, serialId |-> s]]
    BY <1>2 DEF Request
  <2> HIDE DEF i
  <2>5. /\ o \in Objects /\ w.heap[o].serialId = 0 /\ (o \in C!Allocated => sizes[o] = kind)
        /\ pool[i] = o \/ pool[i] = nullptr
        /\ i \in C!Filled => sizes[o] = kind
    <3>1. CASE i \in C!Filled
      <4>1. o = pool[i] /\ o \in Objects
        <5>1. i \in 0 .. i BY <2>3, BoundsAssumption DEF Slots
        <5>2. pool[i] # nullptr BY <3>1, <5>1, Zeros DEF C!Filled
        <5> QED BY <2>3, <3>1, <5>2 DEF PoolType
      <4>2. w.heap[o].serialId = 0 /\ sizes[o] = kind BY <2>2, <3>1 DEF Candidates, C!InUse
      <4>3. o \in C!Allocated BY <2>3, <4>1, Zeros DEF C!Allocated, C!Slots, Slots
      <4> QED BY <3>1, <4>1, <4>2, <4>3
    <3>2. CASE i \notin C!Filled
      <4>1. pool[i] = nullptr
        <5>1. PICK j \in 0 .. i : pool[j] = nullptr BY <2>3, <3>2, Zeros DEF C!Filled, C!Slots, Slots
        <5>2. j \in Slots BY <2>3, <5>1, BoundsAssumption DEF Slots
        <5>3. j \notin C!Filled
          <6>1. j \in 0 .. j BY <5>2, BoundsAssumption DEF Slots
          <6> QED BY <5>1, <6>1, Zeros DEF C!Filled
        <5>4. j \in Candidates(w, kind) BY <5>2, <5>3 DEF Candidates
        <5>5. i <= j BY <2>2, <5>4
        <5>6. i = j BY <2>3, <5>1, <5>5, BoundsAssumption DEF Slots
        <5> QED BY <5>1, <5>6
      <4>2. o = C!NewObject /\ o \in Objects \ C!Allocated BY <2>3, <3>2, <4>1, RoomForObject
      <4> QED BY <3>2, <4>1, <4>2
    <3> QED BY <3>1, <3>2
  <2> HIDE DEF o, s
  <2>6. q.ptr = [ptr |-> o, serialId |-> s] /\ q.serialId = s /\ q.pool = [pool EXCEPT ![i] = o]
        /\ q.sizes = (IF i \in C!Filled THEN sizes ELSE [sizes EXCEPT ![o] = kind])
        /\ q.world = [w EXCEPT !.heap[o] = new]
    BY <2>4
  <2>7. serialId < SERIALS - 1
    <3>1. q.ptr.ptr = o /\ C!Fresh.ptr = 0 /\ o # 0 BY <2>5, <2>6, Zeros
    <3> QED BY <3>1 DEF Pooled
  <2>8. s = serialId + 1
    <3>1. serialId + 1 < SERIALS BY <2>7, BoundsAssumption DEF PoolType
    <3> QED BY <3>1, NextSerialIs DEF s
  <2>9. q.world.heap = [w.heap EXCEPT ![o] = new] /\ q.world.live = w.live
    BY <2>6 DEF Worlds
  <2>10. pool' = [pool EXCEPT ![i] = o] /\ serialId' = s /\ sizes' = q.sizes BY <2>6 DEF Pooled
  <2>11. C!Allocated \subseteq C!Allocated' /\ o \in C!Allocated'
    <3>1. C!Slots = Slots BY DEF C!Slots, Slots
    <3>2. pool'[i] = o /\ \A j \in Slots \ {i} : pool'[j] = pool[j] BY <2>3, <2>10 DEF PoolType
    <3>3. C!Allocated = {pool[j] : j \in Slots} \ {nullptr} BY <3>1, Zeros DEF C!Allocated
    <3>4. C!Allocated' = {pool'[j] : j \in Slots} \ {nullptr} BY <3>1, Zeros DEF C!Allocated
    <3>5. o \in C!Allocated' BY <2>3, <2>5, <3>2, <3>4, Zeros
    <3>6. ASSUME NEW p \in C!Allocated PROVE p \in C!Allocated'
      <4>1. PICK j \in Slots : p = pool[j] /\ p # nullptr BY <3>3
      <4>2. CASE j = i BY <2>5, <3>5, <4>1, <4>2
      <4>3. CASE j # i BY <3>2, <3>4, <4>1, <4>3
      <4> QED BY <4>2, <4>3
    <3> QED BY <3>5, <3>6
  <2>12. pool' \in [Slots -> Objects \cup {nullptr}] BY <2>3, <2>5, <2>10 DEF PoolType
  <2>13. /\ sizes' \in [Objects -> Kinds \cup {"none"}] /\ sizes'[o] = kind
         /\ \A p \in Objects \ {o} : sizes'[p] = sizes[p]
    BY <2>5, <2>6, <2>10
  <2>14. serialId' = serialId + 1 /\ serialId' \in 0 .. SERIALS - 1 BY <2>7, <2>8, <2>10, BoundsAssumption DEF PoolType
  <2>15. Taken(w, kind, o) BY <2>5, <2>11, <2>12, <2>13, <2>14 DEF Taken
  <2>16. q.world.heap = [w.heap EXCEPT ![o] = NewStream(serialId + 1, conn)] /\ q.ptr = NewPtr(o)
    BY <2>6, <2>8, <2>9 DEF NewStream, NewPtr
  <2>17. q.world \in Worlds
    <3>1. s \in 0 .. SERIALS - 1 BY <2>7, <2>8, BoundsAssumption DEF PoolType
    <3>2. new \in C!Streams BY <3>1, Zeros DEF C!Streams, C!NO_LINK
    <3> HIDE DEF new
    <3>3. q.world = [heap |-> [w.heap EXCEPT ![o] = new], live |-> w.live] BY <2>6 DEF Worlds
    <3>4. [w.heap EXCEPT ![o] = new] \in [Objects -> C!Streams] /\ w.live \in SUBSET C!Conns BY <3>2 DEF Worlds
    <3> QED BY <3>3, <3>4 DEF Worlds
  <2> QED BY <1>2, <2>5, <2>9, <2>15, <2>16, <2>17
<1> QED BY <1>1, <1>2

----------------------------------------------------------------------------
(* What a step may do to the pointers and the objects: n is the new pointer, *)
(* if there is one.  A pointer that is given up refers to nothing any more.  *)

Lost(p) == p.ptr # nullptr => heap'[p.ptr].serialId # p.serialId

Grows ==
  /\ serialId <= serialId' /\ C!Allocated \subseteq C!Allocated'
  /\ \A o \in C!Allocated : sizes'[o] = sizes[o]

IsNew(n) == n.ptr # nullptr => n.ptr \in C!Allocated' /\ n.serialId = serialId' /\ serialId < serialId'

Referred(n) == (\E u \in Udps : Tx(u)' = n) \/ (\E u \in Udps : Rx(u)' = n) \/ n \in clients'

ObjectSteps(n, o) ==
  /\ heap'[o].serialId = 0 => heap'[o] = C!Empty
  /\ \/ heap'[o].serialId = 0
     \/ heap'[o].serialId = heap[o].serialId /\ heap'[o].refCount = heap[o].refCount
     \/ n = To(o)' /\ n.ptr # nullptr /\ heap'[o].refCount = 1 /\ Referred(n)

PointerSteps(n, kind, p, q) ==
  q = p \/ (Lost(p) /\ ((q.ptr = nullptr /\ q.serialId \in 0 .. serialId') \/ (q = n /\ n.ptr # nullptr /\ sizes'[n.ptr] = kind)))

Follows(n) ==
  /\ Grows /\ IsNew(n)
  /\ \A o \in Objects : ObjectSteps(n, o)
  /\ \A u \in Udps : PointerSteps(n, "txStream", Tx(u), Tx(u)') /\ PointerSteps(n, "rxStream", Rx(u), Rx(u)')
  /\ \A u, v \in Udps : n.ptr # nullptr =>
       (Tx(u)' = n /\ Tx(v)' = n => u = v) /\ (Rx(u)' = n /\ Rx(v)' = n => u = v)
  /\ \A p \in clients' : p \in clients \/ (p = n /\ n.ptr # nullptr /\ sizes'[n.ptr] = "client")
  /\ \A p \in clients : p \in clients' \/ Lost(p)

LEMMA Pointers ==
  ASSUME Fields
  PROVE  /\ \A u \in Udps : Tx(u) \in C!Ptrs /\ Rx(u) \in C!Ptrs
         /\ \A p \in C!Ptrs : /\ p.ptr \in Objects \cup {nullptr} /\ p.serialId \in Nat
                              /\ p = [ptr |-> p.ptr, serialId |-> p.serialId]
         /\ \A o \in Objects : /\ heap[o].serialId \in Nat /\ heap[o].refCount \in Nat
                               /\ heap[o].linkId \in 0 .. MaxConn /\ heap[o].rx \in BOOLEAN
         /\ serialId \in Nat /\ C!Allocated \subseteq Objects
<1>1. \A u \in Udps : Tx(u) \in C!Ptrs /\ Rx(u) \in C!Ptrs BY DEF Fields, Udp, Tx, Rx
<1>2. \A p \in C!Ptrs : /\ p.ptr \in Objects \cup {nullptr} /\ p.serialId \in Nat
                        /\ p = [ptr |-> p.ptr, serialId |-> p.serialId]
  BY Zeros, BoundsAssumption DEF C!Ptrs
<1>3. \A o \in Objects : /\ heap[o].serialId \in Nat /\ heap[o].refCount \in Nat
                         /\ heap[o].linkId \in 0 .. MaxConn /\ heap[o].rx \in BOOLEAN
  BY Zeros, BoundsAssumption DEF Fields, C!Streams, C!Conns, C!NO_LINK
<1>4. serialId \in Nat /\ C!Allocated \subseteq Objects
  BY Zeros, BoundsAssumption DEF Fields, C!Allocated, C!Slots, Slots
<1> QED BY <1>1, <1>2, <1>3, <1>4

LEMMA LeadsKept ==
  ASSUME Fields, Fields', Grows, NEW p \in C!Ptrs, NEW kind, Leads(p, kind)
  PROVE  /\ p.serialId \in 0 .. serialId'
         /\ p.ptr # nullptr => p.ptr \in C!Allocated' /\ sizes'[p.ptr] = kind /\ p.serialId # 0
<1>1. serialId \in Nat /\ serialId' \in Nat /\ serialId <= serialId' BY Pointers, BoundsAssumption DEF Fields, Grows
<1> QED BY <1>1, Pointers DEF Leads, Grows

LEMMA StreamsKept ==
  ASSUME Fields, Fields', StreamsOK, NEW n, Follows(n)
  PROVE  StreamsOK'
<1> DEFINE Leads1(p, kind) ==
             /\ p.serialId \in 0 .. serialId'
             /\ p.ptr # nullptr => p.ptr \in C!Allocated' /\ sizes'[p.ptr] = kind /\ p.serialId # 0
<1>1. serialId \in Nat /\ serialId' \in Nat /\ serialId <= serialId' BY Pointers, BoundsAssumption DEF Fields, Follows, Grows
<1>2. \A p \in C!Ptrs : \A kind : Leads(p, kind) => Leads1(p, kind)
  BY LeadsKept DEF Follows
<1>3. \A kind : n.ptr # nullptr /\ sizes'[n.ptr] = kind => Leads1(n, kind)
  BY <1>1 DEF Follows, IsNew
<1>4. \A p, q, kind : p \in C!Ptrs /\ Leads(p, kind) /\ PointerSteps(n, kind, p, q) => Leads1(q, kind)
  BY <1>2, <1>3 DEF PointerSteps
<1>5. \A u \in Udps : Leads1(Tx(u)', "txStream") /\ Leads1(Rx(u)', "rxStream")
  <2> HIDE DEF Leads1
  <2> QED BY <1>4, Pointers DEF StreamsOK, Follows
<1>6. \A p \in clients' : p.ptr # nullptr /\ Leads1(p, "client")
  <2> HIDE DEF Leads1
  <2>1. \A p \in clients : p \in C!Ptrs BY DEF Fields
  <2> QED BY <1>2, <1>3, <2>1 DEF StreamsOK, Follows
<1>7. \A p \in C!Ptrs : \A kind : p.ptr # nullptr /\ Leads(p, kind) /\ n.ptr # nullptr => p # n
  BY <1>1 DEF Leads, Follows, IsNew
<1>8. ASSUME NEW u \in Udps, NEW v \in Udps, Tx(u)'.ptr # nullptr, Tx(u)' = Tx(v)' PROVE u = v
  <2>1. Leads(Tx(u), "txStream") /\ Leads(Tx(v), "txStream") /\ Tx(u) \in C!Ptrs /\ Tx(v) \in C!Ptrs
    BY Pointers DEF StreamsOK
  <2>2. Tx(u)' = Tx(u) \/ Tx(u)' = n BY <1>8 DEF Follows, PointerSteps
  <2>3. Tx(v)' = Tx(v) \/ Tx(v)' = n BY <1>8 DEF Follows, PointerSteps
  <2>4. CASE Tx(u)' = n BY <1>7, <1>8, <2>1, <2>3, <2>4 DEF Follows
  <2>5. CASE Tx(u)' = Tx(u) /\ Tx(v)' = n BY <1>7, <1>8, <2>1, <2>5
  <2>6. CASE Tx(u)' = Tx(u) /\ Tx(v)' = Tx(v) BY <1>8, <2>6 DEF StreamsOK
  <2> QED BY <2>2, <2>3, <2>4, <2>5, <2>6
<1>9. ASSUME NEW u \in Udps, NEW v \in Udps, Rx(u)'.ptr # nullptr, Rx(u)' = Rx(v)' PROVE u = v
  <2>1. Leads(Rx(u), "rxStream") /\ Leads(Rx(v), "rxStream") /\ Rx(u) \in C!Ptrs /\ Rx(v) \in C!Ptrs
    BY Pointers DEF StreamsOK
  <2>2. Rx(u)' = Rx(u) \/ Rx(u)' = n BY <1>9 DEF Follows, PointerSteps
  <2>3. Rx(v)' = Rx(v) \/ Rx(v)' = n BY <1>9 DEF Follows, PointerSteps
  <2>4. CASE Rx(u)' = n BY <1>7, <1>9, <2>1, <2>3, <2>4 DEF Follows
  <2>5. CASE Rx(u)' = Rx(u) /\ Rx(v)' = n BY <1>7, <1>9, <2>1, <2>5
  <2>6. CASE Rx(u)' = Rx(u) /\ Rx(v)' = Rx(v) BY <1>9, <2>6 DEF StreamsOK
  <2> QED BY <2>2, <2>3, <2>4, <2>5, <2>6
<1>10. ASSUME NEW o \in Objects PROVE Held(o)'
  <2> SUFFICES ASSUME heap'[o].serialId # 0
               PROVE  heap'[o].refCount = 1 /\ heap'[o].serialId <= serialId' /\ Referred(To(o)')
    BY DEF Held, Referred
  <2>1. CASE heap'[o].serialId = heap[o].serialId /\ heap'[o].refCount = heap[o].refCount
    <3>1. To(o)' = To(o) /\ heap[o].serialId # 0 BY <2>1 DEF To
    <3>2. \A p : p = To(o) => ~Lost(p)
      <4>1. To(o).ptr = o /\ To(o).serialId = heap[o].serialId BY DEF To
      <4> QED BY <2>1, <4>1, Zeros DEF Lost
    <3>3. heap[o].refCount = 1 /\ heap[o].serialId <= serialId
      BY <3>1 DEF StreamsOK, Held
    <3>4. heap'[o].refCount = 1 /\ heap'[o].serialId <= serialId' BY <1>1, <2>1, <3>3, Pointers
    <3>5. CASE \E u \in Udps : Tx(u) = To(o)
      <4>1. PICK u \in Udps : Tx(u) = To(o) BY <3>5
      <4>2. Tx(u)' = Tx(u) BY <3>2, <4>1 DEF Follows, PointerSteps
      <4> QED BY <3>1, <3>4, <4>1, <4>2 DEF Referred
    <3>6. CASE \E u \in Udps : Rx(u) = To(o)
      <4>1. PICK u \in Udps : Rx(u) = To(o) BY <3>6
      <4>2. Rx(u)' = Rx(u) BY <3>2, <4>1 DEF Follows, PointerSteps
      <4> QED BY <3>1, <3>4, <4>1, <4>2 DEF Referred
    <3>7. CASE To(o) \in clients
      <4>1. To(o) \in clients' BY <3>2, <3>7 DEF Follows
      <4> QED BY <3>1, <3>4, <4>1 DEF Referred
    <3> QED BY <3>1, <3>5, <3>6, <3>7 DEF StreamsOK, Held
  <2>2. CASE n = To(o)' /\ n.ptr # nullptr /\ heap'[o].refCount = 1 /\ Referred(n)
    <3>1. heap'[o].serialId = n.serialId BY <2>2 DEF To
    <3>2. n.serialId = serialId' BY <2>2 DEF Follows, IsNew
    <3> QED BY <1>1, <2>2, <3>1, <3>2
  <2> QED BY <2>1, <2>2 DEF Follows, ObjectSteps
<1>11. \A o \in Objects : heap'[o].serialId = 0 => heap'[o] = C!Empty BY DEF Follows, ObjectSteps
<1> QED BY <1>5, <1>6, <1>8, <1>9, <1>10, <1>11, Zeros DEF StreamsOK, Leads

----------------------------------------------------------------------------
(* What the invariant says of a pointer that refers to something *)

LEMMA ValidIs ==
  /\ World.heap = heap /\ World.live = live
  /\ \A w, p : C!Valid(w, p) <=> p.ptr # nullptr /\ w.heap[p.ptr].serialId = p.serialId
BY Zeros DEF World, C!Valid

LEMMA Free ==
  ASSUME Fields, StreamsOK
  PROVE  /\ World \in Worlds /\ PoolType /\ sizes \in [Objects -> Kinds \cup {"none"}]
         /\ \A o \in Objects : heap[o].serialId = 0 => heap[o] = C!Empty
         /\ \A o \in Objects : heap[o].serialId <= serialId
         /\ \A o \in Objects \ C!Allocated : heap[o] = C!Empty
<1>1. World \in Worlds
  <2>1. lastConn \in 0 .. MaxConn /\ live \subseteq 1 .. lastConn /\ MaxConn \in Nat BY BoundsAssumption DEF Fields
  <2>2. live \subseteq C!Conns BY <2>1 DEF C!Conns
  <2> QED BY <2>2 DEF World, Worlds, Fields
<1>2. PoolType /\ sizes \in [Objects -> Kinds \cup {"none"}] BY DEF Fields, PoolType
<1>3. \A o \in Objects : heap[o].serialId = 0 => heap[o] = C!Empty BY DEF StreamsOK
<1>4. \A o \in Objects : heap[o].serialId <= serialId
  BY Pointers DEF StreamsOK, Held
<1>5. ASSUME NEW o \in Objects \ C!Allocated, heap[o].serialId # 0 PROVE FALSE
  <2>1. To(o).ptr = o /\ o # nullptr BY Zeros DEF To
  <2>2. (\E u \in Udps : Tx(u) = To(o)) \/ (\E u \in Udps : Rx(u) = To(o)) \/ To(o) \in clients
    BY <1>5 DEF StreamsOK, Held
  <2>3. \A u \in Udps : Leads(Tx(u), "txStream") /\ Leads(Rx(u), "rxStream") BY DEF StreamsOK
  <2>4. \A p \in clients : Leads(p, "client") BY DEF StreamsOK
  <2> QED BY <1>5, <2>1, <2>2, <2>3, <2>4 DEF Leads
<1> QED BY <1>1, <1>2, <1>3, <1>4, <1>5

(* The pointer refers to an object of its kind. *)
Refers(p, kind) ==
  /\ p.ptr \in Objects /\ p.ptr # nullptr /\ p.ptr \in C!Allocated /\ p = To(p.ptr) /\ sizes[p.ptr] = kind
  /\ heap[p.ptr].serialId = p.serialId /\ p.serialId # 0 /\ p.serialId \in 1 .. serialId
  /\ heap[p.ptr].refCount = 1

LEMMA ReferTo ==
  ASSUME Fields, StreamsOK
  PROVE  /\ \A u \in Udps : Composing(u) <=> Tx(u).ptr # nullptr /\ heap[Tx(u).ptr].serialId = Tx(u).serialId
         /\ \A u \in Udps : Holding(u) <=> Rx(u).ptr # nullptr /\ heap[Rx(u).ptr].serialId = Rx(u).serialId
         /\ \A u \in Udps : Composing(u) => Refers(Tx(u), "txStream")
         /\ \A u \in Udps : Holding(u) => Refers(Rx(u), "rxStream")
         /\ \A p \in clients : C!Valid(World, p) => Refers(p, "client")
<1>1. ASSUME NEW p \in C!Ptrs, NEW kind, Leads(p, kind), C!Valid(World, p)
      PROVE  Refers(p, kind)
  <2>1. p.ptr # nullptr /\ heap[p.ptr].serialId = p.serialId BY <1>1, ValidIs
  <2>2. p.ptr \in Objects /\ p = To(p.ptr) BY <2>1, Pointers DEF To
  <2>3. p.ptr \in C!Allocated /\ sizes[p.ptr] = kind /\ p.serialId \in 1 .. serialId BY <1>1, <2>1 DEF Leads
  <2>4. p.serialId # 0 BY <2>3
  <2>5. heap[p.ptr].refCount = 1 BY <2>1, <2>2, <2>4 DEF StreamsOK, Held
  <2> QED BY <2>1, <2>2, <2>3, <2>4, <2>5 DEF Refers
<1>2. \A u \in Udps : Leads(Tx(u), "txStream") /\ Leads(Rx(u), "rxStream") /\ Tx(u) \in C!Ptrs /\ Rx(u) \in C!Ptrs
  BY Pointers DEF StreamsOK
<1>3. \A p \in clients : p \in C!Ptrs /\ Leads(p, "client") BY DEF StreamsOK, Fields
<1> QED BY <1>1, <1>2, <1>3, ValidIs DEF Composing, Holding

Names == {"flush", "release", "open", "listen", "unlisten", "maintain", "receive"}

PlanOK(s) ==
  /\ Tail(s) \in Plans /\ Head(s) \in Names
  /\ Tail(s) # <<>> =>
       /\ Head(s) = "flush" => Head(Tail(s)) = "release"
       /\ Head(s) = "release" => Head(Tail(s)) \in {"open", "unlisten"}
       /\ Head(s) = "unlisten" => Head(Tail(s)) = "listen"
       /\ Head(s) \in {"flush", "release", "unlisten"}
  /\ Tail(s) \in GivesUp => s \in GivesUp
  /\ Head(s) \in {"listen", "unlisten"} => s \in GivesUp

LEMMA PlanSteps ==
  ASSUME NEW s \in Plans, s # <<>>
  PROVE  PlanOK(s)
<1> USE DEF PlanOK, Names, Plans, Short, Ends, Releases, ReleasesEnds, GivesUp
<1>1. PlanOK(<<"maintain">>) /\ PlanOK(<<"receive">>) /\ PlanOK(<<"flush">>) /\ PlanOK(<<"open">>)
  <2>1. /\ Tail(<<"maintain">>) = <<>> /\ Tail(<<"receive">>) = <<>> /\ Tail(<<"flush">>) = <<>>
        /\ Tail(<<"open">>) = <<>>
    OBVIOUS
  <2> QED BY <2>1
<1>2. PlanOK(<<"listen">>) /\ PlanOK(<<"unlisten">>) /\ PlanOK(<<"unlisten", "listen">>)
  <2>1. /\ Tail(<<"listen">>) = <<>> /\ Tail(<<"unlisten">>) = <<>>
        /\ Tail(<<"unlisten", "listen">>) = <<"listen">>
    OBVIOUS
  <2> QED BY <2>1
<1>3. PlanOK(<<"release">>) /\ PlanOK(<<"release", "open">>) /\ PlanOK(<<"flush", "release">>)
  <2>1. /\ Tail(<<"release">>) = <<>> /\ Tail(<<"release", "open">>) = <<"open">>
        /\ Tail(<<"flush", "release">>) = <<"release">>
    OBVIOUS
  <2> QED BY <2>1
<1>4. PlanOK(<<"flush", "release", "open">>) /\ PlanOK(<<"release", "unlisten">>)
  <2>1. /\ Tail(<<"flush", "release", "open">>) = <<"release", "open">>
        /\ Tail(<<"release", "unlisten">>) = <<"unlisten">>
    OBVIOUS
  <2> QED BY <2>1
<1>5. PlanOK(<<"release", "unlisten", "listen">>) /\ PlanOK(<<"flush", "release", "unlisten">>)
  <2>1. /\ Tail(<<"release", "unlisten", "listen">>) = <<"unlisten", "listen">>
        /\ Tail(<<"flush", "release", "unlisten">>) = <<"release", "unlisten">>
    OBVIOUS
  <2> QED BY <2>1
<1>6. PlanOK(<<"flush", "release", "unlisten", "listen">>)
  <2>1. Tail(<<"flush", "release", "unlisten", "listen">>) = <<"release", "unlisten", "listen">> OBVIOUS
  <2> QED BY <2>1
<1> HIDE DEF PlanOK, Names
<1> QED BY <1>1, <1>2, <1>3, <1>4, <1>5, <1>6

\* Rows of steps put together
LEMMA Joined ==
  ASSUME NEW S, NEW a \in Seq(S), NEW b \in Seq(S), NEW t \in Seq(S), Len(t) = Len(a) + Len(b),
         \A i \in 1 .. Len(t) : t[i] = IF i <= Len(a) THEN a[i] ELSE b[i - Len(a)]
  PROVE  a \o b = t
<1> DEFINE r == a \o b
<1>1. r \in Seq(S) /\ Len(r) = Len(t) /\ \A i \in 1 .. Len(r) : r[i] = IF i <= Len(a) THEN a[i] ELSE b[i - Len(a)]
  BY ConcatProperties
<1> HIDE DEF r
<1> QED BY <1>1, SeqEqual

LEMMA Joins1 ==
  ASSUME NEW S, NEW a \in S, NEW d \in S
  PROVE  <<a>> \o <<d>> = <<a, d>>
<1> DEFINE x == <<a>>
           y == <<d>>
           t == <<a, d>>
<1>1. /\ x \in Seq(S) /\ y \in Seq(S) /\ t \in Seq(S)
      /\ Len(x) = 1 /\ Len(y) = 1 /\ Len(t) = 2
  OBVIOUS
<1>2. \A i \in 1 .. 2 : t[i] = IF i <= 1 THEN x[i] ELSE y[i - 1] OBVIOUS
<1> HIDE DEF x, y, t
<1>3. Len(t) = Len(x) + Len(y) BY <1>1
<1>4. \A i \in 1 .. Len(t) : t[i] = IF i <= Len(x) THEN x[i] ELSE y[i - Len(x)] BY <1>1, <1>2
<1>5. x \in Seq(S) /\ y \in Seq(S) /\ t \in Seq(S) BY <1>1
<1>6. x \o y = t BY <1>3, <1>4, <1>5, Joined
<1> QED BY <1>6 DEF x, y, t

LEMMA Joins2 ==
  ASSUME NEW S, NEW a \in S, NEW b \in S, NEW d \in S
  PROVE  <<a, b>> \o <<d>> = <<a, b, d>>
<1> DEFINE x == <<a, b>>
           y == <<d>>
           t == <<a, b, d>>
<1>1. /\ x \in Seq(S) /\ y \in Seq(S) /\ t \in Seq(S)
      /\ Len(x) = 2 /\ Len(y) = 1 /\ Len(t) = 3
  OBVIOUS
<1>2. \A i \in 1 .. 3 : t[i] = IF i <= 2 THEN x[i] ELSE y[i - 2] OBVIOUS
<1> HIDE DEF x, y, t
<1>3. Len(t) = Len(x) + Len(y) BY <1>1
<1>4. \A i \in 1 .. Len(t) : t[i] = IF i <= Len(x) THEN x[i] ELSE y[i - Len(x)] BY <1>1, <1>2
<1>5. x \in Seq(S) /\ y \in Seq(S) /\ t \in Seq(S) BY <1>1
<1>6. x \o y = t BY <1>3, <1>4, <1>5, Joined
<1> QED BY <1>6 DEF x, y, t

LEMMA Joins3 ==
  ASSUME NEW S, NEW a \in S, NEW b \in S, NEW c \in S, NEW d \in S
  PROVE  <<a, b, c>> \o <<d>> = <<a, b, c, d>>
<1> DEFINE x == <<a, b, c>>
           y == <<d>>
           t == <<a, b, c, d>>
<1>1. /\ x \in Seq(S) /\ y \in Seq(S) /\ t \in Seq(S)
      /\ Len(x) = 3 /\ Len(y) = 1 /\ Len(t) = 4
  OBVIOUS
<1>2. \A i \in 1 .. 4 : t[i] = IF i <= 3 THEN x[i] ELSE y[i - 3] OBVIOUS
<1> HIDE DEF x, y, t
<1>3. Len(t) = Len(x) + Len(y) BY <1>1
<1>4. \A i \in 1 .. Len(t) : t[i] = IF i <= Len(x) THEN x[i] ELSE y[i - Len(x)] BY <1>1, <1>2
<1>5. x \in Seq(S) /\ y \in Seq(S) /\ t \in Seq(S) BY <1>1
<1>6. x \o y = t BY <1>3, <1>4, <1>5, Joined
<1> QED BY <1>6 DEF x, y, t

Begun(u) == Stopping(u) \o <<"listen">>

LEMMA Calls ==
  ASSUME NEW u \in Udps
  PROVE  /\ Ending(u) = IF Composing(u) THEN <<"flush", "release">> ELSE <<>>
         /\ Ending(u) \o <<"open">> = IF Composing(u) THEN <<"flush", "release", "open">> ELSE <<"open">>
         /\ Stopping(u) = IF Composing(u)
              THEN IF udp[u].linkId = NO_LINK THEN <<"flush", "release">> ELSE <<"flush", "release", "unlisten">>
              ELSE IF udp[u].linkId = NO_LINK THEN <<>> ELSE <<"unlisten">>
         /\ udp[u].linkId # NO_LINK =>
              Begun(u) = IF Composing(u) THEN <<"flush", "release", "unlisten", "listen">> ELSE <<"unlisten", "listen">>
<1>1. /\ <<"flush", "release">> \o <<"open">> = <<"flush", "release", "open">>
      /\ <<"flush", "release">> \o <<"unlisten">> = <<"flush", "release", "unlisten">>
      /\ <<"unlisten">> \o <<"listen">> = <<"unlisten", "listen">>
      /\ <<"flush", "release", "unlisten">> \o <<"listen">> = <<"flush", "release", "unlisten", "listen">>
  <2>1. PICK f \in Names : f = "flush" BY DEF Names
  <2>2. PICK r \in Names : r = "release" BY DEF Names
  <2>3. PICK o \in Names : o = "open" BY DEF Names
  <2>4. PICK n \in Names : n = "unlisten" BY DEF Names
  <2>5. PICK l \in Names : l = "listen" BY DEF Names
  <2>6. f \in Names /\ r \in Names /\ o \in Names /\ n \in Names /\ l \in Names OBVIOUS
  <2>7. <<f, r>> \o <<o>> = <<f, r, o>> /\ <<f, r>> \o <<n>> = <<f, r, n>>
    BY <2>6, Joins2
  <2>8. <<n>> \o <<l>> = <<n, l>> /\ <<f, r, n>> \o <<l>> = <<f, r, n, l>>
    BY <2>6, Joins1, Joins3
  <2> QED BY <2>1, <2>2, <2>3, <2>4, <2>5, <2>7, <2>8
<1>2. <<>> \o <<"open">> = <<"open">> /\ <<>> \o <<"unlisten">> = <<"unlisten">> /\ <<>> \o <<>> = <<>>
  OBVIOUS
<1>3. <<"flush", "release">> \o <<>> = <<"flush", "release">> OBVIOUS
<1>4. Stopping(u) = IF Composing(u)
              THEN IF udp[u].linkId = NO_LINK THEN <<"flush", "release">> ELSE <<"flush", "release", "unlisten">>
              ELSE IF udp[u].linkId = NO_LINK THEN <<>> ELSE <<"unlisten">>
  BY <1>1, <1>2, <1>3 DEF Stopping, Ending
<1> QED BY <1>1, <1>2, <1>4 DEF Ending, Begun

----------------------------------------------------------------------------
(* Steps at receive streams: they leave links, messages and clients alone.   *)

Beside ==
  /\ \A v \in Udps : Tx(v)' = Tx(v) /\ udp'[v].linkId = udp[v].linkId /\ udp'[v].listening = udp[v].listening
  /\ UNCHANGED <<clients, mixed, live, lastConn>>

RxObject(n, o) ==
  /\ sizes'[o] = "rxStream" /\ heap'[o].linkId = NO_LINK /\ (o \in C!Allocated => sizes[o] = "rxStream")
  /\ heap'[o].serialId = 0 => heap'[o] = C!Empty
  /\ \/ heap'[o].serialId = 0
     \/ heap'[o].serialId = heap[o].serialId /\ heap'[o].refCount = heap[o].refCount
     \/ n = To(o)' /\ n.ptr # nullptr /\ heap'[o].refCount = 1

RxStep(u, n) ==
  /\ Grows /\ IsNew(n) /\ Beside
  /\ n.ptr # nullptr => Rx(u)' = n
  /\ \A v \in Udps \ {u} : Rx(v)' = Rx(v)
  /\ PointerSteps(n, "rxStream", Rx(u), Rx(u)')
  /\ \A o \in Objects : (heap'[o] = heap[o] /\ sizes'[o] = sizes[o]) \/ RxObject(n, o)

LEMMA RxFollows ==
  ASSUME Fields, Fields', StreamsOK, NEW u \in Udps, NEW n, RxStep(u, n)
  PROVE  Follows(n)
<1>1. Grows /\ IsNew(n) BY DEF RxStep
<1>2. ASSUME NEW o \in Objects PROVE ObjectSteps(n, o)
  <2>1. CASE heap'[o] = heap[o] BY <2>1 DEF StreamsOK, ObjectSteps
  <2>2. CASE RxObject(n, o) BY <2>2 DEF RxStep, RxObject, ObjectSteps, Referred
  <2> QED BY <2>1, <2>2 DEF RxStep
<1>3. \A v \in Udps : PointerSteps(n, "txStream", Tx(v), Tx(v)') /\ PointerSteps(n, "rxStream", Rx(v), Rx(v)')
  BY DEF RxStep, Beside, PointerSteps
<1>4. ASSUME n.ptr # nullptr, NEW v \in Udps
      PROVE  Tx(v)' # n /\ (Rx(v)' = n => v = u)
  <2>1. n.serialId > serialId BY <1>1, <1>4, Pointers DEF IsNew
  <2>2. Leads(Tx(v), "txStream") /\ Leads(Rx(v), "rxStream") BY DEF StreamsOK
  <2>3. Tx(v) # n /\ Rx(v) # n BY <1>4, <2>1, <2>2, Pointers DEF Leads
  <2> QED BY <2>3 DEF RxStep, Beside
<1>5. \A p \in clients' : p \in clients BY DEF RxStep, Beside
<1>6. \A p \in clients : p \in clients' BY DEF RxStep, Beside
<1> QED BY <1>1, <1>2, <1>3, <1>4, <1>5, <1>6 DEF Follows

\* Who refers to something, refers to the same.
LEMMA RxLeaves ==
  ASSUME Fields, Fields', StreamsOK, NEW u \in Udps, NEW n, RxStep(u, n)
  PROVE  /\ \A v \in Udps : Tx(v).ptr # nullptr => heap'[Tx(v).ptr] = heap[Tx(v).ptr]
         /\ \A v \in Udps : Composing(v)' <=> Composing(v)
         /\ \A p \in clients : heap'[p.ptr] = heap[p.ptr] /\ (C!Valid(World', p) <=> C!Valid(World, p))
         /\ \A v \in Udps \ {u} : Holding(v)' => Holding(v)
<1>1. ASSUME NEW p \in C!Ptrs, p.ptr # nullptr, NEW kind, kind # "rxStream", Leads(p, kind)
      PROVE  heap'[p.ptr] = heap[p.ptr]
  <2>1. p.ptr \in Objects /\ p.ptr \in C!Allocated /\ sizes[p.ptr] = kind BY <1>1, Pointers DEF Leads
  <2>2. sizes'[p.ptr] = kind BY <2>1 DEF RxStep, Grows
  <2> QED BY <1>1, <2>1, <2>2 DEF RxStep, RxObject
<1>2. ASSUME NEW v \in Udps, Tx(v).ptr # nullptr PROVE heap'[Tx(v).ptr] = heap[Tx(v).ptr]
  <2>1. Leads(Tx(v), "txStream") /\ Tx(v) \in C!Ptrs BY Pointers DEF StreamsOK
  <2>2. PICK k \in Kinds : k = "txStream" BY DEF Kinds
  <2> QED BY <1>1, <1>2, <2>1, <2>2
<1>3. ASSUME NEW p \in clients PROVE heap'[p.ptr] = heap[p.ptr] /\ p.ptr # nullptr
  <2>1. p.ptr # nullptr /\ Leads(p, "client") /\ p \in C!Ptrs BY DEF StreamsOK, Fields
  <2>2. PICK k \in Kinds : k = "client" BY DEF Kinds
  <2> QED BY <1>1, <2>1, <2>2
<1>4. World'.heap = heap' BY DEF World
<1>5. ASSUME NEW v \in Udps PROVE Composing(v)' <=> Composing(v)
  <2>1. Composing(v)' <=> Tx(v)'.ptr # nullptr /\ heap'[Tx(v)'.ptr].serialId = Tx(v)'.serialId
    BY <1>4, Zeros DEF Composing, C!Valid
  <2>2. Tx(v)' = Tx(v) BY DEF RxStep, Beside
  <2> QED BY <1>2, <2>1, <2>2, ReferTo
<1>6. ASSUME NEW v \in Udps \ {u}, Holding(v)' PROVE Holding(v)
  <2>1. Rx(v)' = Rx(v) BY DEF RxStep
  <2>2. Rx(v).ptr # nullptr /\ heap'[Rx(v).ptr].serialId = Rx(v).serialId
    BY <1>4, <1>6, <2>1, Zeros DEF Holding, C!Valid
  <2>3. PICK o \in Objects : o = Rx(v).ptr /\ Rx(v).serialId \in 1 .. serialId
    BY <2>2, Pointers DEF StreamsOK, Leads
  <2>4. heap'[o].serialId # 0 BY <2>2, <2>3
  <2>5. ~(n = To(o)' /\ n.ptr # nullptr)
    <3>1. n.ptr # nullptr => n.serialId > serialId BY Pointers DEF RxStep, IsNew
    <3>2. To(o)'.serialId = heap'[o].serialId BY DEF To
    <3> QED BY <2>2, <2>3, <3>1, <3>2, Pointers
  <2>6. heap'[o].serialId = heap[o].serialId BY <2>3, <2>4, <2>5 DEF RxStep, RxObject
  <2> QED BY <2>2, <2>3, <2>6, ReferTo
<1> QED BY <1>2, <1>3, <1>4, <1>5, <1>6, ValidIs

LEMMA RxInv ==
  ASSUME Fields, Fields', StreamsOK, LinksOK, LinksAccounted, NEW u \in Udps, NEW n, RxStep(u, n)
  PROVE  StreamsOK' /\ LinksOK' /\ LinksAccounted'
<1>1. StreamsOK' BY RxFollows, StreamsKept
<1>2. \A v \in Udps : Tx(v)' = Tx(v) /\ udp'[v].linkId = udp[v].linkId /\ udp'[v].listening = udp[v].listening
  BY DEF RxStep, Beside
<1>3. clients' = clients /\ mixed' = mixed /\ live' = live /\ lastConn' = lastConn BY DEF RxStep, Beside
<1>4. ASSUME NEW o \in Objects
      PROVE  /\ heap'[o].linkId = heap[o].linkId
             /\ sizes'[o] = "rxStream" => heap[o].linkId = NO_LINK
             /\ sizes'[o] # "rxStream" => heap'[o] = heap[o] /\ sizes'[o] = sizes[o]
  <2>1. CASE heap'[o] = heap[o] /\ sizes'[o] = sizes[o] BY <2>1 DEF LinksOK
  <2>2. CASE RxObject(n, o)
    <3>1. heap[o].linkId = NO_LINK
      <4>1. CASE o \in C!Allocated BY <2>2, <4>1 DEF RxObject, LinksOK
      <4>2. CASE o \notin C!Allocated BY <4>2, Free, Zeros
      <4> QED BY <4>1, <4>2
    <3> QED BY <2>2, <3>1 DEF RxObject
  <2> QED BY <2>1, <2>2 DEF RxStep
<1>5. LinksOK'
  <2>1. \A v \in Udps : udp'[v].linkId <= lastConn' BY <1>2, <1>3 DEF LinksOK
  <2>2. \A o \in Objects : heap'[o].linkId <= lastConn' BY <1>3, <1>4 DEF LinksOK
  <2>3. \A v, w \in Udps : udp'[v].linkId # NO_LINK /\ udp'[v].linkId = udp'[w].linkId => v = w
    BY <1>2 DEF LinksOK
  <2>4. ASSUME NEW v \in Udps, NEW o \in Objects, udp'[v].linkId # NO_LINK, heap'[o].linkId = udp'[v].linkId
        PROVE  To(o)' = Tx(v)'
    <3>1. heap'[o] = heap[o] /\ To(o) = Tx(v) BY <1>2, <1>4, <2>4 DEF LinksOK
    <3> QED BY <1>2, <3>1 DEF To
  <2>5. \A o \in Objects : sizes'[o] = "rxStream" => heap'[o].linkId = NO_LINK BY <1>4
  <2>6. \A o \in Objects : sizes'[o] # "rxStream" => heap'[o].rx = FALSE BY <1>4 DEF LinksOK
  <2>7. ASSUME NEW v \in Udps, ~mixed', udp'[v].listening, Composing(v)'
        PROVE  heap'[Tx(v)'.ptr].linkId \in {udp'[v].linkId, NO_LINK}
    <3>1. Composing(v) BY <2>7, RxLeaves
    <3>2. heap[Tx(v).ptr].linkId \in {udp[v].linkId, NO_LINK} BY <1>2, <1>3, <2>7, <3>1 DEF LinksOK
    <3>3. heap'[Tx(v).ptr] = heap[Tx(v).ptr] BY <3>1, RxLeaves, ReferTo
    <3> QED BY <1>2, <3>2, <3>3
  <2> QED BY <2>1, <2>2, <2>3, <2>4, <2>5, <2>6, <2>7 DEF LinksOK
<1>6. LinksAccounted'
  <2> SUFFICES ASSUME ~mixed', NEW m \in live'
               PROVE  \/ \E v \in Udps : udp'[v].linkId = m \/ (Composing(v)' /\ heap'[Tx(v)'.ptr].linkId = m)
                      \/ \E p \in clients' : C!Valid(World', p) /\ heap'[p.ptr].linkId = m
    BY DEF LinksAccounted
  <2>1. ~mixed /\ m \in live BY <1>3
  <2>2. CASE \E v \in Udps : udp[v].linkId = m BY <1>2, <2>2
  <2>3. CASE \E v \in Udps : Composing(v) /\ heap[Tx(v).ptr].linkId = m
    <3>1. PICK v \in Udps : Composing(v) /\ heap[Tx(v).ptr].linkId = m BY <2>3
    <3>2. Composing(v)' /\ heap'[Tx(v).ptr] = heap[Tx(v).ptr] BY <3>1, RxLeaves, ReferTo
    <3> QED BY <1>2, <3>1, <3>2
  <2>4. CASE \E p \in clients : C!Valid(World, p) /\ heap[p.ptr].linkId = m
    <3>1. PICK p \in clients : C!Valid(World, p) /\ heap[p.ptr].linkId = m BY <2>4
    <3>2. C!Valid(World', p) /\ heap'[p.ptr] = heap[p.ptr] BY <3>1, RxLeaves
    <3> QED BY <1>3, <3>1, <3>2
  <2> QED BY <2>1, <2>2, <2>3, <2>4 DEF LinksAccounted
<1> QED BY <1>1, <1>5, <1>6

----------------------------------------------------------------------------
(* The steps at u's receive stream *)

LEMMA DropIs ==
  ASSUME NEW w \in Worlds, NEW p \in C!Ptrs, p.ptr \in Objects, p.serialId # 0,
         w.heap[p.ptr].serialId = 0 => w.heap[p.ptr] = C!Empty
  PROVE  /\ Dropped(w, p).world.heap = [w.heap EXCEPT ![p.ptr] = C!Empty]
         /\ Dropped(w, p).world.live = w.live /\ Dropped(w, p).ptr = [p EXCEPT !.ptr = nullptr]
<1> DEFINE v == C!Free(w, p.ptr)
<1>1. v.heap = [w.heap EXCEPT ![p.ptr] = C!Empty] /\ v.live = w.live BY FreeIs
<1>2. v.heap[p.ptr].serialId = 0 BY <1>1, Zeros DEF Worlds
<1>3. ~C!Valid(v, p) BY <1>2, ValidIs
<1> HIDE DEF v
<1>4. C!TakeOver(v, p, C!Fresh).world = v /\ C!TakeOver(v, p, C!Fresh).ptr = [p EXCEPT !.ptr = nullptr]
  BY <1>3, TakeOverFresh
<1> QED BY <1>1, <1>4 DEF Dropped, v

LEMMA CheckedIs ==
  ASSUME Fields, StreamsOK, NEW u \in Udps
  PROVE  /\ Checked(World, Rx(u)) \in Worlds /\ Checked(World, Rx(u)).live = live
         /\ Checked(World, Rx(u)).heap =
              IF Holding(u) /\ ~Unread(u) THEN [heap EXCEPT ![Rx(u).ptr] = C!Empty] ELSE heap
<1>1. Holding(u) <=> C!Valid(World, Rx(u)) BY DEF Holding
<1>2. Unread(u) <=> Holding(u) /\ World.heap[Rx(u).ptr].rx BY ValidIs DEF Unread
<1>3. CASE Holding(u) /\ ~Unread(u)
  <2>1. Rx(u).ptr \in Objects BY <1>3, ReferTo DEF Refers
  <2>2. Checked(World, Rx(u)) = C!Free(World, Rx(u).ptr) BY <1>1, <1>2, <1>3 DEF Checked
  <2>3. World.heap[Rx(u).ptr].serialId = 0 => World.heap[Rx(u).ptr] = C!Empty BY <2>1, Free, ValidIs
  <2> QED BY <1>3, <2>1, <2>2, <2>3, Free, FreeIs, ValidIs
<1>4. CASE ~(Holding(u) /\ ~Unread(u))
  <2>1. Checked(World, Rx(u)) = World BY <1>1, <1>2, <1>4 DEF Checked
  <2> QED BY <1>4, <2>1, Free, ValidIs
<1> QED BY <1>3, <1>4

(* The world in which the stream for a datagram is requested: u has none.   *)
Vacant(u, w) ==
  /\ w \in Worlds /\ ~C!Valid(w, Rx(u))
  /\ \A o \in Objects : w.heap[o] = heap[o] \/ (w.heap[o] = C!Empty /\ o = Rx(u).ptr /\ Holding(u))

LEMMA IsVacant ==
  ASSUME Fields, StreamsOK, NEW u \in Udps, ~Unread(u)
  PROVE  Vacant(u, Checked(World, Rx(u))) /\ (~Holding(u) => Vacant(u, World))
<1>1. ~Holding(u) => Vacant(u, World) BY Free, ValidIs DEF Vacant, Holding
<1> DEFINE w == Checked(World, Rx(u))
<1>2. w \in Worlds BY CheckedIs
<1>3. CASE Holding(u)
  <2>1. w.heap = [heap EXCEPT ![Rx(u).ptr] = C!Empty] BY <1>3, CheckedIs
  <2>2. Refers(Rx(u), "rxStream") BY <1>3, ReferTo
  <2>3. w.heap[Rx(u).ptr] = C!Empty /\ \A o \in Objects \ {Rx(u).ptr} : w.heap[o] = heap[o]
    BY <2>1, <2>2 DEF Refers, Fields
  <2>4. ~C!Valid(w, Rx(u)) BY <2>2, <2>3, ValidIs, Zeros DEF Refers
  <2> HIDE DEF w
  <2> QED BY <1>1, <1>2, <1>3, <2>3, <2>4 DEF Vacant, w
<1>4. CASE ~Holding(u)
  <2>1. w.heap = heap BY <1>4, CheckedIs
  <2>2. ~C!Valid(w, Rx(u)) BY <1>4, <2>1, ValidIs DEF Holding
  <2> HIDE DEF w
  <2> QED BY <1>1, <1>2, <2>1, <2>2 DEF Vacant, w
<1> QED BY <1>3, <1>4

LEMMA VacantRequest ==
  ASSUME Fields, StreamsOK, NEW u \in Udps, NEW w, Vacant(u, w), Room(w), NEW q, NEW r,
         q = Request(w, NO_LINK, "rxStream"), Pooled(q), r = C!TakeOver(q.world, Rx(u), q.ptr)
  PROVE  \E o \in Objects :
           /\ Taken(w, "rxStream", o) /\ r.ptr = NewPtr(o) /\ NewPtr(o) \in C!Ptrs
           /\ r.world.heap = [w.heap EXCEPT ![o] = NewStream(serialId + 1, NO_LINK)]
           /\ r.world \in Worlds
<1>1. /\ PoolType /\ sizes \in [Objects -> Kinds \cup {"none"}]
      /\ \A o \in Objects : w.heap[o].serialId <= serialId
      /\ \A o \in Objects \ C!Allocated : w.heap[o].serialId = 0
  <2>1. \A o \in Objects : w.heap[o] = heap[o] \/ w.heap[o] = C!Empty BY DEF Vacant
  <2> QED BY <2>1, Free, Zeros, Pointers
<1>2. w \in Worlds /\ Candidates(w, "rxStream") # {} BY DEF Vacant, Room
<1>3. PICK k \in Kinds : k = "rxStream" BY DEF Kinds
<1>4. PICK o \in Objects : /\ Taken(w, k, o)
                           /\ q.world.heap = [w.heap EXCEPT ![o] = NewStream(serialId + 1, NO_LINK)]
                           /\ q.world \in Worlds /\ q.ptr = NewPtr(o)
  <2>1. q = Request(w, NO_LINK, k) /\ Candidates(w, k) # {} BY <1>2, <1>3
  <2>2. NO_LINK \in C!Conns \cup {NO_LINK} OBVIOUS
  <2> DEFINE c == NO_LINK
  <2>3. c \in C!Conns \cup {NO_LINK} /\ q = Request(w, c, k) BY <2>1, <2>2
  <2>4. NewStream(serialId + 1, c) = NewStream(serialId + 1, NO_LINK) OBVIOUS
  <2> HIDE DEF c
  <2>5. Pooled(q) OBVIOUS
  <2>6. \/ Candidates(w, k) = {} /\ q.world = w /\ q.ptr = C!Fresh /\ SamePool
        \/ /\ Candidates(w, k) # {}
           /\ \E o \in Objects :
                /\ Taken(w, k, o)
                /\ q.world.heap = [w.heap EXCEPT ![o] = NewStream(serialId + 1, c)]
                /\ q.world.live = w.live /\ q.ptr = NewPtr(o) /\ q.world \in Worlds
    BY <1>1, <1>2, <2>3, <2>5, RequestIs
  <2> QED BY <2>1, <2>4, <2>6
<1>5. serialId + 1 \in 0 .. SERIALS - 1 /\ serialId \in Nat
  BY <1>4, BoundsAssumption DEF Taken, Fields
<1>6. NewPtr(o) \in C!Ptrs /\ NewPtr(o).ptr = o /\ o # nullptr /\ NewPtr(o).serialId = serialId + 1
  BY <1>5, Zeros DEF NewPtr, C!Ptrs
<1>7. Rx(u) \in C!Ptrs /\ Rx(u).serialId <= serialId /\ (Rx(u).ptr # nullptr => Rx(u).ptr \in Objects)
  BY Pointers, <1>5 DEF StreamsOK, Leads
<1>8. NewStream(serialId + 1, NO_LINK) \in C!Streams /\ NewStream(serialId + 1, NO_LINK).serialId = serialId + 1
  BY <1>5, Zeros DEF NewStream, C!Streams, C!NO_LINK
<1>9. ~C!Valid(q.world, Rx(u))
  <2> SUFFICES ASSUME Rx(u).ptr # nullptr, q.world.heap[Rx(u).ptr].serialId = Rx(u).serialId PROVE FALSE
    BY ValidIs
  <2>1. Rx(u).ptr \in Objects /\ Rx(u).serialId <= serialId BY <1>7
  <2>2. CASE Rx(u).ptr = o BY <1>2, <1>4, <1>5, <1>8, <2>1, <2>2, Pointers DEF Worlds
  <2>3. CASE Rx(u).ptr # o
    <3>1. w.heap[Rx(u).ptr].serialId = Rx(u).serialId BY <1>2, <1>4, <2>1, <2>3 DEF Worlds
    <3> QED BY <3>1, ValidIs DEF Vacant
  <2> QED BY <2>2, <2>3
<1>10. Rx(u).serialId # NewPtr(o).serialId BY <1>5, <1>6, <1>7, Pointers
<1>11. r.world = q.world /\ r.ptr = NewPtr(o)
  BY <1>4, <1>6, <1>7, <1>9, <1>10, TakeOverNew
<1>12. Taken(w, "rxStream", o) BY <1>3, <1>4
<1> QED BY <1>4, <1>6, <1>11, <1>12

LEMMA FillIs ==
  ASSUME Fields, StreamsOK, NEW u \in Udps, NEW w, Vacant(u, w), NEW d, Fill(u, w, d)
  PROVE  \E o \in Objects :
           /\ Taken(w, "rxStream", o)
           /\ heap' = [w.heap EXCEPT ![o] = [NewStream(serialId + 1, NO_LINK) EXCEPT !.rx = TRUE]]
           /\ packet' = [packet EXCEPT ![o] = d]
           /\ udp' = [udp EXCEPT ![u].rxStream = NewPtr(o)]
<1> DEFINE q == Request(w, NO_LINK, "rxStream")
           r == C!TakeOver(q.world, Rx(u), q.ptr)
<1>1. /\ Room(w) /\ Pooled(q)
      /\ heap' = [r.world.heap EXCEPT ![r.ptr.ptr].rx = TRUE]
      /\ packet' = [packet EXCEPT ![r.ptr.ptr] = d]
      /\ udp' = [udp EXCEPT ![u].rxStream = r.ptr]
  BY DEF Fill
<1>2. PICK o \in Objects :
           /\ Taken(w, "rxStream", o) /\ r.ptr = NewPtr(o) /\ NewPtr(o) \in C!Ptrs
           /\ r.world.heap = [w.heap EXCEPT ![o] = NewStream(serialId + 1, NO_LINK)]
           /\ r.world \in Worlds
  BY <1>1, VacantRequest
<1> HIDE DEF q, r
<1>3. r.ptr.ptr = o BY <1>2 DEF NewPtr
<1>4. heap' = [w.heap EXCEPT ![o] = [NewStream(serialId + 1, NO_LINK) EXCEPT !.rx = TRUE]]
  <2>1. heap' = [r.world.heap EXCEPT ![o] = [r.world.heap[o] EXCEPT !.rx = TRUE]] BY <1>1, <1>3
  <2>2. w.heap \in [Objects -> C!Streams] BY DEF Vacant, Worlds
  <2> QED BY <1>2, <2>1, <2>2
<1> QED BY <1>1, <1>2, <1>3, <1>4

LEMMA WasteIs ==
  ASSUME Fields, StreamsOK, NEW u \in Udps, NEW w, Vacant(u, w), Waste(u, w)
  PROVE  \E o \in Objects :
           /\ Taken(w, "rxStream", o) /\ heap' = w.heap /\ Emptied
           /\ udp' = [udp EXCEPT ![u].rxStream = [NewPtr(o) EXCEPT !.ptr = nullptr]]
<1> DEFINE q == Request(w, NO_LINK, "rxStream")
           r == C!TakeOver(q.world, Rx(u), q.ptr)
           d == Dropped(r.world, r.ptr)
<1>1. Room(w) /\ Pooled(q) /\ heap' = d.world.heap /\ Emptied /\ udp' = [udp EXCEPT ![u].rxStream = d.ptr]
  BY DEF Waste
<1>2. PICK o \in Objects :
           /\ Taken(w, "rxStream", o) /\ r.ptr = NewPtr(o) /\ NewPtr(o) \in C!Ptrs
           /\ r.world.heap = [w.heap EXCEPT ![o] = NewStream(serialId + 1, NO_LINK)]
           /\ r.world \in Worlds
  BY <1>1, VacantRequest
<1> HIDE DEF q, r
<1>3. r.ptr.ptr = o /\ r.ptr.serialId = serialId + 1 /\ serialId + 1 # 0
  BY <1>2, Pointers DEF NewPtr
<1>4. w.heap \in [Objects -> C!Streams] /\ w.heap[o] = C!Empty
  BY <1>2, Free DEF Vacant, Worlds, Taken
<1>5. r.world.heap[o].serialId # 0
  BY <1>2, <1>3, <1>4 DEF NewStream
<1>6. d.world.heap = [r.world.heap EXCEPT ![o] = C!Empty] /\ d.ptr = [NewPtr(o) EXCEPT !.ptr = nullptr]
  <2>1. r.ptr \in C!Ptrs /\ r.ptr.ptr \in Objects /\ r.ptr.serialId # 0 BY <1>2, <1>3
  <2>2. r.world.heap[r.ptr.ptr].serialId = 0 => r.world.heap[r.ptr.ptr] = C!Empty BY <1>3, <1>5
  <2>3. r.world \in Worlds BY <1>2
  <2>4. /\ Dropped(r.world, r.ptr).world.heap = [r.world.heap EXCEPT ![r.ptr.ptr] = C!Empty]
        /\ Dropped(r.world, r.ptr).ptr = [r.ptr EXCEPT !.ptr = nullptr]
    BY <2>1, <2>2, <2>3, DropIs
  <2> QED BY <1>2, <1>3, <2>4 DEF d
<1>7. d.world.heap = w.heap BY <1>2, <1>4, <1>6
<1> QED BY <1>1, <1>2, <1>6, <1>7

LEMMA UdpRx ==
  ASSUME Fields, NEW u \in Udps, NEW p \in C!Ptrs, udp' = [udp EXCEPT ![u].rxStream = p]
  PROVE  /\ udp' \in [Udps -> Udp] /\ Rx(u)' = p /\ \A v \in Udps \ {u} : Rx(v)' = Rx(v)
         /\ \A v \in Udps : Tx(v)' = Tx(v) /\ udp'[v].linkId = udp[v].linkId /\ udp'[v].listening = udp[v].listening
<1>1. udp \in [Udps -> Udp] BY DEF Fields
<1>2. /\ udp' \in [Udps -> Udp] /\ udp'[u].rxStream = p /\ udp'[u].txStream = udp[u].txStream
      /\ udp'[u].linkId = udp[u].linkId /\ udp'[u].listening = udp[u].listening
      /\ \A v \in Udps \ {u} : udp'[v] = udp[v]
  BY <1>1 DEF Udp
<1> QED BY <1>2 DEF Tx, Rx

LEMMA SamePoolGrows ==
  ASSUME Fields, SamePool
  PROVE  Grows /\ IsNew(C!Fresh) /\ C!Fresh.ptr = nullptr
<1>1. C!Allocated' = C!Allocated BY DEF SamePool, C!Allocated
<1> QED BY <1>1, Zeros, Pointers DEF SamePool, Grows, IsNew

\* Nothing happens to the streams.
LEMMA RxSame ==
  ASSUME Fields, NEW u \in Udps, SamePool, heap' = heap, Beside, \A v \in Udps : Rx(v)' = Rx(v)
  PROVE  RxStep(u, C!Fresh)
BY SamePoolGrows DEF RxStep, SamePool, PointerSteps

\* u's stream is freed.
LEMMA RxFrees ==
  ASSUME Fields, StreamsOK, NEW u \in Udps, SamePool, Holding(u), Beside, \A v \in Udps \ {u} : Rx(v)' = Rx(v),
         heap' = [heap EXCEPT ![Rx(u).ptr] = C!Empty], Rx(u)' \in {Rx(u), [Rx(u) EXCEPT !.ptr = nullptr]}
  PROVE  RxStep(u, C!Fresh)
<1>1. Refers(Rx(u), "rxStream") BY ReferTo
<1>2. heap'[Rx(u).ptr] = C!Empty /\ \A o \in Objects \ {Rx(u).ptr} : heap'[o] = heap[o] BY <1>1 DEF Refers, Fields
<1>3. Lost(Rx(u)) BY <1>1, <1>2, Zeros DEF Lost, Refers
<1>4. Rx(u)' = Rx(u) \/ (Rx(u)'.ptr = nullptr /\ Rx(u)'.serialId = Rx(u).serialId) BY Pointers DEF C!Ptrs
<1>5. Rx(u).serialId \in 0 .. serialId' BY DEF StreamsOK, Leads, SamePool
<1>6. PointerSteps(C!Fresh, "rxStream", Rx(u), Rx(u)') BY <1>3, <1>4, <1>5 DEF PointerSteps
<1>7. ASSUME NEW o \in Objects PROVE (heap'[o] = heap[o] /\ sizes'[o] = sizes[o]) \/ RxObject(C!Fresh, o)
  <2>1. CASE o = Rx(u).ptr BY <1>1, <1>2, <2>1, Zeros DEF RxObject, Refers, SamePool
  <2>2. CASE o # Rx(u).ptr BY <1>2, <2>2 DEF SamePool
  <2> QED BY <2>1, <2>2
<1> QED BY <1>6, <1>7, SamePoolGrows DEF RxStep

\* u's datagram is read.
LEMMA RxReads ==
  ASSUME Fields, StreamsOK, NEW u \in Udps, SamePool, Holding(u), Beside, \A v \in Udps : Rx(v)' = Rx(v),
         NEW rest \in BOOLEAN, heap' = [heap EXCEPT ![Rx(u).ptr].rx = rest], LinksOK
  PROVE  RxStep(u, C!Fresh)
<1>1. Refers(Rx(u), "rxStream") BY ReferTo
<1>2. \A o \in Objects \ {Rx(u).ptr} : heap'[o] = heap[o] BY <1>1 DEF Refers, Fields
<1>3. /\ heap'[Rx(u).ptr].serialId = heap[Rx(u).ptr].serialId /\ heap'[Rx(u).ptr].refCount = heap[Rx(u).ptr].refCount
      /\ heap'[Rx(u).ptr].linkId = heap[Rx(u).ptr].linkId
  BY <1>1 DEF Refers, Fields, C!Streams
<1>4. ASSUME NEW o \in Objects PROVE (heap'[o] = heap[o] /\ sizes'[o] = sizes[o]) \/ RxObject(C!Fresh, o)
  <2>1. CASE o = Rx(u).ptr BY <1>1, <1>3, <2>1, Zeros DEF RxObject, Refers, SamePool, LinksOK
  <2>2. CASE o # Rx(u).ptr BY <1>2, <2>2 DEF SamePool
  <2> QED BY <2>1, <2>2
<1> QED BY <1>4, SamePoolGrows DEF RxStep, PointerSteps

\* u takes a stream, and keeps it or gives it back.
LEMMA RxTakes ==
  ASSUME Fields, StreamsOK, NEW u \in Udps, NEW w, Vacant(u, w), NEW o \in Objects, Taken(w, "rxStream", o),
         Beside, \A v \in Udps \ {u} : Rx(v)' = Rx(v)
  PROVE  /\ heap' = [w.heap EXCEPT ![o] = [NewStream(serialId + 1, NO_LINK) EXCEPT !.rx = TRUE]]
              /\ Rx(u)' = NewPtr(o)
            => RxStep(u, NewPtr(o))
         /\ heap' = w.heap /\ Rx(u)' = [NewPtr(o) EXCEPT !.ptr = nullptr] => RxStep(u, C!Fresh)
<1>1. /\ NewPtr(o).ptr = o /\ NewPtr(o).serialId = serialId' /\ o # nullptr /\ serialId' = serialId + 1
      /\ [NewPtr(o) EXCEPT !.ptr = nullptr].ptr = nullptr /\ [NewPtr(o) EXCEPT !.ptr = nullptr].serialId = serialId'
      /\ serialId \in Nat
  BY Zeros, Pointers DEF NewPtr, Taken
<1>2. Grows
  <2>1. \A p \in C!Allocated : p \in Objects /\ sizes'[p] = sizes[p] BY Pointers DEF Taken
  <2> QED BY <1>1, <2>1 DEF Grows, Taken
<1>3. IsNew(NewPtr(o)) /\ IsNew(C!Fresh) BY <1>1, Zeros DEF IsNew, Taken
<1>4. w.heap \in [Objects -> C!Streams] BY DEF Vacant, Worlds
<1>5. Rx(u).serialId \in 0 .. serialId /\ (Rx(u).ptr # nullptr => Rx(u).ptr \in Objects /\ sizes[Rx(u).ptr] = "rxStream")
  BY Pointers DEF StreamsOK, Leads
<1>6. ASSUME NEW p \in Objects, p # o, heap'[p] = w.heap[p], NEW n
      PROVE  (heap'[p] = heap[p] /\ sizes'[p] = sizes[p]) \/ RxObject(n, p)
  <2>1. sizes'[p] = sizes[p] BY <1>6 DEF Taken
  <2>2. CASE w.heap[p] = heap[p] BY <1>6, <2>1, <2>2
  <2>3. CASE w.heap[p] = C!Empty /\ p = Rx(u).ptr /\ Holding(u)
    <3>1. sizes[p] = "rxStream" BY <2>3, ReferTo DEF Refers
    <3> QED BY <1>6, <2>1, <2>3, <3>1, Zeros DEF RxObject
  <2> QED BY <2>2, <2>3 DEF Vacant
<1>7. ASSUME heap' = [w.heap EXCEPT ![o] = [NewStream(serialId + 1, NO_LINK) EXCEPT !.rx = TRUE]],
             Rx(u)' = NewPtr(o)
      PROVE  RxStep(u, NewPtr(o))
  <2>1. /\ heap'[o].serialId = serialId + 1 /\ heap'[o].refCount = 1 /\ heap'[o].linkId = NO_LINK
        /\ \A p \in Objects \ {o} : heap'[p] = w.heap[p]
    BY <1>4, <1>7 DEF NewStream
  <2>2. RxObject(NewPtr(o), o)
    <3>1. To(o)' = NewPtr(o) BY <1>1, <2>1 DEF To, NewPtr
    <3> QED BY <1>1, <2>1, <3>1 DEF RxObject, Taken
  <2>3. Lost(Rx(u))
    <3> SUFFICES ASSUME Rx(u).ptr # nullptr, heap'[Rx(u).ptr].serialId = Rx(u).serialId PROVE FALSE BY DEF Lost
    <3>1. Rx(u).ptr # o BY <1>1, <1>5, <2>1
    <3>2. w.heap[Rx(u).ptr].serialId = Rx(u).serialId BY <1>5, <2>1, <3>1
    <3> QED BY <3>2, ValidIs DEF Vacant
  <2>4. PointerSteps(NewPtr(o), "rxStream", Rx(u), Rx(u)') BY <1>1, <1>7, <2>3 DEF PointerSteps, Taken
  <2> QED BY <1>1, <1>2, <1>3, <1>6, <1>7, <2>1, <2>2, <2>4 DEF RxStep
<1>8. ASSUME heap' = w.heap, Rx(u)' = [NewPtr(o) EXCEPT !.ptr = nullptr]
      PROVE  RxStep(u, C!Fresh)
  <2>1. heap'[o] = C!Empty BY <1>4, <1>8, Free, Zeros DEF Vacant, Taken
  <2>2. RxObject(C!Fresh, o) BY <2>1, Zeros DEF RxObject, Taken
  <2>3. Lost(Rx(u)) BY <1>8, ValidIs DEF Lost, Vacant
  <2>4. PointerSteps(C!Fresh, "rxStream", Rx(u), Rx(u)')
    BY <1>1, <1>8, <2>3 DEF PointerSteps
  <2>5. C!Fresh.ptr = nullptr BY Zeros
  <2> QED BY <1>2, <1>3, <1>6, <1>8, <2>2, <2>4, <2>5 DEF RxStep
<1> QED BY <1>7, <1>8

----------------------------------------------------------------------------
(* The running call, and what is on its way *)

LEMMA CallEnds ==
  ASSUME Fields, Returns
  PROVE  /\ Idle' /\ CallOK' /\ call' = [udp |-> It', steps |-> call.steps'] /\ call.steps' \in Plans
         /\ (~Idle' => It' \in Udps)
<1>1. call' = [udp |-> It, steps |-> <<>>] BY DEF Fields, Returns, It
<1>2. call.steps' = <<>> /\ Idle' /\ It' = It BY <1>1 DEF Idle, It
<1>3. <<>> \notin GivesUp BY DEF GivesUp, Ends, ReleasesEnds
<1>4. <<>> \in Plans BY DEF Plans, Short
<1> QED BY <1>1, <1>2, <1>3, <1>4 DEF CallOK, At

LEMMA CallProceeds ==
  ASSUME Fields, NEW step, At(step), Proceeds
  PROVE  /\ It \in Udps /\ It' = It /\ call' = [udp |-> It', steps |-> call.steps'] /\ call.steps' \in Plans
         /\ (~Idle' => It' \in Udps)
         /\ step = "flush" /\ ~Idle' => At("release")'
         /\ step = "release" /\ ~Idle' => At("open")' \/ At("unlisten")'
         /\ step = "unlisten" /\ ~Idle' => At("listen")'
         /\ call.steps' \in GivesUp => call.steps \in GivesUp
         /\ step \in {"listen", "unlisten"} => call.steps \in GivesUp
<1>1. It \in Udps /\ call.steps \in Plans /\ call.steps # <<>> /\ Head(call.steps) = step BY DEF Fields, At, Idle
<1>2. call' = [udp |-> It, steps |-> Tail(call.steps)] BY DEF Fields, Proceeds, It
<1>3. It' = It /\ call.steps' = Tail(call.steps) BY <1>2 DEF It
<1>4. PlanOK(call.steps) BY <1>1, PlanSteps
<1> QED BY <1>1, <1>2, <1>3, <1>4 DEF PlanOK, Idle, At

LEMMA CallStarts ==
  ASSUME NEW u \in Udps, NEW steps \in Plans, Starts(u, steps)
  PROVE  /\ It' = u /\ call.steps' = steps /\ call' = [udp |-> It', steps |-> call.steps']
         /\ (~Idle' => It' \in Udps)
         /\ \A step : At(step)' <=> steps # <<>> /\ Head(steps) = step
BY DEF Starts, It, Idle, At

\* The beginnings of the rows of steps that a call may start with
LEMMA Rows ==
  /\ <<"flush", "release">> \in Plans \ GivesUp /\ <<"flush", "release", "open">> \in Plans \ GivesUp
  /\ <<"flush", "release", "unlisten">> \in GivesUp /\ <<"flush", "release", "unlisten", "listen">> \in GivesUp
  /\ <<"unlisten">> \in GivesUp /\ <<"unlisten", "listen">> \in GivesUp /\ <<"listen">> \in GivesUp
  /\ <<"open">> \in Plans \ GivesUp /\ <<"flush">> \in Plans \ GivesUp /\ <<>> \in Plans \ GivesUp
  /\ <<"maintain">> \in Plans \ GivesUp /\ <<"receive">> \in Plans \ GivesUp
  /\ GivesUp \subseteq Plans
BY DEF Plans, Short, Ends, Releases, ReleasesEnds, GivesUp

Datagrams(n) == Seq([id : Nat, conn : 1 .. n])

LEMMA Removes ==
  ASSUME Fields, NEW n \in DOMAIN arrived, Remove(n)
  PROVE  arrived' \in Datagrams(lastConn) /\ arrived[n].id \in Nat /\ arrived[n].conn \in 1 .. lastConn
<1>1. arrived \in Datagrams(lastConn) BY DEF Fields, Datagrams
<1> DEFINE S == [id : Nat, conn : 1 .. lastConn]
<1>2. n \in 1 .. Len(arrived) BY <1>1 DEF Datagrams
<1>3. Len(arrived) \in Nat /\ \A i \in 1 .. Len(arrived) : arrived[i] \in S
  <2>1. arrived \in Seq(S) BY <1>1 DEF Datagrams
  <2> HIDE DEF S
  <2> QED BY <2>1, ElementOfSeq
<1>4. SubSeq(arrived, 1, n - 1) \in Seq(S)
  <2>1. 1 \in Int /\ n - 1 \in Int BY <1>2
  <2>2. \A i \in 1 .. n - 1 : arrived[i] \in S BY <1>2, <1>3
  <2> QED BY <2>1, <2>2, SubSeqProperties
<1>5. SubSeq(arrived, n + 1, Len(arrived)) \in Seq(S)
  <2>1. Len(arrived) \in Int /\ n + 1 \in Int BY <1>1, <1>2 DEF Datagrams
  <2>2. \A i \in n + 1 .. Len(arrived) : arrived[i] \in S BY <1>2, <1>3
  <2> QED BY <2>1, <2>2, SubSeqProperties
<1>6. arrived[n] \in S BY <1>1, <1>2, ElementOfSeq DEF Datagrams
<1>7. arrived' \in Seq(S) BY <1>4, <1>5, ConcatProperties DEF Remove
<1> QED BY <1>6, <1>7 DEF Datagrams

LEMMA Arrived ==
  ASSUME Fields, NEW n \in DOMAIN arrived
  PROVE  arrived[n].id \in Nat /\ arrived[n].conn \in 1 .. lastConn
<1>1. arrived \in Seq([id : Nat, conn : 1 .. lastConn]) BY DEF Fields
<1>2. n \in 1 .. Len(arrived) BY <1>1
<1>3. arrived[n] \in [id : Nat, conn : 1 .. lastConn] BY <1>1, <1>2, ElementOfSeq
<1> QED BY <1>3

LEMMA EmptiedPackets ==
  ASSUME Fields, Emptied
  PROVE  packet' \in [Objects -> Packets] /\ \A o \in Objects : heap'[o].serialId # 0 => packet'[o] = packet[o]
<1>1. NoPacket \in Packets BY Zeros, BoundsAssumption DEF NoPacket, Packets
<1> QED BY <1>1 DEF Emptied, Fields

(* The rest of the types, in a step at a receive stream *)
LEMMA RxFields ==
  ASSUME Fields, Beside, heap' \in [Objects -> C!Streams], packet' \in [Objects -> Packets],
         pool' \in [Slots -> Objects \cup {nullptr}], serialId' \in 0 .. SERIALS - 1,
         sizes' \in [Objects -> Kinds \cup {"none"}], udp' \in [Udps -> Udp],
         call' = [udp |-> It', steps |-> call.steps'], call.steps' \in Plans, ~Idle' => It' \in Udps,
         lastPacket' \in Nat, arrived' \in Datagrams(lastConn)
  PROVE  Fields'
<1>1. \A v \in Udps : udp'[v].listening = (udp'[v].linkId # NO_LINK) BY DEF Fields, Beside
<1> QED BY <1>1 DEF Fields, Beside, Datagrams

LEMMA OwnedKept ==
  ASSUME Fields, Owned, at1' = at1,
         ~at1 => \A v \in Udps : Holding(v)' =>
           /\ Holding(v) /\ Rx(v)' = Rx(v) /\ udp'[v].linkId = udp[v].linkId
           /\ packet'[Rx(v).ptr].conn = packet[Rx(v).ptr].conn
  PROVE  Owned'
BY DEF Owned

LEMMA CallKept ==
  ASSUME Fields, CallOK, call' = call, at1' = at1,
         \A v \in Udps : /\ Tx(v)' = Tx(v) /\ udp'[v].linkId = udp[v].linkId /\ (Composing(v)' <=> Composing(v))
                         /\ Tx(v).ptr # nullptr => heap'[Tx(v).ptr].serialId = heap[Tx(v).ptr].serialId,
         ~at1 => \A v \in Udps : Holding(v)' => Holding(v)
  PROVE  CallOK'
<1>1. CASE Idle
  <2>1. Idle' /\ call.steps' = <<>> BY <1>1 DEF Idle
  <2>2. <<>> \notin GivesUp BY Rows
  <2> QED BY <2>1, <2>2 DEF CallOK, At
<1>2. CASE ~Idle
  <2>1. PICK v \in Udps : v = It BY <1>2 DEF Fields
  <2>2. It' = v /\ call.steps' = call.steps /\ \A step : At(step)' <=> At(step) BY <2>1 DEF It, At, Idle
  <2>3. Tx(It)' = Tx(v)' /\ udp'[It'].linkId = udp'[v].linkId
        /\ (Composing(It)' <=> Composing(v)') /\ (Holding(It)' <=> Holding(v)')
    BY <2>2 DEF Composing, Holding, Tx, Rx
  <2> QED BY <2>1, <2>2, <2>3 DEF CallOK
<1> QED BY <1>1, <1>2

----------------------------------------------------------------------------
(* The steps that receive *)

LEMMA WorldTypes ==
  ASSUME NEW w \in Worlds, NEW o \in Objects, serialId' = serialId + 1, serialId' \in 0 .. SERIALS - 1
  PROVE  /\ w.heap \in [Objects -> C!Streams]
         /\ [w.heap EXCEPT ![o] = [NewStream(serialId + 1, NO_LINK) EXCEPT !.rx = TRUE]] \in [Objects -> C!Streams]
<1>1. [NewStream(serialId + 1, NO_LINK) EXCEPT !.rx = TRUE] \in C!Streams
  BY Zeros DEF NewStream, C!Streams, C!NO_LINK
<1>2. w.heap \in [Objects -> C!Streams] BY DEF Worlds
<1> QED BY <1>1, <1>2

LEMMA NewPtrTypes ==
  ASSUME NEW o \in Objects, serialId' = serialId + 1, serialId' \in 0 .. SERIALS - 1
  PROVE  NewPtr(o) \in C!Ptrs /\ [NewPtr(o) EXCEPT !.ptr = nullptr] \in C!Ptrs
BY Zeros DEF NewPtr, C!Ptrs

\* What a step at a receive stream leaves to be shown
LEMMA RxRest ==
  ASSUME IInv, NEW u \in Udps, NEW n, RxStep(u, n), Fields', CallOK', Owned'
  PROVE  IInv'
BY RxInv DEF IInv

\* What a stream takes is a datagram of the listener's link, or none.
LEMMA FillsWith ==
  ASSUME Fields, NEW u, NEW w, NEW n \in DOMAIN arrived, Store(u, w, n) \/ Stale(u, w)
  PROVE  \E d \in Packets : Fill(u, w, d) /\ d.conn \in {arrived[n].conn, NO_LINK}
<1>1. arrived[n].id \in Nat /\ arrived[n].conn \in 0 .. MaxConn
  <2>1. arrived[n].id \in Nat /\ arrived[n].conn \in 1 .. lastConn BY Arrived
  <2>2. lastConn \in 0 .. MaxConn /\ MaxConn \in Nat BY BoundsAssumption DEF Fields
  <2> QED BY <2>1, <2>2
<1>2. 0 \in 0 .. MaxConn BY BoundsAssumption
<1>3. NoPacket \in Packets /\ NoPacket.conn = NO_LINK BY <1>2, Zeros DEF NoPacket, Packets
<1> DEFINE d == [id |-> arrived[n].id, conn |-> arrived[n].conn, begun |-> FALSE]
<1>4. d \in Packets /\ d.conn = arrived[n].conn BY <1>1 DEF Packets
<1> QED BY <1>3, <1>4 DEF Store, Stale

\* u's stream takes a datagram or stale bytes, or is freed again.
LEMMA ReceivesStep ==
  ASSUME Fields, StreamsOK, NEW u \in Udps, NEW w, Vacant(u, w), NEW n \in DOMAIN arrived,
         Store(u, w, n) \/ Stale(u, w) \/ Waste(u, w), UNCHANGED <<clients, live, lastConn, mixed>>,
         call' = [udp |-> It', steps |-> call.steps'], call.steps' \in Plans, ~Idle' => It' \in Udps,
         lastPacket' \in Nat, arrived' \in Datagrams(lastConn)
  PROVE  /\ Fields' /\ \E p : RxStep(u, p)
         /\ \A v \in Udps \ {u} : Rx(v)' = Rx(v) /\ (Holding(v)' => packet'[Rx(v).ptr] = packet[Rx(v).ptr])
         /\ Holding(u)' => packet'[Rx(u)'.ptr].conn \in {arrived[n].conn, NO_LINK}
<1>1. w \in Worlds BY DEF Vacant
<1>2. CASE Store(u, w, n) \/ Stale(u, w)
  <2>10. PICK d \in Packets : Fill(u, w, d) /\ d.conn \in {arrived[n].conn, NO_LINK} BY <1>2, FillsWith
  <2>1. PICK o \in Objects :
           /\ Taken(w, "rxStream", o)
           /\ heap' = [w.heap EXCEPT ![o] = [NewStream(serialId + 1, NO_LINK) EXCEPT !.rx = TRUE]]
           /\ packet' = [packet EXCEPT ![o] = d]
           /\ udp' = [udp EXCEPT ![u].rxStream = NewPtr(o)]
    BY <2>10, FillIs
  <2>2. NewPtr(o) \in C!Ptrs BY <2>1, NewPtrTypes DEF Taken
  <2>3. /\ udp' \in [Udps -> Udp] /\ Rx(u)' = NewPtr(o) /\ \A v \in Udps \ {u} : Rx(v)' = Rx(v)
        /\ \A v \in Udps : Tx(v)' = Tx(v) /\ udp'[v].linkId = udp[v].linkId /\ udp'[v].listening = udp[v].listening
    BY <2>1, <2>2, UdpRx
  <2>4. Beside BY <2>3 DEF Beside
  <2>5. RxStep(u, NewPtr(o)) BY <2>1, <2>3, <2>4, RxTakes
  <2>6. packet' \in [Objects -> Packets] BY <2>1 DEF Fields
  <2>7. Fields' BY <1>1, <2>1, <2>3, <2>4, <2>6, RxFields, WorldTypes DEF Taken
  <2>8. ASSUME NEW v \in Udps \ {u}, Holding(v)' PROVE packet'[Rx(v).ptr] = packet[Rx(v).ptr]
    <3>1. Holding(v) BY <2>5, <2>7, <2>8, RxLeaves
    <3>2. Refers(Rx(v), "rxStream") BY <3>1, ReferTo
    <3>3. Rx(v).ptr # o
      <4> SUFFICES ASSUME Rx(v).ptr = o PROVE FALSE OBVIOUS
      <4>1. w.heap[o] # heap[o] BY <2>1, <3>2 DEF Refers, Taken
      <4>2. o = Rx(u).ptr /\ Holding(u) BY <4>1 DEF Vacant
      <4>3. Refers(Rx(u), "rxStream") BY <4>2, ReferTo
      <4>4. Rx(u) = Rx(v) /\ Rx(u).ptr # nullptr BY <3>2, <4>2, <4>3 DEF Refers
      <4> QED BY <4>4 DEF StreamsOK
    <3> QED BY <2>1, <3>2, <3>3 DEF Refers, Fields
  <2>9. packet'[Rx(u)'.ptr].conn \in {arrived[n].conn, NO_LINK} BY <2>1, <2>3, <2>10 DEF NewPtr, Fields
  <2> QED BY <2>3, <2>5, <2>7, <2>8, <2>9
<1>3. CASE Waste(u, w)
  <2>1. PICK o \in Objects :
           /\ Taken(w, "rxStream", o) /\ heap' = w.heap /\ Emptied
           /\ udp' = [udp EXCEPT ![u].rxStream = [NewPtr(o) EXCEPT !.ptr = nullptr]]
    BY <1>3, WasteIs
  <2>2. [NewPtr(o) EXCEPT !.ptr = nullptr] \in C!Ptrs BY <2>1, NewPtrTypes DEF Taken
  <2>3. /\ udp' \in [Udps -> Udp] /\ Rx(u)' = [NewPtr(o) EXCEPT !.ptr = nullptr]
        /\ \A v \in Udps \ {u} : Rx(v)' = Rx(v)
        /\ \A v \in Udps : Tx(v)' = Tx(v) /\ udp'[v].linkId = udp[v].linkId /\ udp'[v].listening = udp[v].listening
    BY <2>1, <2>2, UdpRx
  <2>4. Beside BY <2>3 DEF Beside
  <2>5. RxStep(u, C!Fresh) BY <2>1, <2>3, <2>4, RxTakes
  <2>6. packet' \in [Objects -> Packets] /\ \A p \in Objects : heap'[p].serialId # 0 => packet'[p] = packet[p]
    BY <2>1, EmptiedPackets
  <2>7. Fields' BY <1>1, <2>1, <2>3, <2>4, <2>6, RxFields, WorldTypes DEF Taken
  <2>8. ASSUME NEW v \in Udps \ {u}, Holding(v)' PROVE packet'[Rx(v).ptr] = packet[Rx(v).ptr]
    <3>1. Holding(v) /\ Rx(v)' = Rx(v) BY <2>3, <2>5, <2>7, <2>8, RxLeaves
    <3>2. Refers(Rx(v), "rxStream") BY <3>1, ReferTo
    <3>3. heap'[Rx(v).ptr].serialId # 0
      <4>1. heap'[Rx(v)'.ptr].serialId = Rx(v)'.serialId BY <2>8, ValidIs, Zeros DEF Holding, C!Valid, World
      <4> QED BY <3>1, <3>2, <4>1 DEF Refers
    <3> QED BY <2>6, <3>2, <3>3 DEF Refers
  <2>9. ~Holding(u)'
    <3>1. Rx(u)'.ptr = nullptr BY <2>2, <2>3 DEF NewPtr
    <3> QED BY <3>1, Zeros DEF Holding, C!Valid
  <2> QED BY <2>3, <2>5, <2>7, <2>8, <2>9
<1> QED BY <1>2, <1>3

(* A step that at most gives up what u received, or reads it *)
RxQuiet(u) ==
  /\ RxStep(u, C!Fresh) /\ SamePool
  /\ heap' \in [Objects -> C!Streams] /\ packet' \in [Objects -> Packets] /\ udp' \in [Udps -> Udp]
  /\ \A v \in Udps : Holding(v)' => /\ Holding(v) /\ Rx(v)' = Rx(v)
                                    /\ packet'[Rx(v).ptr].conn = packet[Rx(v).ptr].conn

LEMMA HoldingNow ==
  ASSUME Fields, StreamsOK, NEW v \in Udps, Holding(v), Holding(v)', Rx(v)' = Rx(v)
  PROVE  heap'[Rx(v).ptr].serialId # 0 /\ Rx(v).ptr \in Objects
<1>1. heap'[Rx(v)'.ptr].serialId = Rx(v)'.serialId BY Zeros DEF Holding, C!Valid, World
<1>2. Refers(Rx(v), "rxStream") BY ReferTo
<1> QED BY <1>1, <1>2 DEF Refers

LEMMA Keeping ==
  ASSUME Fields, StreamsOK, NEW u \in Udps, SamePool, UNCHANGED <<clients, live, lastConn, mixed>>,
         Keeps
  PROVE  RxQuiet(u)
<1>1. heap' = heap /\ packet' = packet /\ udp' = udp BY DEF Keeps
<1>2. \A v \in Udps : Rx(v)' = Rx(v) /\ Tx(v)' = Tx(v) BY <1>1 DEF Rx, Tx
<1>3. Beside BY <1>1, <1>2 DEF Beside
<1>4. RxStep(u, C!Fresh) BY <1>1, <1>2, <1>3, RxSame
<1>5. \A v \in Udps : Holding(v)' <=> Holding(v) BY <1>1 DEF Holding, World, C!Valid, Rx
<1> QED BY <1>1, <1>2, <1>4, <1>5 DEF RxQuiet, Fields

LEMMA Freeing ==
  ASSUME Fields, StreamsOK, NEW u \in Udps, SamePool, UNCHANGED <<clients, live, lastConn, mixed>>,
         Holding(u), heap' = [heap EXCEPT ![Rx(u).ptr] = C!Empty], Emptied,
         \/ udp' = udp
         \/ udp' = [udp EXCEPT ![u].rxStream = [Rx(u) EXCEPT !.ptr = nullptr]]
  PROVE  RxQuiet(u) /\ ~Holding(u)'
<1>1. Refers(Rx(u), "rxStream") BY ReferTo
<1>2. /\ udp' \in [Udps -> Udp] /\ Rx(u)' \in {Rx(u), [Rx(u) EXCEPT !.ptr = nullptr]}
      /\ \A v \in Udps \ {u} : Rx(v)' = Rx(v)
      /\ \A v \in Udps : Tx(v)' = Tx(v) /\ udp'[v].linkId = udp[v].linkId /\ udp'[v].listening = udp[v].listening
  <2>1. CASE udp' = udp BY <2>1 DEF Fields, Rx, Tx
  <2>2. CASE udp' = [udp EXCEPT ![u].rxStream = [Rx(u) EXCEPT !.ptr = nullptr]]
    <3>1. [Rx(u) EXCEPT !.ptr = nullptr] \in C!Ptrs BY Pointers, Zeros DEF C!Ptrs
    <3> QED BY <2>2, <3>1, UdpRx
  <2> QED BY <2>1, <2>2
<1>3. Beside BY <1>2 DEF Beside
<1>4. RxStep(u, C!Fresh) BY <1>2, <1>3, RxFrees
<1>5. heap' \in [Objects -> C!Streams] BY Zeros DEF Fields
<1>6. packet' \in [Objects -> Packets] /\ \A o \in Objects : heap'[o].serialId # 0 => packet'[o] = packet[o]
  BY EmptiedPackets
<1>7. ~Holding(u)'
  <2>1. heap'[Rx(u).ptr].serialId = 0 /\ Rx(u).serialId # 0 BY <1>1, Zeros DEF Refers, Fields
  <2>2. Rx(u)' = Rx(u) \/ Rx(u)'.ptr = nullptr BY <1>2, Pointers DEF C!Ptrs
  <2> QED BY <2>1, <2>2, Zeros DEF Holding, C!Valid, World
<1>8. ASSUME NEW v \in Udps, Holding(v)'
      PROVE  Holding(v) /\ Rx(v)' = Rx(v) /\ packet'[Rx(v).ptr].conn = packet[Rx(v).ptr].conn
  <2>1. v # u BY <1>7, <1>8
  <2>2. Rx(v)' = Rx(v) BY <1>2, <2>1
  <2>3. Rx(v).ptr # nullptr /\ heap'[Rx(v).ptr].serialId = Rx(v).serialId
    BY <1>8, <2>2, Zeros DEF Holding, C!Valid, World
  <2>4. Rx(v).ptr \in Objects /\ Rx(v).serialId # 0 BY <2>3, Pointers DEF StreamsOK, Leads
  <2>5. heap'[Rx(v).ptr] = heap[Rx(v).ptr] BY <1>1, <2>3, <2>4, Zeros DEF Fields
  <2>6. Holding(v) BY <2>3, <2>5, ReferTo
  <2>7. heap'[Rx(v).ptr].serialId # 0 BY <2>3, <2>4
  <2> QED BY <1>6, <2>2, <2>4, <2>6, <2>7
<1> QED BY <1>4, <1>5, <1>6, <1>2, <1>7, <1>8 DEF RxQuiet

LEMMA Checking ==
  ASSUME Fields, StreamsOK, NEW u \in Udps, SamePool, UNCHANGED <<clients, live, lastConn, mixed>>,
         heap' = Checked(World, Rx(u)).heap, Emptied, udp' = udp
  PROVE  RxQuiet(u)
<1>1. CASE Holding(u) /\ ~Unread(u) BY <1>1, CheckedIs, Freeing
<1>2. CASE ~(Holding(u) /\ ~Unread(u))
  <2>1. heap' = heap BY <1>2, CheckedIs
  <2>2. packet' \in [Objects -> Packets] /\ \A o \in Objects : heap'[o].serialId # 0 => packet'[o] = packet[o]
    BY EmptiedPackets
  <2>3. \A v \in Udps : Rx(v)' = Rx(v) /\ Tx(v)' = Tx(v) BY DEF Rx, Tx
  <2>4. Beside BY <2>3 DEF Beside
  <2>5. RxStep(u, C!Fresh) BY <2>1, <2>3, <2>4, RxSame
  <2>6. \A v \in Udps : Holding(v)' <=> Holding(v) BY <2>1 DEF Holding, World, C!Valid, Rx
  <2>7. \A v \in Udps : Holding(v)' => packet'[Rx(v).ptr] = packet[Rx(v).ptr]
    BY <2>2, <2>3, <2>6, HoldingNow
  <2> QED BY <2>1, <2>2, <2>3, <2>5, <2>6, <2>7 DEF RxQuiet, Fields
<1> QED BY <1>1, <1>2

LEMMA DropsIs ==
  ASSUME Fields, StreamsOK, NEW u \in Udps, DropsRx(u), Holding(u)
  PROVE  /\ heap' = [heap EXCEPT ![Rx(u).ptr] = C!Empty] /\ Emptied
         /\ udp' = [udp EXCEPT ![u].rxStream = [Rx(u) EXCEPT !.ptr = nullptr]]
<1>1. Refers(Rx(u), "rxStream") /\ World \in Worlds /\ World.heap = heap BY ReferTo, Free, ValidIs
<1>2. Rx(u) \in C!Ptrs /\ Rx(u).ptr \in Objects /\ Rx(u).serialId # 0
      /\ (World.heap[Rx(u).ptr].serialId = 0 => World.heap[Rx(u).ptr] = C!Empty)
  BY <1>1, Pointers DEF Refers
<1>3. /\ Dropped(World, Rx(u)).world.heap = [heap EXCEPT ![Rx(u).ptr] = C!Empty]
      /\ Dropped(World, Rx(u)).ptr = [Rx(u) EXCEPT !.ptr = nullptr]
  BY <1>1, <1>2, DropIs
<1> QED BY <1>3 DEF DropsRx

LEMMA Dropping ==
  ASSUME Fields, StreamsOK, NEW u \in Udps, SamePool, UNCHANGED <<clients, live, lastConn, mixed>>,
         DropsRx(u)
  PROVE  RxQuiet(u) /\ ~Holding(u)'
<1>1. CASE Holding(u) BY <1>1, DropsIs, Freeing
<1>2. CASE ~Holding(u)
  <2>1. Keeps BY <1>2 DEF DropsRx
  <2> QED BY <1>2, <2>1, Keeping DEF RxQuiet
<1> QED BY <1>1, <1>2

\* Such steps preserve the invariant; the call has to be looked at.
LEMMA QuietInv ==
  ASSUME IInv, NEW u \in Udps, RxQuiet(u), at1' = at1, lastPacket' \in Nat, arrived' \in Datagrams(lastConn),
         call' = [udp |-> It', steps |-> call.steps'], call.steps' \in Plans, ~Idle' => It' \in Udps, CallOK'
  PROVE  IInv'
<1>1. RxStep(u, C!Fresh) /\ Beside BY DEF RxQuiet, RxStep
<1>2. pool' \in [Slots -> Objects \cup {nullptr}] /\ serialId' \in 0 .. SERIALS - 1
      /\ sizes' \in [Objects -> Kinds \cup {"none"}]
  BY DEF IInv, Fields, RxQuiet, SamePool
<1>3. Fields' BY <1>1, <1>2, RxFields DEF IInv, RxQuiet
<1>4. \A v \in Udps : udp'[v].linkId = udp[v].linkId BY <1>1 DEF Beside
<1>5. Owned' BY <1>4, OwnedKept DEF IInv, RxQuiet
<1> QED BY <1>1, <1>3, <1>5, RxRest

LEMMA QuietStarts ==
  ASSUME Fields, Fields', StreamsOK, NEW u \in Udps, RxQuiet(u), NEW steps \in Plans, Starts(u, steps), at1' = at1,
         steps # <<>> =>
           /\ Head(steps) = "flush" => Composing(u)
           /\ Head(steps) # "release"
           /\ Head(steps) = "open" => ~Composing(u)
           /\ Head(steps) = "listen" => udp[u].linkId = NO_LINK
           /\ Head(steps) = "receive" => ~at1 /\ ~Holding(u)',
         steps \in GivesUp /\ ~at1 => ~Holding(u)'
  PROVE  CallOK'
<1>1. /\ It' = u /\ call.steps' = steps
      /\ \A step : At(step)' <=> steps # <<>> /\ Head(steps) = step
  BY CallStarts
<1>2. (Composing(It)' <=> Composing(u)') /\ (Holding(It)' <=> Holding(u)') /\ udp'[It'].linkId = udp'[u].linkId
  BY <1>1 DEF Composing, Holding, Tx, Rx
<1>3. udp'[u].linkId = udp[u].linkId BY DEF RxQuiet, RxStep, Beside
<1>4. Composing(u)' <=> Composing(u) BY RxLeaves DEF RxQuiet
<1> QED BY <1>1, <1>2, <1>3, <1>4 DEF CallOK

\* The types do not depend on the call's being right.
LEMMA QuietFields ==
  ASSUME Fields, NEW u \in Udps, RxQuiet(u), lastPacket' \in Nat, arrived' \in Datagrams(lastConn),
         call' = [udp |-> It', steps |-> call.steps'], call.steps' \in Plans, ~Idle' => It' \in Udps
  PROVE  Fields'
<1>1. Beside BY DEF RxQuiet, RxStep
<1>2. pool' \in [Slots -> Objects \cup {nullptr}] /\ serialId' \in 0 .. SERIALS - 1
      /\ sizes' \in [Objects -> Kinds \cup {"none"}]
  BY DEF Fields, RxQuiet, SamePool
<1> QED BY <1>1, <1>2, RxFields DEF RxQuiet

\* A call of the sketch begins.
LEMMA StartsInv ==
  ASSUME IInv, NEW u \in Udps, RxQuiet(u), NEW steps \in Plans, Starts(u, steps),
         at1' = at1, lastPacket' = lastPacket, arrived' = arrived,
         steps # <<>> =>
           /\ Head(steps) = "flush" => Composing(u)
           /\ Head(steps) # "release"
           /\ Head(steps) = "open" => ~Composing(u)
           /\ Head(steps) = "listen" => udp[u].linkId = NO_LINK
           /\ Head(steps) = "receive" => ~at1 /\ ~Holding(u)',
         steps \in GivesUp /\ ~at1 => ~Holding(u)'
  PROVE  IInv'
<1>1. call' = [udp |-> It', steps |-> call.steps'] /\ call.steps' \in Plans /\ (~Idle' => It' \in Udps)
  BY CallStarts
<1>2. arrived' \in Datagrams(lastConn) /\ lastPacket' \in Nat BY DEF IInv, Fields, Datagrams
<1>3. Fields' BY <1>1, <1>2, QuietFields DEF IInv
<1>4. CallOK' BY <1>3, QuietStarts DEF IInv
<1> QED BY <1>1, <1>2, <1>4, QuietInv

\* A call that is not followed
LEMMA UnchangedCall ==
  ASSUME Fields, call' = call
  PROVE  call' = [udp |-> It', steps |-> call.steps'] /\ call.steps' \in Plans /\ (~Idle' => It' \in Udps)
BY DEF Fields, It, Idle

LEMMA AsideInv ==
  ASSUME IInv, NEW u \in Udps, RxQuiet(u), call' = call, at1' = at1, lastPacket' \in Nat,
         arrived' \in Datagrams(lastConn)
  PROVE  IInv'
<1>1. call' = [udp |-> It', steps |-> call.steps'] /\ call.steps' \in Plans /\ (~Idle' => It' \in Udps)
  BY UnchangedCall DEF IInv
<1>2. Fields' BY <1>1, QuietFields DEF IInv
<1>3. RxStep(u, C!Fresh) /\ Beside BY DEF RxQuiet, RxStep
<1>4. CallOK'
  <2>1. \A v \in Udps : /\ Tx(v)' = Tx(v) /\ udp'[v].linkId = udp[v].linkId /\ (Composing(v)' <=> Composing(v))
                        /\ Tx(v).ptr # nullptr => heap'[Tx(v).ptr].serialId = heap[Tx(v).ptr].serialId
    BY <1>2, <1>3, RxLeaves DEF IInv, Beside
  <2>2. \A v \in Udps : Holding(v)' => Holding(v) BY DEF RxQuiet
  <2> QED BY <2>1, <2>2, CallKept DEF IInv
<1> QED BY <1>1, <1>4, QuietInv

LEMMA QuietlyIs ==
  ASSUME Quietly
  PROVE  /\ SamePool /\ UNCHANGED <<clients, live, lastConn, mixed>> /\ at1' = at1
         /\ lastPacket' = lastPacket /\ arrived' = arrived
BY DEF Quietly, outside

----------------------------------------------------------------------------
(* The calls of the sketch *)

LEMMA BeginPacketStep == ASSUME IInv, NEW u \in Udps, BeginPacket(u) PROVE IInv'
<1>1. Starts(u, Ending(u) \o <<"open">>) /\ Keeps /\ Quietly BY DEF BeginPacket
<1>2. RxQuiet(u) BY <1>1, QuietlyIs, Keeping DEF IInv
<1>3. PICK s \in Plans \ GivesUp :
        /\ s = Ending(u) \o <<"open">>
        /\ s = IF Composing(u) THEN <<"flush", "release", "open">> ELSE <<"open">>
  BY Calls, Rows
<1>4. /\ Head(s) = IF Composing(u) THEN "flush" ELSE "open"
  BY <1>3
<1> QED BY <1>1, <1>2, <1>3, <1>4, StartsInv, QuietlyIs

LEMMA EndPacketStep == ASSUME IInv, NEW u \in Udps, EndPacket(u) PROVE IInv'
<1>1. Starts(u, Ending(u)) /\ Keeps /\ Quietly /\ Composing(u) BY DEF EndPacket
<1>2. RxQuiet(u) BY <1>1, QuietlyIs, Keeping DEF IInv
<1>3. PICK s \in Plans \ GivesUp : s = Ending(u) /\ s = <<"flush", "release">> BY <1>1, Calls, Rows
<1>4. Head(s) = "flush" BY <1>3
<1> QED BY <1>1, <1>2, <1>3, <1>4, StartsInv, QuietlyIs

LEMMA WriteStep == ASSUME IInv, NEW u \in Udps, Write(u) PROVE IInv'
<1>1. Starts(u, <<"flush">>) /\ Keeps /\ Quietly /\ Composing(u) BY DEF Write
<1>2. RxQuiet(u) BY <1>1, QuietlyIs, Keeping DEF IInv
<1>3. PICK s \in Plans \ GivesUp : s = <<"flush">> BY Rows
<1>4. Head(s) = "flush" BY <1>3
<1> QED BY <1>1, <1>2, <1>3, <1>4, StartsInv, QuietlyIs

LEMMA StopStep == ASSUME IInv, NEW u \in Udps, Stop(u) PROVE IInv'
<1>1. Starts(u, Stopping(u)) /\ DropsRx(u) /\ Quietly BY DEF Stop
<1>2. RxQuiet(u) /\ ~Holding(u)' BY <1>1, QuietlyIs, Dropping DEF IInv
<1>3. PICK s \in Plans :
        /\ s = Stopping(u)
        /\ s = IF Composing(u)
                 THEN IF udp[u].linkId = NO_LINK THEN <<"flush", "release">> ELSE <<"flush", "release", "unlisten">>
                 ELSE IF udp[u].linkId = NO_LINK THEN <<>> ELSE <<"unlisten">>
  BY Calls, Rows
<1>4. s # <<>> => Head(s) = IF Composing(u) THEN "flush" ELSE "unlisten" BY <1>3
<1> QED BY <1>1, <1>2, <1>3, <1>4, StartsInv, QuietlyIs

LEMMA BeginStep == ASSUME IInv, NEW u \in Udps, Begin(u) PROVE IInv'
<1>1. CASE udp[u].linkId = NO_LINK
  <2>1. Starts(u, <<"listen">>) /\ Keeps /\ Quietly BY <1>1 DEF Begin
  <2>2. RxQuiet(u) BY <2>1, QuietlyIs, Keeping DEF IInv
  <2>3. PICK s \in Plans : s = <<"listen">> BY Rows
  <2>4. Head(s) = "listen" /\ s # <<>> BY <2>3
  <2>5. ~at1 => ~Holding(u)' BY <1>1, <2>2 DEF IInv, Owned, RxQuiet
  <2> QED BY <1>1, <2>1, <2>2, <2>3, <2>4, <2>5, StartsInv, QuietlyIs
<1>2. CASE udp[u].linkId # NO_LINK
  <2>1. Starts(u, Begun(u)) /\ DropsRx(u) /\ Quietly BY <1>2 DEF Begin, Begun
  <2>2. RxQuiet(u) /\ ~Holding(u)' BY <2>1, QuietlyIs, Dropping DEF IInv
  <2>3. PICK s \in Plans :
          /\ s = Begun(u)
          /\ s = IF Composing(u) THEN <<"flush", "release", "unlisten", "listen">> ELSE <<"unlisten", "listen">>
    BY <1>2, Calls, Rows
  <2>4. Head(s) = IF Composing(u) THEN "flush" ELSE "unlisten" BY <2>3
  <2> QED BY <2>1, <2>2, <2>3, <2>4, StartsInv, QuietlyIs
<1> QED BY <1>1, <1>2

LEMMA ParsePacketStep == ASSUME IInv, NEW u \in Udps, ParsePacket(u) PROVE IInv'
<1>1. CASE at1
  <2>1. Starts(u, <<"maintain">>) /\ Quietly /\ (DropsRx(u) \/ Keeps) BY <1>1 DEF ParsePacket
  <2>2. RxQuiet(u) BY <2>1, QuietlyIs, Keeping, Dropping DEF IInv
  <2>3. PICK s \in Plans \ GivesUp : s = <<"maintain">> BY Rows
  <2>4. Head(s) = "maintain" BY <2>3
  <2> QED BY <2>1, <2>2, <2>3, <2>4, StartsInv, QuietlyIs
<1>2. CASE ~at1
  <2>1. Starts(u, <<"receive">>) /\ Quietly /\ DropsRx(u) BY <1>2 DEF ParsePacket
  <2>2. RxQuiet(u) /\ ~Holding(u)' BY <2>1, QuietlyIs, Dropping DEF IInv
  <2>3. PICK s \in Plans \ GivesUp : s = <<"receive">> BY Rows
  <2>4. Head(s) = "receive" BY <2>3
  <2> QED BY <1>2, <2>1, <2>2, <2>3, <2>4, StartsInv, QuietlyIs
<1> QED BY <1>1, <1>2

LEMMA ParsePacketIntoStep == ASSUME IInv, NEW u \in Udps, ParsePacketInto(u) PROVE IInv'
<1>1. PICK n \in DOMAIN arrived : Remove(n) BY DEF ParsePacketInto
<1>2. Keeps /\ SamePool /\ UNCHANGED <<clients, live, lastConn, mixed>> /\ call' = call /\ at1' = at1
      /\ lastPacket' = lastPacket
  BY DEF ParsePacketInto, Keeps, SamePool, streams
<1>3. arrived' \in Datagrams(lastConn) /\ lastPacket' \in Nat BY <1>1, <1>2, Removes DEF IInv, Fields
<1>4. RxQuiet(u) BY <1>2, Keeping DEF IInv
<1> QED BY <1>2, <1>3, <1>4, AsideInv

LEMMA ReadStep == ASSUME IInv, NEW u \in Udps, Read(u) PROVE IInv'
<1>1. PICK rest \in BOOLEAN : heap' = [heap EXCEPT ![Rx(u).ptr].rx = rest] BY DEF Read
<1>2. /\ Unread(u) /\ packet' = [packet EXCEPT ![Rx(u).ptr].begun = TRUE] /\ SamePool
      /\ UNCHANGED <<clients, live, lastConn, mixed>> /\ udp' = udp /\ call' = call /\ at1' = at1
      /\ lastPacket' = lastPacket /\ arrived' = arrived
  BY DEF Read, outside
<1>3. Holding(u) /\ Refers(Rx(u), "rxStream") BY <1>2, ReferTo DEF IInv, Unread
<1>4. \A v \in Udps : Rx(v)' = Rx(v) /\ Tx(v)' = Tx(v) BY <1>2 DEF Rx, Tx
<1>5. Beside BY <1>2, <1>4 DEF Beside
<1>6. RxStep(u, C!Fresh) BY <1>1, <1>2, <1>3, <1>4, <1>5, RxReads DEF IInv
<1>7. heap' \in [Objects -> C!Streams] BY <1>1, <1>3 DEF IInv, Fields, Refers, C!Streams
<1>8. packet' \in [Objects -> Packets] /\ \A o \in Objects : packet'[o].conn = packet[o].conn
  BY <1>2, <1>3 DEF IInv, Fields, Refers, Packets
<1>9. \A o \in Objects : heap'[o].serialId = heap[o].serialId BY <1>1, <1>3 DEF IInv, Fields, Refers, C!Streams
<1>10. ASSUME NEW v \in Udps, Holding(v)' PROVE Holding(v) /\ packet'[Rx(v).ptr].conn = packet[Rx(v).ptr].conn
  <2>1. Rx(v).ptr # nullptr /\ heap'[Rx(v).ptr].serialId = Rx(v).serialId
    BY <1>4, <1>10, Zeros DEF Holding, C!Valid, World
  <2>2. Rx(v).ptr \in Objects BY <2>1, Pointers DEF IInv
  <2> QED BY <1>8, <1>9, <2>1, <2>2, ReferTo DEF IInv
<1>11. RxQuiet(u) BY <1>2, <1>4, <1>6, <1>7, <1>8, <1>10 DEF RxQuiet, IInv, Fields
<1>12. arrived' \in Datagrams(lastConn) /\ lastPacket' \in Nat BY <1>2 DEF IInv, Fields, Datagrams
<1> QED BY <1>2, <1>11, <1>12, AsideInv

LEMMA AvailableStep == ASSUME IInv, NEW u \in Udps, Available(u) PROVE IInv'
<1>1. /\ heap' = Checked(World, Rx(u)).heap /\ Emptied /\ SamePool
      /\ UNCHANGED <<clients, live, lastConn, mixed>> /\ udp' = udp /\ call' = call /\ at1' = at1
      /\ lastPacket' = lastPacket /\ arrived' = arrived
  BY DEF Available, outside
<1>2. RxQuiet(u) BY <1>1, Checking DEF IInv
<1>3. arrived' \in Datagrams(lastConn) /\ lastPacket' \in Nat BY <1>1 DEF IInv, Fields, Datagrams
<1> QED BY <1>1, <1>2, <1>3, AsideInv

LEMMA MaintainStep == ASSUME IInv, Maintain PROVE IInv'
<1>1. PICK u \in Udps : u = It BY DEF Maintain, At, IInv, Fields
<1>2. /\ heap' = Checked(World, Rx(u)).heap /\ Emptied /\ SamePool /\ Returns
      /\ UNCHANGED <<clients, live, lastConn, mixed>> /\ udp' = udp /\ at1' = at1
      /\ lastPacket' = lastPacket /\ arrived' = arrived
  BY <1>1 DEF Maintain, outside
<1>3. RxQuiet(u) BY <1>2, Checking DEF IInv
<1>4. arrived' \in Datagrams(lastConn) /\ lastPacket' \in Nat BY <1>2 DEF IInv, Fields, Datagrams
<1> QED BY <1>2, <1>3, <1>4, CallEnds, QuietInv DEF IInv

LEMMA IgnoredStep == ASSUME IInv, Ignored PROVE IInv'
<1> PICK u \in Udps : TRUE BY UdpsAssumption
<1>1. /\ Keeps /\ SamePool /\ UNCHANGED <<clients, live, lastConn, mixed>> /\ call' = call /\ at1' = at1
      /\ lastPacket' = lastPacket /\ arrived # <<>> /\ Remove(1)
  BY DEF Ignored, Keeps, SamePool, streams
<1>2. 1 \in DOMAIN arrived BY <1>1 DEF IInv, Fields
<1>3. arrived' \in Datagrams(lastConn) /\ lastPacket' \in Nat BY <1>1, <1>2, Removes DEF IInv, Fields
<1>4. RxQuiet(u) BY <1>1, Keeping DEF IInv
<1> QED BY <1>1, <1>3, <1>4, AsideInv

LEMMA ArrivesStep == ASSUME IInv, NEW u \in Udps, Arrives(u) PROVE IInv'
<1>1. /\ Keeps /\ SamePool /\ UNCHANGED <<clients, live, lastConn, mixed>> /\ call' = call /\ at1' = at1
      /\ lastPacket' = lastPacket + 1 /\ udp[u].linkId \in live
      /\ arrived' = Append(arrived, [id |-> lastPacket + 1, conn |-> udp[u].linkId])
  BY DEF Arrives, Keeps, SamePool, streams
<1>2. lastPacket' \in Nat BY <1>1 DEF IInv, Fields
<1>3. arrived' \in Datagrams(lastConn)
  <2>1. [id |-> lastPacket + 1, conn |-> udp[u].linkId] \in [id : Nat, conn : 1 .. lastConn]
    BY <1>1, <1>2 DEF IInv, Fields
  <2>2. arrived \in Seq([id : Nat, conn : 1 .. lastConn]) BY DEF IInv, Fields
  <2> QED BY <1>1, <2>1, <2>2, AppendProperties DEF Datagrams
<1>4. RxQuiet(u) BY <1>1, Keeping DEF IInv
<1> QED BY <1>1, <1>2, <1>3, <1>4, AsideInv

\* The callback of AT1 firmware, in whatever call
LEMMA ReadRxDataStep == ASSUME IInv, NEW u \in Udps, ReadRxData(u) PROVE IInv'
<1>1. /\ at1 /\ at1' = at1 /\ Remove(1) /\ arrived # <<>> /\ call' = call
      /\ UNCHANGED <<clients, live, lastConn, mixed>> /\ lastPacket' = lastPacket
  BY DEF ReadRxData
<1>2. 1 \in DOMAIN arrived BY <1>1 DEF IInv, Fields
<1>3. arrived' \in Datagrams(lastConn) /\ lastPacket' \in Nat BY <1>1, <1>2, Removes DEF IInv, Fields
<1> DEFINE w == Checked(World, Rx(u))
<1>4. CASE Busy(u) /\ UNCHANGED <<streams, udp>>
  <2>1. Keeps /\ SamePool BY <1>4 DEF Keeps, SamePool, streams
  <2>2. RxQuiet(u) BY <1>1, <2>1, Keeping DEF IInv
  <2> QED BY <1>1, <1>3, <2>2, AsideInv
<1>5. CASE heap' = w.heap /\ Emptied /\ SamePool /\ UNCHANGED udp
  <2>1. RxQuiet(u) BY <1>1, <1>5, Checking DEF IInv
  <2> QED BY <1>1, <1>3, <2>1, AsideInv
<1>6. CASE ~Busy(u) /\ (Store(u, w, 1) \/ Waste(u, w))
  <2>1. Vacant(u, w) BY <1>6, IsVacant DEF Busy, IInv
  <2> HIDE DEF w
  <2>2. call' = [udp |-> It', steps |-> call.steps'] /\ call.steps' \in Plans /\ (~Idle' => It' \in Udps)
    BY <1>1, UnchangedCall DEF IInv
  <2>3. PICK i \in DOMAIN arrived : i = 1 BY <1>2
  <2>4. Fields' /\ \E p : RxStep(u, p)
    BY <1>1, <1>3, <1>6, <2>1, <2>2, <2>3, ReceivesStep DEF IInv
  <2>5. PICK p : RxStep(u, p) BY <2>4
  <2>6. \A v \in Udps : /\ Tx(v)' = Tx(v) /\ udp'[v].linkId = udp[v].linkId /\ (Composing(v)' <=> Composing(v))
                        /\ Tx(v).ptr # nullptr => heap'[Tx(v).ptr].serialId = heap[Tx(v).ptr].serialId
    BY <2>4, <2>5, RxLeaves DEF IInv, RxStep, Beside
  <2>7. CallOK' BY <1>1, <2>6, CallKept DEF IInv
  <2>8. Owned' BY <1>1 DEF Owned
  <2> QED BY <2>4, <2>5, <2>7, <2>8, RxRest
<1>7. \/ Busy(u) /\ UNCHANGED <<streams, udp>>
      \/ heap' = w.heap /\ Emptied /\ SamePool /\ UNCHANGED udp
      \/ ~Busy(u) /\ (Store(u, w, 1) \/ Waste(u, w))
  BY DEF ReadRxData
<1> QED BY <1>4, <1>5, <1>6, <1>7

LEMMA ReceiveStep == ASSUME IInv, Receive PROVE IInv'
<1>1. PICK u \in Udps : u = It BY DEF Receive, At, IInv, Fields
<1>2. /\ Returns /\ at1' = at1 /\ UNCHANGED <<clients, live, lastConn, mixed>> /\ lastPacket' = lastPacket
      /\ ~at1 /\ ~Holding(u)
  BY <1>1 DEF Receive, IInv, CallOK
<1>3. /\ Idle' /\ CallOK' /\ call' = [udp |-> It', steps |-> call.steps'] /\ call.steps' \in Plans
      /\ (~Idle' => It' \in Udps)
  BY <1>2, CallEnds DEF IInv
<1>4. lastPacket' \in Nat BY <1>2 DEF IInv, Fields
<1>5. CASE UNCHANGED <<streams, udp, arrived>>
  <2>1. Keeps /\ SamePool BY <1>5 DEF Keeps, SamePool, streams
  <2>2. RxQuiet(u) BY <1>2, <2>1, Keeping DEF IInv
  <2>3. arrived' \in Datagrams(lastConn) BY <1>5 DEF IInv, Fields, Datagrams
  <2> QED BY <1>2, <1>3, <1>4, <2>2, <2>3, QuietInv
<1>6. ASSUME NEW n \in DOMAIN arrived, IsNext(u, n), Remove(n) \/ UNCHANGED arrived,
             Store(u, World, n) \/ Stale(u, World) \/ Waste(u, World)
      PROVE  IInv'
  <2>1. arrived' \in Datagrams(lastConn)
    <3>1. CASE Remove(n) BY <3>1, Removes DEF IInv
    <3>2. CASE UNCHANGED arrived BY <3>2 DEF IInv, Fields, Datagrams
    <3> QED BY <1>6, <3>1, <3>2
  <2>2. Vacant(u, World) BY <1>2, IsVacant DEF IInv, Unread
  <2>3. PICK w : w = World OBVIOUS
  <2>4. /\ Fields' /\ \E p : RxStep(u, p)
        /\ \A v \in Udps \ {u} : Rx(v)' = Rx(v) /\ (Holding(v)' => packet'[Rx(v).ptr] = packet[Rx(v).ptr])
        /\ Holding(u)' => packet'[Rx(u)'.ptr].conn \in {arrived[n].conn, NO_LINK}
    BY <1>2, <1>3, <1>4, <1>6, <2>1, <2>2, <2>3, ReceivesStep DEF IInv
  <2>5. PICK p : RxStep(u, p) BY <2>4
  <2>6. \A v \in Udps : udp'[v].linkId = udp[v].linkId BY <2>5 DEF RxStep, Beside
  <2>7. arrived[n].conn = udp[u].linkId /\ arrived[n].conn # NO_LINK
    <3>1. arrived[n].conn \in 1 .. lastConn /\ lastConn \in Nat BY Arrived, BoundsAssumption DEF IInv, Fields
    <3> QED BY <1>6, <3>1, Zeros DEF IsNext
  <2>8. Owned'
    <3> SUFFICES ASSUME NEW v \in Udps, Holding(v)'
                 PROVE  packet'[Rx(v)'.ptr].conn \in {udp'[v].linkId, NO_LINK} /\ udp'[v].linkId # NO_LINK
      BY DEF Owned
    <3>1. CASE v = u BY <2>4, <2>6, <2>7, <3>1
    <3>2. CASE v # u
      <4>1. Holding(v) BY <2>4, <2>5, <3>2, RxLeaves DEF IInv
      <4> QED BY <1>2, <2>4, <2>6, <3>2, <4>1 DEF IInv, Owned
    <3> QED BY <3>1, <3>2
  <2> QED BY <1>3, <2>4, <2>5, <2>8, RxRest
<1>7. \/ UNCHANGED <<streams, udp, arrived>>
      \/ \E n \in DOMAIN arrived :
           /\ IsNext(u, n) /\ (Remove(n) \/ UNCHANGED arrived)
           /\ Store(u, World, n) \/ Stale(u, World) \/ Waste(u, World)
  BY <1>1 DEF Receive
<1> QED BY <1>5, <1>6, <1>7

----------------------------------------------------------------------------
(* Steps at transmit streams and at links *)

TxStep(u, n) ==
  /\ Grows /\ IsNew(n) /\ clients' = clients
  /\ n.ptr # nullptr => Tx(u)' = n
  /\ \A v \in Udps \ {u} : Tx(v)' = Tx(v)
  /\ \A v \in Udps : Rx(v)' = Rx(v)
  /\ PointerSteps(n, "txStream", Tx(u), Tx(u)')
  /\ \A o \in Objects :
       \/ heap'[o] = heap[o]
       \/ heap'[o] = C!Empty
       \/ n = To(o)' /\ n.ptr # nullptr /\ heap'[o].refCount = 1 /\ heap'[o].serialId # 0

LEMMA TxFollows ==
  ASSUME Fields, Fields', StreamsOK, NEW u \in Udps, NEW n, TxStep(u, n)
  PROVE  Follows(n)
<1>1. Grows /\ IsNew(n) BY DEF TxStep
<1>2. ASSUME NEW o \in Objects PROVE ObjectSteps(n, o)
  <2>1. CASE heap'[o] = heap[o] BY <2>1 DEF StreamsOK, ObjectSteps
  <2>2. CASE heap'[o] = C!Empty BY <2>2, Zeros DEF ObjectSteps
  <2>3. CASE n = To(o)' /\ n.ptr # nullptr /\ heap'[o].refCount = 1 /\ heap'[o].serialId # 0
    BY <2>3 DEF TxStep, ObjectSteps, Referred
  <2> QED BY <2>1, <2>2, <2>3 DEF TxStep
<1>3. \A v \in Udps : PointerSteps(n, "txStream", Tx(v), Tx(v)') /\ PointerSteps(n, "rxStream", Rx(v), Rx(v)')
  BY DEF TxStep, PointerSteps
<1>4. ASSUME n.ptr # nullptr, NEW v \in Udps
      PROVE  Rx(v)' # n /\ (Tx(v)' = n => v = u)
  <2>1. n.serialId > serialId BY <1>1, <1>4, Pointers DEF IsNew
  <2>2. Leads(Tx(v), "txStream") /\ Leads(Rx(v), "rxStream") BY DEF StreamsOK
  <2>3. Tx(v) # n /\ Rx(v) # n BY <1>4, <2>1, <2>2, Pointers DEF Leads
  <2> QED BY <2>3 DEF TxStep
<1> QED BY <1>1, <1>2, <1>3, <1>4 DEF Follows, TxStep

\* Whoever else refers to something, refers to the same.
LEMMA OthersKept ==
  ASSUME Fields, StreamsOK, NEW o \in Objects, NEW kind, sizes[o] = kind,
         \A p \in Objects \ {o} : heap'[p] = heap[p]
  PROVE  /\ \A v \in Udps : kind # "txStream" /\ Tx(v).ptr # nullptr => heap'[Tx(v).ptr] = heap[Tx(v).ptr]
         /\ \A v \in Udps : kind # "rxStream" /\ Rx(v).ptr # nullptr => heap'[Rx(v).ptr] = heap[Rx(v).ptr]
         /\ \A p \in clients : kind # "client" => heap'[p.ptr] = heap[p.ptr]
<1>1. ASSUME NEW v \in Udps, kind # "txStream", Tx(v).ptr # nullptr PROVE heap'[Tx(v).ptr] = heap[Tx(v).ptr]
  <2>1. Tx(v).ptr \in Objects /\ sizes[Tx(v).ptr] = "txStream" BY <1>1, Pointers DEF StreamsOK, Leads
  <2> QED BY <1>1, <2>1
<1>2. ASSUME NEW v \in Udps, kind # "rxStream", Rx(v).ptr # nullptr PROVE heap'[Rx(v).ptr] = heap[Rx(v).ptr]
  <2>1. Rx(v).ptr \in Objects /\ sizes[Rx(v).ptr] = "rxStream" BY <1>2, Pointers DEF StreamsOK, Leads
  <2> QED BY <1>2, <2>1
<1>3. ASSUME NEW p \in clients, kind # "client" PROVE heap'[p.ptr] = heap[p.ptr]
  <2>1. p.ptr \in Objects /\ sizes[p.ptr] = "client" BY Pointers DEF StreamsOK, Leads, Fields
  <2> QED BY <1>3, <2>1
<1> QED BY <1>1, <1>2, <1>3

LEMMA ValidNow ==
  /\ \A v \in Udps : Composing(v)' <=> Tx(v)'.ptr # nullptr /\ heap'[Tx(v)'.ptr].serialId = Tx(v)'.serialId
  /\ \A v \in Udps : Holding(v)' <=> Rx(v)'.ptr # nullptr /\ heap'[Rx(v)'.ptr].serialId = Rx(v)'.serialId
  /\ \A p : C!Valid(World', p) <=> p.ptr # nullptr /\ heap'[p.ptr].serialId = p.serialId
BY Zeros DEF Composing, Holding, C!Valid, World

(* u's message is given up; what is left of its link is the listener's.     *)
Releases1(u) ==
  /\ Tx(u).ptr # nullptr /\ (Composing(u) \/ heap[Tx(u).ptr].serialId = 0)
  /\ heap' = [heap EXCEPT ![Tx(u).ptr] = C!Empty]
  /\ Tx(u)' \in {Tx(u), [Tx(u) EXCEPT !.ptr = nullptr]}
  /\ \A v \in Udps \ {u} : Tx(v)' = Tx(v)
  /\ \A v \in Udps : Rx(v)' = Rx(v) /\ udp'[v].linkId = udp[v].linkId /\ udp'[v].listening = udp[v].listening
  /\ SamePool /\ UNCHANGED <<clients, mixed, lastConn>> /\ live' \subseteq live
  /\ Composing(u) /\ ~mixed /\ heap[Tx(u).ptr].linkId \in live' => udp[u].linkId = heap[Tx(u).ptr].linkId

LEMMA ReleasesFollows ==
  ASSUME Fields, Fields', StreamsOK, NEW u \in Udps, Releases1(u)
  PROVE  /\ Follows(C!Fresh) /\ ~Composing(u)' /\ heap'[Tx(u).ptr].serialId = 0
         /\ Tx(u).ptr \in Objects /\ sizes[Tx(u).ptr] = "txStream"
         /\ \A p \in Objects \ {Tx(u).ptr} : heap'[p] = heap[p]
         /\ \A v \in Udps : Holding(v)' <=> Holding(v)
         /\ \A v \in Udps \ {u} : (Composing(v)' => Composing(v)) /\ (Composing(v) => Tx(v).ptr # Tx(u).ptr)
<1>1. Leads(Tx(u), "txStream") /\ Tx(u) \in C!Ptrs BY Pointers DEF StreamsOK
<1>2. Tx(u).ptr \in Objects /\ Tx(u).serialId # 0 /\ sizes[Tx(u).ptr] = "txStream" /\ Tx(u).serialId \in 0 .. serialId
  BY <1>1, Pointers DEF Leads, Releases1
<1>3. heap'[Tx(u).ptr] = C!Empty /\ \A p \in Objects \ {Tx(u).ptr} : heap'[p] = heap[p]
  BY <1>2 DEF Fields, Releases1
<1>4. Lost(Tx(u)) BY <1>2, <1>3, Zeros DEF Lost
<1>5. Tx(u)' = Tx(u) \/ (Tx(u)'.ptr = nullptr /\ Tx(u)'.serialId = Tx(u).serialId) BY <1>1 DEF Releases1, C!Ptrs
<1>6. PointerSteps(C!Fresh, "txStream", Tx(u), Tx(u)') BY <1>2, <1>4, <1>5 DEF PointerSteps, Releases1, SamePool
<1>7. \A o \in Objects : heap'[o] = heap[o] \/ heap'[o] = C!Empty BY <1>3
<1>8. TxStep(u, C!Fresh) BY <1>6, <1>7, SamePoolGrows DEF TxStep, Releases1
<1>9. ~Composing(u)' BY <1>2, <1>3, <1>5, Zeros, ValidNow
<1>10. ASSUME NEW v \in Udps PROVE Holding(v)' <=> Holding(v)
  <2>1. PICK o \in Objects : o = Tx(u).ptr BY <1>2
  <2>2. PICK k \in Kinds : k = "txStream" BY DEF Kinds
  <2>3. Rx(v).ptr # nullptr => heap'[Rx(v).ptr] = heap[Rx(v).ptr] BY <1>2, <1>3, <2>1, <2>2, OthersKept
  <2>4. Rx(v)' = Rx(v) BY DEF Releases1
  <2> QED BY <2>3, <2>4, ValidNow, ReferTo
<1>11. ASSUME NEW v \in Udps \ {u} PROVE (Composing(v)' => Composing(v)) /\ (Composing(v) => Tx(v).ptr # Tx(u).ptr)
  <2>1. Tx(v)' = Tx(v) /\ Tx(v) \in C!Ptrs /\ Leads(Tx(v), "txStream") BY Pointers DEF Releases1, StreamsOK
  <2>2. ASSUME Composing(v)' PROVE Composing(v)
    <3>1. Tx(v).ptr # nullptr /\ heap'[Tx(v).ptr].serialId = Tx(v).serialId BY <2>1, <2>2, ValidNow
    <3>2. Tx(v).ptr \in Objects /\ Tx(v).serialId # 0 BY <2>1, <3>1, Pointers DEF Leads
    <3>3. Tx(v).ptr # Tx(u).ptr BY <1>3, <3>1, <3>2, Zeros
    <3> QED BY <1>3, <3>1, <3>2, <3>3, ReferTo
  <2>3. ASSUME Composing(v), Tx(v).ptr = Tx(u).ptr PROVE FALSE
    <3>1. Refers(Tx(v), "txStream") BY <2>3, ReferTo
    <3>2. Composing(u) BY <2>3, <3>1 DEF Releases1, Refers
    <3>3. Tx(u) = Tx(v) BY <2>3, <3>1, <3>2, ReferTo DEF Refers
    <3> QED BY <3>3 DEF StreamsOK, Releases1
  <2> QED BY <2>2, <2>3
<1> QED BY <1>2, <1>3, <1>8, <1>9, <1>10, <1>11, TxFollows, Zeros

----------------------------------------------------------------------------
(* A step at links: what was open is given up, a new pointer n leads to a new *)
(* link or to its listener's, and nothing else happens to the objects.      *)

OnLink(n, o) ==
  /\ n = To(o)' /\ n.ptr # nullptr /\ heap'[o].rx = FALSE /\ sizes'[o] # "rxStream"
  /\ \/ /\ heap'[o].linkId = lastConn' /\ lastConn < lastConn'
        /\ \A v \in Udps : Tx(v)' = n => ~udp[v].listening
     \/ \E v \in Udps : udp[v].listening /\ heap'[o].linkId = udp[v].linkId /\ Tx(v)' = n

LinkStep(n) ==
  /\ Follows(n) /\ lastConn <= lastConn' /\ mixed' = mixed
  /\ \A v \in Udps : udp'[v].linkId = udp[v].linkId /\ udp'[v].listening = udp[v].listening
  /\ \A o \in Objects :
       \/ heap'[o] \in {heap[o], C!Empty} /\ sizes'[o] = sizes[o]
       \/ OnLink(n, o)
  /\ ~mixed => \A o \in Objects : heap[o].serialId # 0 /\ heap'[o] # heap[o] =>
       heap[o].linkId \notin live' \/ \E v \in Udps : udp[v].linkId = heap[o].linkId
  /\ \A m \in live' \ live : /\ n.ptr \in Objects /\ n = To(n.ptr)' /\ heap'[n.ptr].linkId = m
                             /\ (\E v \in Udps : Tx(v)' = n) \/ n \in clients'

LEMMA LinksKept ==
  ASSUME Fields, Fields', StreamsOK, LinksOK, NEW n, LinkStep(n)
  PROVE  StreamsOK' /\ LinksOK'
<1>1. StreamsOK' BY StreamsKept DEF LinkStep
<1>2. \A v \in Udps : udp'[v].linkId = udp[v].linkId /\ udp'[v].listening = udp[v].listening BY DEF LinkStep
<1>3. mixed' = mixed /\ lastConn <= lastConn' /\ lastConn \in Nat /\ lastConn' \in Nat
  BY BoundsAssumption DEF LinkStep, Fields
<1>4. \A v \in Udps : udp[v].linkId \in Nat /\ (udp[v].listening = (udp[v].linkId # NO_LINK))
  BY BoundsAssumption DEF Fields, Udp
<1>5. \A o \in Objects : heap[o].linkId \in Nat BY Pointers, BoundsAssumption
<1>6. \A v \in Udps : udp'[v].linkId <= lastConn' BY <1>2, <1>3, <1>4 DEF LinksOK
<1>7. ASSUME NEW o \in Objects
      PROVE  /\ heap'[o].linkId <= lastConn'
             /\ sizes'[o] = "rxStream" => heap'[o].linkId = NO_LINK
             /\ sizes'[o] # "rxStream" => heap'[o].rx = FALSE
  <2>1. CASE heap'[o] = heap[o] /\ sizes'[o] = sizes[o] BY <1>3, <1>5, <2>1 DEF LinksOK
  <2>2. CASE heap'[o] = C!Empty BY <1>3, <2>2, Zeros
  <2>3. CASE OnLink(n, o)
    <3>1. heap'[o].linkId <= lastConn' BY <1>2, <1>3, <1>6, <2>3 DEF OnLink
    <3> QED BY <2>3, <3>1 DEF OnLink
  <2> QED BY <2>1, <2>2, <2>3 DEF LinkStep
<1>8. \A v, w \in Udps : udp'[v].linkId # NO_LINK /\ udp'[v].linkId = udp'[w].linkId => v = w
  BY <1>2 DEF LinksOK
<1>9. ASSUME NEW v \in Udps, NEW o \in Objects, udp'[v].linkId # NO_LINK, heap'[o].linkId = udp'[v].linkId
      PROVE  To(o)' = Tx(v)'
  <2>1. CASE heap'[o] = heap[o]
    <3>1. To(o) = Tx(v) BY <1>2, <1>9, <2>1 DEF LinksOK
    <3>2. To(o)' = To(o) BY <2>1 DEF To
    <3>3. ~Lost(Tx(v))
      <4>1. Tx(v).ptr = o /\ Tx(v).serialId = heap[o].serialId BY <3>1 DEF To
      <4> QED BY <2>1, <4>1, Zeros DEF Lost
    <3> QED BY <3>1, <3>2, <3>3 DEF LinkStep, Follows, PointerSteps
  <2>2. CASE heap'[o] = C!Empty BY <1>9, <2>2, Zeros
  <2>3. CASE OnLink(n, o)
    <3>1. heap'[o].linkId # lastConn' \/ ~(lastConn < lastConn') BY <1>2, <1>3, <1>4, <1>9 DEF LinksOK
    <3>2. PICK w \in Udps : heap'[o].linkId = udp[w].linkId /\ Tx(w)' = n BY <2>3, <3>1 DEF OnLink
    <3>3. w = v BY <1>2, <1>9, <3>2 DEF LinksOK
    <3> QED BY <2>3, <3>2, <3>3 DEF OnLink
  <2> QED BY <2>1, <2>2, <2>3 DEF LinkStep
<1>10. ASSUME NEW v \in Udps, ~mixed', udp'[v].listening, Composing(v)'
       PROVE  heap'[Tx(v)'.ptr].linkId \in {udp'[v].linkId, NO_LINK}
  <2>1. Tx(v)' \in C!Ptrs BY DEF Fields, Udp, Tx
  <2>2. PICK o \in Objects : o = Tx(v)'.ptr BY <1>10, <2>1, Pointers, ValidNow
  <2>3. heap'[o].serialId = Tx(v)'.serialId /\ o # nullptr BY <1>10, <2>2, ValidNow
  <2>4. To(o)' = Tx(v)' BY <2>1, <2>2, <2>3, Pointers DEF To
  <2>5. CASE heap'[o] = heap[o]
    <3>1. To(o) = Tx(v)' BY <2>4, <2>5 DEF To
    <3>2. CASE Tx(v)' = Tx(v)
      <4>1. Composing(v) BY <2>2, <2>3, <2>5, <3>2, ReferTo
      <4> QED BY <1>2, <1>3, <1>10, <2>2, <2>5, <3>2, <4>1 DEF LinksOK
    <3>3. CASE Tx(v)' # Tx(v)
      <4>1. Tx(v)' = n /\ n.ptr # nullptr BY <2>2, <2>3, <3>3 DEF LinkStep, Follows, PointerSteps
      <4>2. n.serialId > serialId BY <4>1, Pointers DEF LinkStep, Follows, IsNew
      <4>3. heap[o].serialId <= serialId BY Free
      <4>4. heap[o].serialId = n.serialId BY <2>3, <2>5, <4>1
      <4> QED BY <4>2, <4>3, <4>4, Pointers
    <3> QED BY <3>2, <3>3
  <2>6. CASE heap'[o] = C!Empty BY <2>2, <2>6, Zeros
  <2>7. CASE OnLink(n, o)
    <3>1. Tx(v)' = n BY <2>4, <2>7 DEF OnLink
    <3>2. PICK w \in Udps : udp[w].listening /\ heap'[o].linkId = udp[w].linkId /\ Tx(w)' = n
      BY <1>2, <1>10, <2>7, <3>1 DEF OnLink
    <3>3. w = v BY <2>7, <3>1, <3>2 DEF OnLink, LinkStep, Follows
    <3> QED BY <1>2, <2>2, <3>2, <3>3
  <2> QED BY <2>5, <2>6, <2>7 DEF LinkStep
<1> QED BY <1>1, <1>6, <1>7, <1>8, <1>9, <1>10 DEF LinksOK

LEMMA AccountsKept ==
  ASSUME Fields, Fields', StreamsOK, LinksAccounted, NEW n, LinkStep(n)
  PROVE  LinksAccounted'
<1> SUFFICES ASSUME ~mixed', NEW m \in live'
             PROVE  \/ \E v \in Udps : udp'[v].linkId = m \/ (Composing(v)' /\ heap'[Tx(v)'.ptr].linkId = m)
                    \/ \E p \in clients' : C!Valid(World', p) /\ heap'[p.ptr].linkId = m
  BY DEF LinksAccounted
<1>1. \A v \in Udps : udp'[v].linkId = udp[v].linkId BY DEF LinkStep
<1>2. ~mixed BY DEF LinkStep
<1>3. CASE m \notin live
  <2>1. n.ptr \in Objects /\ n = To(n.ptr)' /\ heap'[n.ptr].linkId = m BY <1>3 DEF LinkStep
  <2>2. n.ptr # nullptr /\ heap'[n.ptr].serialId = n.serialId
    <3>1. PICK o \in Objects : o = n.ptr BY <2>1
    <3>2. n = To(o)' BY <2>1, <3>1
    <3> QED BY <3>1, <3>2, Zeros DEF To
  <2>3. CASE \E v \in Udps : Tx(v)' = n BY <2>1, <2>2, <2>3, ValidNow
  <2>4. CASE n \in clients' BY <2>1, <2>2, <2>4, ValidNow
  <2> QED BY <1>3, <2>3, <2>4 DEF LinkStep
\* An object that leads to m is as it was, or m is a listener's.
<1>4. ASSUME NEW p \in C!Ptrs, NEW kind, Refers(p, kind), heap[p.ptr].linkId = m, heap'[p.ptr] # heap[p.ptr]
      PROVE  \E v \in Udps : udp'[v].linkId = m
  BY <1>1, <1>2, <1>4, Pointers DEF Refers, LinkStep
<1>5. ASSUME NEW p \in C!Ptrs, NEW kind, Refers(p, kind), heap'[p.ptr] = heap[p.ptr]
      PROVE  ~Lost(p)
  BY <1>5, Zeros DEF Refers, Lost
<1>6. CASE \E v \in Udps : udp[v].linkId = m BY <1>1, <1>6
<1>7. CASE \E v \in Udps : Composing(v) /\ heap[Tx(v).ptr].linkId = m
  <2>1. PICK v \in Udps : Composing(v) /\ heap[Tx(v).ptr].linkId = m BY <1>7
  <2>2. PICK kind \in Kinds : kind = "txStream" BY DEF Kinds
  <2>3. Refers(Tx(v), kind) /\ Tx(v) \in C!Ptrs BY <2>1, <2>2, ReferTo, Pointers
  <2>4. CASE heap'[Tx(v).ptr] # heap[Tx(v).ptr] BY <1>4, <2>1, <2>3, <2>4
  <2>5. CASE heap'[Tx(v).ptr] = heap[Tx(v).ptr]
    <3>1. ~Lost(Tx(v)) BY <1>5, <2>3, <2>5
    <3>2. Tx(v)' = Tx(v) BY <3>1 DEF LinkStep, Follows, PointerSteps
    <3>3. Composing(v)' BY <2>3, <2>5, <3>2, ValidNow DEF Refers
    <3> QED BY <2>1, <2>5, <3>2, <3>3
  <2> QED BY <2>4, <2>5
<1>8. CASE \E p \in clients : C!Valid(World, p) /\ heap[p.ptr].linkId = m
  <2>1. PICK p \in clients : C!Valid(World, p) /\ heap[p.ptr].linkId = m BY <1>8
  <2>2. PICK kind \in Kinds : kind = "client" BY DEF Kinds
  <2>3. Refers(p, kind) /\ p \in C!Ptrs BY <2>1, <2>2, ReferTo DEF Fields
  <2>4. CASE heap'[p.ptr] # heap[p.ptr] BY <1>4, <2>1, <2>3, <2>4
  <2>5. CASE heap'[p.ptr] = heap[p.ptr]
    <3>1. ~Lost(p) BY <1>5, <2>3, <2>5
    <3>2. p \in clients' BY <3>1 DEF LinkStep, Follows
    <3>3. C!Valid(World', p) BY <2>3, <2>5, ValidNow DEF Refers
    <3> QED BY <2>1, <2>5, <3>2, <3>3
  <2> QED BY <2>4, <2>5
<1> QED BY <1>2, <1>3, <1>6, <1>7, <1>8 DEF LinksAccounted

LEMMA LinkLeaves ==
  ASSUME Fields, Fields', StreamsOK, NEW n, LinkStep(n), \A v \in Udps : Rx(v)' = Rx(v)
  PROVE  \A v \in Udps : Holding(v)' => Holding(v)
<1> SUFFICES ASSUME NEW v \in Udps, Holding(v)' PROVE Holding(v) OBVIOUS
<1>1. Rx(v).ptr # nullptr /\ heap'[Rx(v).ptr].serialId = Rx(v).serialId BY ValidNow
<1>2. Rx(v) \in C!Ptrs /\ Leads(Rx(v), "rxStream") BY Pointers DEF StreamsOK
<1>3. PICK o \in Objects : o = Rx(v).ptr BY <1>1, <1>2, Pointers
<1>4. heap'[o].serialId # 0 /\ sizes[o] = "rxStream" /\ o \in C!Allocated BY <1>1, <1>2, <1>3 DEF Leads
<1>5. sizes'[o] = "rxStream" BY <1>4 DEF LinkStep, Follows, Grows
<1>6. heap'[o] = heap[o] BY <1>4, <1>5, Zeros DEF LinkStep, OnLink
<1> QED BY <1>1, <1>3, <1>6, ReferTo

\* What a step at links leaves to be shown
LEMMA LinkRest ==
  ASSUME IInv, NEW n, LinkStep(n), Fields', CallOK', \A v \in Udps : Rx(v)' = Rx(v), packet' = packet, at1' = at1
  PROVE  IInv'
<1>1. StreamsOK' /\ LinksOK' BY LinksKept DEF IInv
<1>2. LinksAccounted' BY AccountsKept DEF IInv
<1>3. Owned'
  <2>1. \A v \in Udps : Holding(v)' => Holding(v) BY LinkLeaves DEF IInv
  <2>2. \A v \in Udps : udp'[v].linkId = udp[v].linkId BY DEF LinkStep
  <2> QED BY <2>1, <2>2, OwnedKept DEF IInv
<1> QED BY <1>1, <1>2, <1>3 DEF IInv

LEMMA MoreDatagrams ==
  ASSUME Fields, lastConn' \in lastConn .. MaxConn
  PROVE  arrived \in Seq([id : Nat, conn : 1 .. lastConn'])
<1> DEFINE S == [id : Nat, conn : 1 .. lastConn]
           T == [id : Nat, conn : 1 .. lastConn']
<1>1. S \subseteq T
  <2>1. 1 .. lastConn \subseteq 1 .. lastConn' BY BoundsAssumption DEF Fields
  <2> QED BY <2>1
<1>2. arrived \in Seq(S) BY DEF Fields
<1> HIDE DEF S, T
<1>3. arrived \in Seq(T) BY <1>1, <1>2, SeqMonotonic
<1> QED BY <1>3 DEF T

LEMMA LinkFields ==
  ASSUME Fields, heap' \in [Objects -> C!Streams],
         pool' \in [Slots -> Objects \cup {nullptr}], serialId' \in 0 .. SERIALS - 1,
         sizes' \in [Objects -> Kinds \cup {"none"}], packet' = packet, udp' \in [Udps -> Udp],
         clients' \subseteq C!Ptrs, \A v \in Udps : udp'[v].listening = (udp'[v].linkId # NO_LINK),
         call' = [udp |-> It', steps |-> call.steps'], call.steps' \in Plans, ~Idle' => It' \in Udps,
         lastConn' \in lastConn .. MaxConn, live' \subseteq 1 .. lastConn', IsFiniteSet(live'),
         Cardinality(live') <= LINKS, lastPacket' = lastPacket, arrived' = arrived
  PROVE  Fields'
<1>1. lastConn' \in 0 .. MaxConn BY BoundsAssumption DEF Fields
<1>2. arrived \in Seq([id : Nat, conn : 1 .. lastConn']) BY MoreDatagrams
<1> QED BY <1>1, <1>2 DEF Fields

\* Links that are given up
LEMMA FewerLinks ==
  ASSUME Fields, NEW L, L \subseteq live
  PROVE  L \subseteq 1 .. lastConn /\ IsFiniteSet(L) /\ Cardinality(L) <= LINKS
<1>1. IsFiniteSet(live) /\ live \subseteq 1 .. lastConn /\ Cardinality(live) <= LINKS BY DEF Fields
<1>2. IsFiniteSet(L) /\ Cardinality(L) <= Cardinality(live) BY <1>1, FS_Subset
<1>3. Cardinality(L) \in Nat /\ Cardinality(live) \in Nat BY <1>1, <1>2, FS_CardinalityType
<1> QED BY <1>1, <1>2, <1>3, BoundsAssumption

\* A link that is made
LEMMA OneMoreLink ==
  ASSUME Fields, Connects(World)
  PROVE  /\ lastConn' = lastConn + 1 /\ lastConn' \in lastConn .. MaxConn /\ lastConn < lastConn'
         /\ lastConn + 1 \in C!Conns /\ lastConn + 1 \notin live /\ lastConn + 1 # NO_LINK
         /\ \A L : L \subseteq live \cup {lastConn + 1} =>
              L \subseteq 1 .. lastConn' /\ IsFiniteSet(L) /\ Cardinality(L) <= LINKS
<1>1. /\ lastConn \in 0 .. MaxConn /\ MaxConn \in Nat /\ lastConn < MaxConn /\ lastConn' = lastConn + 1
      /\ live \subseteq 1 .. lastConn /\ IsFiniteSet(live) /\ Cardinality(live) < LINKS
  BY BoundsAssumption, ValidIs DEF Connects, Fields
<1>2. lastConn + 1 \notin live BY <1>1
<1> DEFINE M == live \cup {lastConn + 1}
<1>3. IsFiniteSet(M) /\ Cardinality(M) = Cardinality(live) + 1 BY <1>1, <1>2, FS_AddElement
<1>4. M \subseteq 1 .. lastConn' BY <1>1
<1>5. Cardinality(live) \in Nat BY <1>1, FS_CardinalityType
<1> HIDE DEF M
<1>6. ASSUME NEW L, L \subseteq M PROVE L \subseteq 1 .. lastConn' /\ IsFiniteSet(L) /\ Cardinality(L) <= LINKS
  <2>1. IsFiniteSet(L) /\ Cardinality(L) <= Cardinality(M) BY <1>3, <1>6, FS_Subset
  <2>2. Cardinality(L) \in Nat BY <2>1, FS_CardinalityType
  <2> QED BY <1>1, <1>3, <1>4, <1>5, <1>6, <2>1, <2>2, BoundsAssumption
<1> QED BY <1>1, <1>2, <1>6, Zeros DEF C!Conns, M

LEMMA IdleCall == ASSUME Idle' PROVE CallOK'
<1>1. call'.steps = <<>> BY DEF Idle
<1>2. <<>> \notin GivesUp BY DEF GivesUp, Ends, ReleasesEnds
<1> QED BY <1>1, <1>2 DEF CallOK, At, Idle

\* What a call needs for its next step
LEMMA CallOn ==
  ASSUME Fields, CallOK, NEW step \in {"flush", "release", "unlisten"}, At(step), Proceeds, at1' = at1,
         NEW u \in Udps, u = It, Holding(u)' => Holding(u),
         step = "flush" => Tx(u)'.ptr # nullptr /\ (Composing(u)' \/ heap'[Tx(u)'.ptr].serialId = 0),
         step = "release" => ~Composing(u)',
         step = "unlisten" => udp'[u].linkId = NO_LINK
  PROVE  CallOK'
<1>1. /\ It' = u /\ call'.steps \in Plans
      /\ step = "flush" /\ ~Idle' => At("release")'
      /\ step = "release" /\ ~Idle' => At("open")' \/ At("unlisten")'
      /\ step = "unlisten" /\ ~Idle' => At("listen")'
      /\ call'.steps \in GivesUp => call.steps \in GivesUp
  BY CallProceeds
<1>2. call'.steps \in GivesUp /\ ~at1' => ~Holding(u)' BY <1>1 DEF CallOK
<1>3. CASE Idle' BY <1>3, IdleCall
<1>4. CASE ~Idle' /\ step = "flush" BY <1>1, <1>2, <1>4 DEF CallOK, At
<1>5. CASE ~Idle' /\ step = "release" BY <1>1, <1>2, <1>5 DEF CallOK, At
<1>6. CASE ~Idle' /\ step = "unlisten" BY <1>1, <1>2, <1>6 DEF CallOK, At
<1> QED BY <1>3, <1>4, <1>5, <1>6

LEMMA ReleasesLink ==
  ASSUME Fields, Fields', StreamsOK, NEW u \in Udps, Releases1(u)
  PROVE  LinkStep(C!Fresh)
<1>1. /\ Follows(C!Fresh) /\ Tx(u).ptr \in Objects /\ heap'[Tx(u).ptr] = C!Empty
      /\ \A p \in Objects \ {Tx(u).ptr} : heap'[p] = heap[p]
  <2>1. Follows(C!Fresh) /\ Tx(u).ptr \in Objects /\ \A p \in Objects \ {Tx(u).ptr} : heap'[p] = heap[p]
    BY ReleasesFollows
  <2> QED BY <2>1 DEF Releases1, Fields
<1>2. /\ lastConn' = lastConn /\ lastConn \in Nat /\ mixed' = mixed /\ sizes' = sizes /\ live' \ live = {}
      /\ \A v \in Udps : udp'[v].linkId = udp[v].linkId /\ udp'[v].listening = udp[v].listening
  BY BoundsAssumption DEF Releases1, SamePool, Fields
<1>3. ASSUME ~mixed, NEW o \in Objects, heap[o].serialId # 0, heap'[o] # heap[o], heap[o].linkId \in live'
      PROVE  \E v \in Udps : udp[v].linkId = heap[o].linkId
  <2>1. o = Tx(u).ptr BY <1>1, <1>3
  <2> QED BY <1>3, <2>1 DEF Releases1
<1> QED BY <1>1, <1>2, <1>3 DEF LinkStep

\* Nothing but links are lost.
LEMMA LessLinks ==
  ASSUME Fields, Fields', StreamsOK, heap' = heap, udp' = udp, SamePool, UNCHANGED <<clients, mixed>>,
         lastConn <= lastConn', live' \subseteq live
  PROVE  LinkStep(C!Fresh)
<1>1. \A v \in Udps : Tx(v)' = Tx(v) /\ Rx(v)' = Rx(v) BY DEF Tx, Rx
<1>2. \A v \in Udps : TxStep(v, C!Fresh) BY <1>1, SamePoolGrows DEF TxStep, PointerSteps
<1>3. Follows(C!Fresh)
  <2>1. PICK v \in Udps : TRUE BY UdpsAssumption
  <2> QED BY <1>2, TxFollows
<1> QED BY <1>3 DEF LinkStep, SamePool

\* The types, where nothing is made
LEMMA LessFields ==
  ASSUME Fields, heap' \in [Objects -> C!Streams], SamePool, packet' = packet, udp' \in [Udps -> Udp],
         clients' \subseteq clients, \A v \in Udps : udp'[v].listening = (udp'[v].linkId # NO_LINK),
         call' = [udp |-> It', steps |-> call.steps'], call.steps' \in Plans, ~Idle' => It' \in Udps,
         UNCHANGED outside, live' \subseteq live
  PROVE  Fields'
<1>1. lastConn' = lastConn /\ lastPacket' = lastPacket /\ arrived' = arrived BY DEF outside
<1>2. live' \subseteq 1 .. lastConn' /\ IsFiniteSet(live') /\ Cardinality(live') <= LINKS BY <1>1, FewerLinks
<1>3. lastConn' \in lastConn .. MaxConn BY <1>1, BoundsAssumption DEF Fields
<1>4. pool' = pool /\ serialId' = serialId /\ sizes' = sizes BY DEF SamePool
<1>5. /\ pool' \in [Slots -> Objects \cup {nullptr}] /\ serialId' \in 0 .. SERIALS - 1
      /\ sizes' \in [Objects -> Kinds \cup {"none"}] /\ clients' \subseteq C!Ptrs
  BY <1>4 DEF Fields
<1> QED BY <1>1, <1>2, <1>3, <1>5, LinkFields

LEMMA UdpTx ==
  ASSUME Fields, NEW u \in Udps, NEW p \in C!Ptrs, udp' = [udp EXCEPT ![u].txStream = p]
  PROVE  /\ udp' \in [Udps -> Udp] /\ Tx(u)' = p /\ \A v \in Udps \ {u} : Tx(v)' = Tx(v)
         /\ \A v \in Udps : Rx(v)' = Rx(v) /\ udp'[v].linkId = udp[v].linkId /\ udp'[v].listening = udp[v].listening
<1>1. udp' \in [Udps -> Udp] BY DEF Fields, Udp
<1>2. udp'[u] = [udp[u] EXCEPT !.txStream = p] /\ udp[u] \in Udp BY DEF Fields
<1>3. \A v \in Udps \ {u} : udp'[v] = udp[v] BY DEF Fields
<1> QED BY <1>1, <1>2, <1>3 DEF Udp, Tx, Rx

\* What is sent goes through, or the link is lost and the stream is freed.
LEMMA FlushedIs ==
  ASSUME Fields, StreamsOK, LinksOK, NEW o \in Objects, heap[o].rx = FALSE, NEW w \in C!Flushed(World, o)
  PROVE  /\ w.live \subseteq live /\ live \ {heap[o].linkId} \subseteq w.live
         /\ w.heap = heap \/ (w.heap = [heap EXCEPT ![o] = C!Empty] /\ heap[o].linkId \notin w.live)
<1> DEFINE hung == C!HangUp(World, o)
<1>1. World \in Worlds /\ World.heap = heap /\ World.live = live BY Free, ValidIs
<1>2. hung \in Worlds /\ hung.heap = heap /\ hung.live = live \ {heap[o].linkId} BY <1>1 DEF C!HangUp, Worlds
<1>3. ASSUME NEW v \in Worlds, v.heap = heap, v.live \subseteq live, live \ {heap[o].linkId} \subseteq v.live
      PROVE  \/ C!SendData(v, o) = v
             \/ /\ C!SendData(v, o).live = v.live
                /\ C!SendData(v, o).heap = [heap EXCEPT ![o] = C!Empty] /\ heap[o].linkId \notin v.live
  <2> DEFINE x == [v EXCEPT !.heap[o].linkId = C!NO_LINK]
             s == [heap[o] EXCEPT !.linkId = C!NO_LINK]
  <2>1. SUFFICES ASSUME heap[o].linkId \notin v.live, C!SendData(v, o) = C!ReleaseLink(v, o)
                 PROVE  C!SendData(v, o).live = v.live /\ C!SendData(v, o).heap = [heap EXCEPT ![o] = C!Empty]
    BY <1>3 DEF C!SendData, C!Active
  <2>2. s \in C!Streams /\ s.serialId = heap[o].serialId /\ s.rx = FALSE /\ (heap[o] = C!Empty => s = C!Empty)
    BY Zeros DEF Fields, C!Streams, C!Empty
  <2>3. x = [v EXCEPT !.heap = [heap EXCEPT ![o] = s]] BY <1>3 DEF Worlds
  <2> HIDE DEF x, s
  <2>4. x \in Worlds /\ x.heap = [heap EXCEPT ![o] = s] /\ x.live = v.live BY <2>2, <2>3 DEF Worlds, Fields
  <2>5. x.heap[o] = s BY <2>4 DEF Fields
  <2>6. C!ReleaseLink(v, o) = C!Free(x, o) BY <2>2, <2>5 DEF C!ReleaseLink, x
  <2>7. s.serialId = 0 => s = C!Empty BY <2>2 DEF StreamsOK
  <2>8. C!Free(x, o).heap = [x.heap EXCEPT ![o] = C!Empty] /\ C!Free(x, o).live = x.live
    BY <2>4, <2>5, <2>7, FreeIs
  <2>9. [x.heap EXCEPT ![o] = C!Empty] = [heap EXCEPT ![o] = C!Empty] BY <2>4 DEF Fields
  <2> QED BY <2>1, <2>4, <2>6, <2>8, <2>9
<1>4. w \in {World, C!SendData(World, o), C!SendData(hung, o)} BY DEF C!Flushed
<1>5. CASE w = World BY <1>1, <1>5
<1>6. CASE w = C!SendData(World, o) BY <1>1, <1>3, <1>6
<1>7. CASE w = C!SendData(hung, o)
  <2> HIDE DEF hung
  <2> QED BY <1>2, <1>3, <1>7
<1> QED BY <1>4, <1>5, <1>6, <1>7

LEMMA FlushStep == ASSUME IInv, Flush PROVE IInv'
<1>1. PICK u \in Udps : u = It BY DEF Flush, At, IInv, Fields
<1>2. Fields /\ StreamsOK /\ LinksOK /\ Composing(u) BY <1>1 DEF IInv, Flush, CallOK
<1>3. Refers(Tx(u), "txStream") /\ Tx(u) \in C!Ptrs BY <1>2, ReferTo, Pointers
<1>4. PICK o \in Objects : o = Tx(u).ptr BY <1>3 DEF Refers
<1>5. heap[o].rx = FALSE BY <1>2, <1>3, <1>4 DEF LinksOK, Refers
<1>6. PICK w \in C!Flushed(World, o) : Worked(w) BY <1>1, <1>4 DEF Flush
<1>7. /\ Proceeds /\ SamePool /\ packet' = packet /\ udp' = udp /\ clients' = clients /\ at1' = at1
      /\ mixed' = mixed /\ lastConn' = lastConn /\ UNCHANGED outside
  BY DEF Flush, outside
<1>8. /\ live' \subseteq live
      /\ heap' = heap \/ (heap' = [heap EXCEPT ![o] = C!Empty] /\ heap[o].linkId \notin live')
  BY <1>2, <1>5, <1>6, FlushedIs DEF Worked
<1>9. PICK step \in {"flush", "release", "unlisten"} : step = "flush" OBVIOUS
<1>10. At(step) BY <1>9 DEF Flush
<1>11. Fields'
  <2>1. heap' \in [Objects -> C!Streams] BY <1>2, <1>8, Zeros DEF Fields
  <2>2. call' = [udp |-> It', steps |-> call.steps'] /\ call.steps' \in Plans /\ (~Idle' => It' \in Udps)
    BY <1>2, <1>7, <1>10, CallProceeds
  <2>3. udp' \in [Udps -> Udp] /\ \A v \in Udps : udp'[v].listening = (udp'[v].linkId # NO_LINK)
    BY <1>2, <1>7 DEF Fields
  <2> QED BY <1>2, <1>7, <1>8, <2>1, <2>2, <2>3, LessFields
<1>12. \A v \in Udps : Tx(v)' = Tx(v) /\ Rx(v)' = Rx(v) BY <1>7 DEF Tx, Rx
<1>13. LinkStep(C!Fresh)
  <2>1. CASE heap' = heap
    <3>1. lastConn <= lastConn' BY <1>2, <1>7, BoundsAssumption DEF Fields
    <3> QED BY <1>2, <1>7, <1>8, <1>11, <2>1, <3>1, LessLinks
  <2>2. CASE heap' = [heap EXCEPT ![o] = C!Empty] /\ heap[o].linkId \notin live'
    <3>1. Releases1(u)
      BY <1>2, <1>3, <1>4, <1>7, <1>8, <1>12, <2>2 DEF Releases1, Refers
    <3> QED BY <1>2, <1>11, <3>1, ReleasesLink
  <2> QED BY <1>8, <2>1, <2>2
<1>14. CallOK'
  <2>1. Tx(u)'.ptr # nullptr /\ (Composing(u)' \/ heap'[Tx(u)'.ptr].serialId = 0)
    <3>1. CASE heap' = heap BY <1>3, <1>12, <3>1, ValidNow DEF Refers
    <3>2. CASE heap' = [heap EXCEPT ![o] = C!Empty] BY <1>2, <1>3, <1>4, <1>12, <3>2, Zeros DEF Refers, Fields
    <3> QED BY <1>8, <3>1, <3>2
  <2>2. Holding(u)' => Holding(u) BY <1>2, <1>11, <1>12, <1>13, LinkLeaves
  <2> QED BY <1>1, <1>7, <1>9, <1>10, <2>1, <2>2, CallOn DEF IInv
<1> QED BY <1>7, <1>11, <1>12, <1>13, <1>14, LinkRest

LEMMA ReleaseIs ==
  ASSUME IInv, Release, NEW u \in Udps, u = It
  PROVE  \E o \in Objects, p \in C!Ptrs :
           /\ o = Tx(u).ptr /\ p = [Tx(u) EXCEPT !.ptr = nullptr] /\ udp' = [udp EXCEPT ![u].txStream = p]
           /\ heap' = [heap EXCEPT ![o] = C!Empty]
           /\ live' = IF udp[u].listening THEN live ELSE live \ {heap[o].linkId}
<1>1. /\ Fields /\ StreamsOK /\ LinksOK /\ Tx(u).ptr # nullptr
      /\ Composing(u) \/ heap[Tx(u).ptr].serialId = 0
  BY DEF IInv, Release, CallOK
<1>2. Tx(u) \in C!Ptrs /\ Leads(Tx(u), "txStream") BY <1>1, Pointers DEF StreamsOK
<1>3. PICK o \in Objects : o = Tx(u).ptr BY <1>1, <1>2, Pointers
<1> DEFINE w == IF udp[u].listening THEN C!Free(World, o) ELSE C!Close(World, o)
<1>4. /\ w \in Worlds /\ w.heap = [heap EXCEPT ![o] = C!Empty]
      /\ w.live = IF udp[u].listening THEN live ELSE live \ {heap[o].linkId}
  <2>1. World \in Worlds /\ World.heap = heap /\ World.live = live /\ (heap[o].serialId = 0 => heap[o] = C!Empty)
    BY <1>1, Free, ValidIs
  <2>2. CASE udp[u].listening BY <2>1, <2>2, FreeIs
  <2>3. CASE ~udp[u].listening BY <2>1, <2>3, CloseIs
  <2> QED BY <2>2, <2>3
<1> HIDE DEF w
<1>5. ~C!Valid(w, Tx(u))
  <2>1. w.heap[o].serialId = 0 BY <1>1, <1>4, Zeros DEF Fields
  <2> QED BY <1>1, <1>2, <1>3, <2>1, ValidIs DEF Leads
<1>6. C!TakeOver(w, Tx(u), C!Fresh).world = w
      /\ C!TakeOver(w, Tx(u), C!Fresh).ptr = [Tx(u) EXCEPT !.ptr = nullptr]
  BY <1>2, <1>5, TakeOverFresh
<1>7. PICK p \in C!Ptrs : p = [Tx(u) EXCEPT !.ptr = nullptr] BY <1>2, Zeros DEF C!Ptrs
<1>8. Worked(w) /\ udp' = [udp EXCEPT ![u].txStream = p] BY <1>3, <1>6, <1>7 DEF Release, w
<1> QED BY <1>3, <1>4, <1>7, <1>8 DEF Worked

LEMMA ReleaseStep == ASSUME IInv, Release PROVE IInv'
<1>1. PICK u \in Udps : u = It BY DEF Release, At, IInv, Fields
<1>2. /\ Fields /\ StreamsOK /\ LinksOK /\ Tx(u).ptr # nullptr
      /\ Composing(u) \/ heap[Tx(u).ptr].serialId = 0
  BY <1>1 DEF IInv, Release, CallOK
<1>3. PICK o \in Objects, p \in C!Ptrs :
        /\ o = Tx(u).ptr /\ p = [Tx(u) EXCEPT !.ptr = nullptr] /\ udp' = [udp EXCEPT ![u].txStream = p]
        /\ heap' = [heap EXCEPT ![o] = C!Empty]
        /\ live' = IF udp[u].listening THEN live ELSE live \ {heap[o].linkId}
  BY <1>1, ReleaseIs
<1>4. /\ Proceeds /\ SamePool /\ packet' = packet /\ clients' = clients /\ at1' = at1
      /\ mixed' = mixed /\ lastConn' = lastConn /\ UNCHANGED outside
  BY DEF Release, outside
<1>5. /\ heap' = [heap EXCEPT ![o] = C!Empty] /\ live' \subseteq live
      /\ heap[o].linkId \in live' => udp[u].listening
  BY <1>3
<1>6. /\ udp' \in [Udps -> Udp] /\ Tx(u)' = p
      /\ \A v \in Udps \ {u} : Tx(v)' = Tx(v)
      /\ \A v \in Udps : Rx(v)' = Rx(v) /\ udp'[v].linkId = udp[v].linkId /\ udp'[v].listening = udp[v].listening
  BY <1>2, <1>3, UdpTx
<1>7. PICK step \in {"flush", "release", "unlisten"} : step = "release" OBVIOUS
<1>8. At(step) BY <1>7 DEF Release
<1>9. Fields'
  <2>1. heap' \in [Objects -> C!Streams] BY <1>2, <1>5, Zeros DEF Fields
  <2>2. call' = [udp |-> It', steps |-> call.steps'] /\ call.steps' \in Plans /\ (~Idle' => It' \in Udps)
    BY <1>2, <1>4, <1>8, CallProceeds
  <2>3. \A v \in Udps : udp'[v].listening = (udp'[v].linkId # NO_LINK)
    BY <1>2, <1>6 DEF Fields
  <2> QED BY <1>2, <1>4, <1>5, <1>6, <2>1, <2>2, <2>3, LessFields
<1>10. Releases1(u)
  <2>1. ASSUME Composing(u), ~mixed, heap[o].linkId \in live' PROVE udp[u].linkId = heap[o].linkId
    <3>1. heap[o].linkId \in {udp[u].linkId, NO_LINK} BY <1>2, <1>3, <1>5, <2>1 DEF LinksOK
    <3>2. heap[o].linkId # NO_LINK BY <1>2, <1>5, <2>1, Zeros, BoundsAssumption DEF Fields
    <3> QED BY <3>1, <3>2
  <2> QED BY <1>2, <1>3, <1>4, <1>5, <1>6, <2>1 DEF Releases1
<1>11. LinkStep(C!Fresh) BY <1>2, <1>9, <1>10, ReleasesLink
<1>12. CallOK'
  <2>1. ~Composing(u)' BY <1>2, <1>9, <1>10, ReleasesFollows
  <2>2. Holding(u)' => Holding(u) BY <1>2, <1>6, <1>9, <1>11, LinkLeaves
  <2> QED BY <1>1, <1>4, <1>7, <1>8, <2>1, <2>2, CallOn DEF IInv
<1> QED BY <1>4, <1>6, <1>9, <1>11, <1>12, LinkRest

LEMMA LinkLostStep == ASSUME IInv, NEW m, LinkLost(m) PROVE IInv'
<1>1. /\ heap' = heap /\ udp' = udp /\ SamePool /\ UNCHANGED <<clients, mixed, lastConn>> /\ live' \subseteq live
      /\ packet' = packet /\ call' = call /\ at1' = at1 /\ UNCHANGED outside /\ clients' \subseteq clients
  BY DEF LinkLost, SamePool, streams, outside
<1>2. Fields'
  <2>1. call' = [udp |-> It', steps |-> call.steps'] /\ call.steps' \in Plans /\ (~Idle' => It' \in Udps)
    BY <1>1, UnchangedCall DEF IInv
  <2>2. /\ heap' \in [Objects -> C!Streams] /\ udp' \in [Udps -> Udp]
        /\ \A v \in Udps : udp'[v].listening = (udp'[v].linkId # NO_LINK)
    BY <1>1 DEF IInv, Fields
  <2> QED BY <1>1, <2>1, <2>2, LessFields DEF IInv
<1>3. LinkStep(C!Fresh)
  <2>1. lastConn <= lastConn' BY <1>1, BoundsAssumption DEF IInv, Fields
  <2> QED BY <1>1, <1>2, <2>1, LessLinks DEF IInv
<1>4. \A v \in Udps : Rx(v)' = Rx(v) /\ Tx(v)' = Tx(v) BY <1>1 DEF Rx, Tx
<1>5. CallOK'
  <2>1. \A v \in Udps : (Composing(v)' <=> Composing(v)) /\ (Holding(v)' => Holding(v))
    BY <1>1, <1>4, ValidNow, ReferTo DEF IInv
  <2> QED BY <1>1, <1>4, <2>1, CallKept DEF IInv
<1> QED BY <1>1, <1>2, <1>3, <1>4, <1>5, LinkRest

----------------------------------------------------------------------------
(* Streams that are taken for a link *)

Here(w) == w.heap = heap

(* n leads to o, which was taken for connection conn. *)
Gets(n, o, kind, conn) ==
  Taken(World, kind, o) /\ n = NewPtr(o) /\ heap' = [heap EXCEPT ![o] = NewStream(serialId + 1, conn)]

Got(n, o, kind, conn) ==
  /\ Grows /\ IsNew(n) /\ n.ptr # nullptr /\ n.ptr = o /\ n = To(o)' /\ n.serialId = serialId'
  /\ heap' \in [Objects -> C!Streams] /\ heap[o].serialId = 0
  /\ heap'[o].serialId # 0 /\ heap'[o].serialId = serialId' /\ serialId' = serialId + 1
  /\ heap'[o].refCount = 1 /\ heap'[o].linkId = conn /\ heap'[o].rx = FALSE
  /\ sizes'[o] = kind /\ \A p \in Objects \ {o} : heap'[p] = heap[p] /\ sizes'[p] = sizes[p]
  /\ pool' \in [Slots -> Objects \cup {nullptr}] /\ serialId' \in 0 .. SERIALS - 1
  /\ sizes' \in [Objects -> Kinds \cup {"none"}]

LEMMA RequestHere ==
  ASSUME Fields, StreamsOK, NEW w \in Worlds, Here(w), NEW conn \in C!Conns, NEW kind \in Kinds,
         NEW q, q = Request(w, conn, kind), Pooled(q)
  PROVE  \/ q.world = w /\ q.ptr = C!Fresh /\ SamePool
         \/ \E o \in Objects, n \in C!Ptrs :
              /\ Taken(World, kind, o) /\ n = NewPtr(o)
              /\ q.world.heap = [heap EXCEPT ![o] = NewStream(serialId + 1, conn)]
              /\ q.world.live = w.live /\ q.ptr = n
<1>1. /\ PoolType /\ sizes \in [Objects -> Kinds \cup {"none"}]
      /\ \A o \in Objects : w.heap[o].serialId <= serialId
      /\ \A o \in Objects \ C!Allocated : w.heap[o].serialId = 0
  BY Free, Zeros DEF Here
<1>2. \A o \in Objects : Taken(World, kind, o) => NewPtr(o) \in C!Ptrs
  BY NewPtrTypes DEF Taken
<1>3. \/ Candidates(w, kind) = {} /\ q.world = w /\ q.ptr = C!Fresh /\ SamePool
      \/ /\ Candidates(w, kind) # {}
         /\ \E o \in Objects :
              /\ Taken(w, kind, o)
              /\ q.world.heap = [w.heap EXCEPT ![o] = NewStream(serialId + 1, conn)]
              /\ q.world.live = w.live /\ q.ptr = NewPtr(o) /\ q.world \in Worlds
  <2>1. Pooled(q) /\ conn \in C!Conns \cup {NO_LINK} OBVIOUS
  <2> QED BY <1>1, <2>1, RequestIs
<1>4. CASE Candidates(w, kind) = {} BY <1>3, <1>4
<1>5. CASE Candidates(w, kind) # {}
  <2>1. PICK o \in Objects :
          /\ Taken(World, kind, o)
          /\ q.world.heap = [w.heap EXCEPT ![o] = NewStream(serialId + 1, conn)]
          /\ q.world.live = w.live /\ q.ptr = NewPtr(o)
    <3>1. \A o \in Objects : Taken(w, kind, o) => Taken(World, kind, o) BY ValidIs DEF Taken, Here
    <3> QED BY <1>3, <1>5, <3>1
  <2> QED BY <1>2, <2>1 DEF Here
<1> QED BY <1>4, <1>5

\* What follows of a stream's being taken
LEMMA Takes ==
  ASSUME Fields, StreamsOK, NEW conn \in C!Conns, NEW kind \in Kinds, kind # "rxStream",
         NEW o \in Objects, NEW n, Gets(n, o, kind, conn)
  PROVE  Got(n, o, kind, conn)
<1> USE DEF Gets
<1>1. /\ n.ptr = o /\ n.serialId = serialId' /\ o # nullptr /\ serialId' = serialId + 1 /\ serialId \in Nat
      /\ heap[o].serialId = 0
  BY Zeros, Pointers, ValidIs DEF NewPtr, Taken
<1>2. Grows
  <2>1. \A p \in C!Allocated : p \in Objects /\ sizes'[p] = sizes[p] BY Pointers DEF Taken
  <2> QED BY <1>1, <2>1 DEF Grows, Taken
<1>3. IsNew(n) BY <1>1 DEF IsNew, Taken
<1>4. NewStream(serialId + 1, conn) \in C!Streams BY <1>1, Zeros DEF NewStream, C!Streams, C!NO_LINK, Taken
<1>5. heap' \in [Objects -> C!Streams] BY <1>4 DEF Fields
<1>6. heap'[o] = NewStream(serialId + 1, conn) /\ \A p \in Objects \ {o} : heap'[p] = heap[p] BY DEF Fields
<1>7. /\ heap'[o].serialId # 0 /\ heap'[o].serialId = serialId'
      /\ heap'[o].refCount = 1 /\ heap'[o].linkId = conn /\ heap'[o].rx = FALSE
  BY <1>1, <1>6 DEF NewStream
<1>8. n = To(o)' BY <1>1, <1>7 DEF To, NewPtr
<1> QED BY <1>1, <1>2, <1>3, <1>5, <1>6, <1>7, <1>8 DEF Taken, Got

Composes(n, o, u, w, conn) ==
  Gets(n, o, "txStream", conn) /\ udp' = [udp EXCEPT ![u].txStream = n] /\ live' = w.live

ComposesNone(u, w, conn) ==
  /\ SamePool /\ heap' = heap /\ udp' = [udp EXCEPT ![u].txStream = [Tx(u) EXCEPT !.ptr = nullptr]]
  /\ live' = IF udp[u].listening THEN w.live ELSE w.live \ {conn}

LEMMA ComposeIs ==
  ASSUME Fields, StreamsOK, NEW u \in Udps, u = It, ~Composing(u), NEW w \in Worlds, Here(w),
         NEW conn \in C!Conns, Compose(w, conn)
  PROVE  ComposesNone(u, w, conn) \/ \E o \in Objects, n \in C!Ptrs : Composes(n, o, u, w, conn)
<1> DEFINE q == Request(w, conn, "txStream")
           r == C!TakeOver(q.world, Tx(u), q.ptr)
           v == IF C!Valid(r.world, r.ptr) \/ udp[u].listening THEN r.world
                ELSE [r.world EXCEPT !.live = @ \ {conn}]
<1>1. Pooled(q) /\ Worked(v) /\ udp' = [udp EXCEPT ![u].txStream = r.ptr] BY DEF Compose
<1>2. PICK kind \in Kinds : kind = "txStream" BY DEF Kinds
<1>3. q = Request(w, conn, kind) BY <1>2
<1> HIDE DEF q
<1>4. \/ q.world = w /\ q.ptr = C!Fresh /\ SamePool
      \/ \E o \in Objects, n \in C!Ptrs :
           /\ Taken(World, kind, o) /\ n = NewPtr(o)
           /\ q.world.heap = [heap EXCEPT ![o] = NewStream(serialId + 1, conn)]
           /\ q.world.live = w.live /\ q.ptr = n
  <2>1. Pooled(q) BY <1>1
  <2> QED BY <1>3, <2>1, RequestHere
<1>5. /\ Tx(u) \in C!Ptrs /\ Tx(u).serialId <= serialId /\ (Tx(u).ptr # nullptr => Tx(u).ptr \in Objects)
      /\ ~(Tx(u).ptr # nullptr /\ heap[Tx(u).ptr].serialId = Tx(u).serialId)
  BY Pointers, ReferTo DEF StreamsOK, Leads
<1>6. CASE q.world = w /\ q.ptr = C!Fresh /\ SamePool
  <2>1. ~C!Valid(w, Tx(u)) BY <1>5, ValidIs DEF Here
  <2>2. r.world = w /\ r.ptr = [Tx(u) EXCEPT !.ptr = nullptr] BY <1>5, <1>6, <2>1, TakeOverFresh
  <2>3. ~C!Valid(r.world, r.ptr) BY <1>5, <2>2, ValidIs DEF C!Ptrs
  <2>4. v.heap = w.heap /\ v.live = IF udp[u].listening THEN w.live ELSE w.live \ {conn}
    BY <2>2, <2>3 DEF Worlds
  <2> HIDE DEF v, r
  <2> QED BY <1>1, <1>6, <2>2, <2>4 DEF Worked, Here, ComposesNone
<1>7. ASSUME NEW o \in Objects, NEW n \in C!Ptrs, Taken(World, kind, o), n = NewPtr(o),
             q.world.heap = [heap EXCEPT ![o] = NewStream(serialId + 1, conn)],
             q.world.live = w.live, q.ptr = n
      PROVE  Composes(n, o, u, w, conn)
  <2>1. n.ptr = o /\ n.serialId = serialId + 1 /\ o # nullptr /\ serialId \in Nat BY <1>7, Zeros, Pointers DEF NewPtr
  <2>2. /\ q.world.heap[o].serialId = serialId + 1
        /\ \A p \in Objects \ {o} : q.world.heap[p] = heap[p]
    BY <1>7 DEF NewStream, Fields
  <2>3. ~C!Valid(q.world, Tx(u)) BY <1>5, <2>1, <2>2, ValidIs, Pointers
  <2>4. Tx(u).serialId # n.serialId BY <1>5, <2>1, Pointers
  <2>5. r.world = q.world /\ r.ptr = n BY <1>5, <1>7, <2>1, <2>3, <2>4, TakeOverNew
  <2>6. C!Valid(r.world, r.ptr) BY <2>1, <2>2, <2>5, ValidIs
  <2>7. v = q.world BY <2>5, <2>6
  <2> HIDE DEF v, r
  <2> QED BY <1>1, <1>2, <1>7, <2>5, <2>7 DEF Worked, Composes, Gets
<1> QED BY <1>4, <1>6, <1>7

OpensNone(u) ==
  /\ SamePool /\ heap' = heap /\ live' = live /\ lastConn' \in lastConn .. MaxConn
  /\ udp' = udp \/ udp' = [udp EXCEPT ![u].txStream = [Tx(u) EXCEPT !.ptr = nullptr]]

Opens(u, o, n, conn) ==
  /\ Gets(n, o, "txStream", conn) /\ udp' = [udp EXCEPT ![u].txStream = n]
  /\ \/ udp[u].listening /\ conn = udp[u].linkId /\ live' = live /\ lastConn' = lastConn
     \/ ~udp[u].listening /\ conn = lastConn + 1 /\ live' = live \cup {conn} /\ Connects(World)

LEMMA OpenIs ==
  ASSUME IInv, Open, NEW u \in Udps, u = It
  PROVE  OpensNone(u) \/ \E conn \in C!Conns, o \in Objects, n \in C!Ptrs : Opens(u, o, n, conn)
<1>1. Fields /\ StreamsOK /\ ~Composing(u) BY DEF IInv, Open, CallOK
<1>2. World \in Worlds /\ World.heap = heap /\ World.live = live BY <1>1, Free, ValidIs
<1>3. CASE udp[u].listening /\ Compose(World, udp[u].linkId) /\ UNCHANGED lastConn
  <2>1. PICK conn \in C!Conns : conn = udp[u].linkId
    BY <1>1, <1>3, BoundsAssumption, Zeros DEF Fields, Udp, C!Conns
  <2>2. PICK w \in Worlds : w = World BY <1>2
  <2>3. Here(w) /\ w.live = live /\ Compose(w, conn) BY <1>2, <1>3, <2>1, <2>2 DEF Here
  <2>4. lastConn' = lastConn /\ lastConn' \in lastConn .. MaxConn BY <1>1, <1>3, BoundsAssumption DEF Fields
  <2>5. ComposesNone(u, w, conn) \/ \E o \in Objects, n \in C!Ptrs : Composes(n, o, u, w, conn)
    BY <1>1, <2>3, ComposeIs
  <2>6. CASE ComposesNone(u, w, conn) BY <1>3, <2>3, <2>4, <2>6 DEF ComposesNone, OpensNone
  <2>7. ASSUME NEW o \in Objects, NEW n \in C!Ptrs, Composes(n, o, u, w, conn)
        PROVE  Opens(u, o, n, conn)
    BY <1>3, <2>1, <2>3, <2>4, <2>7 DEF Composes, Opens
  <2> QED BY <2>5, <2>6, <2>7
<1>4. CASE ~udp[u].listening /\ Connects(World) /\ Compose([World EXCEPT !.live = @ \cup {lastConn + 1}], lastConn + 1)
  <2>1. /\ lastConn' = lastConn + 1 /\ lastConn' \in lastConn .. MaxConn
        /\ lastConn + 1 \in C!Conns /\ lastConn + 1 \notin live
    BY <1>1, <1>4, OneMoreLink
  <2>2. PICK conn \in C!Conns : conn = lastConn + 1 BY <2>1
  <2> DEFINE x == [heap |-> heap, live |-> live \cup {lastConn + 1}]
  <2>3. PICK w \in Worlds : /\ w = [World EXCEPT !.live = @ \cup {lastConn + 1}] /\ Here(w)
                            /\ w.live = live \cup {lastConn + 1}
    <3>1. live \cup {lastConn + 1} \in SUBSET C!Conns BY <1>2, <2>1 DEF Worlds
    <3>2. x \in Worlds /\ Here(x) /\ x.live = live \cup {lastConn + 1} BY <1>1, <3>1 DEF Worlds, Fields, Here
    <3>3. x = [World EXCEPT !.live = @ \cup {lastConn + 1}] BY DEF World
    <3> HIDE DEF x
    <3> QED BY <3>2, <3>3
  <2>4. Compose(w, conn) BY <1>4, <2>2, <2>3
  <2>5. w.live \ {conn} = live BY <2>1, <2>2, <2>3
  <2>6. ComposesNone(u, w, conn) \/ \E o \in Objects, n \in C!Ptrs : Composes(n, o, u, w, conn)
    BY <1>1, <2>3, <2>4, ComposeIs
  <2>7. CASE ComposesNone(u, w, conn) BY <1>4, <2>1, <2>5, <2>7 DEF ComposesNone, OpensNone
  <2>8. ASSUME NEW o \in Objects, NEW n \in C!Ptrs, Composes(n, o, u, w, conn)
        PROVE  Opens(u, o, n, conn)
    <3>1. live' = live \cup {conn} BY <2>2, <2>3, <2>8 DEF Composes
    <3> QED BY <1>4, <2>2, <2>8, <3>1 DEF Composes, Opens
  <2> QED BY <2>6, <2>7, <2>8
<1>5. CASE ~udp[u].listening /\ SamePool /\ UNCHANGED <<heap, live, udp, lastConn>>
  <2>1. lastConn' \in lastConn .. MaxConn BY <1>1, <1>5, BoundsAssumption DEF Fields
  <2> QED BY <1>5, <2>1 DEF OpensNone
<1> QED BY <1>3, <1>4, <1>5 DEF Open

LEMMA OpenStep == ASSUME IInv, Open PROVE IInv'
<1>1. PICK u \in Udps : u = It BY DEF Open, At, IInv, Fields
<1>2. Fields /\ StreamsOK /\ LinksOK /\ ~Composing(u) BY <1>1 DEF IInv, Open, CallOK
<1>3. /\ Returns /\ packet' = packet /\ clients' = clients /\ at1' = at1 /\ mixed' = mixed
      /\ lastPacket' = lastPacket /\ arrived' = arrived
  BY DEF Open
<1>4. /\ CallOK' /\ call' = [udp |-> It', steps |-> call.steps'] /\ call.steps' \in Plans
      /\ (~Idle' => It' \in Udps)
  BY <1>2, <1>3, CallEnds
<1>5. Tx(u) \in C!Ptrs /\ [Tx(u) EXCEPT !.ptr = nullptr] \in C!Ptrs BY <1>2, Pointers, Zeros DEF C!Ptrs
\* No stream was taken: the link made for it is closed.
<1>6. CASE OpensNone(u)
  <2> USE DEF OpensNone
  <2>1. PICK p \in C!Ptrs : p \in {Tx(u), [Tx(u) EXCEPT !.ptr = nullptr]} /\ udp' = [udp EXCEPT ![u].txStream = p]
    <3>1. udp = [udp EXCEPT ![u].txStream = Tx(u)] BY <1>2 DEF Fields, Udp, Tx
    <3> QED BY <1>5, <1>6, <3>1
  <2>2. /\ udp' \in [Udps -> Udp] /\ Tx(u)' = p /\ \A v \in Udps \ {u} : Tx(v)' = Tx(v)
        /\ \A v \in Udps : Rx(v)' = Rx(v) /\ udp'[v].linkId = udp[v].linkId /\ udp'[v].listening = udp[v].listening
    BY <1>2, <2>1, UdpTx
  <2>3. Fields'
    <3>1. /\ heap' \in [Objects -> C!Streams] /\ pool' \in [Slots -> Objects \cup {nullptr}]
          /\ serialId' \in 0 .. SERIALS - 1 /\ sizes' \in [Objects -> Kinds \cup {"none"}]
          /\ clients' \subseteq C!Ptrs /\ \A v \in Udps : udp'[v].listening = (udp'[v].linkId # NO_LINK)
      BY <1>2, <1>3, <1>6, <2>2 DEF Fields, SamePool
    <3>2. live' \subseteq 1 .. lastConn' /\ IsFiniteSet(live') /\ Cardinality(live') <= LINKS
      BY <1>2, <1>6, BoundsAssumption DEF Fields
    <3> QED BY <1>2, <1>3, <1>4, <1>6, <2>2, <3>1, <3>2, LinkFields
  <2>4. Tx(u)' = Tx(u) \/ (Lost(Tx(u)) /\ Tx(u)'.ptr = nullptr /\ Tx(u)'.serialId \in 0 .. serialId')
    <3>1. Tx(u).ptr # nullptr => heap[Tx(u).ptr].serialId # Tx(u).serialId BY <1>2, ReferTo
    <3>2. Lost(Tx(u)) BY <1>6, <3>1 DEF Lost
    <3>3. Tx(u).serialId \in 0 .. serialId' BY <1>2, <1>6 DEF StreamsOK, Leads, SamePool
    <3> QED BY <1>5, <2>1, <2>2, <3>2, <3>3 DEF C!Ptrs
  <2>5. TxStep(u, C!Fresh)
    BY <1>2, <1>3, <1>6, <2>2, <2>4, SamePoolGrows DEF TxStep, PointerSteps
  <2>6. LinkStep(C!Fresh)
    <3>1. Follows(C!Fresh) BY <1>2, <2>3, <2>5, TxFollows
    <3>2. lastConn <= lastConn' BY <1>6, BoundsAssumption DEF Fields
    <3> QED BY <1>3, <1>6, <2>2, <3>1, <3>2 DEF LinkStep, SamePool
  <2> QED BY <1>3, <1>4, <2>2, <2>3, <2>6, LinkRest
\* A stream was taken for the link.
<1>7. ASSUME NEW conn \in C!Conns, NEW o \in Objects, NEW n \in C!Ptrs, Opens(u, o, n, conn) PROVE IInv'
  <2> USE DEF Opens
  <2>1. PICK kind \in Kinds : kind = "txStream" BY DEF Kinds
  <2>2. Gets(n, o, kind, conn) /\ kind # "rxStream" BY <1>7, <2>1
  <2>3. /\ Grows /\ IsNew(n) /\ n.ptr # nullptr /\ n.ptr = o /\ n = To(o)' /\ n.serialId = serialId'
        /\ heap' \in [Objects -> C!Streams] /\ heap[o].serialId = 0
        /\ heap'[o].serialId # 0 /\ heap'[o].serialId = serialId' /\ serialId' = serialId + 1
        /\ heap'[o].refCount = 1 /\ heap'[o].linkId = conn /\ heap'[o].rx = FALSE
        /\ sizes'[o] = kind /\ \A p \in Objects \ {o} : heap'[p] = heap[p] /\ sizes'[p] = sizes[p]
        /\ pool' \in [Slots -> Objects \cup {nullptr}] /\ serialId' \in 0 .. SERIALS - 1
        /\ sizes' \in [Objects -> Kinds \cup {"none"}]
    BY <1>2, <2>2, Takes DEF Got
  <2>4. /\ udp' \in [Udps -> Udp] /\ Tx(u)' = n /\ \A v \in Udps \ {u} : Tx(v)' = Tx(v)
        /\ \A v \in Udps : Rx(v)' = Rx(v) /\ udp'[v].linkId = udp[v].linkId /\ udp'[v].listening = udp[v].listening
    BY <1>2, <1>7, UdpTx
  <2>5. /\ lastConn' \in lastConn .. MaxConn /\ lastConn <= lastConn'
        /\ live' \subseteq 1 .. lastConn' /\ IsFiniteSet(live') /\ Cardinality(live') <= LINKS
        /\ ~udp[u].listening => conn = lastConn' /\ lastConn < lastConn'
    <3>1. CASE udp[u].listening BY <1>2, <1>7, <3>1, BoundsAssumption DEF Fields
    <3>2. CASE ~udp[u].listening BY <1>2, <1>7, <3>2, OneMoreLink, BoundsAssumption DEF Fields
    <3> QED BY <3>1, <3>2
  <2>6. Fields'
    <3>1. clients' \subseteq C!Ptrs /\ \A v \in Udps : udp'[v].listening = (udp'[v].linkId # NO_LINK)
      BY <1>2, <1>3, <2>4 DEF Fields
    <3> QED BY <1>2, <1>3, <1>4, <2>3, <2>4, <2>5, <3>1, LinkFields
  <2>7. TxStep(u, n)
    <3>1. Lost(Tx(u))
      <4> SUFFICES ASSUME Tx(u).ptr # nullptr, heap'[Tx(u).ptr].serialId = Tx(u).serialId PROVE FALSE BY DEF Lost
      <4>1. Tx(u).serialId <= serialId /\ Tx(u).ptr \in Objects BY <1>2, Pointers DEF StreamsOK, Leads
      <4>2. heap[Tx(u).ptr].serialId # Tx(u).serialId BY <1>2, ReferTo
      <4> QED BY <1>2, <1>5, <2>3, <4>1, <4>2, Pointers
    <3>2. PointerSteps(n, "txStream", Tx(u), Tx(u)') BY <2>1, <2>3, <2>4, <3>1 DEF PointerSteps
    <3> QED BY <1>3, <2>3, <2>4, <3>2 DEF TxStep
  <2>8. Follows(n) BY <1>2, <2>6, <2>7, TxFollows
  <2>9. OnLink(n, o)
    <3>1. CASE udp[u].listening BY <1>7, <2>1, <2>3, <2>4, <3>1 DEF OnLink
    <3>2. CASE ~udp[u].listening
      <4>1. \A v \in Udps : Tx(v)' = n => v = u BY <2>3, <2>4, <2>8 DEF Follows
      <4> QED BY <2>1, <2>3, <2>5, <3>2, <4>1 DEF OnLink
    <3> QED BY <3>1, <3>2
  <2>10. ASSUME NEW m \in live' \ live PROVE m = conn BY <1>7, <2>10
  <2>11. LinkStep(n)
    <3>1. \A m \in live' \ live : /\ n.ptr \in Objects /\ n = To(n.ptr)' /\ heap'[n.ptr].linkId = m
                                  /\ (\E v \in Udps : Tx(v)' = n) \/ n \in clients'
      BY <2>3, <2>4, <2>10 DEF To
    <3>2. \A p \in Objects : OnLink(n, p) \/ (heap'[p] = heap[p] /\ sizes'[p] = sizes[p]) BY <2>3, <2>9
    <3>3. \A p \in Objects : heap[p].serialId # 0 => heap'[p] = heap[p] BY <2>3
    <3> QED BY <1>3, <2>4, <2>5, <2>8, <3>1, <3>2, <3>3 DEF LinkStep
  <2> QED BY <1>3, <1>4, <2>4, <2>6, <2>11, LinkRest
<1> QED BY <1>1, <1>6, <1>7, OpenIs

----------------------------------------------------------------------------
(* Steps at the listener's link *)

SetsLink(u, l) == udp' = [udp EXCEPT ![u].linkId = l, ![u].listening = (l # NO_LINK)]

HasLink(u, l) ==
  /\ udp' \in [Udps -> Udp] /\ udp'[u].linkId = l /\ \A v \in Udps : Tx(v)' = Tx(v) /\ Rx(v)' = Rx(v)
  /\ \A v \in Udps \ {u} : udp'[v].linkId = udp[v].linkId /\ udp'[v].listening = udp[v].listening
  /\ \A v \in Udps : udp'[v].listening = (udp'[v].linkId # NO_LINK)

LEMMA UdpLink ==
  ASSUME Fields, NEW u \in Udps, NEW l \in 0 .. MaxConn, SetsLink(u, l)
  PROVE  HasLink(u, l)
<1> PICK b \in BOOLEAN : b = (l # NO_LINK) OBVIOUS
<1> DEFINE x == [udp[u] EXCEPT !.linkId = l]
           y == [x EXCEPT !.listening = b]
<1>1. udp[u] \in Udp /\ udp'[u] = y BY DEF Fields, SetsLink
<1>2. \A v \in Udps \ {u} : udp'[v] = udp[v] BY DEF Fields, SetsLink
<1>3. x \in Udp /\ x.linkId = l /\ x.txStream = udp[u].txStream /\ x.rxStream = udp[u].rxStream BY <1>1 DEF Udp
<1> HIDE DEF x
<1>4. y \in Udp /\ y.linkId = l /\ y.listening = b /\ y.txStream = x.txStream /\ y.rxStream = x.rxStream
  BY <1>3 DEF Udp
<1> HIDE DEF y
<1>5. udp' \in [Udps -> Udp] BY <1>1, <1>2, <1>4 DEF Fields, SetsLink
<1> QED BY <1>1, <1>2, <1>3, <1>4, <1>5 DEF Fields, Tx, Rx, HasLink

\* u's link becomes l: it is given up, or it is a new one.
Relinks(u, l) ==
  /\ heap' = heap /\ SamePool /\ packet' = packet /\ clients' = clients /\ at1' = at1
  /\ lastPacket' = lastPacket /\ arrived' = arrived
  /\ l \in 0 .. MaxConn /\ SetsLink(u, l)
  /\ lastConn' \in lastConn .. MaxConn /\ (l # NO_LINK => l = lastConn' /\ lastConn < lastConn')
  /\ live' \subseteq 1 .. lastConn' /\ IsFiniteSet(live') /\ Cardinality(live') <= LINKS
  /\ \A m \in live' : m = l \/ (m \in live /\ m # udp[u].linkId)
  /\ (mixed => mixed') /\ (l # NO_LINK /\ Composing(u) => mixed')
  /\ ~at1 => ~Holding(u)

LEMMA RelinksStep ==
  ASSUME IInv, NEW u \in Udps, NEW l, Relinks(u, l), CallOK',
         call' = [udp |-> It', steps |-> call.steps'], call.steps' \in Plans, ~Idle' => It' \in Udps
  PROVE  IInv'
<1>1. /\ udp' \in [Udps -> Udp] /\ udp'[u].linkId = l /\ \A v \in Udps : Tx(v)' = Tx(v) /\ Rx(v)' = Rx(v)
      /\ \A v \in Udps \ {u} : udp'[v].linkId = udp[v].linkId /\ udp'[v].listening = udp[v].listening
      /\ \A v \in Udps : udp'[v].listening = (udp'[v].linkId # NO_LINK)
  <2>1. l \in 0 .. MaxConn /\ SetsLink(u, l) /\ Fields BY DEF Relinks, IInv
  <2>2. HasLink(u, l) BY <2>1, UdpLink
  <2> QED BY <2>2 DEF HasLink
<1>2. Fields /\ StreamsOK /\ LinksOK BY DEF IInv
<1>3. heap' = heap /\ clients' = clients /\ pool' = pool /\ serialId' = serialId /\ sizes' = sizes
  BY DEF Relinks, SamePool
<1>4. Fields'
  <2>1. /\ heap' \in [Objects -> C!Streams] /\ pool' \in [Slots -> Objects \cup {nullptr}]
        /\ serialId' \in 0 .. SERIALS - 1 /\ sizes' \in [Objects -> Kinds \cup {"none"}] /\ clients' \subseteq C!Ptrs
    BY <1>2, <1>3 DEF Fields
  <2> QED BY <1>1, <1>2, <2>1, LinkFields DEF Relinks
<1>5. StreamsOK'
  <2>1. TxStep(u, C!Fresh) BY <1>1, <1>2, <1>3, SamePoolGrows DEF TxStep, PointerSteps, Relinks
  <2>2. Follows(C!Fresh) BY <1>2, <1>4, <2>1, TxFollows
  <2> QED BY <1>2, <1>4, <2>2, StreamsKept
<1>6. \A v \in Udps : (Composing(v)' <=> Composing(v)) /\ (Holding(v)' <=> Holding(v))
  BY <1>1, <1>2, <1>3, ValidNow, ReferTo
<1>7. /\ lastConn \in Nat /\ lastConn' \in Nat /\ lastConn <= lastConn'
      /\ l # NO_LINK => l = lastConn' /\ lastConn < lastConn'
  BY <1>2, BoundsAssumption DEF Relinks, Fields
<1>8. \A v \in Udps : udp[v].linkId \in Nat /\ udp[v].linkId <= lastConn BY <1>2, BoundsAssumption DEF Fields, Udp, LinksOK
<1>9. \A o \in Objects : heap[o].linkId \in Nat /\ heap[o].linkId <= lastConn
  BY <1>2, Pointers, BoundsAssumption DEF LinksOK
<1>10. LinksOK'
  <2>1. \A v \in Udps : udp'[v].linkId <= lastConn'
    <3>1. l <= lastConn' BY <1>7, Zeros
    <3> QED BY <1>1, <1>7, <1>8, <3>1
  <2>2. \A o \in Objects : heap'[o].linkId <= lastConn' BY <1>3, <1>7, <1>9
  <2>3. \A v, w \in Udps : udp'[v].linkId # NO_LINK /\ udp'[v].linkId = udp'[w].linkId => v = w
    <3>1. \A v \in Udps \ {u} : l # NO_LINK => udp'[v].linkId # l BY <1>1, <1>7, <1>8
    <3> QED BY <1>1, <1>2, <3>1 DEF LinksOK
  <2>4. ASSUME NEW v \in Udps, NEW o \in Objects, udp'[v].linkId # NO_LINK, heap'[o].linkId = udp'[v].linkId
        PROVE  To(o)' = Tx(v)'
    <3>1. v # u BY <1>1, <1>3, <1>7, <1>9, <2>4
    <3>2. To(o) = Tx(v) BY <1>1, <1>2, <1>3, <2>4, <3>1 DEF LinksOK
    <3> QED BY <1>1, <1>3, <3>2 DEF To
  <2>5. \A o \in Objects : sizes'[o] = "rxStream" => heap'[o].linkId = NO_LINK BY <1>2, <1>3 DEF LinksOK
  <2>6. \A o \in Objects : sizes'[o] # "rxStream" => heap'[o].rx = FALSE BY <1>2, <1>3 DEF LinksOK
  <2>7. ASSUME NEW v \in Udps, ~mixed', udp'[v].listening, Composing(v)'
        PROVE  heap'[Tx(v)'.ptr].linkId \in {udp'[v].linkId, NO_LINK}
    <3>1. v # u BY <1>1, <1>6, <2>7 DEF Relinks
    <3> QED BY <1>1, <1>2, <1>3, <1>6, <2>7, <3>1 DEF LinksOK, Relinks
  <2> QED BY <2>1, <2>2, <2>3, <2>4, <2>5, <2>6, <2>7 DEF LinksOK
<1>11. LinksAccounted'
  <2> SUFFICES ASSUME ~mixed', NEW m \in live'
               PROVE  \/ \E v \in Udps : udp'[v].linkId = m \/ (Composing(v)' /\ heap'[Tx(v)'.ptr].linkId = m)
                      \/ \E p \in clients' : C!Valid(World', p) /\ heap'[p.ptr].linkId = m
    BY DEF LinksAccounted
  <2>1. CASE m = l BY <1>1, <2>1
  <2>2. CASE m \in live /\ m # udp[u].linkId
    <3>1. \/ \E v \in Udps : udp[v].linkId = m \/ (Composing(v) /\ heap[Tx(v).ptr].linkId = m)
          \/ \E p \in clients : C!Valid(World, p) /\ heap[p.ptr].linkId = m
      BY <2>2 DEF IInv, LinksAccounted, Relinks
    <3>2. \A p : C!Valid(World, p) => C!Valid(World', p) BY <1>3, ValidNow, ValidIs
    <3> QED BY <1>1, <1>3, <1>6, <2>2, <3>1, <3>2
  <2> QED BY <2>1, <2>2 DEF Relinks
<1>12. Owned' BY <1>1, <1>6 DEF IInv, Owned, Relinks
<1> QED BY <1>4, <1>5, <1>10, <1>11, <1>12 DEF IInv

LEMMA ListenStep == ASSUME IInv, Listen PROVE IInv'
<1>1. PICK u \in Udps : u = It BY DEF Listen, At, IInv, Fields
<1>2. Fields /\ udp[u].linkId = NO_LINK /\ udp[u].listening = FALSE
  BY <1>1 DEF IInv, Listen, CallOK, Fields
<1>3. ~at1 => ~Holding(u)
  <2>1. call.steps \in Plans /\ call.steps # <<>> /\ Head(call.steps) = "listen" BY <1>2 DEF Fields, Listen, At, Idle
  <2>2. call.steps \in GivesUp BY <2>1, PlanSteps DEF PlanOK
  <2> QED BY <1>1, <2>2 DEF IInv, CallOK
<1>4. /\ CallOK' /\ call' = [udp |-> It', steps |-> call.steps'] /\ call.steps' \in Plans
      /\ (~Idle' => It' \in Udps)
  BY <1>2, CallEnds DEF Listen
<1>5. /\ heap' = heap /\ SamePool /\ packet' = packet /\ clients' = clients /\ at1' = at1
      /\ lastPacket' = lastPacket /\ arrived' = arrived /\ mixed' = (mixed \/ Composing(u))
  BY <1>1 DEF Listen, streams, SamePool
<1>6. lastConn \in 0 .. MaxConn /\ MaxConn \in Nat /\ lastConn \in Nat BY <1>2, BoundsAssumption DEF Fields
<1>7. CASE /\ Connects(World) /\ live' = live \cup {lastConn + 1}
           /\ udp' = [udp EXCEPT ![u].linkId = lastConn + 1, ![u].listening = TRUE]
  <2>1. /\ lastConn' = lastConn + 1 /\ lastConn' \in lastConn .. MaxConn /\ lastConn < lastConn'
        /\ lastConn + 1 # NO_LINK
        /\ live' \subseteq 1 .. lastConn' /\ IsFiniteSet(live') /\ Cardinality(live') <= LINKS
    BY <1>2, <1>7, OneMoreLink
  <2>2. PICK l \in 0 .. MaxConn : l = lastConn + 1 BY <1>6, <2>1
  <2>3. (l # NO_LINK) = TRUE BY <2>1, <2>2
  <2>4. \A m \in live' : m = l \/ (m \in live /\ m # udp[u].linkId)
    <3>1. \A m \in live : m # NO_LINK BY <1>2, <1>6, Zeros DEF Fields
    <3> QED BY <1>2, <1>7, <2>2, <3>1
  <2>5. Relinks(u, l) BY <1>3, <1>5, <1>7, <2>1, <2>2, <2>3, <2>4 DEF Relinks, SetsLink
  <2> QED BY <1>4, <2>5, RelinksStep
<1>8. CASE udp' = [udp EXCEPT ![u].linkId = NO_LINK, ![u].listening = FALSE] /\ UNCHANGED <<live, lastConn>>
  <2>1. PICK l \in 0 .. MaxConn : l = NO_LINK BY <1>6, Zeros
  <2>2. (l # NO_LINK) = FALSE BY <2>1
  <2>3. lastConn' \in lastConn .. MaxConn /\ live' \subseteq 1 .. lastConn' /\ IsFiniteSet(live') /\ Cardinality(live') <= LINKS
    BY <1>2, <1>6, <1>8 DEF Fields
  <2>4. \A m \in live' : m = l \/ (m \in live /\ m # udp[u].linkId) BY <1>2, <1>8, <2>1
  <2>5. Relinks(u, l) BY <1>3, <1>5, <1>8, <2>1, <2>2, <2>3, <2>4 DEF Relinks, SetsLink
  <2> QED BY <1>4, <2>5, RelinksStep
<1> QED BY <1>1, <1>7, <1>8 DEF Listen

LEMMA UnlistenStep == ASSUME IInv, Unlisten PROVE IInv'
<1>1. PICK u \in Udps : u = It BY DEF Unlisten, At, IInv, Fields
<1>2. PICK step \in {"flush", "release", "unlisten"} : step = "unlisten" OBVIOUS
<1>3. Fields /\ At(step) /\ Proceeds BY <1>2 DEF IInv, Unlisten
<1>4. ~at1 => ~Holding(u)
  <2>1. call.steps \in Plans /\ call.steps # <<>> /\ Head(call.steps) = "unlisten" BY <1>2, <1>3 DEF Fields, At, Idle
  <2>2. call.steps \in GivesUp BY <2>1, PlanSteps DEF PlanOK
  <2> QED BY <1>1, <2>2 DEF IInv, CallOK
<1>5. /\ heap' = heap /\ SamePool /\ packet' = packet /\ clients' = clients /\ at1' = at1 /\ mixed' = mixed
      /\ lastPacket' = lastPacket /\ arrived' = arrived /\ lastConn' = lastConn /\ live' = live \ {udp[u].linkId}
      /\ udp' = [udp EXCEPT ![u].linkId = NO_LINK, ![u].listening = FALSE]
  BY <1>1 DEF Unlisten, streams, SamePool, outside
<1>6. lastConn \in 0 .. MaxConn /\ MaxConn \in Nat /\ lastConn \in Nat BY <1>3, BoundsAssumption DEF Fields
<1>7. PICK l \in 0 .. MaxConn : l = NO_LINK BY <1>6, Zeros
<1>8. (l # NO_LINK) = FALSE BY <1>7
<1>9. SetsLink(u, l) BY <1>5, <1>7, <1>8 DEF SetsLink
<1>10. udp'[u].linkId = NO_LINK /\ \A v \in Udps : Tx(v)' = Tx(v) /\ Rx(v)' = Rx(v)
  <2>1. HasLink(u, l) BY <1>3, <1>9, UdpLink
  <2> QED BY <1>7, <2>1 DEF HasLink
<1>11. Relinks(u, l)
  <2>1. lastConn' \in lastConn .. MaxConn BY <1>5, <1>6
  <2>2. live' \subseteq 1 .. lastConn' /\ IsFiniteSet(live') /\ Cardinality(live') <= LINKS
    BY <1>3, <1>5, FewerLinks
  <2> QED BY <1>4, <1>5, <1>7, <1>9, <2>1, <2>2 DEF Relinks
<1>12. CallOK'
  <2>1. Holding(u)' => Holding(u) BY <1>5, <1>10, ValidNow, ReferTo DEF IInv
  <2> QED BY <1>1, <1>2, <1>3, <1>5, <1>10, <2>1, CallOn DEF IInv
<1>13. call' = [udp |-> It', steps |-> call.steps'] /\ call.steps' \in Plans /\ (~Idle' => It' \in Udps)
  BY <1>3, CallProceeds
<1> QED BY <1>11, <1>12, <1>13, RelinksStep

----------------------------------------------------------------------------
(* The clients *)

ConnectsClient(o, n) ==
  /\ Gets(n, o, "client", lastConn + 1)
  /\ live' = live \cup {lastConn + 1} /\ clients' = clients \cup {n}

LEMMA ConnectClientIs ==
  ASSUME IInv, ConnectClient
  PROVE  \/ SamePool /\ heap' = heap /\ live' = live /\ clients' = clients
         \/ \E o \in Objects, n \in C!Ptrs : ConnectsClient(o, n)
<1>1. Fields /\ StreamsOK BY DEF IInv
<1>2. lastConn + 1 \in C!Conns BY <1>1, OneMoreLink DEF ConnectClient
<1>3. PICK conn \in C!Conns : conn = lastConn + 1 BY <1>2
<1> DEFINE x == [heap |-> heap, live |-> live \cup {lastConn + 1}]
<1>4. PICK w \in Worlds : /\ w = [World EXCEPT !.live = @ \cup {lastConn + 1}] /\ Here(w)
                          /\ w.live = live \cup {lastConn + 1}
  <2>1. live \cup {lastConn + 1} \in SUBSET C!Conns BY <1>1, <1>2, Free, ValidIs DEF Worlds
  <2>2. x \in Worlds /\ Here(x) /\ x.live = live \cup {lastConn + 1} BY <1>1, <2>1 DEF Worlds, Fields, Here
  <2>3. x = [World EXCEPT !.live = @ \cup {lastConn + 1}] BY DEF World
  <2> HIDE DEF x
  <2> QED BY <2>2, <2>3
<1>5. PICK kind \in Kinds : kind = "client" BY DEF Kinds
<1>6. PICK q : /\ q = Request(w, conn, kind) /\ Pooled(q)
               /\ IF q.ptr = C!Fresh THEN UNCHANGED <<heap, live, clients>>
                  ELSE Worked(q.world) /\ clients' = clients \cup {q.ptr}
  BY <1>3, <1>4, <1>5 DEF ConnectClient
<1>7. \/ q.world = w /\ q.ptr = C!Fresh /\ SamePool
      \/ \E o \in Objects, n \in C!Ptrs :
           /\ Taken(World, kind, o) /\ n = NewPtr(o)
           /\ q.world.heap = [heap EXCEPT ![o] = NewStream(serialId + 1, conn)]
           /\ q.world.live = w.live /\ q.ptr = n
  <2>1. q = Request(w, conn, kind) /\ Pooled(q) /\ Here(w) BY <1>4, <1>6
  <2> QED BY <1>1, <2>1, RequestHere
<1>8. CASE q.ptr = C!Fresh /\ SamePool BY <1>6, <1>8
<1>9. ASSUME NEW o \in Objects, NEW n \in C!Ptrs, Taken(World, kind, o), n = NewPtr(o),
             q.world.heap = [heap EXCEPT ![o] = NewStream(serialId + 1, conn)], q.world.live = w.live, q.ptr = n
      PROVE  ConnectsClient(o, n)
  <2>1. q.ptr # C!Fresh BY <1>9, Zeros DEF NewPtr
  <2> QED BY <1>3, <1>4, <1>5, <1>6, <1>9, <2>1 DEF Worked, Gets, ConnectsClient
<1> QED BY <1>7, <1>8, <1>9

LEMMA ConnectClientStep == ASSUME IInv, ConnectClient PROVE IInv'
<1>1. Fields /\ StreamsOK BY DEF IInv
<1>2. /\ Idle /\ call' = call /\ packet' = packet /\ udp' = udp /\ at1' = at1 /\ mixed' = mixed
      /\ lastPacket' = lastPacket /\ arrived' = arrived /\ Connects(World)
  BY DEF ConnectClient
<1>3. CallOK' BY <1>2, IdleCall DEF Idle
<1>4. call' = [udp |-> It', steps |-> call.steps'] /\ call.steps' \in Plans /\ (~Idle' => It' \in Udps)
  BY <1>1, <1>2, UnchangedCall
<1>5. /\ lastConn' = lastConn + 1 /\ lastConn' \in lastConn .. MaxConn /\ lastConn < lastConn' /\ lastConn <= lastConn'
      /\ lastConn + 1 \in C!Conns /\ lastConn + 1 \notin live
  <2>1. /\ lastConn' = lastConn + 1 /\ lastConn' \in lastConn .. MaxConn /\ lastConn < lastConn'
        /\ lastConn + 1 \in C!Conns /\ lastConn + 1 \notin live
    BY <1>1, <1>2, OneMoreLink
  <2>2. lastConn \in Nat BY <1>1, BoundsAssumption DEF Fields
  <2> QED BY <2>1, <2>2
<1>6. PICK conn \in C!Conns : conn = lastConn + 1 BY <1>5
<1>7. PICK kind \in Kinds : kind = "client" BY DEF Kinds
<1>8. \A v \in Udps : Rx(v)' = Rx(v) /\ Tx(v)' = Tx(v) BY <1>2 DEF Rx, Tx
<1>9. udp' \in [Udps -> Udp] /\ \A v \in Udps : udp'[v].listening = (udp'[v].linkId # NO_LINK)
  BY <1>1, <1>2 DEF Fields
<1>10. CASE SamePool /\ heap' = heap /\ live' = live /\ clients' = clients
  <2>1. /\ heap' \in [Objects -> C!Streams] /\ pool' \in [Slots -> Objects \cup {nullptr}]
        /\ serialId' \in 0 .. SERIALS - 1 /\ sizes' \in [Objects -> Kinds \cup {"none"}] /\ clients' \subseteq C!Ptrs
    BY <1>1, <1>10 DEF Fields, SamePool
  <2>2. live' \subseteq 1 .. lastConn' /\ IsFiniteSet(live') /\ Cardinality(live') <= LINKS
    BY <1>1, <1>2, <1>10, OneMoreLink
  <2>3. Fields' BY <1>1, <1>2, <1>4, <1>5, <1>9, <2>1, <2>2, LinkFields
  <2>4. LinkStep(C!Fresh) BY <1>1, <1>2, <1>5, <1>10, <2>3, LessLinks
  <2> QED BY <1>2, <1>3, <1>8, <2>3, <2>4, LinkRest
<1>11. ASSUME NEW o \in Objects, NEW n \in C!Ptrs, ConnectsClient(o, n) PROVE IInv'
  <2>1. Gets(n, o, kind, conn) /\ kind # "rxStream" BY <1>6, <1>7, <1>11 DEF ConnectsClient
  <2>2. /\ heap' = [heap EXCEPT ![o] = NewStream(serialId + 1, conn)] /\ live' = live \cup {conn}
        /\ clients' = clients \cup {n}
    BY <1>6, <1>11, <2>1 DEF ConnectsClient, Gets
  <2>3. /\ Grows /\ IsNew(n) /\ n.ptr # nullptr /\ n.ptr = o /\ n = To(o)' /\ n.serialId = serialId'
        /\ heap' \in [Objects -> C!Streams] /\ heap[o].serialId = 0
        /\ heap'[o].serialId # 0 /\ heap'[o].serialId = serialId' /\ serialId' = serialId + 1
        /\ heap'[o].refCount = 1 /\ heap'[o].linkId = conn /\ heap'[o].rx = FALSE
        /\ sizes'[o] = kind /\ \A p \in Objects \ {o} : heap'[p] = heap[p] /\ sizes'[p] = sizes[p]
        /\ pool' \in [Slots -> Objects \cup {nullptr}] /\ serialId' \in 0 .. SERIALS - 1
        /\ sizes' \in [Objects -> Kinds \cup {"none"}]
    BY <1>1, <2>1, Takes DEF Got
  <2>4. Fields'
    <3>1. clients' \subseteq C!Ptrs BY <1>1, <2>2 DEF Fields
    <3>2. live' \subseteq 1 .. lastConn' /\ IsFiniteSet(live') /\ Cardinality(live') <= LINKS
      BY <1>1, <1>2, <1>6, <2>2, OneMoreLink
    <3> QED BY <1>1, <1>2, <1>4, <1>5, <1>9, <2>3, <3>1, <3>2, LinkFields
  <2>5. \A v \in Udps : Tx(v)' # n /\ Rx(v)' # n
    <3>1. \A v \in Udps : Tx(v).serialId <= serialId /\ Rx(v).serialId <= serialId
      BY <1>1, Pointers DEF StreamsOK, Leads
    <3>2. n.serialId > serialId BY <1>1, <2>3, Pointers
    <3> QED BY <1>1, <1>8, <3>1, <3>2, Pointers
  <2>6. Follows(n)
    <3>1. \A p \in Objects \ {o} : ObjectSteps(n, p) BY <1>1, <2>3 DEF ObjectSteps, StreamsOK
    <3>2. ObjectSteps(n, o) BY <2>2, <2>3 DEF ObjectSteps, Referred
    <3>3. \A v \in Udps : PointerSteps(n, "txStream", Tx(v), Tx(v)') /\ PointerSteps(n, "rxStream", Rx(v), Rx(v)')
      BY <1>8 DEF PointerSteps
    <3>4. \A p \in clients' : p \in clients \/ (p = n /\ n.ptr # nullptr /\ sizes'[n.ptr] = "client")
      BY <1>7, <2>2, <2>3
    <3> QED BY <2>2, <2>3, <2>5, <3>1, <3>2, <3>3, <3>4 DEF Follows
  <2>7. OnLink(n, o) BY <1>5, <1>6, <1>7, <2>3, <2>5 DEF OnLink
  <2>8. LinkStep(n)
    <3>1. \A m \in live' \ live : /\ n.ptr \in Objects /\ n = To(n.ptr)' /\ heap'[n.ptr].linkId = m
                                  /\ (\E v \in Udps : Tx(v)' = n) \/ n \in clients'
      BY <2>2, <2>3 DEF To
    <3>2. \A p \in Objects : OnLink(n, p) \/ (heap'[p] = heap[p] /\ sizes'[p] = sizes[p]) BY <2>3, <2>7
    <3>3. \A p \in Objects : heap[p].serialId # 0 => heap'[p] = heap[p] BY <2>3
    <3> QED BY <1>2, <1>5, <2>6, <3>1, <3>2, <3>3 DEF LinkStep
  <2> QED BY <1>2, <1>3, <1>8, <2>4, <2>8, LinkRest
<1> QED BY <1>10, <1>11, ConnectClientIs

\* The last reference closes; there is only one.
LEMMA DecreaseIs ==
  ASSUME NEW w \in Worlds, NEW p, NEW o \in Objects, p.ptr = o, p.serialId # 0, C!Valid(w, p), w.heap[o].refCount = 1
  PROVE  /\ C!DecreaseRefCount(w, p).heap = [w.heap EXCEPT ![o] = C!Empty]
         /\ C!DecreaseRefCount(w, p).live = w.live \ {w.heap[o].linkId}
<1> DEFINE s == [w.heap[o] EXCEPT !.refCount = @ - 1]
           v == [w EXCEPT !.heap[p.ptr].refCount = @ - 1]
<1>1. w.heap[o] \in C!Streams /\ w.heap[o].serialId # 0 BY ValidIs DEF Worlds
<1>2. s.serialId = w.heap[o].serialId /\ s.linkId = w.heap[o].linkId /\ s.refCount = 0 BY <1>1 DEF C!Streams
<1>3. s \in C!Streams BY <1>1, <1>2 DEF C!Streams
<1>4. v = [w EXCEPT !.heap = [w.heap EXCEPT ![o] = s]] BY DEF Worlds
<1> HIDE DEF s, v
<1>5. v \in Worlds /\ v.heap = [w.heap EXCEPT ![o] = s] /\ v.live = w.live BY <1>3, <1>4 DEF Worlds
<1>6. v.heap[o] = s BY <1>5 DEF Worlds
<1>7. C!DecreaseRefCount(w, p) = C!Close(v, o) BY <1>2, <1>6 DEF C!DecreaseRefCount, v
<1>8. C!Close(v, o).heap = [v.heap EXCEPT ![o] = C!Empty] /\ C!Close(v, o).live = v.live \ {v.heap[o].linkId}
  BY <1>1, <1>2, <1>5, <1>6, CloseIs
<1>9. [v.heap EXCEPT ![o] = C!Empty] = [w.heap EXCEPT ![o] = C!Empty] BY <1>5 DEF Worlds
<1> QED BY <1>2, <1>5, <1>6, <1>7, <1>8, <1>9

LEMMA StopClientIs ==
  ASSUME IInv, NEW p \in clients, StopClient(p), NEW o \in Objects, o = p.ptr
  PROVE  \/ ~C!Valid(World, p) /\ heap' = heap /\ live' = live
         \/ C!Valid(World, p) /\ heap' = [heap EXCEPT ![o] = C!Empty] /\ live' = live \ {heap[o].linkId}
<1>1. Fields /\ StreamsOK BY DEF IInv
<1>2. Worked(C!DecreaseRefCount(World, p)) BY DEF StopClient
<1>3. World \in Worlds /\ World.heap = heap /\ World.live = live BY <1>1, Free, ValidIs
<1>4. CASE ~C!Valid(World, p)
  <2>1. C!DecreaseRefCount(World, p) = World BY <1>4 DEF C!DecreaseRefCount
  <2> QED BY <1>2, <1>3, <1>4, <2>1 DEF Worked
<1>5. CASE C!Valid(World, p)
  <2>1. Refers(p, "client") BY <1>1, <1>5, ReferTo
  <2>2. World.heap[o].refCount = 1 /\ p.serialId # 0 BY <1>3, <2>1 DEF Refers
  <2>3. /\ C!DecreaseRefCount(World, p).heap = [World.heap EXCEPT ![o] = C!Empty]
        /\ C!DecreaseRefCount(World, p).live = World.live \ {World.heap[o].linkId}
    BY <1>3, <1>5, <2>2, DecreaseIs
  <2> QED BY <1>2, <1>3, <1>5, <2>3 DEF Worked
<1> QED BY <1>4, <1>5

LEMMA StopClientStep == ASSUME IInv, NEW p \in clients, StopClient(p) PROVE IInv'
<1>1. Fields /\ StreamsOK /\ p \in C!Ptrs /\ p.ptr # nullptr BY DEF IInv, StreamsOK, Fields
<1>2. /\ Idle /\ call' = call /\ packet' = packet /\ udp' = udp /\ at1' = at1 /\ mixed' = mixed /\ SamePool
      /\ UNCHANGED outside /\ lastConn' = lastConn /\ clients' = clients \ {p}
  BY DEF StopClient, outside
<1>3. PICK o \in Objects : o = p.ptr BY <1>1, Pointers
<1>4. \/ ~C!Valid(World, p) /\ heap' = heap /\ live' = live
      \/ C!Valid(World, p) /\ heap' = [heap EXCEPT ![o] = C!Empty] /\ live' = live \ {heap[o].linkId}
  BY <1>3, StopClientIs
<1>5. \A a \in Objects : heap'[a] = heap[a] \/ (a = o /\ heap'[a] = C!Empty /\ heap[o].linkId \notin live')
  BY <1>1, <1>4 DEF Fields
<1>6. heap' \in [Objects -> C!Streams] /\ live' \subseteq live /\ clients' \subseteq clients
  BY <1>1, <1>2, <1>4, Zeros DEF Fields
<1>7. Lost(p)
  <2>1. p.serialId # 0 BY <1>1 DEF StreamsOK, Leads
  <2> QED BY <1>1, <1>3, <1>4, <2>1, Zeros, ValidIs DEF Lost, Fields
<1>8. \A v \in Udps : Rx(v)' = Rx(v) /\ Tx(v)' = Tx(v) BY <1>2 DEF Rx, Tx
<1>9. Fields'
  <2>1. udp' \in [Udps -> Udp] /\ \A v \in Udps : udp'[v].listening = (udp'[v].linkId # NO_LINK)
    BY <1>1, <1>2 DEF Fields
  <2>2. call' = [udp |-> It', steps |-> call.steps'] /\ call.steps' \in Plans /\ (~Idle' => It' \in Udps)
    BY <1>1, <1>2, UnchangedCall
  <2> QED BY <1>1, <1>2, <1>6, <2>1, <2>2, LessFields
<1>10. CallOK' BY <1>2, IdleCall DEF Idle
<1>11. Follows(C!Fresh)
  <2>1. Grows /\ IsNew(C!Fresh) /\ C!Fresh.ptr = nullptr BY <1>1, <1>2, SamePoolGrows
  <2>2. \A a \in Objects : ObjectSteps(C!Fresh, a) BY <1>1, <1>5, Zeros DEF ObjectSteps, StreamsOK
  <2>3. \A v \in Udps : /\ PointerSteps(C!Fresh, "txStream", Tx(v), Tx(v)')
                        /\ PointerSteps(C!Fresh, "rxStream", Rx(v), Rx(v)')
    BY <1>8 DEF PointerSteps
  <2> QED BY <1>2, <1>7, <2>1, <2>2, <2>3 DEF Follows
<1>12. LinkStep(C!Fresh)
  <2>1. lastConn <= lastConn' /\ sizes' = sizes BY <1>1, <1>2, BoundsAssumption DEF Fields, SamePool
  <2> QED BY <1>2, <1>5, <1>6, <1>11, <2>1 DEF LinkStep
<1> QED BY <1>2, <1>8, <1>9, <1>10, <1>12, LinkRest

----------------------------------------------------------------------------
(* The invariant *)

LEMMA InitInv == ASSUME Init PROVE IInv
<1>1. /\ \A o \in Objects : heap[o] = C!Empty /\ sizes[o] = "none" /\ packet[o] = NoPacket
      /\ \A u \in Udps : Tx(u) = C!Fresh /\ Rx(u) = C!Fresh /\ udp[u].linkId = NO_LINK /\ udp[u].listening = FALSE
      /\ \A u \in Udps : udp[u] = [linkId |-> NO_LINK, listening |-> FALSE, txStream |-> C!Fresh, rxStream |-> C!Fresh]
      /\ clients = {} /\ live = {} /\ arrived = <<>> /\ lastConn = 0 /\ lastPacket = 0 /\ serialId = 0
      /\ call = [udp |-> It, steps |-> <<>>] /\ call.steps = <<>> /\ Idle
  BY DEF Init, Tx, Rx, It, Idle
<1>2. 0 \in 0 .. MaxConn /\ 0 \in 0 .. SERIALS - 1 /\ 0 \in Nat /\ 0 <= 0 BY BoundsAssumption
<1>3. Fields
  <2>1. heap \in [Objects -> C!Streams] /\ pool \in [Slots -> Objects \cup {nullptr}] /\ sizes \in [Objects -> Kinds \cup {"none"}]
    BY Zeros DEF Init
  <2>2. packet \in [Objects -> Packets] BY <1>2, Zeros DEF Init, NoPacket, Packets
  <2>3. udp \in [Udps -> Udp] BY <1>2, Zeros DEF Init, Udp
  <2>4. <<>> \in Plans BY DEF Plans, Short
  <2>5. IsFiniteSet(live) /\ Cardinality(live) <= LINKS BY <1>1, FS_EmptySet, BoundsAssumption
  <2>6. arrived \in Seq([id : Nat, conn : 1 .. lastConn])
    <3>1. <<>> \in Seq([id : Nat, conn : 1 .. lastConn]) BY EmptySeq
    <3> QED BY <1>1, <3>1
  <2> QED BY <1>1, <1>2, <2>1, <2>2, <2>3, <2>4, <2>5, <2>6 DEF Fields
<1>4. StreamsOK BY <1>1, <1>2, Zeros DEF StreamsOK, Leads, Held
<1>5. LinksOK BY <1>1, <1>2, Zeros DEF LinksOK
<1>6. CallOK
  <2>1. <<>> \notin GivesUp BY DEF GivesUp, Ends, ReleasesEnds
  <2> QED BY <1>1, <2>1 DEF CallOK, At
<1>7. Owned BY <1>1, <1>3, <1>4, Zeros, ReferTo DEF Owned
<1>8. LinksAccounted BY <1>1 DEF LinksAccounted
<1> QED BY <1>3, <1>4, <1>5, <1>6, <1>7, <1>8 DEF IInv

LEMMA StutterInv == ASSUME IInv, UNCHANGED vars PROVE IInv'
<1> PICK u \in Udps : TRUE BY UdpsAssumption
<1>1. /\ Keeps /\ SamePool /\ UNCHANGED <<clients, live, lastConn, mixed>> /\ call' = call /\ at1' = at1
      /\ lastPacket' = lastPacket /\ arrived' = arrived
  BY DEF vars, streams, outside, Keeps, SamePool
<1>2. arrived' \in Datagrams(lastConn) /\ lastPacket' \in Nat BY <1>1 DEF IInv, Fields, Datagrams
<1>3. RxQuiet(u) BY <1>1, Keeping DEF IInv
<1> QED BY <1>1, <1>2, <1>3, AsideInv

LEMMA NextInv == ASSUME IInv, [Next]_vars PROVE IInv'
<1>1. ASSUME NEW u \in Udps,
             \/ BeginPacket(u) \/ EndPacket(u) \/ Write(u) \/ Stop(u) \/ Begin(u)
             \/ ParsePacket(u) \/ ParsePacketInto(u) \/ Read(u) \/ Available(u)
      PROVE  IInv'
  BY <1>1, BeginPacketStep, EndPacketStep, WriteStep, StopStep, BeginStep, ParsePacketStep, ParsePacketIntoStep,
     ReadStep, AvailableStep
<1>2. CASE Sketch BY <1>1, <1>2, ConnectClientStep, StopClientStep DEF Sketch
<1>3. CASE Steps BY <1>3, FlushStep, ReleaseStep, OpenStep, ListenStep, UnlistenStep, MaintainStep, ReceiveStep DEF Steps
<1>4. CASE \E u \in Udps : ReadRxData(u) BY <1>4, ReadRxDataStep
<1>5. CASE Ignored BY <1>5, IgnoredStep
<1>6. CASE Network BY <1>6, ArrivesStep, LinkLostStep DEF Network
<1>7. CASE UNCHANGED vars BY <1>7, StutterInv
<1> QED BY <1>2, <1>3, <1>4, <1>5, <1>6, <1>7 DEF Next

LEMMA Invariance == Spec => []IInv
<1>1. Init => IInv BY InitInv
<1>2. IInv /\ [Next]_vars => IInv' BY NextInv
<1> QED BY <1>1, <1>2, PTL DEF Spec

----------------------------------------------------------------------------
(* What was received *)

(* A step spares what v received, and v has it afterwards. *)
Spares(v) ==
  Rx(v)' = Rx(v) /\ heap'[Rx(v).ptr] = heap[Rx(v).ptr] /\ packet'[Rx(v).ptr].id = packet[Rx(v).ptr].id
HasStill(v) == Unread(v)' /\ packet'[Rx(v)'.ptr].id = packet[Rx(v).ptr].id

LEMMA SparedIsThere ==
  ASSUME Fields, StreamsOK, NEW v \in Udps, Unread(v), Spares(v)
  PROVE  HasStill(v)
<1>1. Rx(v).ptr # nullptr /\ heap[Rx(v).ptr].serialId = Rx(v).serialId /\ heap[Rx(v).ptr].rx
  BY ReferTo DEF Unread
<1>2. Rx(v)' = Rx(v) /\ heap'[Rx(v).ptr] = heap[Rx(v).ptr] BY DEF Spares
<1>3. Rx(v)'.ptr # nullptr /\ heap'[Rx(v)'.ptr].serialId = Rx(v)'.serialId /\ heap'[Rx(v)'.ptr].rx BY <1>1, <1>2
<1>4. Holding(v)' BY <1>3, Zeros DEF Holding, C!Valid, World
<1>5. Unread(v)' BY <1>3, <1>4 DEF Unread
<1> QED BY <1>2, <1>5 DEF Spares, HasStill

\* The object with a datagram is in use, to receive, and v's alone.
LEMMA Received ==
  ASSUME Fields, StreamsOK, NEW v \in Udps, Unread(v)
  PROVE  /\ Rx(v).ptr \in Objects /\ sizes[Rx(v).ptr] = "rxStream" /\ heap[Rx(v).ptr].serialId # 0
         /\ \A u \in Udps : u # v /\ Holding(u) => Rx(u).ptr # Rx(v).ptr
<1>1. Refers(Rx(v), "rxStream") BY ReferTo DEF Unread
<1>2. ASSUME NEW u \in Udps, u # v, Holding(u), Rx(u).ptr = Rx(v).ptr PROVE FALSE
  <2>1. Refers(Rx(u), "rxStream") BY <1>2, ReferTo
  <2>2. Rx(u) = Rx(v) /\ Rx(u).ptr # nullptr BY <1>1, <1>2, <2>1 DEF Refers
  <2> QED BY <1>2, <2>2 DEF StreamsOK
<1> QED BY <1>1, <1>2 DEF Refers

LEMMA SparesAll ==
  ASSUME heap' = heap, packet' = packet, udp' = udp, NEW v \in Udps
  PROVE  Spares(v)
BY DEF Spares, Rx

LEMMA SparesByObject ==
  ASSUME Fields, StreamsOK, NEW v \in Udps, Unread(v), Rx(v)' = Rx(v), packet' = packet, NEW o \in Objects,
         heap[o].serialId = 0 \/ sizes[o] # "rxStream", \A a \in Objects \ {o} : heap'[a] = heap[a]
  PROVE  Spares(v)
BY Received DEF Spares

LEMMA SparesTaking ==
  ASSUME Fields, StreamsOK, NEW v \in Udps, Unread(v), Rx(v)' = Rx(v), packet' = packet,
         NEW o \in Objects, NEW n, NEW conn \in C!Conns, NEW kind \in Kinds, kind # "rxStream", Gets(n, o, kind, conn)
  PROVE  Spares(v)
<1>1. Got(n, o, kind, conn) BY Takes
<1>2. heap[o].serialId = 0 /\ \A a \in Objects \ {o} : heap'[a] = heap[a] BY <1>1 DEF Got
<1> QED BY <1>2, SparesByObject

LEMMA SparesEmptied ==
  ASSUME Fields, StreamsOK, NEW v \in Udps, Unread(v), Rx(v)' = Rx(v), heap'[Rx(v).ptr] = heap[Rx(v).ptr], Emptied
  PROVE  Spares(v)
<1>1. packet'[Rx(v).ptr] = packet[Rx(v).ptr] BY Received DEF Emptied
<1> QED BY <1>1 DEF Spares

LEMMA SparesDropping ==
  ASSUME Fields, StreamsOK, NEW u \in Udps, NEW v \in Udps, u # v, Unread(v), Keeps \/ DropsRx(u)
  PROVE  Spares(v)
<1>1. CASE Keeps BY <1>1, SparesAll DEF Keeps
<1>2. CASE DropsRx(u) /\ ~Holding(u) BY <1>1, <1>2 DEF DropsRx
<1>3. CASE DropsRx(u) /\ Holding(u)
  <2>1. /\ heap' = [heap EXCEPT ![Rx(u).ptr] = C!Empty] /\ Emptied
        /\ udp' = [udp EXCEPT ![u].rxStream = [Rx(u) EXCEPT !.ptr = nullptr]]
    BY <1>3, DropsIs
  <2>2. Rx(v)' = Rx(v)
    <3>1. [Rx(u) EXCEPT !.ptr = nullptr] \in C!Ptrs BY Pointers, Zeros DEF C!Ptrs
    <3> QED BY <2>1, <3>1, UdpRx
  <2>3. heap'[Rx(v).ptr] = heap[Rx(v).ptr] BY <1>3, <2>1, Received DEF Fields
  <2> QED BY <2>1, <2>2, <2>3, SparesEmptied
<1> QED BY <1>1, <1>2, <1>3

LEMMA SparesChecking ==
  ASSUME Fields, StreamsOK, NEW u \in Udps, NEW v \in Udps, Unread(v),
         heap' = Checked(World, Rx(u)).heap, Emptied, udp' = udp
  PROVE  Spares(v)
<1>1. Rx(v)' = Rx(v) BY DEF Rx
<1>2. heap'[Rx(v).ptr] = heap[Rx(v).ptr]
  <2>1. CASE Holding(u) /\ ~Unread(u)
    <3>1. heap' = [heap EXCEPT ![Rx(u).ptr] = C!Empty] BY <2>1, CheckedIs
    <3>2. u # v BY <2>1
    <3> QED BY <2>1, <3>1, <3>2, Received DEF Fields
  <2>2. CASE ~(Holding(u) /\ ~Unread(u)) BY <2>2, CheckedIs
  <2> QED BY <2>1, <2>2
<1> QED BY <1>1, <1>2, SparesEmptied

LEMMA SparesReceiving ==
  ASSUME Fields, StreamsOK, NEW u \in Udps, NEW v \in Udps, u # v, Unread(v), NEW w, Vacant(u, w),
         NEW n \in DOMAIN arrived, Store(u, w, n) \/ Stale(u, w) \/ Waste(u, w)
  PROVE  Spares(v)
<1>1. Rx(v).ptr \in Objects /\ heap[Rx(v).ptr].serialId # 0 /\ (Holding(u) => Rx(u).ptr # Rx(v).ptr) BY Received
<1>2. w.heap[Rx(v).ptr] = heap[Rx(v).ptr] /\ w.heap \in [Objects -> C!Streams] BY <1>1 DEF Vacant, Worlds
<1>3. CASE Store(u, w, n) \/ Stale(u, w)
  <2>6. PICK d \in Packets : Fill(u, w, d) BY <1>3, FillsWith
  <2>1. PICK o \in Objects :
           /\ Taken(w, "rxStream", o)
           /\ heap' = [w.heap EXCEPT ![o] = [NewStream(serialId + 1, NO_LINK) EXCEPT !.rx = TRUE]]
           /\ packet' = [packet EXCEPT ![o] = d]
           /\ udp' = [udp EXCEPT ![u].rxStream = NewPtr(o)]
    BY <2>6, FillIs
  <2>2. NewPtr(o) \in C!Ptrs BY <2>1, NewPtrTypes DEF Taken
  <2>3. Rx(v)' = Rx(v) BY <2>1, <2>2, UdpRx
  <2>4. Rx(v).ptr # o BY <1>1, <1>2, <2>1 DEF Taken
  <2>5. heap'[Rx(v).ptr] = heap[Rx(v).ptr] /\ packet'[Rx(v).ptr] = packet[Rx(v).ptr]
    BY <1>1, <1>2, <2>1, <2>4 DEF Fields
  <2> QED BY <2>3, <2>5 DEF Spares
<1>4. CASE Waste(u, w)
  <2>1. PICK o \in Objects :
           /\ Taken(w, "rxStream", o) /\ heap' = w.heap /\ Emptied
           /\ udp' = [udp EXCEPT ![u].rxStream = [NewPtr(o) EXCEPT !.ptr = nullptr]]
    BY <1>4, WasteIs
  <2>2. [NewPtr(o) EXCEPT !.ptr = nullptr] \in C!Ptrs BY <2>1, NewPtrTypes DEF Taken
  <2>3. Rx(v)' = Rx(v) BY <2>1, <2>2, UdpRx
  <2> QED BY <1>2, <2>1, <2>3, SparesEmptied
<1> QED BY <1>3, <1>4

LEMMA CallsSpare ==
  ASSUME IInv, NEW u \in Udps, NEW v \in Udps, Unread(v),
         \/ BeginPacket(u) \/ EndPacket(u) \/ Write(u) \/ Stop(u) \/ Begin(u)
         \/ ParsePacket(u) \/ ParsePacketInto(u) \/ Read(u) \/ Available(u)
  PROVE  \/ Spares(v)
         \/ Read(v) \/ Stop(v) \/ Begin(v) \/ (ParsePacket(v) /\ (~at1 \/ packet[Rx(v).ptr].begun))
<1>1. Fields /\ StreamsOK BY DEF IInv
<1>2. CASE BeginPacket(u) \/ EndPacket(u) \/ Write(u)
  BY <1>2, SparesAll DEF BeginPacket, EndPacket, Write, Keeps
<1>3. CASE Stop(u)
  <2>1. DropsRx(u) BY <1>3 DEF Stop
  <2> QED BY <1>1, <1>3, <2>1, SparesDropping
<1>4. CASE Begin(u)
  <2>1. Keeps \/ DropsRx(u) BY <1>4 DEF Begin
  <2> QED BY <1>1, <1>4, <2>1, SparesDropping
<1>5. CASE ParsePacket(u)
  <2>1. Keeps \/ DropsRx(u) BY <1>5 DEF ParsePacket
  <2>2. at1 /\ ~packet[Rx(u).ptr].begun => Keeps BY <1>5 DEF ParsePacket
  <2>3. CASE Keeps BY <2>3, SparesAll DEF Keeps
  <2>4. CASE u # v BY <1>1, <2>1, <2>4, SparesDropping
  <2> QED BY <1>5, <2>2, <2>3, <2>4
<1>6. CASE ParsePacketInto(u) BY <1>6, SparesAll DEF ParsePacketInto, streams
<1>7. CASE Read(u)
  <2> SUFFICES ASSUME u # v PROVE Spares(v) BY <1>7
  <2>1. PICK rest \in BOOLEAN : heap' = [heap EXCEPT ![Rx(u).ptr].rx = rest] BY <1>7 DEF Read
  <2>2. packet' = [packet EXCEPT ![Rx(u).ptr].begun = TRUE] /\ udp' = udp BY <1>7 DEF Read
  <2>3. Rx(v).ptr \in Objects /\ Rx(u).ptr # Rx(v).ptr BY <1>1, <1>7, Received DEF Read, Unread
  <2>4. Rx(v)' = Rx(v) BY <2>2 DEF Rx
  <2>5. heap'[Rx(v).ptr] = heap[Rx(v).ptr] /\ packet'[Rx(v).ptr] = packet[Rx(v).ptr]
    BY <1>1, <2>1, <2>2, <2>3 DEF Fields
  <2> QED BY <2>4, <2>5 DEF Spares
<1>8. CASE Available(u) BY <1>1, <1>8, SparesChecking DEF Available
<1> QED BY <1>2, <1>3, <1>4, <1>5, <1>6, <1>7, <1>8

LEMMA ClientsSpare ==
  ASSUME IInv, NEW v \in Udps, Unread(v), ConnectClient \/ \E p \in clients : StopClient(p)
  PROVE  Spares(v)
<1>1. Fields /\ StreamsOK BY DEF IInv
<1>2. Rx(v)' = Rx(v) /\ packet' = packet /\ udp' = udp BY DEF ConnectClient, StopClient, Rx
<1>3. CASE ConnectClient
  <2>1. PICK kind \in Kinds : kind = "client" BY DEF Kinds
  <2>2. PICK conn \in C!Conns : conn = lastConn + 1 BY <1>1, <1>3, OneMoreLink DEF ConnectClient
  <2>3. ASSUME NEW o \in Objects, NEW n \in C!Ptrs, ConnectsClient(o, n) PROVE Spares(v)
    <3>1. Gets(n, o, kind, conn) /\ kind # "rxStream" BY <2>1, <2>2, <2>3 DEF ConnectsClient
    <3> QED BY <1>1, <1>2, <3>1, SparesTaking
  <2>4. CASE heap' = heap BY <1>2, <2>4, SparesAll
  <2> QED BY <1>3, <2>3, <2>4, ConnectClientIs
<1>4. ASSUME NEW p \in clients, StopClient(p) PROVE Spares(v)
  <2>1. PICK o \in Objects : o = p.ptr BY <1>1, Pointers DEF StreamsOK, Fields
  <2>2. CASE heap' = heap BY <1>2, <2>2, SparesAll
  <2>3. CASE C!Valid(World, p) /\ heap' = [heap EXCEPT ![o] = C!Empty]
    <3>1. sizes[o] = "client" BY <1>1, <2>1, <2>3, ReferTo DEF Refers
    <3>2. sizes[o] # "rxStream" BY <3>1
    <3>3. \A a \in Objects \ {o} : heap'[a] = heap[a] BY <1>1, <2>3 DEF Fields
    <3> QED BY <1>1, <1>2, <3>2, <3>3, SparesByObject
  <2> QED BY <1>4, <2>1, <2>2, <2>3, StopClientIs
<1> QED BY <1>3, <1>4

LEMMA StepsSpare ==
  ASSUME IInv, NEW v \in Udps, Unread(v), Steps
  PROVE  Spares(v)
<1>1. Fields /\ StreamsOK /\ LinksOK BY DEF IInv
<1>2. PICK u \in Udps : u = It
  BY <1>1 DEF Steps, Flush, Release, Open, Listen, Unlisten, Maintain, Receive, At, Fields
<1>3. CASE Flush
  <2>1. Rx(v)' = Rx(v) /\ packet' = packet /\ udp' = udp BY <1>3 DEF Flush, Rx
  <2>2. Composing(u) BY <1>2, <1>3 DEF IInv, Flush, CallOK
  <2>3. Refers(Tx(u), "txStream") BY <1>1, <2>2, ReferTo
  <2>4. PICK o \in Objects : o = Tx(u).ptr BY <2>3 DEF Refers
  <2>5. sizes[o] # "rxStream" /\ heap[o].rx = FALSE BY <1>1, <2>3, <2>4 DEF LinksOK, Refers
  <2>6. PICK w \in C!Flushed(World, o) : Worked(w) BY <1>2, <1>3, <2>4 DEF Flush
  <2>7. \A a \in Objects \ {o} : heap'[a] = heap[a]
    <3>1. w.heap = heap \/ w.heap = [heap EXCEPT ![o] = C!Empty] BY <1>1, <2>5, <2>6, FlushedIs
    <3> QED BY <1>1, <2>6, <3>1 DEF Worked, Fields
  <2> QED BY <1>1, <2>1, <2>5, <2>7, SparesByObject
<1>4. CASE Release
  <2>1. PICK o \in Objects, p \in C!Ptrs :
          /\ o = Tx(u).ptr /\ udp' = [udp EXCEPT ![u].txStream = p] /\ heap' = [heap EXCEPT ![o] = C!Empty]
    BY <1>2, <1>4, ReleaseIs
  <2>2. Rx(v)' = Rx(v) BY <1>1, <2>1, UdpTx
  <2>3. packet' = packet BY <1>4 DEF Release
  <2>4. sizes[o] # "rxStream" BY <1>1, <2>1, Zeros DEF StreamsOK, Leads
  <2>5. \A a \in Objects \ {o} : heap'[a] = heap[a] BY <1>1, <2>1 DEF Fields
  <2> QED BY <1>1, <2>2, <2>3, <2>4, <2>5, SparesByObject
<1>5. CASE Open
  <2>1. packet' = packet BY <1>5 DEF Open
  <2>2. CASE OpensNone(u)
    <3>1. [Tx(u) EXCEPT !.ptr = nullptr] \in C!Ptrs BY <1>1, Pointers, Zeros DEF C!Ptrs
    <3>2. Rx(v)' = Rx(v) /\ heap' = heap BY <1>1, <2>2, <3>1, UdpTx DEF OpensNone, Rx
    <3> QED BY <2>1, <3>2 DEF Spares
  <2>3. ASSUME NEW conn \in C!Conns, NEW o \in Objects, NEW n \in C!Ptrs, Opens(u, o, n, conn) PROVE Spares(v)
    <3>1. PICK kind \in Kinds : kind = "txStream" BY DEF Kinds
    <3>2. Gets(n, o, kind, conn) /\ kind # "rxStream" BY <2>3, <3>1 DEF Opens
    <3>3. Rx(v)' = Rx(v) BY <1>1, <2>3, UdpTx DEF Opens
    <3> QED BY <1>1, <2>1, <3>2, <3>3, SparesTaking
  <2> QED BY <1>2, <1>5, <2>2, <2>3, OpenIs
<1>6. CASE Listen \/ Unlisten
  <2>1. heap' = heap /\ packet' = packet BY <1>6 DEF Listen, Unlisten, streams
  <2>2. PICK l, b : udp' = [udp EXCEPT ![u].linkId = l, ![u].listening = b] BY <1>2, <1>6 DEF Listen, Unlisten
  <2>3. Rx(v)' = Rx(v) BY <1>1, <2>2 DEF Fields, Udp, Rx
  <2> QED BY <2>1, <2>3 DEF Spares
<1>7. CASE Maintain BY <1>1, <1>2, <1>7, SparesChecking DEF Maintain
<1>8. CASE Receive
  <2>1. ~Holding(u) /\ u # v BY <1>2, <1>8 DEF IInv, Receive, CallOK, Unread
  <2>2. Vacant(u, World) BY <1>1, <2>1, IsVacant DEF Unread
  <2>3. PICK w : w = World OBVIOUS
  <2>4. CASE UNCHANGED <<streams, udp>> BY <2>4, SparesAll DEF streams
  <2>5. ASSUME NEW n \in DOMAIN arrived, Store(u, World, n) \/ Stale(u, World) \/ Waste(u, World)
        PROVE  Spares(v)
    BY <1>1, <2>1, <2>2, <2>3, <2>5, SparesReceiving
  <2> QED BY <1>2, <1>8, <2>4, <2>5 DEF Receive
<1> QED BY <1>3, <1>4, <1>5, <1>6, <1>7, <1>8 DEF Steps

LEMMA CallbackSpares ==
  ASSUME IInv, NEW u \in Udps, ReadRxData(u), NEW v \in Udps, Unread(v)
  PROVE  Spares(v)
<1>1. Fields /\ StreamsOK BY DEF IInv
<1> DEFINE w == Checked(World, Rx(u))
<1>2. CASE UNCHANGED <<streams, udp>> BY <1>2, SparesAll DEF streams
<1>3. CASE heap' = w.heap /\ Emptied /\ UNCHANGED udp BY <1>1, <1>3, SparesChecking
<1>4. CASE ~Busy(u) /\ (Store(u, w, 1) \/ Waste(u, w))
  <2>1. u # v /\ Vacant(u, w) BY <1>1, <1>4, IsVacant DEF Busy
  <2>2. arrived # <<>> BY DEF ReadRxData
  <2>3. PICK i \in DOMAIN arrived : i = 1 BY <1>1, <2>2 DEF Fields
  <2> HIDE DEF w
  <2> QED BY <1>1, <1>4, <2>1, <2>3, SparesReceiving
<1> QED BY <1>2, <1>3, <1>4 DEF ReadRxData

----------------------------------------------------------------------------
(* The theorems *)

(* The fields keep their types, a WiFiUDP listens exactly while it has a     *)
(* link, and there are never more links than the firmware has.              *)
THEOREM TypeCorrect == Spec => []TypeOK
<1>1. ASSUME IInv PROVE TypeOK
  <2>1. \A u \in Udps : {Tx(u), Rx(u)} \subseteq C!Ptrs /\ udp[u].linkId \in 0 .. MaxConn
    BY <1>1 DEF IInv, Fields, Udp, Tx, Rx
  <2> QED BY <1>1, <2>1 DEF IInv, Fields, TypeOK
<1> QED BY <1>1, Invariance, PTL

(* getBuffStream() and free(): each stream of the pool that is in use has    *)
(* exactly one holder, which uses it as what its buffers were made for.     *)
THEOREM StreamsAlwaysAccounted == Spec => []StreamsAccounted
<1>1. ASSUME IInv PROVE StreamsAccounted
  <2> SUFFICES ASSUME NEW o \in Objects, heap[o].serialId # 0
               PROVE  \E h \in Holders(o) : Holders(o) = {h} /\ h[2] = sizes[o]
    BY ValidIs DEF StreamsAccounted, C!InUse
  <2> DEFINE Holds(p) == p.ptr = o /\ C!Valid(World, p)
  <2>1. Fields /\ StreamsOK BY <1>1 DEF IInv
  <2>2. \A p \in C!Ptrs : Holds(p) <=> p = To(o) BY <2>1, Pointers, ValidIs, Zeros DEF To
  <2>3. To(o).ptr = o /\ o # nullptr BY Zeros DEF To
  <2>4. /\ \A u \in Udps : Holds(Tx(u)) => Tx(u) = To(o) /\ sizes[o] = "txStream"
        /\ \A u \in Udps : Holds(Rx(u)) => Rx(u) = To(o) /\ sizes[o] = "rxStream"
        /\ \A p \in clients : Holds(p) => p = To(o) /\ sizes[o] = "client"
    <3>1. \A u \in Udps : Tx(u) \in C!Ptrs /\ Rx(u) \in C!Ptrs BY <2>1, Pointers
    <3>2. \A p \in clients : p \in C!Ptrs BY <2>1 DEF Fields
    <3> QED BY <2>1, <2>2, <2>3, <3>1, <3>2 DEF StreamsOK, Leads
  <2>5. (\E u \in Udps : Tx(u) = To(o)) \/ (\E u \in Udps : Rx(u) = To(o)) \/ To(o) \in clients
    BY <2>1 DEF StreamsOK, Held
  <2>6. Holders(o) = {<<u, "txStream">> : u \in {v \in Udps : Holds(Tx(v))}}
                     \cup {<<u, "rxStream">> : u \in {v \in Udps : Holds(Rx(v))}}
                     \cup {<<p, "client">> : p \in {p \in clients : Holds(p)}}
    BY DEF Holders
  <2>7. CASE \E u \in Udps : Tx(u) = To(o)
    <3>1. PICK u \in Udps : Tx(u) = To(o) BY <2>7
    <3>2. Holds(Tx(u)) /\ sizes[o] = "txStream"
      <4>1. Holds(Tx(u)) BY <2>1, <2>2, <3>1, Pointers
      <4> QED BY <2>4, <4>1
    <3> HIDE DEF Holds
    <3>3. {v \in Udps : Holds(Tx(v))} = {u} BY <2>1, <2>3, <2>4, <3>1, <3>2 DEF StreamsOK
    <3>4. {v \in Udps : Holds(Rx(v))} = {} /\ {p \in clients : Holds(p)} = {} BY <2>4, <3>2
    <3>5. Holders(o) = {<<u, "txStream">>} BY <2>6, <3>3, <3>4
    <3> QED BY <3>2, <3>5
  <2>8. CASE \E u \in Udps : Rx(u) = To(o)
    <3>1. PICK u \in Udps : Rx(u) = To(o) BY <2>8
    <3>2. Holds(Rx(u)) /\ sizes[o] = "rxStream"
      <4>1. Holds(Rx(u)) BY <2>1, <2>2, <3>1, Pointers
      <4> QED BY <2>4, <4>1
    <3> HIDE DEF Holds
    <3>3. {v \in Udps : Holds(Rx(v))} = {u} BY <2>1, <2>3, <2>4, <3>1, <3>2 DEF StreamsOK
    <3>4. {v \in Udps : Holds(Tx(v))} = {} /\ {p \in clients : Holds(p)} = {} BY <2>4, <3>2
    <3>5. Holders(o) = {<<u, "rxStream">>} BY <2>6, <3>3, <3>4
    <3> QED BY <3>2, <3>5
  <2>9. CASE To(o) \in clients
    <3>1. PICK q \in clients : q = To(o) BY <2>9
    <3>2. Holds(q) /\ sizes[o] = "client"
      <4>1. Holds(q) BY <2>1, <2>2, <3>1 DEF Fields
      <4> QED BY <2>4, <4>1
    <3> HIDE DEF Holds
    <3>3. {p \in clients : Holds(p)} = {q} BY <2>4, <3>1, <3>2
    <3>4. {v \in Udps : Holds(Tx(v))} = {} /\ {v \in Udps : Holds(Rx(v))} = {} BY <2>4, <3>2
    <3>5. Holders(o) = {<<q, "client">>} BY <2>6, <3>3, <3>4
    <3> QED BY <3>2, <3>5
  <2> QED BY <2>5, <2>7, <2>8, <2>9
<1> QED BY <1>1, Invariance, PTL

(* beginPacket(), endPacket(), begin() and stop(): no link stays open that   *)
(* nobody has, but after a begin() in the middle of a message.              *)
THEOREM LinksAlwaysAccounted == Spec => []LinksAccounted
<1>1. IInv => LinksAccounted BY DEF IInv
<1> QED BY <1>1, Invariance, PTL

(* AT2 builds: a datagram that parsePacket() gives came to the listener that *)
(* the WiFiUDP has; the only other bytes it gives are those of no datagram  *)
(* that it takes for one when AT+CIPRECVDATA was refused.                   *)
THEOREM PacketsAlwaysOwn == Spec => []OwnPackets
<1>1. IInv => OwnPackets BY Zeros DEF IInv, Owned, OwnPackets, Unread, NoPacket
<1> QED BY <1>1, Invariance, PTL

(* endPacket() over the listener's link and a client's stop() do not end a   *)
(* listener: only its own stop() does, the network, or a send of its own     *)
(* that finds the link lost.                                                *)
THEOREM ListenersStay == Spec => ListenerStays
<1> DEFINE Ends1(u) == LinkLost(udp[u].linkId) \/ (Unlisten /\ It = u) \/ (Flush /\ It = u)
<1>1. ASSUME IInv, Next, NEW u \in Udps, udp[u].linkId \in live, udp[u].linkId \notin live'
      PROVE  Ends1(u)
  <2>1. Fields /\ StreamsOK /\ LinksOK BY <1>1 DEF IInv
  <2>2. udp[u].linkId # NO_LINK /\ udp[u].listening
    <3>1. udp[u].linkId # NO_LINK BY <1>1, <2>1, Zeros, BoundsAssumption DEF Fields
    <3> QED BY <2>1, <3>1 DEF Fields
\* The stream on the listener's link is its own, for what it sends.
  <2>3. ASSUME NEW o \in Objects, heap[o].linkId = udp[u].linkId
        PROVE  Tx(u) = To(o) /\ Tx(u).ptr = o /\ sizes[o] = "txStream"
    <3>1. Tx(u) = To(o) BY <2>1, <2>2, <2>3 DEF LinksOK
    <3>2. Tx(u).ptr = o /\ Tx(u).ptr # nullptr BY <3>1, Zeros DEF To
    <3> QED BY <2>1, <3>1, <3>2 DEF StreamsOK, Leads
  <2>4. live' # live BY <1>1
  <2>5. ~(\E v \in Udps : \/ BeginPacket(v) \/ EndPacket(v) \/ Write(v) \/ Stop(v) \/ Begin(v)
                          \/ ParsePacket(v) \/ ParsePacketInto(v) \/ Read(v) \/ Available(v))
    BY <2>4 DEF BeginPacket, EndPacket, Write, Stop, Begin, ParsePacket, ParsePacketInto, Read, Available, Quietly
  <2>6. ~ConnectClient
    <3> SUFFICES ASSUME ConnectClient PROVE FALSE OBVIOUS
    <3>1. live \subseteq live' BY <1>1, ConnectClientIs DEF ConnectsClient
    <3> QED BY <1>1, <3>1
  <2>7. \A p \in clients : ~StopClient(p)
    <3> SUFFICES ASSUME NEW p \in clients, StopClient(p) PROVE FALSE OBVIOUS
    <3>1. PICK o \in Objects : o = p.ptr BY <2>1, Pointers DEF StreamsOK, Fields
    <3>2. C!Valid(World, p) /\ live' = live \ {heap[o].linkId} BY <1>1, <2>4, <3>1, StopClientIs
    <3>3. sizes[o] = "client" BY <2>1, <3>1, <3>2, ReferTo DEF Refers
    <3> QED BY <1>1, <2>3, <3>2, <3>3
  <2>8. CASE Flush
    <3>1. PICK v \in Udps : v = It BY <2>1, <2>8 DEF Flush, At, Fields
    <3>2. Composing(v) BY <1>1, <2>8, <3>1 DEF IInv, Flush, CallOK
    <3>3. Refers(Tx(v), "txStream") BY <2>1, <3>2, ReferTo
    <3>4. PICK o \in Objects : o = Tx(v).ptr /\ Tx(v) = To(o) /\ o # nullptr BY <3>3 DEF Refers
    <3>5. heap[o].rx = FALSE BY <2>1, <3>3, <3>4 DEF LinksOK, Refers
    <3>6. PICK w \in C!Flushed(World, o) : Worked(w) BY <2>8, <3>1, <3>4 DEF Flush
    <3>7. live \ {heap[o].linkId} \subseteq live' BY <2>1, <3>5, <3>6, FlushedIs DEF Worked
    <3>8. Tx(u) = To(o) BY <1>1, <2>3, <3>7
    <3>9. u = v BY <2>1, <3>4, <3>8, Zeros DEF StreamsOK
    <3> QED BY <2>8, <3>1, <3>9
  <2>9. ~Release
    <3> SUFFICES ASSUME Release PROVE FALSE OBVIOUS
    <3>1. PICK v \in Udps : v = It BY <2>1 DEF Release, At, Fields
    <3>2. PICK o \in Objects : o = Tx(v).ptr /\ live' = IF udp[v].listening THEN live ELSE live \ {heap[o].linkId}
      BY <1>1, <3>1, ReleaseIs
    <3>3. ~udp[v].listening /\ heap[o].linkId = udp[u].linkId BY <1>1, <3>2
    <3>4. Tx(u).ptr = Tx(v).ptr /\ Tx(u).ptr # nullptr /\ Tx(u) = To(o) BY <2>3, <3>2, <3>3, Zeros
    <3>5. Composing(u) /\ Composing(v)
      <4>1. heap[o].serialId = Tx(u).serialId BY <3>4 DEF To
      <4>2. Composing(u) BY <2>1, <3>2, <3>4, <4>1, ReferTo
      <4>3. Refers(Tx(u), "txStream") BY <2>1, <4>2, ReferTo
      <4>4. heap[o].serialId # 0 BY <3>2, <3>4, <4>3 DEF Refers
      <4>5. Composing(v) \/ heap[o].serialId = 0 BY <1>1, <3>1, <3>2 DEF IInv, Release, CallOK
      <4> QED BY <4>2, <4>4, <4>5
    <3>6. Tx(v) = To(o) BY <2>1, <3>2, <3>5, ReferTo DEF Refers
    <3>7. u = v BY <2>1, <3>4, <3>6 DEF StreamsOK
    <3> QED BY <2>2, <3>3, <3>7
  <2>10. ~Open
    <3> SUFFICES ASSUME Open PROVE FALSE OBVIOUS
    <3>1. PICK v \in Udps : v = It BY <2>1 DEF Open, At, Fields
    <3>2. OpensNone(v) \/ \E conn \in C!Conns, o \in Objects, n \in C!Ptrs : Opens(v, o, n, conn)
      BY <1>1, <3>1, OpenIs
    <3>3. live \subseteq live' BY <3>2 DEF OpensNone, Opens
    <3> QED BY <1>1, <3>3
  <2>11. ~Listen BY <1>1 DEF Listen
  <2>12. CASE Unlisten
    <3>1. PICK v \in Udps : v = It BY <2>1, <2>12 DEF Unlisten, At, Fields
    <3>2. udp[v].linkId = udp[u].linkId BY <1>1, <2>12, <3>1 DEF Unlisten
    <3>3. u = v BY <2>1, <2>2, <3>2 DEF LinksOK
    <3> QED BY <2>12, <3>1, <3>3
  <2>13. ~Maintain /\ ~Receive BY <2>4 DEF Maintain, Receive
  <2>14. ~(\E v \in Udps : ReadRxData(v)) /\ ~Ignored BY <2>4 DEF ReadRxData, Ignored
  <2>15. ~(\E v \in Udps : Arrives(v)) BY <2>4 DEF Arrives
  <2>16. ASSUME NEW m \in live, LinkLost(m) PROVE Ends1(u)
    <3>1. m = udp[u].linkId BY <1>1, <2>16 DEF LinkLost
    <3> QED BY <2>16, <3>1
  <2> QED BY <1>1, <2>5, <2>6, <2>7, <2>8, <2>9, <2>10, <2>11, <2>12, <2>13, <2>14, <2>15, <2>16
    DEF Next, Sketch, Steps, Network
<1>2. IInv /\ [Next]_vars =>
        [\A u \in Udps : udp[u].linkId \in live /\ udp[u].linkId \notin live' => Ends1(u)]_vars
  BY <1>1
<1> QED BY <1>2, Invariance, PTL DEF Spec, ListenerStays

(* readRxData() inside any call of the driver, and every call of another    *)
(* WiFiUDP or a client: a datagram stays until its own WiFiUDP reads it,    *)
(* gives it up or asks for the next.                                        *)
THEOREM NothingIsOverwritten == Spec => NothingOverwritten
<1> DEFINE KeptOrGivenUp(u) ==
      \/ Unread(u)' /\ packet'[Rx(u)'.ptr].id = packet[Rx(u).ptr].id
      \/ Read(u) \/ Stop(u) \/ Begin(u)
      \/ ParsePacket(u) /\ (~at1 \/ packet[Rx(u).ptr].begun)
<1>1. ASSUME IInv, Next, NEW v \in Udps, Unread(v) PROVE KeptOrGivenUp(v)
  <2>1. CASE Spares(v)
    <3>1. HasStill(v) BY <1>1, <2>1, SparedIsThere DEF IInv
    <3> QED BY <3>1 DEF HasStill
  <2>2. CASE Sketch BY <1>1, <2>1, <2>2, CallsSpare, ClientsSpare DEF Sketch
  <2>3. CASE Steps BY <1>1, <2>1, <2>3, StepsSpare
  <2>4. CASE \E u \in Udps : ReadRxData(u) BY <1>1, <2>1, <2>4, CallbackSpares
  <2>5. CASE Ignored \/ Network
    <3>1. Spares(v) BY <1>1, <2>5, SparesAll DEF Ignored, Network, Arrives, LinkLost, streams
    <3> QED BY <2>1, <3>1
  <2> QED BY <1>1, <2>2, <2>3, <2>4, <2>5 DEF Next
<1>2. IInv /\ [Next]_vars => [\A u \in Udps : Unread(u) => KeptOrGivenUp(u)]_vars BY <1>1
<1> QED BY <1>2, Invariance, PTL DEF Spec, NothingOverwritten
=============================================================================
