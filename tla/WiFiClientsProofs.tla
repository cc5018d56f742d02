-------------------------- MODULE WiFiClientsProofs --------------------------
(***************************************************************************)
(* The inductive invariant of the client layer (WiFiClients.tla), for any    *)
(* number of clients, objects and links, and what the operations of          *)
(* BuffStreams and shared pointers do to the part of it that speaks of       *)
(* reference counts; the pool of BuffStreams and what getBuffStream() hands  *)
(* out; that every operation of the sketch and every event of the network    *)
(* keeps the invariant; and the theorems.                                   *)
(*                                                                          *)
(* All this holds until serialId has gone through its values once: then a    *)
(* pointer that was left behind may look valid again.                       *)
(***************************************************************************)
EXTENDS WiFiClients, FiniteSetTheorems, WellFoundedInduction, TLAPS

(* Each connection takes one value of serialId at most. *)
NotWrapped == lastConn < SERIALS

Worlds == [heap : [Objects -> Streams], live : SUBSET Conns]

(* An object that is not in use has nothing left in it. *)
WorldOK(w) == w \in Worlds /\ \A o \in Objects : w.heap[o].serialId = 0 => w.heap[o] = Empty

(* The pointers that clients hold, as a function s.  A free object has the   *)
(* serialId 0, and no pointer to an object has.                             *)
PtrsOK(s) ==
  /\ s \in [Clients -> Ptrs]
  /\ \A c \in Clients : s[c].ptr # nullptr => s[c].serialId # 0

UsersOf(w, s, o) == {c \in Clients : s[c].ptr = o /\ Valid(w, s[c])}

Counted(w, s) ==
  \A o \in Objects :
    /\ w.heap[o].refCount = Cardinality(UsersOf(w, s, o))
    /\ w.heap[o].serialId # 0 => UsersOf(w, s, o) # {}

(* inc: the connections that nobody has yet. *)
Referenced(w, s, inc) ==
  /\ \A n \in w.live \ inc : \E c \in Clients : Valid(w, s[c]) /\ w.heap[s[c].ptr].linkId = n
  /\ inc \subseteq Conns /\ \A o \in Objects : w.heap[o].linkId \notin inc

(* g: the connection each client was given. *)
Faithful(w, s, g) ==
  \A c \in Clients : Valid(w, s[c]) => w.heap[s[c].ptr].linkId \in {g[c], NO_LINK}

Good(w, s, g, inc) ==
  /\ WorldOK(w) /\ PtrsOK(s) /\ g \in [Clients -> Conns \cup {NO_LINK}]
  /\ Counted(w, s) /\ Referenced(w, s, inc) /\ Faithful(w, s, g)

(* The objects are different ones, without a gap between them. *)
PoolShape(p) ==
  /\ p \in [Slots -> Objects \cup {nullptr}]
  /\ \A i, j \in Slots : i < j /\ p[j] # nullptr => p[i] # nullptr
  /\ \A i, j \in Slots : p[i] = p[j] => i = j \/ p[i] = nullptr

PoolOK ==
  /\ PoolShape(pool)
  /\ \A o \in Objects \ Allocated : heap[o] = Empty
  /\ \A c \in Clients : stream[c].ptr \in Allocated \cup {nullptr}

ConnsOK ==
  /\ lastConn \in 0 .. MaxConn
  /\ incoming \subseteq live /\ data \subseteq live /\ live \subseteq 1 .. lastConn
  /\ \A o \in Objects : heap[o].linkId <= lastConn

(* Every value of serialId so far was the next one. *)
SerialsOK ==
  /\ serialId \in 0 .. SERIALS - 1
  /\ serialId + Cardinality(incoming) <= lastConn
  /\ \A c \in Clients : stream[c].serialId <= serialId
  /\ \A o \in Objects : heap[o].serialId <= serialId

IInv ==
  /\ Good(World, stream, of, incoming)
  /\ PoolOK /\ ConnsOK /\ SerialsOK

----------------------------------------------------------------------------
(* What the operations of a BuffStream do to the world, without the pointers: *)
(* objects are freed or lose their link, and a link that is gone for the      *)
(* object is gone for the driver.                                           *)

Shrinks(w, v) ==
  /\ v \in Worlds /\ v.live \subseteq w.live
  /\ \A o \in Objects :
       /\ \/ v.heap[o] = Empty
          \/ /\ v.heap[o].serialId = w.heap[o].serialId /\ v.heap[o].refCount = w.heap[o].refCount
             /\ v.heap[o].linkId \in {w.heap[o].linkId, NO_LINK}
       /\ w.heap[o] = Empty => v.heap[o] = Empty
       /\ w.heap[o].linkId \in v.live => v.heap[o].linkId = w.heap[o].linkId

\* Empty is the state of a free object, and 0 is no connection.
LEMMA Zeros ==
  /\ Empty \in Streams /\ Empty.serialId = 0 /\ Empty.refCount = 0 /\ Empty.linkId = NO_LINK /\ Empty.rx = FALSE
  /\ NO_LINK \notin Conns /\ nullptr \notin Objects
<1>1. 0 \in 0 .. SERIALS - 1 BY SerialsAssumption, LinksAssumption
<1> QED BY <1>1, ObjectsAssumption DEF Empty, Streams, NO_LINK, Conns, nullptr

LEMMA ShrinksTwice ==
  ASSUME NEW u, NEW v, NEW w, Shrinks(u, v), Shrinks(v, w)
  PROVE  Shrinks(u, w)
BY Zeros DEF Shrinks

LEMMA ShrinksNot ==
  ASSUME NEW w \in Worlds
  PROVE  Shrinks(w, w)
BY DEF Shrinks

\* Of one object and the connections
LEMMA OneShrinks ==
  ASSUME NEW w \in Worlds, NEW o \in Objects, NEW v \in Worlds, v.live \subseteq w.live,
         \A p \in Objects \ {o} : v.heap[p] = w.heap[p],
         w.heap[o] = Empty => v.heap[o] = Empty,
         w.heap[o].linkId \in v.live => v.heap[o].linkId = w.heap[o].linkId,
         \/ v.heap[o] = Empty
         \/ /\ v.heap[o].serialId = w.heap[o].serialId /\ v.heap[o].refCount = w.heap[o].refCount
            /\ v.heap[o].linkId \in {w.heap[o].linkId, NO_LINK}
  PROVE  Shrinks(w, v)
BY DEF Shrinks

LEMMA FreeShrinks ==
  ASSUME NEW w \in Worlds, NEW o \in Objects
  PROVE  /\ Free(w, o) \in Worlds /\ Free(w, o).live = w.live
         /\ Free(w, o).heap[o] = IF w.heap[o].serialId = 0 THEN w.heap[o] ELSE Empty
         /\ \A p \in Objects \ {o} : Free(w, o).heap[p] = w.heap[p]
         /\ w.heap[o].linkId \notin w.live => Shrinks(w, Free(w, o))
<1>1. CASE w.heap[o].serialId = 0 BY <1>1, ShrinksNot DEF Free, InUse
<1>2. CASE w.heap[o].serialId # 0
  <2>1. Free(w, o) = [w EXCEPT !.heap[o] = Empty] BY <1>2 DEF Free, InUse
  <2>2. /\ Free(w, o) \in Worlds /\ Free(w, o).live = w.live /\ Free(w, o).heap[o] = Empty
        /\ \A p \in Objects \ {o} : Free(w, o).heap[p] = w.heap[p]
    BY <2>1, Zeros DEF Worlds
  <2> QED BY <1>2, <2>2, OneShrinks
<1> QED BY <1>1, <1>2

LEMMA CloseShrinks ==
  ASSUME NEW w \in Worlds, NEW o \in Objects
  PROVE  /\ Shrinks(w, Close(w, o)) /\ Close(w, o).live = w.live \ {w.heap[o].linkId}
         /\ Close(w, o).heap[o] = IF w.heap[o].serialId = 0 THEN w.heap[o] ELSE Empty
         /\ \A p \in Objects \ {o} : Close(w, o).heap[p] = w.heap[p]
<1> DEFINE v == [w EXCEPT !.live = @ \ {w.heap[o].linkId}]
<1>1. v \in Worlds /\ v.live = w.live \ {w.heap[o].linkId} /\ v.heap = w.heap BY DEF Worlds
<1>2. Close(w, o) = Free(v, o) BY DEF Close
<1> HIDE DEF v
<1>3. Shrinks(w, v)
  BY <1>1, OneShrinks
<1>4. Shrinks(v, Free(v, o)) BY <1>1, FreeShrinks
<1> QED BY <1>1, <1>2, <1>3, <1>4, FreeShrinks, ShrinksTwice

\* A link that is released is one the driver does not have any more.
LEMMA ReleaseShrinks ==
  ASSUME NEW w \in Worlds, NEW o \in Objects, ~Active(w, o)
  PROVE  /\ Shrinks(w, ReleaseLink(w, o))
         /\ w.heap[o].serialId # 0 /\ ~w.heap[o].rx => ReleaseLink(w, o).heap[o] = Empty
<1> DEFINE v == [w EXCEPT !.heap[o].linkId = NO_LINK]
<1>1. /\ v \in Worlds /\ v.live = w.live /\ v.heap[o] = [w.heap[o] EXCEPT !.linkId = NO_LINK]
      /\ \A p \in Objects \ {o} : v.heap[p] = w.heap[p]
  BY DEF Worlds, Streams
<1>2. /\ v.heap[o].serialId = w.heap[o].serialId /\ v.heap[o].refCount = w.heap[o].refCount
      /\ v.heap[o].linkId = NO_LINK /\ v.heap[o].rx = w.heap[o].rx
  BY <1>1 DEF Worlds, Streams
<1>3. ReleaseLink(w, o) \in {v, Free(v, o)} /\ (~v.heap[o].rx => ReleaseLink(w, o) = Free(v, o))
  BY DEF ReleaseLink
<1>4. w.heap[o].linkId \notin v.live /\ (w.heap[o] = Empty => v.heap[o] = Empty)
  BY <1>1, Zeros DEF Active, Empty
<1> HIDE DEF v
<1>5. Shrinks(w, v)
  <2>1. v \in Worlds /\ v.live \subseteq w.live /\ \A p \in Objects \ {o} : v.heap[p] = w.heap[p] BY <1>1
  <2>2. w.heap[o].linkId \in v.live => v.heap[o].linkId = w.heap[o].linkId BY <1>4
  <2> QED BY <1>2, <1>4, <2>1, <2>2, OneShrinks
<1>6. NO_LINK \notin v.live BY <1>1, Zeros DEF Worlds
<1>7. Shrinks(v, Free(v, o)) BY <1>1, <1>2, <1>6, FreeShrinks
<1>8. Shrinks(w, ReleaseLink(w, o)) BY <1>3, <1>5, <1>7, ShrinksTwice
<1>9. ASSUME w.heap[o].serialId # 0, ~w.heap[o].rx PROVE ReleaseLink(w, o).heap[o] = Empty
  <2>1. Free(v, o).heap[o] = Empty
    <3>1. v \in Worlds /\ v.heap[o].serialId # 0 BY <1>1, <1>2, <1>9
    <3> QED BY <3>1, FreeShrinks
  <2>2. ReleaseLink(w, o) = Free(v, o) BY <1>2, <1>3, <1>9
  <2> QED BY <2>1, <2>2
<1> QED BY <1>8, <1>9

LEMMA HangUpShrinks ==
  ASSUME NEW w \in Worlds, NEW o \in Objects
  PROVE  Shrinks(w, HangUp(w, o))
<1>1. /\ HangUp(w, o) \in Worlds /\ HangUp(w, o).heap = w.heap
      /\ HangUp(w, o).live = w.live \ {w.heap[o].linkId}
  BY DEF HangUp, Worlds
<1> QED BY <1>1, OneShrinks

LEMMA SendDataShrinks ==
  ASSUME NEW w \in Worlds, NEW o \in Objects
  PROVE  Shrinks(w, SendData(w, o)) /\ SendData(w, o) \in Worlds
<1>1. Shrinks(w, SendData(w, o)) BY ShrinksNot, ReleaseShrinks DEF SendData
<1> QED BY <1>1 DEF Shrinks

LEMMA FlushedShrinks ==
  ASSUME NEW w \in Worlds, NEW o \in Objects, NEW v \in Flushed(w, o)
  PROVE  Shrinks(w, v)
<1>1. CASE v = w BY <1>1, ShrinksNot
<1>2. CASE v = SendData(w, o) BY <1>2, SendDataShrinks
<1>3. CASE v = SendData(HangUp(w, o), o)
  <2>1. Shrinks(w, HangUp(w, o)) /\ HangUp(w, o) \in Worlds BY HangUpShrinks DEF Shrinks
  <2> QED BY <1>3, <2>1, SendDataShrinks, ShrinksTwice
<1> QED BY <1>1, <1>2, <1>3 DEF Flushed

LEMMA ConnectedShrinks ==
  ASSUME NEW w \in Worlds, NEW o \in Objects
  PROVE  Shrinks(w, Connected(w, o))
BY ShrinksNot, ReleaseShrinks DEF Connected

LEMMA AvailableShrinks ==
  ASSUME NEW w \in Worlds, NEW o \in Objects, NEW v \in Available(w, o)
  PROVE  Shrinks(w, v)
<1>1. CASE ~Linked(w, o)
  <2>1. w.heap[o].linkId \notin w.live BY <1>1, Zeros DEF Linked, Worlds
  <2> QED BY <1>1, <2>1, FreeShrinks, ShrinksNot DEF Available
<1>2. CASE Linked(w, o)
  <2>1. \/ v = w
        \/ ~Active(w, o) /\ v = ReleaseLink(w, o)
        \/ v \in Flushed(w, o)
    BY <1>2 DEF Available
  <2> QED BY <2>1, ShrinksNot, ReleaseShrinks, FlushedShrinks
<1> QED BY <1>1, <1>2

\* What shrinks stays good: pointers to objects that were freed are not valid any more.
LEMMA ShrinksKeepsGood ==
  ASSUME NEW w, NEW s, NEW g, NEW inc, Good(w, s, g, inc), NEW v, Shrinks(w, v)
  PROVE  Good(v, s, g, inc) /\ \A c \in Clients : Valid(v, s[c]) => Valid(w, s[c])
<1>1. w \in Worlds /\ PtrsOK(s) BY DEF Good, WorldOK
<1>2. WorldOK(v) BY <1>1 DEF Good, WorldOK, Shrinks
<1>3. ASSUME NEW c \in Clients, Valid(v, s[c])
      PROVE  /\ Valid(w, s[c]) /\ s[c].ptr \in Objects /\ v.heap[s[c].ptr] # Empty
             /\ v.heap[s[c].ptr].linkId \in {w.heap[s[c].ptr].linkId, NO_LINK}
  <2>1. s[c].ptr \in Objects /\ s[c].serialId # 0 BY <1>1, <1>3 DEF PtrsOK, Ptrs, Valid
  <2>2. v.heap[s[c].ptr] # Empty BY <1>3, <2>1, Zeros DEF Valid
  <2> QED BY <1>3, <2>1, <2>2 DEF Shrinks, Valid
<1>4. ASSUME NEW c \in Clients, Valid(w, s[c]), v.heap[s[c].ptr] # Empty PROVE Valid(v, s[c])
  <2>1. s[c].ptr \in Objects BY <1>1, <1>4 DEF PtrsOK, Ptrs, Valid
  <2> QED BY <1>4, <2>1 DEF Shrinks, Valid
<1>5. Counted(v, s)
  <2> SUFFICES ASSUME NEW o \in Objects
               PROVE  /\ v.heap[o].refCount = Cardinality(UsersOf(v, s, o))
                      /\ v.heap[o].serialId # 0 => UsersOf(v, s, o) # {}
    BY DEF Counted
  <2>1. CASE v.heap[o] = Empty
    <3>1. UsersOf(v, s, o) = {} BY <1>3, <2>1 DEF UsersOf
    <3> QED BY <2>1, <3>1, Zeros, FS_EmptySet
  <2>2. CASE v.heap[o] # Empty
    <3>1. UsersOf(v, s, o) = UsersOf(w, s, o) BY <1>3, <1>4, <2>2 DEF UsersOf
    <3>2. v.heap[o].serialId = w.heap[o].serialId /\ v.heap[o].refCount = w.heap[o].refCount
      BY <2>2 DEF Shrinks
    <3> QED BY <3>1, <3>2 DEF Good, Counted
  <2> QED BY <2>1, <2>2
<1>6. Referenced(v, s, inc)
  <2>1. ASSUME NEW n \in v.live \ inc
        PROVE  \E c \in Clients : Valid(v, s[c]) /\ v.heap[s[c].ptr].linkId = n
    <3>1. n \in w.live \ inc BY DEF Shrinks
    <3>2. PICK c \in Clients : Valid(w, s[c]) /\ w.heap[s[c].ptr].linkId = n
      BY <3>1 DEF Good, Referenced
    <3>3. s[c].ptr \in Objects BY <1>1, <3>2 DEF PtrsOK, Ptrs, Valid
    <3>4. v.heap[s[c].ptr].linkId = n BY <3>2, <3>3 DEF Shrinks
    <3>5. n # NO_LINK BY <3>1, <1>1, Zeros DEF Worlds
    <3> QED BY <1>4, <3>2, <3>4, <3>5, Zeros
  <2>2. inc \subseteq Conns /\ \A o \in Objects : v.heap[o].linkId \notin inc
    <3>1. \A o \in Objects : v.heap[o].linkId \in {w.heap[o].linkId, NO_LINK}
      BY Zeros DEF Shrinks
    <3> QED BY <3>1, Zeros DEF Good, Referenced
  <2> QED BY <2>1, <2>2 DEF Referenced
<1>7. Faithful(v, s, g) BY <1>3 DEF Good, Faithful
<1> QED BY <1>2, <1>3, <1>5, <1>6, <1>7 DEF Good

----------------------------------------------------------------------------
(* What the pointers do. *)

(* Nothing comes into being: pointers are copies or cleared, objects keep     *)
(* their connection or lose it.                                             *)
Within(w, s, v, t) ==
  /\ v.live \subseteq w.live
  /\ \A c \in Clients :
       /\ t[c].ptr = nullptr \/ \E d \in Clients : t[c].ptr = s[d].ptr
       /\ t[c].serialId = 0 \/ \E d \in Clients : t[c].serialId = s[d].serialId
  /\ \A o \in Objects :
       /\ v.heap[o].serialId \in {w.heap[o].serialId, 0}
       /\ v.heap[o].linkId \in {w.heap[o].linkId, NO_LINK}
       /\ w.heap[o] = Empty => v.heap[o] = Empty

LEMMA ShrinksWithin ==
  ASSUME NEW w, NEW s, NEW v, Shrinks(w, v)
  PROVE  Within(w, s, v, s)
BY Zeros DEF Shrinks, Within

LEMMA WithinTwice ==
  ASSUME NEW u, NEW v, NEW w, NEW r, NEW s, NEW t, Within(u, r, v, s), Within(v, s, w, t)
  PROVE  Within(u, r, w, t)
<1>1. w.live \subseteq u.live BY DEF Within
<1>2. ASSUME NEW c \in Clients
      PROVE  /\ t[c].ptr = nullptr \/ \E d \in Clients : t[c].ptr = r[d].ptr
             /\ t[c].serialId = 0 \/ \E d \in Clients : t[c].serialId = r[d].serialId
  <2>1. t[c].ptr = nullptr \/ \E d \in Clients : t[c].ptr = r[d].ptr 
    <3>1. CASE t[c].ptr # nullptr
      <4>1. PICK d \in Clients : t[c].ptr = s[d].ptr BY <3>1 DEF Within
      <4>2. \E e \in Clients : s[d].ptr = r[e].ptr BY <3>1, <4>1 DEF Within
      <4> QED BY <4>1, <4>2
    <3> QED BY <3>1
  <2>2. t[c].serialId = 0 \/ \E d \in Clients : t[c].serialId = r[d].serialId
    <3>1. CASE t[c].serialId # 0
      <4>1. PICK d \in Clients : t[c].serialId = s[d].serialId BY <3>1 DEF Within
      <4>2. \E e \in Clients : s[d].serialId = r[e].serialId BY <3>1, <4>1 DEF Within
      <4> QED BY <4>1, <4>2
    <3> QED BY <3>1
  <2> QED BY <2>1, <2>2
<1>3. ASSUME NEW o \in Objects
      PROVE  /\ w.heap[o].serialId \in {u.heap[o].serialId, 0}
             /\ w.heap[o].linkId \in {u.heap[o].linkId, NO_LINK}
             /\ u.heap[o] = Empty => w.heap[o] = Empty
  BY DEF Within
<1> QED BY <1>1, <1>2, <1>3 DEF Within

(* The world w with pointers s and gifts g becomes v with t and h. *)
Leads(w, s, g, v, t, h, inc) == Good(v, t, h, inc) /\ Within(w, s, v, t)

KnownSerial(p, s) == p.serialId = 0 \/ \E e \in Clients : p.serialId = s[e].serialId

Agree(g, h, c) == h \in [Clients -> Conns \cup {NO_LINK}] /\ \A d \in Clients \ {c} : h[d] = g[d]

\* Facts about a pointer of a good world
LEMMA Pointer ==
  ASSUME NEW w, NEW s, NEW g, NEW inc, Good(w, s, g, inc), NEW c \in Clients
  PROVE  /\ w \in Worlds /\ s \in [Clients -> Ptrs] /\ s[c] \in Ptrs
         /\ Valid(w, s[c]) => s[c].ptr \in Objects /\ s[c].serialId # 0 /\ InUse(w, s[c].ptr)
         /\ s[c].ptr # nullptr => s[c].ptr \in Objects /\ s[c].serialId # 0
         /\ \A o \in Objects : IsFiniteSet(UsersOf(w, s, o))
<1>1. \A o \in Objects : UsersOf(w, s, o) \subseteq Clients BY DEF UsersOf
<1>2. \A o \in Objects : IsFiniteSet(UsersOf(w, s, o)) BY <1>1, ClientsAssumption, FS_Subset
<1> QED BY <1>2 DEF Good, WorldOK, PtrsOK, Ptrs, Valid, InUse

\* A pointer that is not valid may be cleared.
LEMMA ClearedKeepsGood ==
  ASSUME NEW w, NEW s, NEW g, NEW inc, Good(w, s, g, inc), NEW c \in Clients, ~Valid(w, s[c]),
         NEW p \in Ptrs, p.ptr = nullptr, KnownSerial(p, s), NEW h, Agree(g, h, c)
  PROVE  Leads(w, s, g, w, [s EXCEPT ![c] = p], h, inc)
<1> DEFINE t == [s EXCEPT ![c] = p]
<1>1. /\ t \in [Clients -> Ptrs] /\ t[c] = p /\ \A d \in Clients \ {c} : t[d] = s[d]
  BY DEF Good, PtrsOK
<1>2. ~Valid(w, p) BY DEF Valid
<1> HIDE DEF t
<1>3. \A d \in Clients : Valid(w, t[d]) <=> Valid(w, s[d]) BY <1>1, <1>2
<1>4. \A d \in Clients : Valid(w, t[d]) => t[d] = s[d] /\ d # c BY <1>1, <1>2
<1>5. \A o \in Objects : UsersOf(w, t, o) = UsersOf(w, s, o)
  BY <1>1, <1>2, <1>3 DEF UsersOf
<1>6. PtrsOK(t) BY <1>1 DEF Good, PtrsOK
<1>7. Counted(w, t) BY <1>5 DEF Good, Counted
<1>8. Referenced(w, t, inc) BY <1>1, <1>3, <1>4 DEF Good, Referenced
<1>9. Faithful(w, t, h) BY <1>3, <1>4 DEF Good, Faithful, Agree
<1>10. Good(w, t, h, inc) BY <1>6, <1>7, <1>8, <1>9 DEF Good, Agree
<1>11. Within(w, s, w, t)
  <2>1. \A d \in Clients :
          /\ t[d].ptr = nullptr \/ \E e \in Clients : t[d].ptr = s[e].ptr
          /\ t[d].serialId = 0 \/ \E e \in Clients : t[d].serialId = s[e].serialId
    BY <1>1 DEF KnownSerial
  <2> QED BY <2>1 DEF Within
<1> QED BY <1>10, <1>11 DEF Leads, t

\* What decreaseRefCount() does with a valid pointer
LEMMA DecreasedAt ==
  ASSUME NEW w \in Worlds, NEW r, Valid(w, r), r.ptr \in Objects, r.serialId # 0, w.heap[r.ptr].refCount >= 1
  PROVE  LET o == r.ptr
             v == DecreaseRefCount(w, r)
         IN  /\ v \in Worlds /\ \A p \in Objects \ {o} : v.heap[p] = w.heap[p]
             /\ \/ /\ w.heap[o].refCount = 1
                   /\ v.heap[o] = Empty /\ v.live = w.live \ {w.heap[o].linkId}
                \/ /\ w.heap[o].refCount # 1
                   /\ v.heap[o] = [w.heap[o] EXCEPT !.refCount = @ - 1]
                   /\ v.live = w.live
<1> DEFINE o == r.ptr
           u == [w EXCEPT !.heap[o].refCount = @ - 1]
<1>1. o \in Objects /\ w.heap[o].serialId # 0 BY DEF Valid
<1>2. w.heap[o].refCount \in Nat /\ w.heap[o].refCount >= 1 BY DEF Worlds, Streams
<1>3. /\ u.live = w.live /\ u.heap[o] = [w.heap[o] EXCEPT !.refCount = @ - 1]
      /\ \A p \in Objects \ {o} : u.heap[p] = w.heap[p]
  BY <1>1 DEF Worlds
<1>4. /\ u.heap[o].refCount = w.heap[o].refCount - 1 /\ u.heap[o].serialId = w.heap[o].serialId
      /\ u.heap[o].linkId = w.heap[o].linkId
  BY <1>1, <1>3 DEF Worlds, Streams
<1>5. u \in Worlds
  <2>1. [w.heap[o] EXCEPT !.refCount = @ - 1] \in Streams BY <1>1, <1>2 DEF Worlds, Streams
  <2>2. u = [heap |-> [w.heap EXCEPT ![o] = [w.heap[o] EXCEPT !.refCount = @ - 1]], live |-> w.live]
    BY <1>1 DEF Worlds
  <2> QED BY <1>1, <2>1, <2>2 DEF Worlds
<1>6. DecreaseRefCount(w, r) = IF u.heap[o].refCount = 0 THEN Close(u, o) ELSE u
  BY DEF DecreaseRefCount
<1> HIDE DEF u, o
<1>7. CASE w.heap[o].refCount = 1
  <2>1. DecreaseRefCount(w, r) = Close(u, o) BY <1>4, <1>6, <1>7
  <2>2. /\ Close(u, o) \in Worlds /\ Close(u, o).live = w.live \ {w.heap[o].linkId}
        /\ Close(u, o).heap[o] = Empty
        /\ \A p \in Objects \ {o} : Close(u, o).heap[p] = w.heap[p]
    <3>1. /\ Shrinks(u, Close(u, o)) /\ Close(u, o).live = u.live \ {u.heap[o].linkId}
          /\ Close(u, o).heap[o] = IF u.heap[o].serialId = 0 THEN u.heap[o] ELSE Empty
          /\ \A p \in Objects \ {o} : Close(u, o).heap[p] = u.heap[p]
      BY <1>1, <1>5, CloseShrinks
    <3>2. Close(u, o) \in Worlds BY <3>1 DEF Shrinks
    <3> QED BY <1>1, <1>3, <1>4, <3>1, <3>2
  <2> QED BY <1>7, <2>1, <2>2 DEF o
<1>8. CASE w.heap[o].refCount # 1
  <2>1. DecreaseRefCount(w, r) = u BY <1>2, <1>4, <1>6, <1>8
  <2> QED BY <1>3, <1>5, <1>8, <2>1 DEF o
<1> QED BY <1>7, <1>8

LEMMA Decreased ==
  ASSUME NEW w, NEW s, NEW g, NEW inc, Good(w, s, g, inc), NEW c \in Clients, Valid(w, s[c])
  PROVE  LET o == s[c].ptr
             v == DecreaseRefCount(w, s[c])
         IN  /\ v \in Worlds /\ \A p \in Objects \ {o} : v.heap[p] = w.heap[p]
             /\ \/ /\ w.heap[o].refCount = 1
                   /\ v.heap[o] = Empty /\ v.live = w.live \ {w.heap[o].linkId}
                \/ /\ w.heap[o].refCount # 1
                   /\ v.heap[o] = [w.heap[o] EXCEPT !.refCount = @ - 1]
                   /\ v.live = w.live
<1> DEFINE o == s[c].ptr
<1>1. w \in Worlds /\ o \in Objects /\ w.heap[o].serialId # 0 /\ IsFiniteSet(UsersOf(w, s, o)) /\ s[c].serialId # 0
  BY Pointer DEF InUse
<1>2. w.heap[o].refCount >= 1
  <2>1. UsersOf(w, s, o) # {} /\ w.heap[o].refCount = Cardinality(UsersOf(w, s, o))
    BY <1>1 DEF Good, Counted
  <2> QED BY <1>1, <2>1, FS_EmptySet, FS_CardinalityType
<1> QED BY <1>1, <1>2, DecreasedAt

\* A client gives up its reference: the last one closes the connection.
LEMMA DroppedKeepsGood ==
  ASSUME NEW w, NEW s, NEW g, NEW inc, Good(w, s, g, inc), NEW c \in Clients,
         NEW p \in Ptrs, p.ptr = nullptr, KnownSerial(p, s), NEW h, Agree(g, h, c)
  PROVE  Leads(w, s, g, DecreaseRefCount(w, s[c]), [s EXCEPT ![c] = p], h, inc)
<1> DEFINE v == DecreaseRefCount(w, s[c])
           t == [s EXCEPT ![c] = p]
           o == s[c].ptr
<1>1. CASE ~Valid(w, s[c]) BY <1>1, ClearedKeepsGood DEF DecreaseRefCount
<1>2. CASE Valid(w, s[c])
  <2>1. w \in Worlds /\ s \in [Clients -> Ptrs] /\ o \in Objects /\ s[c].serialId # 0
        /\ \A q \in Objects : IsFiniteSet(UsersOf(w, s, q))
    BY <1>2, Pointer
  <2>2. /\ v \in Worlds /\ \A q \in Objects \ {o} : v.heap[q] = w.heap[q]
        /\ \/ /\ w.heap[o].refCount = 1
              /\ v.heap[o] = Empty /\ v.live = w.live \ {w.heap[o].linkId}
           \/ /\ w.heap[o].refCount # 1
              /\ v.heap[o] = [w.heap[o] EXCEPT !.refCount = @ - 1]
              /\ v.live = w.live
    BY <1>2, Decreased
  <2>3. t \in [Clients -> Ptrs] /\ t[c] = p /\ \A d \in Clients \ {c} : t[d] = s[d] BY <2>1
  <2>4. ~Valid(v, p) BY DEF Valid
  <2>5. w.heap[o] \in Streams /\ w.heap[o].serialId # 0 /\ w.heap[o].serialId = s[c].serialId
    BY <1>2, <2>1 DEF Worlds, Valid
  <2>6. UsersOf(w, s, o) \ {c} = {d \in Clients \ {c} : s[d].ptr = o /\ Valid(w, s[d])} /\ c \in UsersOf(w, s, o)
    BY <1>2 DEF UsersOf
  <2>7. /\ w.heap[o].refCount = Cardinality(UsersOf(w, s, o))
        /\ Cardinality(UsersOf(w, s, o) \ {c}) = w.heap[o].refCount - 1
        /\ IsFiniteSet(UsersOf(w, s, o) \ {c}) /\ w.heap[o].refCount \in Nat
    BY <2>1, <2>5, <2>6, FS_RemoveElement DEF Good, Counted, Streams
  <2>8. w.heap[o].refCount = 1 => UsersOf(w, s, o) \ {c} = {} BY <2>7, FS_EmptySet
  <2>9. w.heap[o].refCount # 1 =>
          /\ v.heap[o].serialId = w.heap[o].serialId /\ v.heap[o].linkId = w.heap[o].linkId
          /\ v.heap[o].refCount = w.heap[o].refCount - 1
    BY <2>2, <2>5 DEF Streams
  <2> HIDE DEF v, t, o
  <2>10. ASSUME NEW d \in Clients, Valid(v, t[d])
         PROVE  /\ d # c /\ t[d] = s[d] /\ Valid(w, s[d]) /\ s[d].ptr \in Objects
                /\ v.heap[s[d].ptr].linkId = w.heap[s[d].ptr].linkId
    <3>1. d # c /\ t[d] = s[d] BY <2>3, <2>4, <2>10
    <3>2. s[d].ptr \in Objects /\ s[d].serialId # 0 BY <2>10, <3>1, Pointer DEF Valid
    <3>3. CASE s[d].ptr # o BY <2>2, <2>10, <3>1, <3>2, <3>3 DEF Valid
    <3>4. CASE s[d].ptr = o
      <4>1. w.heap[o].refCount # 1 BY <2>2, <2>10, <3>1, <3>2, <3>4, Zeros DEF Valid
      <4> QED BY <2>9, <2>10, <3>1, <3>2, <3>4, <4>1 DEF Valid
    <3> QED BY <3>3, <3>4
  <2>11. ASSUME NEW d \in Clients \ {c}, Valid(w, s[d]), s[d].ptr = o => w.heap[o].refCount # 1
         PROVE  Valid(v, t[d]) /\ v.heap[t[d].ptr].linkId = w.heap[s[d].ptr].linkId
    <3>1. t[d] = s[d] /\ s[d].ptr \in Objects BY <2>3, <2>11, Pointer
    <3>2. CASE s[d].ptr = o BY <2>9, <2>11, <3>1, <3>2 DEF Valid
    <3>3. CASE s[d].ptr # o BY <2>2, <2>11, <3>1, <3>3 DEF Valid
    <3> QED BY <3>2, <3>3
  <2>12. WorldOK(v)
    <3> SUFFICES ASSUME NEW q \in Objects, v.heap[q].serialId = 0 PROVE v.heap[q] = Empty
      BY <2>2 DEF WorldOK
    <3>1. CASE q # o BY <2>2, <3>1 DEF Good, WorldOK
    <3>2. CASE q = o BY <2>2, <2>5, <2>9, <3>2
    <3> QED BY <3>1, <3>2
  <2>13. PtrsOK(t) BY <2>3 DEF Good, PtrsOK
  <2>14. Counted(v, t)
    <3> SUFFICES ASSUME NEW q \in Objects
                 PROVE  /\ v.heap[q].refCount = Cardinality(UsersOf(v, t, q))
                        /\ v.heap[q].serialId # 0 => UsersOf(v, t, q) # {}
      BY DEF Counted
    <3>1. CASE q # o
      <4>1. UsersOf(v, t, q) = UsersOf(w, s, q)
        <5>1. \A d \in Clients : t[d].ptr = q /\ Valid(v, t[d]) => s[d].ptr = q /\ Valid(w, s[d]) BY <2>10
        <5>2. \A d \in Clients : s[d].ptr = q /\ Valid(w, s[d]) => t[d].ptr = q /\ Valid(v, t[d])
          <6>1. \A d \in Clients : s[d].ptr = q => d # c BY <3>1 DEF o
          <6> QED BY <2>3, <2>11, <3>1, <6>1
        <5> QED BY <5>1, <5>2 DEF UsersOf
      <4>2. v.heap[q] = w.heap[q] BY <2>2, <3>1
      <4> QED BY <4>1, <4>2 DEF Good, Counted
    <3>2. CASE q = o /\ w.heap[o].refCount = 1
      <4>1. UsersOf(v, t, o) = {}
        <5> SUFFICES ASSUME NEW d \in Clients, t[d].ptr = o, Valid(v, t[d]) PROVE FALSE
          BY DEF UsersOf
        <5>1. d # c /\ s[d].ptr = o /\ Valid(w, s[d]) BY <2>10
        <5>2. d \in UsersOf(w, s, o) \ {c} BY <5>1 DEF UsersOf
        <5> QED BY <2>8, <3>2, <5>2
      <4> QED BY <2>2, <3>2, <4>1, Zeros, FS_EmptySet
    <3>3. CASE q = o /\ w.heap[o].refCount # 1
      <4>1. UsersOf(v, t, o) = UsersOf(w, s, o) \ {c}
        <5>1. \A d \in Clients : t[d].ptr = o /\ Valid(v, t[d]) => s[d].ptr = o /\ Valid(w, s[d]) /\ d # c BY <2>10
        <5>2. \A d \in Clients : s[d].ptr = o /\ Valid(w, s[d]) /\ d # c => t[d].ptr = o /\ Valid(v, t[d])
          BY <2>3, <2>11, <3>3
        <5> QED BY <5>1, <5>2 DEF UsersOf
      <4>2. Cardinality(UsersOf(v, t, o)) # 0 BY <2>7, <3>3, <4>1
      <4> QED BY <2>7, <2>9, <3>3, <4>1, <4>2, FS_EmptySet
    <3> QED BY <3>1, <3>2, <3>3
  <2>15. Referenced(v, t, inc)
    <3>1. ASSUME NEW n \in v.live \ inc
          PROVE  \E d \in Clients : Valid(v, t[d]) /\ v.heap[t[d].ptr].linkId = n
      <4>1. n \in w.live \ inc /\ n # NO_LINK /\ (w.heap[o].refCount = 1 => n # w.heap[o].linkId)
        BY <2>1, <2>2, Zeros DEF Worlds
      <4>2. PICK d \in Clients : Valid(w, s[d]) /\ w.heap[s[d].ptr].linkId = n
        BY <4>1 DEF Good, Referenced
      <4>3. CASE d # c
        <5>1. s[d].ptr = o => w.heap[o].refCount # 1 BY <4>1, <4>2
        <5> QED BY <2>11, <4>2, <4>3, <5>1
      <4>4. CASE d = c
        <5>1. w.heap[o].refCount # 1 /\ w.heap[o].linkId = n BY <4>1, <4>2, <4>4 DEF o
        <5>2. UsersOf(w, s, o) \ {c} # {} BY <2>7, <5>1, FS_EmptySet
        <5>3. PICK e \in UsersOf(w, s, o) \ {c} : TRUE BY <5>2
        <5>4. e \in Clients \ {c} /\ s[e].ptr = o /\ Valid(w, s[e]) BY <5>3 DEF UsersOf
        <5> QED BY <2>11, <5>1, <5>4
      <4> QED BY <4>3, <4>4
    <3>2. ASSUME NEW q \in Objects PROVE v.heap[q].linkId \notin inc
      <4>1. inc \subseteq Conns /\ w.heap[q].linkId \notin inc BY DEF Good, Referenced
      <4>2. v.heap[q].linkId \in {w.heap[q].linkId, NO_LINK} BY <2>2, <2>9, Zeros
      <4> QED BY <4>1, <4>2, Zeros
    <3> QED BY <3>1, <3>2 DEF Referenced, Good
  <2>16. Faithful(v, t, h) BY <2>10 DEF Good, Faithful, Agree
  <2>17. Good(v, t, h, inc) BY <2>12, <2>13, <2>14, <2>15, <2>16 DEF Good, Agree
  <2>18. Within(w, s, v, t)
    <3>1. v.live \subseteq w.live BY <2>2
    <3>2. ASSUME NEW d \in Clients
          PROVE  /\ t[d].ptr = nullptr \/ \E e \in Clients : t[d].ptr = s[e].ptr
                 /\ t[d].serialId = 0 \/ \E e \in Clients : t[d].serialId = s[e].serialId
      BY <2>3 DEF KnownSerial
    <3>3. ASSUME NEW q \in Objects
          PROVE  /\ v.heap[q].serialId \in {w.heap[q].serialId, 0}
                 /\ v.heap[q].linkId \in {w.heap[q].linkId, NO_LINK}
                 /\ w.heap[q] = Empty => v.heap[q] = Empty
      BY <2>2, <2>5, <2>9, Zeros
    <3> QED BY <3>1, <3>2, <3>3 DEF Within
  <2> QED BY <2>17, <2>18 DEF Leads, v, t
<1> QED BY <1>1, <1>2

\* A client that refers to nothing gets a copy of another's pointer.
LEMMA AddedKeepsGood ==
  ASSUME NEW w, NEW s, NEW g, NEW inc, Good(w, s, g, inc), NEW c \in Clients, NEW d \in Clients \ {c},
         ~Valid(w, s[c]), NEW h, Agree(g, h, c), h[c] = g[d]
  PROVE  Leads(w, s, g, IncreaseRefCount(w, s[d]), [s EXCEPT ![c] = CheckValid(w, s[d])], h, inc)
<1> DEFINE v == IncreaseRefCount(w, s[d])
           t == [s EXCEPT ![c] = CheckValid(w, s[d])]
           o == s[d].ptr
<1>1. CASE ~Valid(w, s[d])
  <2> DEFINE p == [s[d] EXCEPT !.ptr = nullptr]
  <2>1. v = w /\ CheckValid(w, s[d]) = p BY <1>1 DEF IncreaseRefCount, CheckValid
  <2>2. p \in Ptrs /\ p.ptr = nullptr /\ p.serialId = s[d].serialId BY Pointer DEF Ptrs
  <2>3. KnownSerial(p, s) BY <2>2 DEF KnownSerial
  <2> HIDE DEF p
  <2>4. Leads(w, s, g, w, [s EXCEPT ![c] = p], h, inc) BY <2>2, <2>3, ClearedKeepsGood
  <2> QED BY <2>1, <2>4
<1>2. CASE Valid(w, s[d])
  <2>1. w \in Worlds /\ s \in [Clients -> Ptrs] /\ o \in Objects /\ s[d].serialId # 0
        /\ \A q \in Objects : IsFiniteSet(UsersOf(w, s, q))
    BY <1>2, Pointer
  <2>2. /\ v \in Worlds /\ v.live = w.live /\ \A q \in Objects \ {o} : v.heap[q] = w.heap[q]
        /\ v.heap[o] = [w.heap[o] EXCEPT !.refCount = @ + 1]
    <3>1. v = [w EXCEPT !.heap[o].refCount = @ + 1] BY <1>2 DEF IncreaseRefCount
    <3>2. [w.heap[o] EXCEPT !.refCount = @ + 1] \in Streams BY <2>1 DEF Worlds, Streams
    <3>3. v = [heap |-> [w.heap EXCEPT ![o] = [w.heap[o] EXCEPT !.refCount = @ + 1]], live |-> w.live]
      BY <2>1, <3>1 DEF Worlds
    <3> HIDE DEF v, o
    <3> QED BY <2>1, <3>2, <3>3 DEF Worlds
  <2>3. /\ v.heap[o].serialId = w.heap[o].serialId /\ v.heap[o].linkId = w.heap[o].linkId
        /\ v.heap[o].refCount = w.heap[o].refCount + 1 /\ w.heap[o].refCount \in Nat
    BY <2>1, <2>2 DEF Worlds, Streams
  <2>4. /\ t \in [Clients -> Ptrs] /\ t[c] = s[d] /\ \A e \in Clients \ {c} : t[e] = s[e]
    BY <1>2, <2>1 DEF CheckValid
  <2>5. w.heap[o].serialId # 0 BY <1>2, <2>1 DEF Valid
  <2> HIDE DEF v, t
  <2>6. \A q \in Objects : v.heap[q].serialId = w.heap[q].serialId /\ v.heap[q].linkId = w.heap[q].linkId
    BY <2>2, <2>3
  <2>7. ASSUME NEW e \in Clients
        PROVE  /\ Valid(v, t[e]) <=> (e = c \/ Valid(w, s[e]))
               /\ e # c => t[e] = s[e]
               /\ Valid(v, t[e]) => t[e].ptr \in Objects /\ v.heap[t[e].ptr].linkId = w.heap[t[e].ptr].linkId
    <3>1. CASE e = c BY <1>2, <2>1, <2>3, <2>4, <3>1, Zeros DEF Valid
    <3>2. CASE e # c
      <4>1. t[e] = s[e] /\ (s[e].ptr # nullptr => s[e].ptr \in Objects) BY <2>4, <3>2, Pointer
      <4> QED BY <2>6, <3>2, <4>1 DEF Valid
    <3> QED BY <3>1, <3>2
  <2>8. WorldOK(v)
    <3> SUFFICES ASSUME NEW q \in Objects, v.heap[q].serialId = 0 PROVE v.heap[q] = Empty
      BY <2>2 DEF WorldOK
    <3>1. q # o BY <2>3, <2>5
    <3> QED BY <2>2, <3>1 DEF Good, WorldOK
  <2>9. PtrsOK(t) BY <2>1, <2>4 DEF Good, PtrsOK
  <2>10. Counted(v, t)
    <3> SUFFICES ASSUME NEW q \in Objects
                 PROVE  /\ v.heap[q].refCount = Cardinality(UsersOf(v, t, q))
                        /\ v.heap[q].serialId # 0 => UsersOf(v, t, q) # {}
      BY DEF Counted
    <3>1. c \notin UsersOf(w, s, q) BY DEF UsersOf
    <3>2. CASE q = o
      <4>1. UsersOf(v, t, o) = UsersOf(w, s, o) \cup {c} BY <2>4, <2>7, <3>2 DEF UsersOf
      <4>2. Cardinality(UsersOf(w, s, o) \cup {c}) = Cardinality(UsersOf(w, s, o)) + 1
        BY <2>1, <3>1, <3>2, FS_AddElement
      <4> QED BY <2>1, <2>3, <3>2, <4>1, <4>2 DEF Good, Counted
    <3>3. CASE q # o
      <4>1. UsersOf(v, t, q) = UsersOf(w, s, q) BY <2>4, <2>7, <3>1, <3>3 DEF UsersOf
      <4> QED BY <2>2, <3>3, <4>1 DEF Good, Counted
    <3> QED BY <3>2, <3>3
  <2>11. Referenced(v, t, inc)
    <3>1. ASSUME NEW n \in v.live \ inc
          PROVE  \E e \in Clients : Valid(v, t[e]) /\ v.heap[t[e].ptr].linkId = n
      <4>1. PICK e \in Clients : Valid(w, s[e]) /\ w.heap[s[e].ptr].linkId = n
        BY <2>2 DEF Good, Referenced
      <4>2. e # c BY <4>1
      <4> QED BY <2>7, <4>1, <4>2
    <3> QED BY <2>6, <3>1 DEF Referenced, Good
  <2>12. Faithful(v, t, h)
    <3>1. Faithful(w, s, g) BY DEF Good
    <3>2. ASSUME NEW e \in Clients, Valid(v, t[e]) PROVE v.heap[t[e].ptr].linkId \in {h[e], NO_LINK}
      <4>1. CASE e = c BY <1>2, <2>4, <2>7, <3>1, <3>2, <4>1 DEF Faithful
      <4>2. CASE e # c BY <2>7, <3>1, <3>2, <4>2 DEF Faithful, Agree
      <4> QED BY <4>1, <4>2
    <3> QED BY <3>2 DEF Faithful
  <2>13. Good(v, t, h, inc) BY <2>8, <2>9, <2>10, <2>11, <2>12 DEF Good, Agree
  <2>14. Within(w, s, v, t)
    <3>1. \A q \in Objects : w.heap[q] = Empty => v.heap[q] = Empty BY <2>2, <2>5, Zeros
    <3>2. ASSUME NEW e \in Clients
          PROVE  /\ t[e].ptr = nullptr \/ \E f \in Clients : t[e].ptr = s[f].ptr
                 /\ t[e].serialId = 0 \/ \E f \in Clients : t[e].serialId = s[f].serialId
      BY <2>4
    <3> QED BY <2>2, <2>6, <3>1, <3>2 DEF Within
  <2> QED BY <2>13, <2>14 DEF Leads, v, t
<1> QED BY <1>1, <1>2

\* A client that refers to nothing takes over another's pointer.
LEMMA MovedKeepsGood ==
  ASSUME NEW w, NEW s, NEW g, NEW inc, Good(w, s, g, inc), NEW c \in Clients, NEW d \in Clients \ {c},
         ~Valid(w, s[c]), NEW h, Agree(g, h, c), h[c] = g[d]
  PROVE  Leads(w, s, g, w, [s EXCEPT ![c] = s[d], ![d].ptr = nullptr], h, inc)
<1> DEFINE t == [s EXCEPT ![c] = s[d], ![d].ptr = nullptr]
<1>1. w \in Worlds /\ s \in [Clients -> Ptrs] /\ s[d] \in Ptrs
      /\ \A q \in Objects : IsFiniteSet(UsersOf(w, s, q))
  BY Pointer
<1>2. /\ t \in [Clients -> Ptrs] /\ t[c] = s[d] /\ t[d].ptr = nullptr /\ t[d].serialId = s[d].serialId
      /\ \A e \in Clients \ {c, d} : t[e] = s[e]
  BY <1>1 DEF Ptrs
<1> HIDE DEF t
<1>3. ~Valid(w, t[d]) BY <1>2 DEF Valid
<1>4. PtrsOK(t) BY <1>1, <1>2 DEF Good, PtrsOK
<1>5. Counted(w, t)
  <2> SUFFICES ASSUME NEW q \in Objects
               PROVE  Cardinality(UsersOf(w, t, q)) = Cardinality(UsersOf(w, s, q))
                      /\ (UsersOf(w, s, q) # {} => UsersOf(w, t, q) # {})
    BY DEF Good, Counted
  <2>1. CASE d \in UsersOf(w, s, q)
    <3>1. UsersOf(w, t, q) = (UsersOf(w, s, q) \ {d}) \cup {c}
      BY <1>2, <1>3, <2>1 DEF UsersOf
    <3>2. c \notin UsersOf(w, s, q) \ {d} BY DEF UsersOf
    <3>3. IsFiniteSet(UsersOf(w, s, q)) /\ Cardinality(UsersOf(w, s, q)) \in Nat BY <1>1, FS_CardinalityType
    <3>4. IsFiniteSet(UsersOf(w, s, q) \ {d})
          /\ Cardinality(UsersOf(w, s, q) \ {d}) = Cardinality(UsersOf(w, s, q)) - 1
      BY <2>1, <3>3, FS_RemoveElement
    <3>5. Cardinality(UsersOf(w, t, q)) = Cardinality(UsersOf(w, s, q) \ {d}) + 1
      BY <3>1, <3>2, <3>4, FS_AddElement
    <3> QED BY <3>1, <3>3, <3>4, <3>5
  <2>2. CASE d \notin UsersOf(w, s, q)
    <3>1. UsersOf(w, t, q) = UsersOf(w, s, q)
      BY <1>2, <1>3, <2>2 DEF UsersOf
    <3> QED BY <3>1
  <2> QED BY <2>1, <2>2
<1>6. Referenced(w, t, inc)
  <2>1. ASSUME NEW n \in w.live \ inc
        PROVE  \E e \in Clients : Valid(w, t[e]) /\ w.heap[t[e].ptr].linkId = n
    <3>1. PICK e \in Clients : Valid(w, s[e]) /\ w.heap[s[e].ptr].linkId = n
      BY DEF Good, Referenced
    <3>2. e # c BY <3>1
    <3> QED BY <1>2, <3>1, <3>2
  <2> QED BY <2>1 DEF Referenced, Good
<1>7. Faithful(w, t, h)
  <2>1. ASSUME NEW e \in Clients, Valid(w, t[e]) PROVE w.heap[t[e].ptr].linkId \in {h[e], NO_LINK}
    <3>1. e # d BY <1>3, <2>1
    <3>2. CASE e = c BY <1>2, <2>1, <3>2 DEF Good, Faithful
    <3>3. CASE e # c BY <1>2, <2>1, <3>1, <3>3 DEF Good, Faithful, Agree
    <3> QED BY <3>2, <3>3
  <2> QED BY <2>1 DEF Faithful
<1>8. Good(w, t, h, inc) BY <1>4, <1>5, <1>6, <1>7 DEF Good, Agree
<1>9. ASSUME NEW e \in Clients
      PROVE  /\ t[e].ptr = nullptr \/ \E f \in Clients : t[e].ptr = s[f].ptr
             /\ t[e].serialId = 0 \/ \E f \in Clients : t[e].serialId = s[f].serialId
  BY <1>2
<1> QED BY <1>8, <1>9 DEF Leads, Within, t

\* One after the other
LEMMA LeadsTwice ==
  ASSUME NEW u, NEW r, NEW f, NEW v, NEW s, NEW g, NEW w, NEW t, NEW h, NEW inc,
         Leads(u, r, f, v, s, g, inc), Leads(v, s, g, w, t, h, inc)
  PROVE  Leads(u, r, f, w, t, h, inc)
BY WithinTwice DEF Leads

LEMMA ShrinksLeads ==
  ASSUME NEW w, NEW s, NEW g, NEW inc, Good(w, s, g, inc), NEW v, Shrinks(w, v)
  PROVE  Leads(w, s, g, v, s, g, inc)
BY ShrinksKeepsGood, ShrinksWithin DEF Leads

\* Fresh is no reference.
LEMMA FreshRefersToNothing ==
  /\ Fresh \in Ptrs /\ Fresh.ptr = nullptr /\ Fresh.serialId = 0
  /\ \A w : ~Valid(w, Fresh) /\ DecreaseRefCount(w, Fresh) = w
  /\ \A s : KnownSerial(Fresh, s)
<1>1. 0 \in 0 .. SERIALS - 1 BY SerialsAssumption, LinksAssumption
<1> QED BY <1>1 DEF Fresh, Ptrs, Valid, DecreaseRefCount, KnownSerial

\* A temporary without connection that is assigned to a client clears it.
LEMMA TakeOverFresh ==
  ASSUME NEW w, NEW s, NEW g, NEW inc, Good(w, s, g, inc), NEW c \in Clients, NEW h, Agree(g, h, c)
  PROVE  LET r == TakeOver(w, s[c], Fresh)
         IN  /\ r.world = DecreaseRefCount(w, s[c]) /\ r.ptr \in Ptrs /\ r.ptr.ptr = nullptr
             /\ Leads(w, s, g, r.world, [s EXCEPT ![c] = r.ptr], h, inc)
<1> DEFINE r == TakeOver(w, s[c], Fresh)
<1>1. s[c] \in Ptrs /\ (Valid(w, s[c]) => s[c].ptr # nullptr /\ s[c].serialId # 0)
  BY Pointer, Zeros
<1>2. CASE Valid(w, s[c])
  <2>1. CheckValid(w, s[c]) = s[c] /\ Differs(s[c], Fresh)
    BY <1>1, <1>2, FreshRefersToNothing DEF CheckValid, Differs
  <2>2. MoveAssign(w, s[c], Fresh) = Result(DecreaseRefCount(w, s[c]), Fresh, [Fresh EXCEPT !.ptr = nullptr])
    BY <2>1 DEF MoveAssign
  <2>3. [Fresh EXCEPT !.ptr = nullptr] = Fresh BY DEF Fresh
  <2>4. r.world = DecreaseRefCount(w, s[c]) /\ r.ptr = Fresh
    BY <2>2, <2>3, FreshRefersToNothing DEF TakeOver, Result
  <2>5. Leads(w, s, g, DecreaseRefCount(w, s[c]), [s EXCEPT ![c] = Fresh], h, inc)
    BY FreshRefersToNothing, DroppedKeepsGood
  <2> HIDE DEF r
  <2>6. Leads(w, s, g, r.world, [s EXCEPT ![c] = r.ptr], h, inc) BY <2>4, <2>5
  <2> QED BY <2>4, <2>6, FreshRefersToNothing DEF r
<1>3. CASE ~Valid(w, s[c])
  <2> DEFINE p == [s[c] EXCEPT !.ptr = nullptr]
  <2>1. CheckValid(w, s[c]) = p BY <1>3 DEF CheckValid
  <2>2. p \in Ptrs /\ p.ptr = nullptr /\ p.serialId = s[c].serialId BY <1>1 DEF Ptrs
  <2> HIDE DEF p
  <2>3. ~Differs(p, Fresh) BY <2>2, FreshRefersToNothing DEF Differs
  <2>4. MoveAssign(w, s[c], Fresh) = Result(w, p, Fresh) BY <2>1, <2>3 DEF MoveAssign
  <2>5. r.world = w /\ r.ptr = p BY <2>4, FreshRefersToNothing DEF TakeOver, Result
  <2>6. DecreaseRefCount(w, s[c]) = w BY <1>3 DEF DecreaseRefCount
  <2>7. KnownSerial(p, s) BY <2>2 DEF KnownSerial
  <2>8. Leads(w, s, g, w, [s EXCEPT ![c] = p], h, inc) BY <1>3, <2>2, <2>7, ClearedKeepsGood
  <2> HIDE DEF r
  <2>9. Leads(w, s, g, r.world, [s EXCEPT ![c] = r.ptr], h, inc) BY <2>5, <2>8
  <2> QED BY <2>2, <2>5, <2>6, <2>9 DEF r
<1> QED BY <1>2, <1>3

\* The assignments c = d and c = std::move(d): the pointers, and the gifts
LEMMA CopyAssignLeads ==
  ASSUME NEW w, NEW s, NEW g, NEW inc, Good(w, s, g, inc), NEW c \in Clients, NEW d \in Clients \ {c},
         g \in [Clients -> Conns \cup {NO_LINK}]
  PROVE  LET r == CopyAssign(w, s[c], s[d])
             h == IF r.ptr = s[c] THEN g ELSE [g EXCEPT ![c] = g[d]]
         IN  Leads(w, s, g, r.world, [s EXCEPT ![c] = r.ptr], h, inc)
<1> DEFINE r == CopyAssign(w, s[c], s[d])
           h == IF r.ptr = s[c] THEN g ELSE [g EXCEPT ![c] = g[d]]
           p == CheckValid(w, s[c])
           v == DecreaseRefCount(w, s[c])
           t == [s EXCEPT ![c] = Fresh]
<1>1. /\ s \in [Clients -> Ptrs] /\ s[c] \in Ptrs /\ s[d] \in Ptrs
      /\ Valid(w, s[c]) => s[c].ptr # nullptr
  BY Pointer, Zeros
<1>2. /\ Valid(w, s[c]) => p = s[c]
      /\ ~Valid(w, s[c]) => p.ptr = nullptr
      /\ p \in Ptrs /\ p.serialId = s[c].serialId
  BY <1>1 DEF CheckValid, Ptrs
<1>3. Agree(g, h, c) BY DEF Agree
<1>4. CASE ~Differs(p, s[d])
  <2>1. r.world = w /\ r.ptr = p BY <1>4 DEF CopyAssign, Result
  <2>2. CASE Valid(w, s[c])
    <3>1. r.ptr = s[c] /\ h = g BY <1>2, <2>1, <2>2
    <3>2. [s EXCEPT ![c] = s[c]] = s BY <1>1
    <3> QED BY <2>1, <3>1, <3>2, ShrinksNot, ShrinksLeads, Pointer
  <2>3. CASE ~Valid(w, s[c])
    <3>1. KnownSerial(p, s) BY <1>2 DEF KnownSerial
    <3> HIDE DEF r, h, p
    <3>2. Leads(w, s, g, w, [s EXCEPT ![c] = p], h, inc) BY <1>2, <1>3, <2>3, <3>1, ClearedKeepsGood
    <3> QED BY <2>1, <3>2 DEF r, h
  <2> QED BY <2>2, <2>3
<1>5. CASE Differs(p, s[d])
  <2>1. DecreaseRefCount(w, p) = v BY <1>2 DEF DecreaseRefCount, Valid
  <2>2. r.world = IncreaseRefCount(v, s[d]) /\ r.ptr = CheckValid(v, s[d])
    BY <1>5, <2>1 DEF CopyAssign, Result
  <2>3. r.ptr.serialId = s[d].serialId BY <1>1, <2>2 DEF CheckValid, Ptrs
  <2>4. r.ptr # s[c] BY <1>2, <1>5, <2>3 DEF Differs
  <2>5. h[c] = g[d] BY <2>4
  <2>6. Agree(g, g, c) BY DEF Agree
  <2> HIDE DEF r, h, p, v
  <2>7. Leads(w, s, g, v, t, g, inc) BY <2>6, FreshRefersToNothing, DroppedKeepsGood DEF v
  <2>8. t[c] = Fresh /\ t[d] = s[d] BY <1>1, FreshRefersToNothing
  <2> HIDE DEF t
  <2>9. Leads(v, t, g, IncreaseRefCount(v, t[d]), [t EXCEPT ![c] = CheckValid(v, t[d])], h, inc)
    BY <1>3, <2>5, <2>7, <2>8, FreshRefersToNothing, AddedKeepsGood DEF Leads
  <2>10. [t EXCEPT ![c] = r.ptr] = [s EXCEPT ![c] = r.ptr] BY <1>1 DEF t
  <2>11. Leads(v, t, g, r.world, [s EXCEPT ![c] = r.ptr], h, inc) BY <2>2, <2>8, <2>9, <2>10
  <2>12. Leads(w, s, g, r.world, [s EXCEPT ![c] = r.ptr], h, inc) BY <2>7, <2>11, LeadsTwice
  <2> QED BY <2>12 DEF r, h
<1> QED BY <1>4, <1>5

LEMMA MoveAssignLeads ==
  ASSUME NEW w, NEW s, NEW g, NEW inc, Good(w, s, g, inc), NEW c \in Clients, NEW d \in Clients \ {c},
         g \in [Clients -> Conns \cup {NO_LINK}]
  PROVE  LET r == MoveAssign(w, s[c], s[d])
             h == IF r.ptr = s[c] THEN g ELSE [g EXCEPT ![c] = g[d]]
         IN  Leads(w, s, g, r.world, [s EXCEPT ![c] = r.ptr, ![d] = r.other], h, inc)
<1> DEFINE r == MoveAssign(w, s[c], s[d])
           h == IF r.ptr = s[c] THEN g ELSE [g EXCEPT ![c] = g[d]]
           p == CheckValid(w, s[c])
           v == DecreaseRefCount(w, s[c])
           t == [s EXCEPT ![c] = Fresh]
<1>1. /\ s \in [Clients -> Ptrs] /\ s[c] \in Ptrs /\ s[d] \in Ptrs
      /\ Valid(w, s[c]) => s[c].ptr # nullptr
  BY Pointer, Zeros
<1>2. /\ Valid(w, s[c]) => p = s[c]
      /\ ~Valid(w, s[c]) => p.ptr = nullptr
      /\ p \in Ptrs /\ p.serialId = s[c].serialId
  BY <1>1 DEF CheckValid, Ptrs
<1>3. Agree(g, h, c) BY DEF Agree
<1>4. CASE ~Differs(p, s[d])
  <2>1. r.world = w /\ r.ptr = p /\ r.other = s[d] BY <1>4 DEF MoveAssign, Result
  <2>2. [s EXCEPT ![c] = p, ![d] = s[d]] = [s EXCEPT ![c] = p] BY <1>1
  <2>3. CASE Valid(w, s[c])
    <3>1. r.ptr = s[c] /\ h = g BY <1>2, <2>1, <2>3
    <3>2. [s EXCEPT ![c] = s[c], ![d] = s[d]] = s BY <1>1
    <3> QED BY <2>1, <3>1, <3>2, ShrinksNot, ShrinksLeads, Pointer
  <2>4. CASE ~Valid(w, s[c])
    <3>1. KnownSerial(p, s) BY <1>2 DEF KnownSerial
    <3> HIDE DEF r, h, p
    <3>2. Leads(w, s, g, w, [s EXCEPT ![c] = p], h, inc) BY <1>2, <1>3, <2>4, <3>1, ClearedKeepsGood
    <3> QED BY <2>1, <2>2, <3>2 DEF r, h
  <2> QED BY <2>3, <2>4
<1>5. CASE Differs(p, s[d])
  <2>1. DecreaseRefCount(w, p) = v BY <1>2 DEF DecreaseRefCount, Valid
  <2>2. r.world = v /\ r.ptr = s[d] /\ r.other = [s[d] EXCEPT !.ptr = nullptr]
    BY <1>5, <2>1 DEF MoveAssign, Result
  <2>3. r.ptr # s[c] BY <1>2, <1>5, <2>2 DEF Differs
  <2>4. h[c] = g[d] BY <2>3
  <2>5. Agree(g, g, c) BY DEF Agree
  <2> HIDE DEF r, h, p, v
  <2>6. Leads(w, s, g, v, t, g, inc) BY <2>5, FreshRefersToNothing, DroppedKeepsGood DEF v
  <2>7. t[c] = Fresh /\ t[d] = s[d] BY <1>1, FreshRefersToNothing
  <2>8. [t EXCEPT ![c] = t[d], ![d].ptr = nullptr] = [s EXCEPT ![c] = r.ptr, ![d] = r.other]
    BY <1>1, <2>2, FreshRefersToNothing
  <2> HIDE DEF t
  <2>9. Leads(v, t, g, v, [t EXCEPT ![c] = t[d], ![d].ptr = nullptr], h, inc)
    BY <1>3, <2>4, <2>6, <2>7, FreshRefersToNothing, MovedKeepsGood DEF Leads
  <2>10. Leads(w, s, g, r.world, [s EXCEPT ![c] = r.ptr, ![d] = r.other], h, inc)
    BY <2>2, <2>6, <2>8, <2>9, LeadsTwice
  <2> QED BY <2>10 DEF r, h
<1> QED BY <1>4, <1>5

----------------------------------------------------------------------------
(* The pool and the steps. *)

LEMMA SmallMod == ASSUME NEW N \in Nat, NEW a \in 0 .. N - 1 PROVE a % N = a
BY SMT

\* The library has well-foundedness for finite sets: a least number is a least initial segment.
LEMMA LeastNat ==
  ASSUME NEW T \in SUBSET Nat, T # {}
  PROVE  \E x \in T : \A y \in T : x <= y
<1> DEFINE Upto == {0 .. n : n \in T}
           R == StrictSubsetOrdering(Nat)
<1>1. Upto # {} /\ Upto \subseteq SUBSET Nat
  <2>1. \A n \in T : 0 .. n \subseteq Nat OBVIOUS
  <2>2. Upto # {} BY DEF Upto
  <2>3. ASSUME NEW U \in Upto PROVE U \in SUBSET Nat
    <3>1. PICK n \in T : U = 0 .. n BY <2>3
    <3> QED BY <2>1, <3>1
  <2> QED BY <2>2, <2>3
<1>2. \A U \in Upto : IsFiniteSet(U) BY FS_Interval
<1>3. Upto \subseteq FiniteSubsetsOf(Nat) BY <1>1, <1>2 DEF FiniteSubsetsOf
<1>4. PICK U \in Upto : \A V \in Upto : <<V, U>> \notin R
  BY <1>1, <1>3, FS_StrictSubsetOrderingWellFounded, WFMin
<1>5. PICK x \in T : U = 0 .. x OBVIOUS
<1>6. ASSUME NEW y \in T, y < x PROVE FALSE
  <2>1. 0 .. y \in Upto /\ 0 .. y \subseteq 0 .. x /\ x \notin 0 .. y /\ x \in 0 .. x BY <1>6
  <2>2. <<0 .. y, 0 .. x>> \in R BY <2>1, <1>1 DEF StrictSubsetOrdering
  <2> QED BY <1>4, <1>5, <2>1, <2>2
<1> QED BY <1>6

----------------------------------------------------------------------------
(* getBuffStream() *)

\* Until the values have been used up the next one is one more.
LEMMA NextSerialIs ==
  ASSUME NEW w, serialId \in 0 .. SERIALS - 1, serialId + 1 < SERIALS,
         \A o \in Objects : w.heap[o].serialId <= serialId,
         w \in Worlds, pool \in [Slots -> Objects \cup {nullptr}]
  PROVE  NextSerialId(w) = serialId + 1
<1> DEFINE Taken(n) == \E i \in Filled : w.heap[pool[i]].serialId = n
           P(k) == /\ ~Taken((serialId + k) % SERIALS)
                   /\ \A j \in 1 .. k - 1 : Taken((serialId + j) % SERIALS)
           K == CHOOSE k \in 1 .. SERIALS : P(k)
<1>1. (serialId + 1) % SERIALS = serialId + 1 BY SmallMod, SerialsAssumption
<1>2. ~Taken(serialId + 1)
  <2> SUFFICES ASSUME NEW i \in Filled, w.heap[pool[i]].serialId = serialId + 1 PROVE FALSE OBVIOUS
  <2>1. pool[i] \in Objects BY DEF Filled, Slots
  <2> QED BY <2>1
<1>3. P(1) BY <1>1, <1>2
<1>4. 1 \in 1 .. SERIALS BY SerialsAssumption
<1>5. \A k \in 1 .. SERIALS : P(k) => k = 1
  <2> SUFFICES ASSUME NEW k \in 1 .. SERIALS, P(k), k # 1 PROVE FALSE OBVIOUS
  <2>1. 1 \in 1 .. k - 1 BY SerialsAssumption
  <2>2. Taken((serialId + 1) % SERIALS) BY <2>1
  <2> QED BY <1>1, <1>2, <2>2
<1>6. K = 1
  <2> HIDE DEF P
  <2> QED BY <1>3, <1>4, <1>5
<1>7. NextSerialId(w) = (serialId + K) % SERIALS BY DEF NextSerialId
<1> QED BY <1>1, <1>6, <1>7

\* Behind the objects there is room for one more.
LEMMA RoomForObject ==
  ASSUME PoolShape(pool), NEW i \in Slots, pool[i] = nullptr
  PROVE  NewObject \in Objects \ Allocated
<1>1. IsFiniteSet(Slots) /\ Cardinality(Slots) = LINKS /\ LINKS \in Nat
  <2>1. LINKS \in Nat \ {0} /\ 0 \in Int /\ LINKS - 1 \in Int /\ ~(0 > LINKS - 1) /\ LINKS - 1 - 0 + 1 = LINKS
    BY LinksAssumption
  <2>2. IsFiniteSet(0 .. LINKS - 1) /\ Cardinality(0 .. LINKS - 1) = LINKS BY <2>1, FS_Interval
  <2> QED BY <2>1, <2>2 DEF Slots
<1>2. IsFiniteSet(Slots \ {i}) /\ Cardinality(Slots \ {i}) = LINKS - 1 BY <1>1, FS_RemoveElement
<1> DEFINE Used == {j \in Slots \ {i} : pool[j] # nullptr}
           f == [j \in Used |-> pool[j]]
<1>3. IsFiniteSet(Used) /\ Cardinality(Used) <= LINKS - 1
  BY <1>2, FS_Subset
<1>4. f \in Surjection(Used, Allocated)
  <2>1. \A j \in Used : pool[j] \in Allocated BY DEF Allocated
  <2>2. ASSUME NEW o \in Allocated PROVE \E j \in Used : f[j] = o BY DEF Allocated
  <2> QED BY <2>1, <2>2 DEF Surjection
<1>5. IsFiniteSet(Allocated) /\ Cardinality(Allocated) <= Cardinality(Used)
  BY <1>3, <1>4, FS_Surjection
<1>6. IsFiniteSet(Objects) /\ Cardinality(Objects) >= LINKS BY ObjectsAssumption, LinksAssumption
<1>7. Objects \ Allocated # {}
  <2> SUFFICES ASSUME Objects \subseteq Allocated PROVE FALSE OBVIOUS
  <2>1. Cardinality(Objects) <= Cardinality(Allocated) BY <1>5, FS_Subset
  <2>2. /\ Cardinality(Objects) \in Nat /\ Cardinality(Allocated) \in Nat /\ Cardinality(Used) \in Nat
    BY <1>3, <1>5, <1>6, FS_CardinalityType
  <2> HIDE DEF Used
  <2> QED BY <1>1, <1>3, <1>5, <1>6, <2>1, <2>2
<1>8. Objects \ Allocated \subseteq Nat BY ObjectsAssumption
<1>9. \E o \in Objects \ Allocated : \A p \in Objects \ Allocated : o <= p
  BY <1>7, <1>8, LeastNat
<1> QED BY <1>9 DEF NewObject

(* The BuffStream for connection n, when its predecessor is serial number k. *)
NewStream(k, n) == [serialId |-> k + 1, refCount |-> 1, linkId |-> n, rx |-> FALSE]

\* getBuffStream() takes an object that is not in use, or makes one in the first free slot.
LEMMA BuffStreamIs ==
  ASSUME NEW w, WorldOK(w), PoolShape(pool), \A o \in Objects \ Allocated : w.heap[o] = Empty,
         serialId \in 0 .. SERIALS - 1, serialId + 1 < SERIALS, \A o \in Objects : w.heap[o].serialId <= serialId,
         Candidates(w) # {}, NEW n
  PROVE  \E i \in Slots, o \in Objects :
           /\ w.heap[o] = Empty
           /\ BuffStream(w, n) = [world |-> [w EXCEPT !.heap[o] = NewStream(serialId, n)], slot |-> i,
                                  ptr |-> [ptr |-> o, serialId |-> serialId + 1]]
           /\ \/ pool[i] = o
              \/ pool[i] = nullptr /\ o \notin Allocated /\ \A j \in Slots : j < i => pool[j] # nullptr
<1> DEFINE i == Slot(w)
           o == IF i \in Filled THEN pool[i] ELSE NewObject
<1>1. Candidates(w) \in SUBSET Nat BY DEF Candidates, Slots
<1>2. i \in Candidates(w) /\ \A j \in Candidates(w) : i <= j BY <1>1, LeastNat DEF Slot
<1>3. i \in Slots BY <1>2 DEF Candidates
<1>4. /\ o \in Objects /\ w.heap[o] = Empty
      /\ \/ pool[i] = o
         \/ pool[i] = nullptr /\ o \notin Allocated /\ \A j \in Slots : j < i => pool[j] # nullptr
  <2> HIDE DEF i
  <2>1. CASE i \in Filled
    <3>1. o = pool[i] /\ o \in Objects
      <4>1. i \in 0 .. i BY <1>3 DEF Slots
      <4>2. pool[i] # nullptr BY <2>1, <4>1 DEF Filled
      <4> QED BY <1>3, <2>1, <4>2 DEF PoolShape
    <3>2. w.heap[o].serialId = 0 BY <1>2, <2>1 DEF Candidates, InUse
    <3> QED BY <3>1, <3>2 DEF WorldOK
  <2>2. CASE i \notin Filled
    <3>1. \A j \in Slots : j < i => pool[j] # nullptr
      <4> SUFFICES ASSUME NEW j \in Slots, j < i, pool[j] = nullptr PROVE FALSE OBVIOUS
      <4>1. j \in 0 .. j BY DEF Slots
      <4>2. j \in Candidates(w) BY <4>1 DEF Candidates, Filled
      <4>3. i <= j BY <1>2, <4>2
      <4> QED BY <1>3, <4>3 DEF Slots
    <3>2. pool[i] = nullptr
      <4> SUFFICES ASSUME pool[i] # nullptr PROVE FALSE OBVIOUS
      <4>1. ASSUME NEW j \in 0 .. i PROVE pool[j] # nullptr
        <5>1. i \in 0 .. LINKS - 1 /\ LINKS \in Nat BY <1>3, LinksAssumption DEF Slots
        <5>2. j \in 0 .. LINKS - 1 /\ (j < i \/ j = i) BY <5>1
        <5> QED BY <3>1, <5>2 DEF Slots
      <4> QED BY <1>3, <2>2, <4>1 DEF Filled
    <3>3. o = NewObject /\ o \in Objects \ Allocated BY <1>3, <2>2, <3>2, RoomForObject
    <3> QED BY <3>1, <3>2, <3>3
  <2> QED BY <2>1, <2>2
<1>5. NextSerialId(w) = serialId + 1 BY NextSerialIs DEF WorldOK, PoolShape
<1>6. [w.heap[o] EXCEPT !.serialId = NextSerialId(w), !.linkId = n, !.refCount = @ + 1] = NewStream(serialId, n)
  <2> DEFINE e == [Empty EXCEPT !.serialId = serialId + 1, !.linkId = n, !.refCount = @ + 1]
  <2>1. e \in [serialId : {serialId + 1}, refCount : {1}, linkId : {n}, rx : BOOLEAN]
    <3>1. Empty \in [serialId : {0}, refCount : {0}, linkId : {NO_LINK}, rx : {FALSE}] BY DEF Empty
    <3>2. [Empty EXCEPT !.serialId = serialId + 1] \in [serialId : {serialId + 1}, refCount : {0}, linkId : {NO_LINK}, rx : {FALSE}]
      BY <3>1
    <3>3. [[Empty EXCEPT !.serialId = serialId + 1] EXCEPT !.linkId = n] \in [serialId : {serialId + 1}, refCount : {0}, linkId : {n}, rx : {FALSE}]
      BY <3>2
    <3>4. Empty.refCount + 1 = 1 BY DEF Empty
    <3> QED BY <3>3, <3>4
  <2>2. e.serialId = serialId + 1 /\ e.refCount = 1 /\ e.linkId = n /\ e.rx = FALSE
    BY DEF Empty
  <2> HIDE DEF e, o
  <2>3. e = NewStream(serialId, n) BY <2>1, <2>2 DEF NewStream
  <2> QED BY <1>4, <1>5, <2>3 DEF e
<1>7. BuffStream(w, n) = [world |-> [w EXCEPT !.heap[o] = NewStream(serialId, n)], slot |-> i,
                          ptr |-> [ptr |-> o, serialId |-> serialId + 1]]
  BY <1>5, <1>6 DEF BuffStream
<1> QED BY <1>3, <1>4, <1>7

----------------------------------------------------------------------------
(* The new connection's pointer *)

NewPtr(o) == [ptr |-> o, serialId |-> serialId + 1]

LEMMA SameWorld ==
  ASSUME NEW v \in Worlds, NEW w \in Worlds, v.live = w.live, \A o \in Objects : v.heap[o] = w.heap[o]
  PROVE  v = w
<1>1. v.heap = w.heap BY DEF Worlds
<1> QED BY <1>1 DEF Worlds

LEMMA NewStreamIs ==
  ASSUME serialId \in 0 .. SERIALS - 1, serialId + 1 < SERIALS, NEW n \in Conns
  PROVE  /\ NewStream(serialId, n) \in Streams
         /\ NewStream(serialId, n).serialId = serialId + 1 /\ NewStream(serialId, n).linkId = n
         /\ NewStream(serialId, n).refCount = 1
<1>1. serialId + 1 \in 0 .. SERIALS - 1 BY SerialsAssumption
<1> QED BY <1>1 DEF NewStream, Streams

\* A client that refers to nothing is given connection n with a new BuffStream.
LEMMA NewKeepsGood ==
  ASSUME NEW w, NEW s, NEW g, NEW inc, Good(w, s, g, inc), NEW c \in Clients, ~Valid(w, s[c]),
         NEW n \in inc, NEW o \in Objects, w.heap[o] = Empty,
         serialId \in 0 .. SERIALS - 1, serialId + 1 < SERIALS,
         \A d \in Clients : s[d].serialId <= serialId,
         NEW v \in Worlds, v.live = w.live, v.heap[o] = NewStream(serialId, n),
         \A q \in Objects \ {o} : v.heap[q] = w.heap[q]
  PROVE  Good(v, [s EXCEPT ![c] = NewPtr(o)], [g EXCEPT ![c] = n], inc \ {n})
<1> DEFINE t == [s EXCEPT ![c] = NewPtr(o)]
           h == [g EXCEPT ![c] = n]
           new == NewStream(serialId, n)
<1>1. n \in Conns /\ inc \subseteq Conns BY DEF Good, Referenced
<1>2. new.serialId = serialId + 1 /\ new.linkId = n /\ new.refCount = 1 BY <1>1, NewStreamIs
<1>3. NewPtr(o) \in Ptrs /\ NewPtr(o).ptr = o /\ NewPtr(o).serialId = serialId + 1
  BY SerialsAssumption DEF NewPtr, Ptrs
<1>4. /\ w \in Worlds /\ s \in [Clients -> Ptrs] /\ g \in [Clients -> Conns \cup {NO_LINK}]
      /\ \A d \in Clients : s[d] \in Ptrs
  BY Pointer DEF Good
<1>5. /\ t \in [Clients -> Ptrs] /\ t[c] = NewPtr(o) /\ \A d \in Clients \ {c} : t[d] = s[d]
      /\ h \in [Clients -> Conns \cup {NO_LINK}] /\ h[c] = n /\ \A d \in Clients \ {c} : h[d] = g[d]
  BY <1>1, <1>3, <1>4
<1>6. o # nullptr /\ serialId + 1 # 0 BY Zeros
<1> HIDE DEF t, h, new
<1>7. Valid(v, t[c]) BY <1>2, <1>3, <1>5, <1>6 DEF Valid, new
<1>8. ASSUME NEW d \in Clients \ {c}
      PROVE  /\ Valid(v, t[d]) <=> Valid(w, s[d])
             /\ t[d] = s[d]
             /\ Valid(w, s[d]) => s[d].ptr \in Objects \ {o}
  <2>1. s[d].ptr # nullptr => s[d].ptr \in Objects /\ s[d].serialId # 0 BY Pointer
  <2>2. ~Valid(w, s[d]) \/ s[d].ptr # o BY <2>1, Zeros DEF Valid
  <2>3. CASE s[d].ptr = o
    <3>1. s[d].serialId <= serialId /\ s[d].serialId \in 0 .. SERIALS - 1 BY <1>4 DEF Ptrs
    <3>2. ~Valid(v, s[d]) BY <1>2, <2>3, <3>1 DEF Valid, new
    <3> QED BY <1>5, <2>2, <2>3, <3>2
  <2>4. CASE s[d].ptr # o BY <1>5, <2>1, <2>4 DEF Valid
  <2> QED BY <2>3, <2>4
<1>9. WorldOK(v)
  <2>1. \A q \in Objects : v.heap[q].serialId = 0 => v.heap[q] = Empty
    BY <1>2, <1>6 DEF Good, WorldOK, new
  <2> QED BY <2>1 DEF WorldOK
<1>10. PtrsOK(t) BY <1>3, <1>5, <1>6 DEF Good, PtrsOK
<1>11. Counted(v, t)
  <2> SUFFICES ASSUME NEW q \in Objects
               PROVE  /\ v.heap[q].refCount = Cardinality(UsersOf(v, t, q))
                      /\ v.heap[q].serialId # 0 => UsersOf(v, t, q) # {}
    BY DEF Counted
  <2>1. CASE q = o
    <3>1. UsersOf(v, t, q) = {c} BY <1>3, <1>5, <1>7, <1>8, <2>1 DEF UsersOf
    <3> QED BY <1>2, <2>1, <3>1, FS_Singleton DEF new
  <2>2. CASE q # o
    <3>1. \A d \in Clients : t[d].ptr = q /\ Valid(v, t[d]) => s[d].ptr = q /\ Valid(w, s[d])
      BY <1>3, <1>5, <1>8, <2>2
    <3>2. \A d \in Clients : s[d].ptr = q /\ Valid(w, s[d]) => t[d].ptr = q /\ Valid(v, t[d])
      BY <1>8
    <3>3. UsersOf(v, t, q) = UsersOf(w, s, q) BY <3>1, <3>2 DEF UsersOf
    <3> QED BY <2>2, <3>3 DEF Good, Counted
  <2> QED BY <2>1, <2>2
<1>12. Referenced(v, t, inc \ {n})
  <2>1. ASSUME NEW m \in v.live \ (inc \ {n})
        PROVE  \E d \in Clients : Valid(v, t[d]) /\ v.heap[t[d].ptr].linkId = m
    <3>1. CASE m = n BY <1>2, <1>3, <1>5, <1>7, <3>1 DEF new
    <3>2. CASE m # n
      <4>1. PICK d \in Clients : Valid(w, s[d]) /\ w.heap[s[d].ptr].linkId = m
        BY <2>1, <3>2 DEF Good, Referenced
      <4>2. d # c BY <4>1
      <4> QED BY <1>8, <4>1, <4>2
    <3> QED BY <3>1, <3>2
  <2>2. \A q \in Objects : v.heap[q].linkId \notin inc \ {n} BY <1>2 DEF Good, Referenced, new
  <2> QED BY <1>1, <2>1, <2>2 DEF Referenced
<1>13. Faithful(v, t, h)
  <2>1. ASSUME NEW d \in Clients, Valid(v, t[d]) PROVE v.heap[t[d].ptr].linkId \in {h[d], NO_LINK}
    <3>1. CASE d = c BY <1>2, <1>3, <1>5, <3>1 DEF new
    <3>2. CASE d # c BY <1>5, <1>8, <2>1, <3>2 DEF Good, Faithful
    <3> QED BY <3>1, <3>2
  <2> QED BY <2>1 DEF Faithful
<1> QED BY <1>5, <1>9, <1>10, <1>11, <1>12, <1>13 DEF Good, t, h

\* The pointer of getBuffStream() taken over by a client whose pointer is then dropped: the
\* two touch different objects, so it is as if the old pointer had been dropped first.
LEMMA TakeOverNew ==
  ASSUME NEW w, NEW s, NEW g, NEW inc, Good(w, s, g, inc), NEW c \in Clients, NEW n \in inc,
         NEW o \in Objects, w.heap[o] = Empty, serialId \in 0 .. SERIALS - 1, serialId + 1 < SERIALS,
         \A d \in Clients : s[d].serialId <= serialId
  PROVE  LET r == TakeOver([w EXCEPT !.heap[o] = NewStream(serialId, n)], s[c], NewPtr(o))
         IN  /\ r.ptr = NewPtr(o) /\ r.world \in Worlds /\ r.world.live \subseteq w.live
             /\ r.world.heap[o] = NewStream(serialId, n)
             /\ \A q \in Objects \ {o} :
                  /\ r.world.heap[q].serialId \in {w.heap[q].serialId, 0}
                  /\ r.world.heap[q].linkId \in {w.heap[q].linkId, NO_LINK}
                  /\ w.heap[q] = Empty => r.world.heap[q] = Empty
             /\ Good(r.world, [s EXCEPT ![c] = NewPtr(o)], [g EXCEPT ![c] = n], inc \ {n})
<1> DEFINE new == NewStream(serialId, n)
           b == [w EXCEPT !.heap[o] = new]
           p == CheckValid(b, s[c])
           r == TakeOver(b, s[c], NewPtr(o))
           v == DecreaseRefCount(w, s[c])
           t == [s EXCEPT ![c] = Fresh]
<1>1. n \in Conns /\ \A q \in Objects : w.heap[q].linkId \notin inc BY DEF Good, Referenced
<1>2. new \in Streams /\ new.serialId = serialId + 1 BY <1>1, NewStreamIs
<1>3. w \in Worlds /\ s \in [Clients -> Ptrs] /\ s[c] \in Ptrs BY Pointer
<1>4. NewPtr(o).ptr = o /\ NewPtr(o).serialId = serialId + 1 /\ o # nullptr BY Zeros DEF NewPtr
<1> HIDE DEF new
<1>5. b \in Worlds /\ b.live = w.live /\ b.heap[o] = new /\ \A q \in Objects \ {o} : b.heap[q] = w.heap[q]
  BY <1>2, <1>3 DEF Worlds
<1> HIDE DEF b
<1>6. Valid(b, s[c]) <=> Valid(w, s[c])
  <2>1. s[c].ptr # nullptr => s[c].ptr \in Objects /\ s[c].serialId # 0 BY Pointer
  <2>2. s[c].serialId <= serialId /\ s[c].serialId \in 0 .. SERIALS - 1 BY <1>3 DEF Ptrs
  <2>3. CASE s[c].ptr = o
    <3>1. s[c].serialId # b.heap[o].serialId BY <1>2, <1>5, <2>2
    <3>2. s[c].serialId # w.heap[o].serialId BY <1>4, <2>1, <2>3, Zeros
    <3> QED BY <2>3, <3>1, <3>2 DEF Valid
  <2>4. CASE s[c].ptr # o BY <1>5, <2>1, <2>4 DEF Valid
  <2> QED BY <2>3, <2>4
<1>7. Valid(w, s[c]) => s[c].ptr \in Objects \ {o} /\ s[c].serialId # 0
  <2>1. Valid(w, s[c]) => s[c].ptr \in Objects /\ s[c].serialId # 0 BY Pointer
  <2> QED BY <2>1, Zeros DEF Valid
<1>8. p.ptr # o /\ p.serialId = s[c].serialId
  BY <1>3, <1>4, <1>6, <1>7 DEF CheckValid, Ptrs
<1>9. Differs(p, NewPtr(o))
  <2>1. s[c].serialId <= serialId /\ s[c].serialId \in 0 .. SERIALS - 1 BY <1>3 DEF Ptrs
  <2> QED BY <1>4, <1>8, <2>1 DEF Differs
<1>10. DecreaseRefCount(b, p) = DecreaseRefCount(b, s[c])
  <2>1. CASE Valid(b, s[c]) BY <2>1 DEF CheckValid
  <2>2. CASE ~Valid(b, s[c])
    <3>1. p.ptr = nullptr BY <1>3, <2>2 DEF CheckValid, Ptrs
    <3>2. ~Valid(b, p) BY <3>1 DEF Valid
    <3> QED BY <2>2, <3>2 DEF DecreaseRefCount
  <2> QED BY <2>1, <2>2
<1>11. r.ptr = NewPtr(o) /\ r.world = DecreaseRefCount(b, s[c])
  <2>1. MoveAssign(b, s[c], NewPtr(o)) =
          Result(DecreaseRefCount(b, s[c]), NewPtr(o), [NewPtr(o) EXCEPT !.ptr = nullptr])
    BY <1>9, <1>10 DEF MoveAssign
  <2>2. ~Valid(DecreaseRefCount(b, s[c]), [NewPtr(o) EXCEPT !.ptr = nullptr])
    BY DEF Valid, NewPtr
  <2> DEFINE m == MoveAssign(b, s[c], NewPtr(o))
  <2>3. m.world = DecreaseRefCount(b, s[c]) /\ m.ptr = NewPtr(o)
        /\ m.other = [NewPtr(o) EXCEPT !.ptr = nullptr] /\ r = [m EXCEPT !.world = DecreaseRefCount(m.world, m.other)]
    BY <2>1 DEF TakeOver, Result
  <2>4. DecreaseRefCount(m.world, m.other) = m.world BY <2>2, <2>3 DEF DecreaseRefCount
  <2>5. m = Result(m.world, m.ptr, m.other) BY <2>1, <2>3
  <2> HIDE DEF m, r
  <2>6. r = Result(m.world, m.ptr, m.other) BY <2>3, <2>4, <2>5 DEF Result
  <2> QED BY <2>3, <2>6 DEF Result
<1> HIDE DEF r, p
<1>12. Agree(g, g, c) BY DEF Agree, Good
<1>13. Leads(w, s, g, v, t, g, inc) BY <1>12, FreshRefersToNothing, DroppedKeepsGood
<1>14. /\ t[c] = Fresh /\ t \in [Clients -> Ptrs] /\ \A d \in Clients \ {c} : t[d] = s[d]
  BY <1>3, FreshRefersToNothing
<1> HIDE DEF v
<1>15. v \in Worlds /\ v.heap[o] = Empty /\ Within(w, s, v, t) /\ Good(v, t, g, inc)
  BY <1>13 DEF Leads, Within, Good, WorldOK
<1>16. r.world \in Worlds /\ r.world.live = v.live /\ r.world.heap[o] = new
       /\ \A q \in Objects \ {o} : r.world.heap[q] = v.heap[q]
  <2>1. CASE ~Valid(w, s[c])
    <3>1. r.world = b /\ v = w BY <1>6, <1>11, <2>1 DEF DecreaseRefCount, v
    <3> QED BY <1>5, <3>1
  <2>2. CASE Valid(w, s[c])
    <3> DEFINE x == s[c].ptr
    <3>1. x \in Objects \ {o} /\ b.heap[x] = w.heap[x] BY <1>5, <1>7, <2>2
    <3>2. /\ v \in Worlds /\ \A q \in Objects \ {x} : v.heap[q] = w.heap[q]
          /\ \/ /\ w.heap[x].refCount = 1
                /\ v.heap[x] = Empty /\ v.live = w.live \ {w.heap[x].linkId}
             \/ /\ w.heap[x].refCount # 1
                /\ v.heap[x] = [w.heap[x] EXCEPT !.refCount = @ - 1]
                /\ v.live = w.live
      BY <2>2, Decreased DEF v
    <3>3. w.heap[x].refCount >= 1
      <4>1. UsersOf(w, s, x) # {} /\ w.heap[x].refCount = Cardinality(UsersOf(w, s, x)) /\ IsFiniteSet(UsersOf(w, s, x))
        BY <2>2, <3>1, Pointer DEF Good, Counted, InUse
      <4> QED BY <4>1, FS_EmptySet, FS_CardinalityType
    <3>4. /\ r.world \in Worlds /\ \A q \in Objects \ {x} : r.world.heap[q] = b.heap[q]
          /\ \/ /\ b.heap[x].refCount = 1
                /\ r.world.heap[x] = Empty /\ r.world.live = b.live \ {b.heap[x].linkId}
             \/ /\ b.heap[x].refCount # 1
                /\ r.world.heap[x] = [b.heap[x] EXCEPT !.refCount = @ - 1]
                /\ r.world.live = b.live
      <4>1. Valid(b, s[c]) /\ s[c].ptr \in Objects /\ s[c].serialId # 0 /\ b.heap[s[c].ptr].refCount >= 1
        BY <1>6, <1>7, <2>2, <3>1, <3>3
      <4> QED BY <1>5, <1>11, <4>1, DecreasedAt
    <3> HIDE DEF x
    <3>5. r.world.live = v.live BY <1>5, <3>1, <3>2, <3>4
    <3>6. r.world.heap[o] = new BY <1>5, <3>1, <3>4
    <3>7. \A q \in Objects \ {o} : r.world.heap[q] = v.heap[q] BY <1>5, <3>1, <3>2, <3>4
    <3> QED BY <3>4, <3>5, <3>6, <3>7
  <2> QED BY <2>1, <2>2
<1>17. ~Valid(v, t[c]) BY <1>14, FreshRefersToNothing
<1>18. \A d \in Clients : t[d].serialId <= serialId BY <1>14, FreshRefersToNothing
<1>19. [s EXCEPT ![c] = NewPtr(o)] = [t EXCEPT ![c] = NewPtr(o)] BY <1>3
<1> HIDE DEF t
<1>20. Good(r.world, [t EXCEPT ![c] = NewPtr(o)], [g EXCEPT ![c] = n], inc \ {n})
  <2>1. r.world.heap[o] = NewStream(serialId, n) BY <1>16 DEF new
  <2> QED BY <1>15, <1>16, <1>17, <1>18, <2>1, NewKeepsGood
<1>21. Good(r.world, [s EXCEPT ![c] = NewPtr(o)], [g EXCEPT ![c] = n], inc \ {n}) BY <1>19, <1>20
<1>22. \A q \in Objects \ {o} :
         /\ r.world.heap[q].serialId \in {w.heap[q].serialId, 0}
         /\ r.world.heap[q].linkId \in {w.heap[q].linkId, NO_LINK}
         /\ w.heap[q] = Empty => r.world.heap[q] = Empty
  BY <1>15, <1>16 DEF Within
<1>23. r.world.live \subseteq w.live BY <1>15, <1>16 DEF Within
<1> QED BY <1>11, <1>16, <1>21, <1>22, <1>23 DEF r, b, new

----------------------------------------------------------------------------
(* From what an operation does to the state to the inductive invariant *)

\* Who waits no longer is not referred to.
LEMMA FewerWaiting ==
  ASSUME NEW w, NEW s, NEW g, NEW inc, Good(w, s, g, inc), NEW rest, rest \subseteq inc, w.live \cap inc \subseteq rest
  PROVE  Good(w, s, g, rest)
<1>1. \A n \in w.live \ rest : n \in w.live \ inc OBVIOUS
<1>2. Referenced(w, s, rest) BY <1>1 DEF Good, Referenced
<1> QED BY <1>2 DEF Good

LEMMA WorldIs == World.heap = heap /\ World.live = live /\ World'.heap = heap' /\ World'.live = live'
BY DEF World

LEMMA Waiting ==
  ASSUME ConnsOK
  PROVE  /\ IsFiniteSet(incoming) /\ Cardinality(incoming) \in Nat
         /\ \A S \in SUBSET incoming : IsFiniteSet(S) /\ Cardinality(S) \in Nat /\ Cardinality(S) <= Cardinality(incoming)
<1>1. lastConn \in Nat /\ incoming \subseteq 1 .. lastConn BY ConnAssumption DEF ConnsOK
<1>2. IsFiniteSet(incoming)
  <2>1. IsFiniteSet(1 .. lastConn) BY <1>1, FS_Interval
  <2> QED BY <1>1, <2>1, FS_Subset
<1> QED BY <1>2, FS_Subset, FS_CardinalityType

\* An operation that asks for no BuffStream
LEMMA LeadsStep ==
  ASSUME IInv, NEW v, NEW t, NEW h, Leads(World, stream, of, v, t, h, incoming),
         heap' = v.heap, live' = v.live, stream' = t, of' = h,
         NoAllocation, incoming' = incoming \cap live', data' \subseteq live', lastConn' = lastConn
  PROVE  IInv'
<1>1. v \in Worlds /\ t \in [Clients -> Ptrs] BY DEF Leads, Good, WorldOK, PtrsOK
<1>2. World' = v
  <2>1. v = [heap |-> v.heap, live |-> v.live] BY <1>1 DEF Worlds
  <2> QED BY <2>1 DEF World
<1>3. Good(World', stream', of', incoming')
  <2>1. Good(v, t, h, incoming) /\ incoming' \subseteq incoming /\ v.live \cap incoming \subseteq incoming'
    BY DEF Leads
  <2>2. Good(v, t, h, incoming') BY <2>1, FewerWaiting
  <2> QED BY <1>2, <2>2
<1>4. live' \subseteq live
      /\ (\A o \in Objects :
           /\ heap'[o].serialId \in {heap[o].serialId, 0}
           /\ heap'[o].linkId \in {heap[o].linkId, NO_LINK}
           /\ heap[o] = Empty => heap'[o] = Empty)
      /\ \A c \in Clients :
           /\ stream'[c].ptr = nullptr \/ \E d \in Clients : stream'[c].ptr = stream[d].ptr
           /\ stream'[c].serialId = 0 \/ \E d \in Clients : stream'[c].serialId = stream[d].serialId
  BY WorldIs DEF Leads, Within
<1>5. PoolOK'
  <2>1. Allocated' = Allocated /\ PoolShape(pool)' BY DEF NoAllocation, Allocated, IInv, PoolOK, PoolShape
  <2>2. \A o \in Objects \ Allocated : heap'[o] = Empty BY <1>4 DEF IInv, PoolOK
  <2>3. \A c \in Clients : stream'[c].ptr \in Allocated \cup {nullptr} BY <1>4 DEF IInv, PoolOK
  <2> QED BY <2>1, <2>2, <2>3 DEF PoolOK
<1>6. ConnsOK'
  <2>1. \A o \in Objects : heap'[o].linkId <= lastConn BY <1>4 DEF IInv, ConnsOK, NO_LINK
  <2> QED BY <1>4, <2>1 DEF IInv, ConnsOK
<1>7. SerialsOK'
  <2>1. Cardinality(incoming') \in Nat /\ Cardinality(incoming') <= Cardinality(incoming) /\ Cardinality(incoming) \in Nat
    BY Waiting DEF IInv
  <2>2. serialId' = serialId /\ serialId \in 0 .. SERIALS - 1 /\ serialId + Cardinality(incoming) <= lastConn /\ lastConn \in Nat
    BY ConnAssumption DEF NoAllocation, IInv, SerialsOK, ConnsOK
  <2>3. \A c \in Clients : stream'[c].serialId <= serialId BY <1>4, <2>2 DEF IInv, SerialsOK
  <2>4. \A o \in Objects : heap'[o].serialId <= serialId BY <1>4, <2>2 DEF IInv, SerialsOK
  <2>5. serialId + Cardinality(incoming') <= lastConn BY <2>1, <2>2
  <2> QED BY <2>2, <2>3, <2>4, <2>5 DEF SerialsOK
<1> QED BY <1>3, <1>5, <1>6, <1>7 DEF IInv

\* Of the objects only some are freed or lose their link: the pointers stay.
LEMMA ShrinksStep ==
  ASSUME IInv, NEW v, Shrinks(World, v), NEW c \in Clients, Done(v, c, stream[c]),
         NoAllocation, DropEnded, UNCHANGED <<lastConn, of>>
  PROVE  IInv'
<1>1. Leads(World, stream, of, v, stream, of, incoming) BY ShrinksLeads DEF IInv
<1>2. stream' = stream
  <2>1. stream \in [Clients -> Ptrs] BY DEF IInv, Good, PtrsOK
  <2> QED BY <2>1 DEF Done
<1>3. data' \subseteq live' BY DEF DropEnded
<1> QED BY <1>1, <1>2, <1>3, LeadsStep DEF Done, DropEnded

\* c's pointer is cleared after its BuffStream was used or closed.
LEMMA TakeOverStep ==
  ASSUME IInv, NEW v, Shrinks(World, v), NEW c \in Clients,
         Done(TakeOver(v, stream[c], Fresh).world, c, TakeOver(v, stream[c], Fresh).ptr),
         NoAllocation, DropEnded, UNCHANGED <<lastConn, of>>
  PROVE  IInv'
<1> DEFINE r == TakeOver(v, stream[c], Fresh)
<1>1. Leads(World, stream, of, v, stream, of, incoming) BY ShrinksLeads DEF IInv
<1>2. Good(v, stream, of, incoming) BY <1>1 DEF Leads
<1>3. Agree(of, of, c) BY DEF IInv, Good, Agree
<1>4. Leads(v, stream, of, r.world, [stream EXCEPT ![c] = r.ptr], of, incoming)
  BY <1>2, <1>3, TakeOverFresh
<1>5. Done(r.world, c, r.ptr) OBVIOUS
<1> HIDE DEF r
<1>6. Leads(World, stream, of, r.world, [stream EXCEPT ![c] = r.ptr], of, incoming)
  BY <1>1, <1>4, LeadsTwice
<1>7. data' \subseteq live' BY DEF DropEnded
<1> QED BY <1>5, <1>6, <1>7, LeadsStep DEF Done, DropEnded

LEMMA StoppedLeads ==
  ASSUME IInv, NEW c \in Clients, Bool(c), NEW r \in Stopped(c)
  PROVE  Leads(World, stream, of, r.world, [stream EXCEPT ![c] = r.ptr], of, incoming) /\ r.ptr.ptr = nullptr
<1>1. PICK w \in Flushed(World, Obj(c)) : r = TakeOver(Close(w, Obj(c)), stream[c], Fresh)
  BY DEF Stopped
<1>2. World \in Worlds /\ Obj(c) \in Objects
  <2>1. Good(World, stream, of, incoming) /\ Valid(World, stream[c]) BY DEF IInv, Bool
  <2> QED BY <2>1, Pointer DEF Obj
<1> DEFINE v == Close(w, Obj(c))
<1>3. Shrinks(World, w) /\ w \in Worlds BY <1>2, FlushedShrinks DEF Shrinks
<1>4. Shrinks(World, v) BY <1>2, <1>3, CloseShrinks, ShrinksTwice
<1> HIDE DEF v
<1>5. Leads(World, stream, of, v, stream, of, incoming) BY <1>4, ShrinksLeads DEF IInv
<1>6. Good(v, stream, of, incoming) BY <1>5 DEF Leads
<1>7. Agree(of, of, c) BY DEF IInv, Good, Agree
<1>8. Leads(v, stream, of, r.world, [stream EXCEPT ![c] = r.ptr], of, incoming) /\ r.ptr.ptr = nullptr
  <2>1. r = TakeOver(v, stream[c], Fresh) BY <1>1 DEF v
  <2>2. /\ Leads(v, stream, of, TakeOver(v, stream[c], Fresh).world,
                  [stream EXCEPT ![c] = TakeOver(v, stream[c], Fresh).ptr], of, incoming)
        /\ TakeOver(v, stream[c], Fresh).ptr.ptr = nullptr
    BY <1>6, <1>7, TakeOverFresh
  <2> QED BY <2>1, <2>2
<1> QED BY <1>5, <1>8, LeadsTwice

LEMMA StopStep ==
  ASSUME IInv, NEW c \in Clients, Stop(c)
  PROVE  IInv'
<1>1. PICK r \in Stopped(c) : Done(r.world, c, r.ptr) BY DEF Stop
<1>2. Leads(World, stream, of, r.world, [stream EXCEPT ![c] = r.ptr], of, incoming)
  BY <1>1, StoppedLeads DEF Stop
<1>3. data' \subseteq live' BY DEF Stop, DropEnded
<1> QED BY <1>1, <1>2, <1>3, LeadsStep DEF Stop, Done, DropEnded

LEMMA ClearStep ==
  ASSUME IInv, NEW c \in Clients, Clear(c)
  PROVE  IInv'
<1>1. Shrinks(World, World) BY ShrinksNot DEF IInv, Good, WorldOK
<1> QED BY <1>1, TakeOverStep DEF Clear

LEMMA UseStep ==
  ASSUME IInv, NEW c \in Clients, Use(c)
  PROVE  IInv'
<1> DEFINE o == Obj(c)
<1>1. World \in Worlds /\ o \in Objects
  <2>1. Good(World, stream, of, incoming) BY DEF IInv
  <2>2. Valid(World, stream[c]) BY DEF Use, Bool
  <2> QED BY <2>1, <2>2, Pointer DEF Obj
<1>2. PICK w \in {Connected(World, o)} \cup Available(World, o) \cup Flushed(World, o) : Done(w, c, stream[c])
  BY DEF Use
<1> HIDE DEF o
<1>3. Shrinks(World, w) BY <1>1, <1>2, ConnectedShrinks, AvailableShrinks, FlushedShrinks
<1> QED BY <1>2, <1>3, ShrinksStep DEF Use

LEMMA CheckConnectedStep ==
  ASSUME IInv, NEW c \in Clients, CheckConnected(c)
  PROVE  IInv'
<1> DEFINE o == Obj(c)
           w == Connected(World, o)
<1>1. World \in Worlds /\ o \in Objects
  <2>1. Good(World, stream, of, incoming) BY DEF IInv
  <2>2. Valid(World, stream[c]) BY DEF CheckConnected, Bool
  <2> QED BY <2>1, <2>2, Pointer DEF Obj
<1>2. IF Linked(w, o) \/ w.heap[o].rx
        THEN Done(w, c, stream[c])
        ELSE Done(TakeOver(Free(w, o), stream[c], Fresh).world, c, TakeOver(Free(w, o), stream[c], Fresh).ptr)
  BY DEF CheckConnected
<1>3. NoAllocation /\ DropEnded /\ UNCHANGED <<lastConn, of>> BY DEF CheckConnected
<1>4. Shrinks(World, w) BY <1>1, ConnectedShrinks
<1> HIDE DEF w, o
<1>5. CASE Linked(w, o) \/ w.heap[o].rx BY <1>2, <1>3, <1>4, <1>5, ShrinksStep
<1>6. CASE ~(Linked(w, o) \/ w.heap[o].rx)
  <2>1. w \in Worlds BY <1>4 DEF Shrinks
  <2>2. w.heap[o].linkId \notin w.live BY <1>1, <1>6, <2>1, Zeros DEF Linked, Worlds
  <2>3. Shrinks(World, Free(w, o)) BY <1>1, <1>4, <2>1, <2>2, FreeShrinks, ShrinksTwice
  <2> QED BY <1>2, <1>3, <1>6, <2>3, TakeOverStep
<1> QED BY <1>5, <1>6

LEMMA DestroyStep ==
  ASSUME IInv, NEW c \in Clients, Destroy(c)
  PROVE  IInv'
<1> DEFINE v == DecreaseRefCount(World, stream[c])
<1>1. Good(World, stream, of, incoming) BY DEF IInv
<1>2. of \in [Clients -> Conns \cup {NO_LINK}] BY <1>1 DEF Good
<1>3. Agree(of, of', c) BY <1>2 DEF Destroy, Agree
<1>4. Leads(World, stream, of, v, [stream EXCEPT ![c] = Fresh], of', incoming)
  BY <1>1, <1>3, FreshRefersToNothing, DroppedKeepsGood
<1>5. Done(v, c, Fresh) /\ NoAllocation /\ DropEnded /\ lastConn' = lastConn BY DEF Destroy
<1> HIDE DEF v
<1>6. data' \subseteq live' BY <1>5 DEF DropEnded
<1> QED BY <1>4, <1>5, <1>6, LeadsStep DEF Done, DropEnded

LEMMA CopyStep ==
  ASSUME IInv, NEW c \in Clients, NEW d \in Clients \ {c}, Copy(c, d)
  PROVE  IInv'
<1> DEFINE r == CopyAssign(World, stream[c], stream[d])
<1>1. Good(World, stream, of, incoming) /\ of \in [Clients -> Conns \cup {NO_LINK}] BY DEF IInv, Good
<1>2. /\ Done(r.world, c, r.ptr) /\ of' = IF r.ptr = stream[c] THEN of ELSE [of EXCEPT ![c] = of[d]]
      /\ NoAllocation /\ DropEnded /\ lastConn' = lastConn
  BY DEF Copy
<1>3. Leads(World, stream, of, r.world, [stream EXCEPT ![c] = r.ptr],
            IF r.ptr = stream[c] THEN of ELSE [of EXCEPT ![c] = of[d]], incoming)
  BY <1>1, CopyAssignLeads
<1> HIDE DEF r
<1>4. data' \subseteq live' BY <1>2 DEF DropEnded
<1> QED BY <1>2, <1>3, <1>4, LeadsStep DEF Done, DropEnded

LEMMA MoveStep ==
  ASSUME IInv, NEW c \in Clients, NEW d \in Clients \ {c}, Move(c, d)
  PROVE  IInv'
<1> DEFINE r == MoveAssign(World, stream[c], stream[d])
<1>1. Good(World, stream, of, incoming) /\ of \in [Clients -> Conns \cup {NO_LINK}] BY DEF IInv, Good
<1>2. /\ heap' = r.world.heap /\ live' = r.world.live
      /\ stream' = [stream EXCEPT ![c] = r.ptr, ![d] = r.other]
      /\ of' = IF r.ptr = stream[c] THEN of ELSE [of EXCEPT ![c] = of[d]]
      /\ NoAllocation /\ DropEnded /\ lastConn' = lastConn
  BY DEF Move
<1>3. Leads(World, stream, of, r.world, [stream EXCEPT ![c] = r.ptr, ![d] = r.other],
            IF r.ptr = stream[c] THEN of ELSE [of EXCEPT ![c] = of[d]], incoming)
  BY <1>1, MoveAssignLeads
<1> HIDE DEF r
<1>4. data' \subseteq live' BY <1>2 DEF DropEnded
<1> QED BY <1>2, <1>3, <1>4, LeadsStep DEF DropEnded

LEMMA ConstructStep ==
  ASSUME IInv, NEW c \in Clients, NEW d \in Clients \ {c}, Construct(c, d)
  PROVE  IInv'
<1>1. Good(World, stream, of, incoming) /\ of \in [Clients -> Conns \cup {NO_LINK}] BY DEF IInv, Good
<1>2. /\ stream[c] = Fresh /\ of' = [of EXCEPT ![c] = of[d]]
      /\ NoAllocation /\ DropEnded /\ lastConn' = lastConn
  BY DEF Construct
<1>3. Agree(of, of', c) /\ of'[c] = of[d] BY <1>1, <1>2 DEF Agree
<1>4. ~Valid(World, stream[c]) BY <1>2, FreshRefersToNothing
<1>5. data' \subseteq live' BY <1>2 DEF DropEnded
<1>6. CASE Done(IncreaseRefCount(World, stream[d]), c, CheckValid(World, stream[d]))
  <2> DEFINE v == IncreaseRefCount(World, stream[d])
             p == CheckValid(World, stream[d])
  <2>1. Leads(World, stream, of, v, [stream EXCEPT ![c] = p], of', incoming)
    BY <1>1, <1>3, <1>4, AddedKeepsGood
  <2>2. Done(v, c, p) BY <1>6
  <2> HIDE DEF v, p
  <2> QED BY <1>2, <1>5, <2>1, <2>2, LeadsStep DEF Done, DropEnded
<1>7. CASE stream' = [stream EXCEPT ![c] = stream[d], ![d].ptr = nullptr] /\ UNCHANGED <<heap, live>>
  <2>1. Leads(World, stream, of, World, [stream EXCEPT ![c] = stream[d], ![d].ptr = nullptr], of', incoming)
    BY <1>1, <1>3, <1>4, MovedKeepsGood
  <2>2. heap' = World.heap /\ live' = World.live BY <1>7 DEF World
  <2> HIDE DEF World
  <2> QED BY <1>2, <1>5, <1>7, <2>1, <2>2, LeadsStep DEF DropEnded
<1> QED BY <1>6, <1>7 DEF Construct

----------------------------------------------------------------------------
(* connect() and accept() *)

(* World w with the pointers s has come out of the present one. *)
Behind(w, s) ==
  /\ \A o \in Objects \ Allocated : w.heap[o] = Empty
  /\ \A o \in Objects : w.heap[o].serialId <= serialId
  /\ \A c \in Clients : s[c].ptr \in Allocated \cup {nullptr} /\ s[c].serialId <= serialId

LinksUpTo(w, last) == \A o \in Objects : w.heap[o].linkId <= last

LEMMA GiveNew ==
  ASSUME NEW w, NEW s, NEW inc, Good(w, s, of, inc), PoolShape(pool), NEW last \in Nat, Behind(w, s), LinksUpTo(w, last),
         serialId \in 0 .. SERIALS - 1, serialId + 1 < SERIALS, Candidates(w) # {},
         NEW c \in Clients, NEW n \in inc, n <= last, s = [stream EXCEPT ![c] = s[c]],
         Give(w, c, s[c], n)
  PROVE  /\ Good(World', stream', of', inc \ {n}) /\ live' \subseteq w.live
         /\ PoolOK' /\ Behind(World, stream)' /\ LinksUpTo(World', last)
         /\ serialId' = serialId + 1
<1>1. WorldOK(w) /\ w \in Worlds /\ s \in [Clients -> Ptrs] BY DEF Good, WorldOK, PtrsOK
<1>2. PICK i \in Slots, o \in Objects :
        /\ w.heap[o] = Empty
        /\ BuffStream(w, n) = [world |-> [w EXCEPT !.heap[o] = NewStream(serialId, n)], slot |-> i,
                               ptr |-> [ptr |-> o, serialId |-> serialId + 1]]
        /\ \/ pool[i] = o
           \/ pool[i] = nullptr /\ o \notin Allocated /\ \A j \in Slots : j < i => pool[j] # nullptr
  BY <1>1, BuffStreamIs DEF Behind
<1> DEFINE b == [w EXCEPT !.heap[o] = NewStream(serialId, n)]
           r == TakeOver(b, s[c], NewPtr(o))
<1>3. /\ r.ptr = NewPtr(o) /\ r.world \in Worlds /\ r.world.live \subseteq w.live
      /\ r.world.heap[o] = NewStream(serialId, n)
      /\ \A q \in Objects \ {o} :
           /\ r.world.heap[q].serialId \in {w.heap[q].serialId, 0}
           /\ r.world.heap[q].linkId \in {w.heap[q].linkId, NO_LINK}
           /\ w.heap[q] = Empty => r.world.heap[q] = Empty
      /\ Good(r.world, [s EXCEPT ![c] = NewPtr(o)], [of EXCEPT ![c] = n], inc \ {n})
  BY <1>2, TakeOverNew DEF Behind
<1>4. /\ Done(r.world, c, r.ptr)
      /\ pool' = [pool EXCEPT ![i] = o]
      /\ serialId' = serialId + 1
      /\ of' = [of EXCEPT ![c] = n]
  <2>1. /\ Done(TakeOver(BuffStream(w, n).world, s[c], BuffStream(w, n).ptr).world, c,
               TakeOver(BuffStream(w, n).world, s[c], BuffStream(w, n).ptr).ptr)
        /\ pool' = [pool EXCEPT ![BuffStream(w, n).slot] = BuffStream(w, n).ptr.ptr]
        /\ serialId' = BuffStream(w, n).ptr.serialId
        /\ of' = [of EXCEPT ![c] = n]
    BY DEF Give
  <2>2. BuffStream(w, n).world = b /\ BuffStream(w, n).ptr = NewPtr(o) /\ BuffStream(w, n).slot = i
    BY <1>2 DEF NewPtr
  <2>3. NewPtr(o).ptr = o /\ NewPtr(o).serialId = serialId + 1 BY DEF NewPtr
  <2> HIDE DEF b
  <2> QED BY <2>1, <2>2, <2>3
<1> HIDE DEF r, b
<1>5. World' = r.world
  <2>1. r.world = [heap |-> r.world.heap, live |-> r.world.live] BY <1>3 DEF Worlds
  <2> QED BY <1>4, <2>1 DEF World, Done
<1>6. stream' = [s EXCEPT ![c] = NewPtr(o)]
  <2>1. stream' = [stream EXCEPT ![c] = NewPtr(o)] BY <1>3, <1>4 DEF Done
  <2>2. [[stream EXCEPT ![c] = s[c]] EXCEPT ![c] = NewPtr(o)] = [stream EXCEPT ![c] = NewPtr(o)] OBVIOUS
  <2> QED BY <2>1, <2>2
<1>7. Good(World', stream', of', inc \ {n}) BY <1>3, <1>4, <1>5, <1>6
<1>8. live' \subseteq w.live BY <1>3, <1>5, WorldIs
<1>9. PoolShape(pool)'
  <2>1. pool' \in [Slots -> Objects \cup {nullptr}] BY <1>4 DEF PoolShape
  <2>2. pool \in [Slots -> Objects \cup {nullptr}] /\ nullptr \notin Objects BY Zeros DEF PoolShape
  <2>3. pool'[i] = o /\ \A j \in Slots \ {i} : pool'[j] = pool[j] BY <1>4, <2>2
  <2>4. ASSUME NEW j \in Slots, NEW k \in Slots, j < k, pool'[k] # nullptr PROVE pool'[j] # nullptr
    <3>1. CASE j = i BY <2>2, <2>3, <3>1
    <3>2. CASE j # i /\ k = i
      <4>1. pool[i] = o \/ pool[j] # nullptr BY <1>2, <2>4, <3>2
      <4> QED BY <2>2, <2>3, <2>4, <3>2, <4>1 DEF PoolShape
    <3>3. CASE j # i /\ k # i BY <2>3, <2>4, <3>3 DEF PoolShape
    <3> QED BY <3>1, <3>2, <3>3
  <2>5. ASSUME NEW j \in Slots, NEW k \in Slots, pool'[j] = pool'[k] PROVE j = k \/ pool'[j] = nullptr
    <3>1. \A l \in Slots \ {i} : pool[l] # o
      <4>1. CASE pool[i] = o BY <2>2, <4>1 DEF PoolShape
      <4>2. CASE o \notin Allocated BY <2>2, <4>2 DEF Allocated
      <4> QED BY <1>2, <4>1, <4>2
    <3>2. CASE j = i \/ k = i BY <2>3, <2>5, <3>1, <3>2
    <3>3. CASE j # i /\ k # i BY <2>3, <2>5, <3>3 DEF PoolShape
    <3> QED BY <3>2, <3>3
  <2> QED BY <2>1, <2>4, <2>5 DEF PoolShape
<1>10. Allocated \cup {o} \subseteq Allocated'
  <2>1. pool \in [Slots -> Objects \cup {nullptr}] /\ nullptr \notin Objects BY Zeros DEF PoolShape
  <2>2. pool'[i] = o /\ \A j \in Slots \ {i} : pool'[j] = pool[j] BY <1>4, <2>1
  <2>3. o \in Allocated' BY <2>1, <2>2 DEF Allocated
  <2>4. ASSUME NEW q \in Allocated PROVE q \in Allocated'
    <3>1. PICK j \in Slots : pool[j] = q /\ q # nullptr BY DEF Allocated
    <3>2. CASE j = i BY <1>2, <2>3, <3>1, <3>2
    <3>3. CASE j # i BY <2>2, <3>1, <3>3 DEF Allocated
    <3> QED BY <3>2, <3>3
  <2> QED BY <2>3, <2>4
<1>11. NewStream(serialId, n).serialId = serialId + 1 /\ NewStream(serialId, n).linkId = n
  BY DEF NewStream
<1>12. Behind(World, stream)' /\ LinksUpTo(World', last)
  <2>1. ASSUME NEW q \in Objects \ Allocated' PROVE heap'[q] = Empty
    BY <1>3, <1>5, <1>10, WorldIs DEF Behind
  <2>2. ASSUME NEW q \in Objects PROVE heap'[q].serialId <= serialId' /\ heap'[q].linkId <= last
    <3>1. w.heap[q].serialId <= serialId /\ w.heap[q].linkId <= last /\ w.heap[q].serialId \in 0 .. SERIALS - 1
      BY <1>1 DEF Behind, LinksUpTo, Worlds, Streams
    <3>2. CASE q = o BY <1>3, <1>4, <1>5, <1>11, <3>2, WorldIs
    <3>3. CASE q # o BY <1>3, <1>4, <1>5, <3>1, <3>3, WorldIs DEF NO_LINK
    <3> QED BY <3>2, <3>3
  <2>3. ASSUME NEW d \in Clients PROVE stream'[d].ptr \in Allocated' \cup {nullptr} /\ stream'[d].serialId <= serialId'
    <3>1. CASE d = c BY <1>1, <1>4, <1>6, <1>10, <3>1 DEF NewPtr
    <3>2. CASE d # c
      <4>1. stream'[d] = s[d] /\ s[d].serialId \in 0 .. SERIALS - 1 BY <1>1, <1>6, <3>2 DEF Ptrs
      <4>2. s[d].serialId <= serialId /\ s[d].ptr \in Allocated \cup {nullptr} BY DEF Behind
      <4> QED BY <1>4, <1>10, <4>1, <4>2
    <3> QED BY <3>1, <3>2
  <2>4. World'.heap = heap' BY WorldIs
  <2> QED BY <2>1, <2>2, <2>3, <2>4 DEF Behind, LinksUpTo
<1>13. PoolOK'
  <2>1. World'.heap = heap' BY WorldIs
  <2> QED BY <1>9, <1>12, <2>1 DEF PoolOK, Behind
<1> QED BY <1>4, <1>7, <1>8, <1>12, <1>13

\* No BuffStream is free: the client is cleared and the connection closed.
LEMMA GiveNone ==
  ASSUME NEW w, NEW s, NEW inc, Good(w, s, of, inc), PoolShape(pool), NEW last \in Nat,
         Behind(w, s), LinksUpTo(w, last), Candidates(w) = {}, serialId \in Nat,
         NEW c \in Clients, NEW n \in inc, s = [stream EXCEPT ![c] = s[c]],
         Give(w, c, s[c], n)
  PROVE  /\ Good(World', stream', of', inc \ {n}) /\ live' \subseteq w.live
         /\ PoolOK' /\ Behind(World, stream)' /\ LinksUpTo(World', last)
         /\ serialId' = serialId
<1> DEFINE r == TakeOver(w, s[c], Fresh)
           u == [r.world EXCEPT !.live = @ \ {n}]
<1>1. Done(u, c, r.ptr) /\ NoAllocation /\ of' = [of EXCEPT ![c] = NO_LINK] BY DEF Give
<1>2. of \in [Clients -> Conns \cup {NO_LINK}] /\ s \in [Clients -> Ptrs] BY DEF Good, PtrsOK
<1>3. Agree(of, of', c) BY <1>1, <1>2 DEF Agree
<1>4. Leads(w, s, of, r.world, [s EXCEPT ![c] = r.ptr], of', inc) BY <1>3, TakeOverFresh
<1> HIDE DEF r
<1>5. r.world \in Worlds BY <1>4 DEF Leads, Good, WorldOK
<1>6. u \in Worlds /\ u.heap = r.world.heap /\ u.live = r.world.live \ {n} BY <1>5 DEF Worlds
<1> HIDE DEF u
<1>7. Shrinks(r.world, u) BY <1>5, <1>6 DEF Shrinks
<1>8. World' = u
  <2>1. u = [heap |-> u.heap, live |-> u.live] BY <1>6 DEF Worlds
  <2> QED BY <1>1, <2>1 DEF World, Done
<1>9. stream' = [s EXCEPT ![c] = r.ptr]
  <2>1. stream' = [stream EXCEPT ![c] = r.ptr] BY <1>1 DEF Done
  <2>2. [[stream EXCEPT ![c] = s[c]] EXCEPT ![c] = r.ptr] = [stream EXCEPT ![c] = r.ptr] OBVIOUS
  <2> QED BY <2>1, <2>2
<1>10. Good(World', stream', of', inc \ {n})
  <2>1. Good(r.world, stream', of', inc) BY <1>4, <1>9 DEF Leads
  <2>2. Good(u, stream', of', inc) BY <1>7, <2>1, ShrinksKeepsGood
  <2>3. inc \ {n} \subseteq inc /\ u.live \cap inc \subseteq inc \ {n} BY <1>6
  <2> QED BY <1>8, <2>2, <2>3, FewerWaiting
<1>11. Within(w, s, r.world, stream') BY <1>4, <1>9 DEF Leads
<1>12. live' \subseteq w.live BY <1>6, <1>8, <1>11, WorldIs DEF Within
<1>13. heap' = r.world.heap /\ World'.heap = heap' BY <1>6, <1>8, WorldIs
<1>14. Allocated' = Allocated /\ PoolShape(pool)' /\ serialId' = serialId
  BY <1>1 DEF NoAllocation, Allocated, PoolShape
<1>15. \A q \in Objects \ Allocated' : heap'[q] = Empty BY <1>11, <1>13, <1>14 DEF Within, Behind
<1>16. \A q \in Objects : heap'[q].serialId <= serialId' BY <1>11, <1>13, <1>14 DEF Within, Behind
<1>17. \A d \in Clients : stream'[d].ptr \in Allocated' \cup {nullptr} /\ stream'[d].serialId <= serialId'
  BY <1>11, <1>14 DEF Within, Behind
<1>18. LinksUpTo(World', last) BY <1>11, <1>13 DEF Within, LinksUpTo, NO_LINK
<1>19. Behind(World, stream)' BY <1>13, <1>15, <1>16, <1>17 DEF Behind
<1>20. PoolOK' BY <1>14, <1>15, <1>17 DEF PoolOK
<1> QED BY <1>10, <1>12, <1>14, <1>18, <1>19, <1>20

\* A connection that comes up is one that nobody refers to yet.
LEMMA MoreWaiting ==
  ASSUME NEW w, NEW s, NEW g, NEW inc, Good(w, s, g, inc), NEW n \in Conns,
         \A o \in Objects : w.heap[o].linkId # n,
         NEW v \in Worlds, v.heap = w.heap, v.live = w.live \cup {n}
  PROVE  Good(v, s, g, inc \cup {n})
<1>1. w \in Worlds BY DEF Good, WorldOK
<1>2. \A p : Valid(v, p) <=> Valid(w, p) BY DEF Valid
<1>3. \A o \in Objects : UsersOf(v, s, o) = UsersOf(w, s, o) BY <1>2 DEF UsersOf
<1>4. WorldOK(v) BY DEF Good, WorldOK
<1>5. Counted(v, s) BY <1>3 DEF Good, Counted
<1>6. Referenced(v, s, inc \cup {n}) BY <1>2 DEF Good, Referenced
<1>7. Faithful(v, s, g) BY <1>2 DEF Good, Faithful
<1> QED BY <1>4, <1>5, <1>6, <1>7 DEF Good

\* The connection was given away, those that wait are left.
LEMMA GivenStep ==
  ASSUME IInv, NEW rest, rest \subseteq incoming, Good(World', stream', of', rest),
         PoolOK', Behind(World, stream)', LinksUpTo(World', lastConn'),
         incoming' = rest \cap live', data' = data \cap live', live' \subseteq 1 .. lastConn',
         lastConn' \in 0 .. MaxConn, serialId' \in 0 .. SERIALS - 1,
         serialId' + Cardinality(rest) <= lastConn'
  PROVE  IInv'
<1>1. Good(World', stream', of', incoming')
  <2>1. incoming' \subseteq rest /\ World'.live \cap rest \subseteq incoming' BY WorldIs
  <2> QED BY <2>1, FewerWaiting
<1>2. ConnsOK' BY WorldIs DEF ConnsOK, LinksUpTo
<1>3. SerialsOK'
  <2>1. IsFiniteSet(rest) /\ Cardinality(rest) \in Nat BY Waiting DEF IInv
  <2>2. Cardinality(incoming') \in Nat /\ Cardinality(incoming') <= Cardinality(rest)
    BY <2>1, FS_Subset, FS_CardinalityType
  <2>3. lastConn' \in Nat /\ serialId' \in Nat BY ConnAssumption
  <2>4. serialId' + Cardinality(incoming') <= lastConn' BY <2>1, <2>2, <2>3
  <2> QED BY <2>4, WorldIs DEF SerialsOK, Behind
<1> QED BY <1>1, <1>2, <1>3 DEF IInv

LEMMA ConnectStep ==
  ASSUME IInv, NEW c \in Clients, Connect(c), NotWrapped'
  PROVE  IInv'
<1>1. PICK r \in IF Bool(c) THEN Stopped(c) ELSE {Result(World, stream[c], Fresh)} :
        /\ \/ /\ Done(r.world, c, r.ptr)
              /\ NoAllocation
              /\ UNCHANGED <<lastConn, of>>
           \/ /\ Cardinality(r.world.live) < LINKS /\ lastConn < MaxConn
              /\ lastConn' = lastConn + 1
              /\ Give([r.world EXCEPT !.live = @ \cup {lastConn + 1}], c, r.ptr, lastConn + 1)
        /\ DropEnded
  BY DEF Connect
<1>2. /\ Good(World, stream, of, incoming) /\ stream \in [Clients -> Ptrs]
      /\ lastConn \in Nat /\ incoming \subseteq live /\ live \subseteq 1 .. lastConn
      /\ data' \subseteq live'
  BY <1>1, ConnAssumption DEF IInv, Good, PtrsOK, ConnsOK, DropEnded
<1> DEFINE s == [stream EXCEPT ![c] = r.ptr]
<1>3. Leads(World, stream, of, r.world, s, of, incoming)
  <2>1. CASE Bool(c) BY <1>1, <2>1, StoppedLeads
  <2>2. CASE ~Bool(c)
    <3>1. r.world = World /\ r.ptr = stream[c] BY <1>1, <2>2 DEF Result
    <3>2. s = stream BY <1>2, <3>1
    <3>3. Shrinks(World, World) BY <1>2, ShrinksNot DEF Good, WorldOK
    <3> HIDE DEF World, s
    <3>4. Leads(World, stream, of, World, stream, of, incoming) BY <1>2, <3>3, ShrinksLeads
    <3> QED BY <3>1, <3>2, <3>4
  <2> QED BY <2>1, <2>2
<1>4. CASE Done(r.world, c, r.ptr) /\ NoAllocation /\ UNCHANGED <<lastConn, of>>
  <2> HIDE DEF World
  <2> QED BY <1>1, <1>2, <1>3, <1>4, LeadsStep DEF Done, DropEnded
<1>5. CASE /\ lastConn < MaxConn /\ lastConn' = lastConn + 1
           /\ Give([r.world EXCEPT !.live = @ \cup {lastConn + 1}], c, r.ptr, lastConn + 1)
  <2> DEFINE n == lastConn + 1
             w == [r.world EXCEPT !.live = @ \cup {n}]
             inc == incoming \cup {n}
  <2>1. s[c] = r.ptr /\ s = [stream EXCEPT ![c] = s[c]] BY <1>2
  <2>2. Good(r.world, s, of, incoming) /\ Within(World, stream, r.world, s) BY <1>3 DEF Leads
  <2> HIDE DEF s
  <2>3. r.world \in Worlds BY <2>2 DEF Good, WorldOK
  <2>4. n \in Conns BY <1>2, <1>5, ConnAssumption DEF Conns
  <2>5. /\ w \in Worlds /\ w.heap = r.world.heap /\ w.live = r.world.live \cup {n}
    BY <2>3, <2>4 DEF Worlds
  <2>6. Give(w, c, s[c], n) BY <1>5, <2>1
  <2> HIDE DEF w
  <2>7. LinksUpTo(r.world, lastConn) BY <1>2, <2>2, WorldIs DEF LinksUpTo, Within, IInv, ConnsOK, NO_LINK
  <2>8. \A o \in Objects : r.world.heap[o].linkId <= lastConn /\ r.world.heap[o].linkId \in Nat
    BY <2>3, <2>7 DEF LinksUpTo, Worlds, Streams, Conns, NO_LINK
  <2>9. (\A o \in Objects : r.world.heap[o].linkId # n) /\ LinksUpTo(w, n)
    BY <1>2, <2>5, <2>8 DEF LinksUpTo
  <2>10. Good(w, s, of, inc) BY <2>2, <2>4, <2>5, <2>9, MoreWaiting
  <2>11. Behind(w, s)
    <3>1. serialId \in Nat BY DEF IInv, SerialsOK
    <3> QED BY <2>2, <2>5, <3>1, WorldIs DEF Behind, Within, IInv, PoolOK, SerialsOK
  <2>12. /\ serialId \in 0 .. SERIALS - 1 /\ serialId + Cardinality(incoming) <= lastConn
         /\ Cardinality(incoming) \in Nat /\ PoolShape(pool)
    BY Waiting DEF IInv, SerialsOK, PoolOK
  <2>13. serialId + 1 < SERIALS BY <1>2, <1>5, <2>12, SerialsAssumption DEF NotWrapped
  <2>14. n \in Nat /\ n <= n /\ n \in inc BY <1>2
  <2>15. /\ Good(World', stream', of', inc \ {n}) /\ live' \subseteq w.live
         /\ PoolOK' /\ Behind(World, stream)' /\ LinksUpTo(World', n)
         /\ serialId' \in {serialId, serialId + 1}
    <3> HIDE DEF inc, n
    <3>1. CASE Candidates(w) = {}
      <4>1. serialId \in Nat BY <2>12
      <4> QED BY <2>1, <2>6, <2>9, <2>10, <2>11, <2>12, <2>14, <3>1, <4>1, GiveNone
    <3>2. CASE Candidates(w) # {} BY <2>1, <2>6, <2>9, <2>10, <2>11, <2>12, <2>13, <2>14, <3>2, GiveNew
    <3> QED BY <3>1, <3>2
  <2>16. inc \ {n} = incoming BY <1>2
  <2>17. live' \subseteq 1 .. lastConn'
    <3>1. live' \subseteq live \cup {n} BY <2>2, <2>5, <2>15, WorldIs DEF Within
    <3> QED BY <1>2, <1>5, <3>1
  <2>18. lastConn' \in 0 .. MaxConn BY <1>2, <1>5, ConnAssumption
  <2>19. serialId' \in 0 .. SERIALS - 1 /\ serialId' + Cardinality(incoming) <= lastConn'
    <3>1. lastConn' = lastConn + 1 /\ SERIALS \in Nat BY <1>5, SerialsAssumption
    <3>2. CASE serialId' = serialId BY <1>2, <2>12, <2>13, <3>1, <3>2
    <3>3. CASE serialId' = serialId + 1 BY <1>2, <2>12, <2>13, <3>1, <3>3
    <3> QED BY <2>15, <3>2, <3>3
  <2>20. incoming' = incoming \cap live' /\ data' = data \cap live' BY <1>1 DEF DropEnded
  <2>21. LinksUpTo(World', lastConn') /\ Good(World', stream', of', incoming)
    BY <1>5, <2>15, <2>16
  <2> QED BY <2>15, <2>17, <2>18, <2>19, <2>20, <2>21, GivenStep
<1> QED BY <1>1, <1>4, <1>5

LEMMA AcceptStep ==
  ASSUME IInv, NEW c \in Clients, Accept(c), NotWrapped'
  PROVE  IInv'
<1>1. CASE Clear(c) BY <1>1, ClearStep
<1>2. ASSUME NEW n \in incoming, Give(World, c, stream[c], n), incoming' = (incoming \ {n}) \cap live',
             data' = data \cap live', lastConn' = lastConn
      PROVE  IInv'
  <2>1. /\ Good(World, stream, of, incoming) /\ stream \in [Clients -> Ptrs]
        /\ lastConn \in 0 .. MaxConn /\ incoming \subseteq live /\ live \subseteq 1 .. lastConn
    BY DEF IInv, Good, PtrsOK, ConnsOK
  <2>2. /\ serialId \in 0 .. SERIALS - 1 /\ serialId + Cardinality(incoming) <= lastConn
        /\ IsFiniteSet(incoming) /\ Cardinality(incoming) \in Nat /\ PoolShape(pool)
    BY Waiting DEF IInv, SerialsOK, PoolOK
  <2>3. Cardinality(incoming \ {n}) = Cardinality(incoming) - 1 /\ Cardinality(incoming) # 0
    BY <2>2, FS_RemoveElement, FS_EmptySet
  <2>4. lastConn \in Nat /\ n <= lastConn BY <2>1, ConnAssumption
  <2>5. serialId + 1 < SERIALS BY <1>2, <2>2, <2>3, <2>4, SerialsAssumption DEF NotWrapped
  <2>6. LinksUpTo(World, lastConn) /\ Behind(World, stream)
    BY WorldIs DEF LinksUpTo, Behind, IInv, ConnsOK, PoolOK, SerialsOK
  <2>7. stream = [stream EXCEPT ![c] = stream[c]] BY <2>1
  <2>8. /\ Good(World', stream', of', incoming \ {n}) /\ live' \subseteq World.live
        /\ PoolOK' /\ Behind(World, stream)' /\ LinksUpTo(World', lastConn)
        /\ serialId' \in {serialId, serialId + 1}
    <3>1. CASE Candidates(World) = {}
      <4>1. serialId \in Nat BY <2>2
      <4> QED BY <1>2, <2>1, <2>2, <2>4, <2>6, <2>7, <3>1, <4>1, GiveNone
    <3>2. CASE Candidates(World) # {} BY <1>2, <2>1, <2>2, <2>4, <2>5, <2>6, <2>7, <3>2, GiveNew
    <3> QED BY <3>1, <3>2
  <2>9. live' \subseteq 1 .. lastConn' BY <1>2, <2>1, <2>8, WorldIs
  <2>10. serialId' \in 0 .. SERIALS - 1 /\ serialId' + Cardinality(incoming \ {n}) <= lastConn'
    <3>1. lastConn' = lastConn /\ SERIALS \in Nat BY <1>2, SerialsAssumption
    <3>2. CASE serialId' = serialId BY <2>2, <2>3, <2>4, <2>5, <3>1, <3>2
    <3>3. CASE serialId' = serialId + 1 BY <2>2, <2>3, <2>4, <2>5, <3>1, <3>3
    <3> QED BY <2>8, <3>2, <3>3
  <2>11. LinksUpTo(World', lastConn') /\ lastConn' \in 0 .. MaxConn /\ incoming \ {n} \subseteq incoming
    BY <1>2, <2>1, <2>8
  <2> QED BY <1>2, <2>8, <2>9, <2>10, <2>11, GivenStep
<1> QED BY <1>1, <1>2 DEF Accept

----------------------------------------------------------------------------
(* freeUnused() *)

Rank(K, i) == Cardinality({k \in K : k < i})

LEMMA GreatestOf ==
  ASSUME NEW T \in SUBSET Nat, T # {}, NEW n \in Nat, \A y \in T : y <= n
  PROVE  \E x \in T : \A y \in T : y <= x
<1> DEFINE U == {n - y : y \in T}
<1>1. U \in SUBSET Nat /\ U # {}
  <2>1. \A y \in T : n - y \in Nat OBVIOUS
  <2>2. U # {} OBVIOUS
  <2> QED BY <2>1, <2>2
<1> HIDE DEF U
<1>2. PICK u \in U : \A v \in U : u <= v BY <1>1, LeastNat
<1> USE DEF U
<1>3. PICK x \in T : u = n - x OBVIOUS
<1>4. \A y \in T : n - x <= n - y BY <1>2, <1>3
<1> QED BY <1>4

\* The slots that are kept are counted through from 0.
LEMMA Ranks ==
  ASSUME NEW K \in SUBSET Slots
  PROVE  /\ \A i \in K : Rank(K, i) \in Slots
         /\ \A i, j \in K : Rank(K, i) = Rank(K, j) => i = j
         /\ \A i \in K : \A j \in Slots : j < Rank(K, i) => \E l \in K : Rank(K, l) = j
<1> DEFINE Front(i) == {k \in K : k < i}
<1>1. K \subseteq Nat /\ \A i \in Slots : i \in Nat /\ i <= LINKS - 1 BY LinksAssumption DEF Slots
<1>2. ASSUME NEW i \in K
      PROVE  IsFiniteSet(Front(i)) /\ Cardinality(Front(i)) \in Nat /\ Cardinality(Front(i)) <= i
  <2>1. i \in Nat /\ Front(i) \subseteq 0 .. i - 1
    <3>1. i \in Nat /\ \A k \in K : k \in Nat BY <1>1
    <3>2. \A k \in K : k < i => k \in 0 .. i - 1 BY <3>1
    <3> QED BY <3>1, <3>2
  <2>2. IsFiniteSet(0 .. i - 1) /\ Cardinality(0 .. i - 1) = i
    <3>1. 0 \in Int /\ i - 1 \in Int BY <2>1
    <3>2. IsFiniteSet(0 .. i - 1) /\ Cardinality(0 .. i - 1) = IF 0 > i - 1 THEN 0 ELSE i - 1 - 0 + 1
      BY <3>1, FS_Interval
    <3> QED BY <2>1, <3>2
  <2> HIDE DEF Front
  <2>3. IsFiniteSet(Front(i)) /\ Cardinality(Front(i)) <= Cardinality(0 .. i - 1) BY <2>1, <2>2, FS_Subset
  <2> QED BY <2>2, <2>3, FS_CardinalityType
<1>3. ASSUME NEW i \in K PROVE Rank(K, i) \in Slots
  <2>1. Cardinality(Front(i)) \in Nat /\ Cardinality(Front(i)) <= i /\ i \in Nat /\ i <= LINKS - 1
    BY <1>1, <1>2
  <2> HIDE DEF Front
  <2>2. Cardinality(Front(i)) \in 0 .. LINKS - 1 BY <2>1, LinksAssumption
  <2> QED BY <2>2 DEF Rank, Slots, Front
<1>4. ASSUME NEW i \in K, NEW j \in K, i < j PROVE Cardinality(Front(i)) < Cardinality(Front(j))
  <2>1. Front(i) \subseteq Front(j) /\ i \in Front(j) /\ i \notin Front(i)
    <3>1. i \in Nat /\ j \in Nat /\ \A k \in K : k \in Nat BY <1>1
    <3>2. \A k \in K : k < i => k < j BY <1>4, <3>1
    <3>3. ~(i < i) BY <3>1
    <3> QED BY <1>4, <3>2, <3>3
  <2>2. IsFiniteSet(Front(j)) /\ Cardinality(Front(i)) \in Nat /\ Cardinality(Front(j)) \in Nat BY <1>2
  <2> HIDE DEF Front
  <2>3. Cardinality(Front(i)) <= Cardinality(Front(j))
        /\ (Cardinality(Front(j)) = Cardinality(Front(i)) => Front(j) = Front(i))
    BY <2>1, <2>2, FS_Subset
  <2> QED BY <2>1, <2>2, <2>3
<1>5. ASSUME NEW i \in K, NEW j \in K, Rank(K, i) = Rank(K, j) PROVE i = j
  <2>1. Cardinality(Front(i)) = Cardinality(Front(j)) BY <1>5 DEF Rank
  <2>2. i \in Nat /\ j \in Nat BY <1>1
  <2>3. Cardinality(Front(i)) \in Nat /\ Cardinality(Front(j)) \in Nat BY <1>2
  <2>4. ~(i < j) /\ ~(j < i)
    <3> HIDE DEF Front
    <3> QED BY <1>4, <2>1, <2>3
  <2> QED BY <2>2, <2>4
<1>6. ASSUME NEW i \in K, Rank(K, i) # 0 PROVE \E l \in K : Rank(K, l) = Rank(K, i) - 1
  <2>1. Front(i) # {} /\ Front(i) \in SUBSET Nat /\ i \in Nat /\ \A y \in Front(i) : y <= i
    <3>1. i \in Nat /\ \A k \in K : k \in Nat BY <1>1
    <3>2. \A k \in K : k < i => k <= i BY <3>1
    <3>3. Front(i) # {} BY <1>6, FS_EmptySet DEF Rank
    <3> QED BY <3>1, <3>2, <3>3
  <2>2. PICK l \in Front(i) : \A y \in Front(i) : y <= l
    <3> HIDE DEF Front
    <3> QED BY <2>1, GreatestOf
  <2>3. l \in K /\ Front(l) = Front(i) \ {l}
    <3>1. l \in K /\ l < i /\ l \in Nat BY <1>1
    <3>2. \A y \in K : y \in Nat BY <1>1
    <3>3. \A y \in K : y < l => y < i /\ y # l BY <2>1, <3>1, <3>2
    <3>4. \A y \in K : y < i /\ y # l => y < l BY <2>2, <3>1, <3>2
    <3> QED BY <3>1, <3>3, <3>4
  <2>4. IsFiniteSet(Front(i)) BY <1>2
  <2> HIDE DEF Front
  <2>5. Cardinality(Front(l)) = Cardinality(Front(i)) - 1
    <3>1. l \in Front(i) BY <2>2
    <3>2. Cardinality(Front(i) \ {l}) = Cardinality(Front(i)) - 1 BY <2>4, <3>1, FS_RemoveElement
    <3> QED BY <2>3, <3>2
  <2> QED BY <2>3, <2>5 DEF Rank, Front
<1>7. ASSUME NEW i \in K, NEW j \in Slots, j < Rank(K, i) PROVE \E l \in K : Rank(K, l) = j
  <2> DEFINE T == {Rank(K, l) : l \in {m \in K : Rank(K, m) >= j}}
  <2>1. \A l \in K : Rank(K, l) \in Nat BY <1>1, <1>3
  <2>2. T \in SUBSET Nat /\ T # {} BY <1>1, <1>7, <2>1
  <2> HIDE DEF T
  <2>3. PICK x \in T : \A y \in T : x <= y BY <2>2, LeastNat
  <2>4. PICK l \in K : Rank(K, l) = x /\ Rank(K, l) >= j BY DEF T
  <2>5. CASE x = j BY <2>4, <2>5
  <2>6. CASE x # j
    <3>1. j \in Nat /\ x \in Nat /\ x >= j BY <1>1, <2>2, <2>4
    <3>2. x # 0 /\ x - 1 >= j BY <2>6, <3>1
    <3>3. PICK m \in K : Rank(K, m) = x - 1 BY <1>6, <2>4, <3>2
    <3>4. x - 1 \in T BY <3>2, <3>3 DEF T
    <3> QED BY <2>3, <3>1, <3>4
  <2> QED BY <2>5, <2>6
<1> QED BY <1>3, <1>5, <1>7

\* The pool closes up: the slots that are kept, one after the other.
LEMMA CompactedShape ==
  ASSUME PoolShape(pool), NEW kept \in SUBSET Slots, \A i \in kept : pool[i] # nullptr
  PROVE  /\ PoolShape(Compacted(kept))
         /\ \A i \in kept : \E j \in Slots : Compacted(kept)[j] = pool[i]
<1> DEFINE q == Compacted(kept)
<1>1. \A i \in kept : pool[i] \in Objects BY DEF PoolShape
<1>2. ASSUME NEW j \in Slots
      PROVE  \/ q[j] = nullptr /\ \A i \in kept : Rank(kept, i) # j
             \/ \E i \in kept : Rank(kept, i) = j /\ q[j] = pool[i]
  BY DEF Compacted, Rank
<1>3. \A i, j \in kept : Rank(kept, i) = Rank(kept, j) => i = j BY Ranks
<1>4. q \in [Slots -> Objects \cup {nullptr}]
  <2>1. q = [j \in Slots |-> q[j]] BY DEF Compacted
  <2> HIDE DEF q
  <2>2. \A j \in Slots : q[j] \in Objects \cup {nullptr} BY <1>1, <1>2
  <2> QED BY <2>1, <2>2
<1> HIDE DEF q
<1>5. ASSUME NEW j \in Slots, NEW k \in Slots, j < k, q[k] # nullptr PROVE q[j] # nullptr
  <2>1. PICK i \in kept : Rank(kept, i) = k BY <1>2, <1>5
  <2>2. \E l \in kept : Rank(kept, l) = j BY <1>5, <2>1, Ranks
  <2> QED BY <1>1, <1>2, <2>2, Zeros
<1>6. ASSUME NEW j \in Slots, NEW k \in Slots, q[j] = q[k], q[j] # nullptr PROVE j = k
  <2>1. PICK i \in kept : Rank(kept, i) = j /\ q[j] = pool[i] BY <1>2, <1>6
  <2>2. PICK l \in kept : Rank(kept, l) = k /\ q[k] = pool[l] BY <1>2, <1>6
  <2>3. i = l BY <1>6, <2>1, <2>2 DEF PoolShape
  <2> QED BY <2>1, <2>2, <2>3
<1>7. ASSUME NEW i \in kept PROVE \E j \in Slots : q[j] = pool[i]
  <2>1. Rank(kept, i) \in Slots BY Ranks
  <2>2. PICK l \in kept : Rank(kept, l) = Rank(kept, i) /\ q[Rank(kept, i)] = pool[l] BY <1>2, <2>1
  <2> QED BY <1>3, <2>1, <2>2
<1>8. PoolShape(q) BY <1>4, <1>5, <1>6 DEF PoolShape
<1> QED BY <1>7, <1>8 DEF q

\* freeUnused() deletes only what no client refers to; a link is needed to be in use.
LEMMA FreeUnusedStep ==
  ASSUME IInv, FreeUnused
  PROVE  IInv'
<1> DEFINE unused == {i \in Filled : ~Linked(World, pool[i])}
           gone == {pool[i] : i \in unused}
           kept == Filled \ unused
<1>1. /\ \A c \in Clients : Obj(c) \notin gone
      /\ heap' = [o \in Objects |-> IF o \in gone THEN Empty ELSE heap[o]]
      /\ pool' = Compacted(kept)
      /\ UNCHANGED <<serialId, stream, live, incoming, data, lastConn, of>>
  BY DEF FreeUnused
<1>2. PoolShape(pool) /\ Good(World, stream, of, incoming) BY DEF IInv, PoolOK
<1>3. World \in Worlds /\ heap \in [Objects -> Streams] BY <1>2, WorldIs DEF Good, WorldOK, Worlds
<1>4. \A i \in Slots : i \in Filled <=> pool[i] # nullptr
  <2>1. ASSUME NEW i \in Slots, NEW j \in 0 .. i, pool[i] # nullptr PROVE pool[j] # nullptr
    <3>1. i \in 0 .. LINKS - 1 /\ LINKS \in Nat BY LinksAssumption DEF Slots
    <3>2. j \in 0 .. LINKS - 1 /\ (j < i \/ j = i) BY <3>1
    <3> QED BY <1>2, <2>1, <3>2 DEF PoolShape, Slots
  <2>2. \A i \in Slots : i \in 0 .. i BY DEF Slots
  <2> QED BY <2>1, <2>2 DEF Filled
<1>5. kept \in SUBSET Slots /\ \A i \in kept : pool[i] # nullptr BY <1>4 DEF Filled
<1>6. \A o \in Objects \cap gone : heap[o] = Empty
  <2> SUFFICES ASSUME NEW o \in Objects \cap gone PROVE heap[o] = Empty OBVIOUS
  <2>1. UsersOf(World, stream, o) = {} BY <1>1 DEF UsersOf, Obj
  <2>2. heap[o].serialId = 0 BY <1>2, <2>1, WorldIs DEF Good, Counted
  <2> QED BY <1>2, <2>2, WorldIs DEF Good, WorldOK
<1>7. heap' = heap
  <2>1. \A o \in Objects : heap'[o] = heap[o] BY <1>1, <1>6
  <2> HIDE DEF gone
  <2> QED BY <1>1, <1>3, <2>1
<1>8. World' = World BY <1>1, <1>7 DEF World
<1>9. PoolShape(pool') /\ \A i \in kept : \E j \in Slots : pool'[j] = pool[i]
  <2> HIDE DEF kept
  <2> QED BY <1>1, <1>2, <1>5, CompactedShape
<1>10. ASSUME NEW o \in Allocated, o \notin gone PROVE o \in Allocated'
  <2>1. PICK i \in Slots : pool[i] = o /\ o # nullptr BY DEF Allocated
  <2>2. i \in kept BY <1>4, <1>10, <2>1
  <2>3. PICK j \in Slots : pool'[j] = o BY <1>9, <2>1, <2>2
  <2> QED BY <2>1, <2>3 DEF Allocated
<1>11. PoolOK'
  <2>1. \A o \in Objects \ Allocated' : heap'[o] = Empty
    BY <1>6, <1>7, <1>10 DEF IInv, PoolOK
  <2>2. \A c \in Clients : stream'[c].ptr \in Allocated' \cup {nullptr}
    <3>1. \A c \in Clients : stream[c].ptr \in Allocated \cup {nullptr} /\ stream[c].ptr \notin gone
      BY <1>1 DEF IInv, PoolOK, Obj
    <3> HIDE DEF gone
    <3> QED BY <1>1, <1>10, <3>1
  <2>3. PoolShape(pool)' BY <1>9 DEF PoolShape
  <2> QED BY <2>1, <2>2, <2>3 DEF PoolOK
<1>12. ConnsOK' BY <1>1, <1>7 DEF IInv, ConnsOK
<1>13. SerialsOK' BY <1>1, <1>7 DEF IInv, SerialsOK
<1> QED BY <1>1, <1>2, <1>8, <1>11, <1>12, <1>13 DEF IInv

----------------------------------------------------------------------------
(* read() and the network *)

LEMMA ReadStep ==
  ASSUME IInv, NEW c \in Clients, Read(c)
  PROVE  IInv'
<1> DEFINE o == Obj(c)
<1>1. PICK rx \in BOOLEAN, left \in BOOLEAN :
        /\ Done([World EXCEPT !.heap[o].rx = rx], c, stream[c])
        /\ data' = IF heap[o].rx \/ left THEN data ELSE data \ {heap[o].linkId}
  BY DEF Read
<1>2. Bool(c) /\ NoAllocation /\ UNCHANGED <<incoming, lastConn, of>> BY DEF Read
<1>3. Good(World, stream, of, incoming) /\ incoming \subseteq live /\ data \subseteq live BY DEF IInv, ConnsOK
<1>4. World \in Worlds /\ stream \in [Clients -> Ptrs] /\ o \in Objects /\ World.heap[o].serialId # 0
  BY <1>2, <1>3, Pointer DEF Bool, Obj, InUse
<1> DEFINE v == [World EXCEPT !.heap[o].rx = rx]
<1> HIDE DEF World, o
<1>5. /\ v \in Worlds /\ v.live = World.live /\ v.heap[o] = [World.heap[o] EXCEPT !.rx = rx]
      /\ \A p \in Objects \ {o} : v.heap[p] = World.heap[p]
  BY <1>4 DEF Worlds, Streams
<1>6. /\ v.heap[o].serialId = World.heap[o].serialId /\ v.heap[o].refCount = World.heap[o].refCount
      /\ v.heap[o].linkId = World.heap[o].linkId
  BY <1>4, <1>5 DEF Worlds, Streams
<1>7. Done(v, c, stream[c]) BY <1>1
<1> HIDE DEF v
<1>8. Shrinks(World, v)
  <2>1. World.heap[o] # Empty BY <1>4, Zeros
  <2> QED BY <1>4, <1>5, <1>6, <2>1, OneShrinks
<1>9. Leads(World, stream, of, v, stream, of, incoming) BY <1>3, <1>8, ShrinksLeads
<1>10. heap' = v.heap /\ live' = v.live /\ stream' = stream BY <1>4, <1>7 DEF Done
<1>11. live' = live BY <1>5, <1>10, WorldIs
<1>12. incoming' = incoming \cap live' /\ data' \subseteq live' BY <1>1, <1>2, <1>3, <1>11
<1> QED BY <1>2, <1>9, <1>10, <1>12, LeadsStep

LEMMA PeerConnectsStep ==
  ASSUME IInv, PeerConnects
  PROVE  IInv'
<1>1. /\ Good(World, stream, of, incoming) /\ incoming \subseteq live /\ data \subseteq live
      /\ lastConn \in Nat /\ live \subseteq 1 .. lastConn /\ \A o \in Objects : heap[o].linkId <= lastConn
  BY ConnAssumption DEF IInv, ConnsOK
<1> DEFINE n == lastConn + 1
<1>2. /\ lastConn < MaxConn /\ lastConn' = n /\ live' = live \cup {n} /\ incoming' = incoming \cup {n}
      /\ UNCHANGED <<heap, pool, serialId, stream, data, of>>
  BY DEF PeerConnects
<1>3. n \in Conns /\ n \in 0 .. MaxConn BY <1>1, <1>2, ConnAssumption DEF Conns
<1>4. World \in Worlds /\ World'.heap = World.heap /\ World'.live = World.live \cup {n}
  BY <1>1, <1>2, WorldIs DEF Good, WorldOK
<1>5. World' \in Worlds
  <2>1. World' = [heap |-> heap', live |-> live'] BY DEF World
  <2>2. heap \in [Objects -> Streams] /\ live \subseteq Conns BY <1>4, WorldIs DEF Worlds
  <2> QED BY <1>2, <1>3, <2>1, <2>2 DEF Worlds
<1>6. \A o \in Objects : World.heap[o].linkId # n
  <2>1. \A o \in Objects : heap[o].linkId \in Nat BY <1>4, WorldIs DEF Worlds, Streams, Conns, NO_LINK
  <2> QED BY <1>1, <2>1, WorldIs
<1>7. Good(World', stream', of', incoming')
  <2> HIDE DEF n
  <2>1. Good(World', stream, of, incoming \cup {n}) BY <1>1, <1>3, <1>4, <1>5, <1>6, MoreWaiting
  <2> QED BY <1>2, <2>1
<1>8. PoolOK' BY <1>2 DEF IInv, PoolOK, PoolShape, Allocated
<1>9. ConnsOK'
  <2>1. \A o \in Objects : heap[o].linkId <= n
    <3>1. \A o \in Objects : heap[o].linkId \in Nat BY <1>4, WorldIs DEF Worlds, Streams, Conns, NO_LINK
    <3> QED BY <1>1, <3>1
  <2> QED BY <1>1, <1>2, <1>3, <2>1 DEF ConnsOK
<1>10. SerialsOK'
  <2>1. serialId \in 0 .. SERIALS - 1 /\ serialId + Cardinality(incoming) <= lastConn /\ Cardinality(incoming) \in Nat
        /\ IsFiniteSet(incoming)
    BY Waiting DEF IInv, SerialsOK
  <2>2. n \notin incoming BY <1>1
  <2>3. Cardinality(incoming \cup {n}) = Cardinality(incoming) + 1 BY <2>1, <2>2, FS_AddElement
  <2>4. serialId' + Cardinality(incoming') <= lastConn' BY <1>1, <1>2, <2>1, <2>3
  <2> QED BY <1>2, <2>4 DEF IInv, SerialsOK
<1> QED BY <1>7, <1>8, <1>9, <1>10 DEF IInv

LEMMA PeerClosesStep ==
  ASSUME IInv, NEW n \in Conns, PeerCloses(n)
  PROVE  IInv'
<1>1. /\ live' = live \ {n} /\ DropEnded /\ NoAllocation
      /\ UNCHANGED <<heap, pool, serialId, stream, lastConn, of>>
  BY DEF PeerCloses, NoAllocation
<1>2. Good(World, stream, of, incoming) /\ World \in Worlds BY DEF IInv, Good, WorldOK
<1>3. World' \in Worlds
  <2>1. World' = [heap |-> heap', live |-> live'] BY DEF World
  <2>2. heap \in [Objects -> Streams] /\ live \subseteq Conns BY <1>2, WorldIs DEF Worlds
  <2> QED BY <1>1, <2>1, <2>2 DEF Worlds
<1> DEFINE v == [heap |-> heap, live |-> live \ {n}]
<1>4. v \in Worlds /\ v.heap = heap /\ v.live = live \ {n} 
  <2>1. heap \in [Objects -> Streams] /\ live \subseteq Conns BY <1>2, WorldIs DEF Worlds
  <2> QED BY <2>1 DEF Worlds
<1> HIDE DEF v
<1>5. Shrinks(World, v) BY <1>4, WorldIs DEF Shrinks
<1>6. Leads(World, stream, of, v, stream, of, incoming) BY <1>2, <1>5, ShrinksLeads
<1> QED BY <1>1, <1>4, <1>6, LeadsStep DEF DropEnded

LEMMA DataArrivesStep ==
  ASSUME IInv, NEW n \in Conns, DataArrives(n)
  PROVE  IInv'
<1>1. /\ data' = data \cup {n} /\ n \in live /\ UNCHANGED <<heap, pool, serialId, stream, live, incoming, lastConn, of>>
  BY DEF DataArrives
<1>2. World' = World BY <1>1 DEF World
<1>3. Good(World', stream', of', incoming') BY <1>1, <1>2 DEF IInv
<1>4. PoolOK' BY <1>1 DEF IInv, PoolOK, PoolShape, Allocated
<1>5. ConnsOK' BY <1>1 DEF IInv, ConnsOK
<1>6. SerialsOK' BY <1>1 DEF IInv, SerialsOK
<1> QED BY <1>3, <1>4, <1>5, <1>6 DEF IInv

----------------------------------------------------------------------------
(* The inductive invariant *)

LEMMA InitInv == Init => IInv
<1> SUFFICES ASSUME Init PROVE IInv OBVIOUS
<1>1. /\ \A o \in Objects : heap[o] = Empty
      /\ heap \in [Objects -> Streams] /\ stream \in [Clients -> Ptrs]
      /\ \A c \in Clients : stream[c] = Fresh
      /\ of \in [Clients -> Conns \cup {NO_LINK}]
  BY Zeros, FreshRefersToNothing DEF Init
<1>2. World \in Worlds /\ World.heap = heap /\ World.live = {} BY <1>1 DEF World, Worlds, Init
<1>3. \A c \in Clients : ~Valid(World, stream[c]) BY <1>1, FreshRefersToNothing
<1>4. \A o \in Objects : UsersOf(World, stream, o) = {} BY <1>3 DEF UsersOf
<1>5. Good(World, stream, of, incoming)
  <2>1. WorldOK(World) BY <1>1, <1>2 DEF WorldOK
  <2>2. PtrsOK(stream) BY <1>1, FreshRefersToNothing DEF PtrsOK
  <2>3. Counted(World, stream) BY <1>1, <1>2, <1>4, Zeros, FS_EmptySet DEF Counted
  <2>4. Referenced(World, stream, incoming) BY <1>2 DEF Referenced, Init
  <2>5. Faithful(World, stream, of) BY <1>3 DEF Faithful
  <2> QED BY <1>1, <2>1, <2>2, <2>3, <2>4, <2>5 DEF Good
<1>6. PoolOK
  <2>1. PoolShape(pool) BY DEF Init, PoolShape
  <2> QED BY <1>1, <2>1, FreshRefersToNothing DEF PoolOK
<1>7. ConnsOK
  <2>1. lastConn = 0 /\ live = {} /\ incoming = {} /\ data = {} BY DEF Init
  <2>2. \A o \in Objects : heap[o].linkId <= lastConn BY <1>1, <2>1, Zeros DEF NO_LINK
  <2> QED BY <2>1, <2>2, ConnAssumption DEF ConnsOK
<1>8. SerialsOK
  <2>1. serialId = 0 /\ incoming = {} /\ lastConn = 0 BY DEF Init
  <2>2. serialId \in 0 .. SERIALS - 1 BY <2>1, SerialsAssumption, LinksAssumption
  <2>3. serialId + Cardinality(incoming) <= lastConn BY <2>1, FS_EmptySet
  <2>4. \A c \in Clients : stream[c].serialId <= serialId BY <1>1, <2>1, FreshRefersToNothing
  <2>5. \A o \in Objects : heap[o].serialId <= serialId BY <1>1, <2>1, Zeros
  <2> QED BY <2>2, <2>3, <2>4, <2>5 DEF SerialsOK
<1> QED BY <1>5, <1>6, <1>7, <1>8 DEF IInv

LEMMA NextInv ==
  ASSUME IInv, [Next]_vars, NotWrapped'
  PROVE  IInv'
<1>1. CASE UNCHANGED vars
  <2>1. World' = World /\ UNCHANGED vars BY <1>1 DEF World, vars
  <2> QED BY <2>1 DEF vars, IInv, PoolOK, PoolShape, Allocated, ConnsOK, SerialsOK
<1>2. ASSUME NEW c \in Clients,
             \/ Connect(c) \/ Accept(c) \/ Clear(c) \/ Destroy(c) \/ Stop(c)
             \/ CheckConnected(c) \/ Use(c) \/ Read(c)
      PROVE  IInv'
  BY <1>2, ConnectStep, AcceptStep, ClearStep, DestroyStep, StopStep, CheckConnectedStep, UseStep, ReadStep
<1>3. ASSUME NEW c \in Clients, NEW d \in Clients \ {c}, Copy(c, d) \/ Move(c, d) \/ Construct(c, d)
      PROVE  IInv'
  BY <1>3, CopyStep, MoveStep, ConstructStep
<1>4. CASE FreeUnused BY <1>4, FreeUnusedStep
<1>5. CASE PeerConnects BY <1>5, PeerConnectsStep
<1>6. ASSUME NEW n \in Conns, PeerCloses(n) \/ DataArrives(n) PROVE IInv'
  BY <1>6, PeerClosesStep, DataArrivesStep
<1> QED BY <1>1, <1>2, <1>3, <1>4, <1>5, <1>6 DEF Next

\* The number of connections only grows.
LEMMA Counts ==
  ASSUME lastConn \in 0 .. MaxConn, [Next]_vars
  PROVE  lastConn' \in 0 .. MaxConn /\ (NotWrapped' => NotWrapped)
<1>1. \/ lastConn' = lastConn
      \/ lastConn < MaxConn /\ lastConn' = lastConn + 1
  BY DEF Next, vars, Connect, Accept, Clear, Destroy, Stop, CheckConnected, Use, Read, Copy, Move, Construct,
         FreeUnused, PeerConnects, PeerCloses, DataArrives
<1> QED BY <1>1, ConnAssumption, SerialsAssumption DEF NotWrapped

(* What IInv says as long as serialId has not wrapped *)
Unwrapped == lastConn \in 0 .. MaxConn /\ (NotWrapped => IInv)

LEMMA Invariance == Spec => []Unwrapped
<1>1. Init => Unwrapped
  <2>1. Init => lastConn \in 0 .. MaxConn BY ConnAssumption DEF Init
  <2> QED BY <2>1, InitInv DEF Unwrapped
<1>2. Unwrapped /\ [Next]_vars => Unwrapped' BY NextInv, Counts DEF Unwrapped
<1> QED BY <1>1, <1>2, PTL DEF Spec

LEMMA ValidIs == \A c \in Clients : Bool(c) <=> Valid(World, stream[c])
BY DEF Bool

----------------------------------------------------------------------------
(* Theorems: everything holds until the sketch and its peers have made       *)
(* SERIALS connections.                                                     *)

(* Type correctness: reference counts do not become negative, waiting and    *)
(* readable connections are live ones, and the pointer of a client leads to  *)
(* an object that exists or nowhere.                                        *)
THEOREM TypeCorrect == Spec => [](NotWrapped => TypeOK)
<1>1. IInv => TypeOK
  <2> SUFFICES ASSUME IInv PROVE TypeOK OBVIOUS
  <2>1. /\ heap \in [Objects -> Streams] /\ live \subseteq Conns
        /\ stream \in [Clients -> Ptrs] /\ of \in [Clients -> Conns \cup {NO_LINK}]
    BY WorldIs DEF IInv, Good, WorldOK, Worlds, PtrsOK
  <2>2. pool \in [Slots -> Objects \cup {nullptr}] /\ \A c \in Clients : stream[c].ptr \in Allocated \cup {nullptr}
    BY DEF IInv, PoolOK, PoolShape
  <2>3. lastConn \in 0 .. MaxConn /\ incoming \subseteq live /\ data \subseteq live /\ serialId \in 0 .. SERIALS - 1
    BY DEF IInv, ConnsOK, SerialsOK
  <2> QED BY <2>1, <2>2, <2>3 DEF TypeOK
<1> QED BY <1>1, Invariance, PTL DEF Unwrapped

(* Reference counts are exact: the refCount of a BuffStream in use is the     *)
(* number of clients whose pointer is valid and leads to it, and there is at *)
(* least one.                                                               *)
THEOREM ReferencesCounted == Spec => [](NotWrapped => RefCountExact)
<1>1. IInv => RefCountExact
  <2> SUFFICES ASSUME IInv, NEW o \in Allocated, heap[o].serialId # 0
               PROVE  heap[o].refCount = Cardinality(Users(o)) /\ Users(o) # {}
    BY DEF RefCountExact
  <2>1. o \in Objects BY DEF Allocated, IInv, PoolOK, PoolShape
  <2>2. Users(o) = UsersOf(World, stream, o) BY DEF Users, UsersOf, Obj, Bool
  <2> QED BY <2>1, <2>2, WorldIs DEF IInv, Good, Counted
<1> QED BY <1>1, Invariance, PTL DEF Unwrapped

(* No connection outlives the clients: one that was given to the sketch is   *)
(* referred to by a client, or closed.                                      *)
THEOREM ConnectionsReferenced == Spec => [](NotWrapped => ConnectionReferenced)
<1>1. IInv => ConnectionReferenced
  BY WorldIs, ValidIs DEF IInv, Good, Referenced, ConnectionReferenced, Obj
<1> QED BY <1>1, Invariance, PTL DEF Unwrapped

(* A client that is true has the connection it was given, or has found it    *)
(* closed; it never gets that of a BuffStream's next owner.                 *)
THEOREM ClientsKeepConnections == Spec => [](NotWrapped => ClientKeepsConnection)
<1>1. IInv => ClientKeepsConnection
  BY WorldIs, ValidIs DEF IInv, Good, Faithful, ClientKeepsConnection, Obj
<1> QED BY <1>1, Invariance, PTL DEF Unwrapped

\* connected() on a BuffStream that is read empty and has lost its connection frees it.
LEMMA ReleasedStep ==
  ASSUME IInv, NEW c \in Clients, Bool(c), heap[Obj(c)].linkId \notin live, ~heap[Obj(c)].rx, CheckConnected(c)
  PROVE  heap'[Obj(c)].serialId = 0
<1> DEFINE o == Obj(c)
           w == Connected(World, o)
           v == Free(w, o)
<1>1. Good(World, stream, of, incoming) /\ Valid(World, stream[c]) BY DEF IInv, Bool
<1>2. World \in Worlds /\ o \in Objects /\ World.heap[o].serialId # 0 /\ stream[c].serialId # 0 /\ ~Active(World, o)
  BY <1>1, Pointer, WorldIs DEF Obj, InUse, Active
<1>3. Shrinks(World, w) /\ w \in Worlds BY <1>2, ConnectedShrinks DEF Shrinks
<1>4. w.heap[o].linkId = NO_LINK /\ ~w.heap[o].rx
  <2>1. CASE Linked(World, o)
    <3>1. w = ReleaseLink(World, o) BY <1>2, <2>1 DEF Connected
    <3>2. w.heap[o] = Empty BY <1>2, <3>1, ReleaseShrinks, WorldIs
    <3> QED BY <3>2, Zeros
  <2>2. CASE ~Linked(World, o)
    <3>1. w = World BY <2>2 DEF Connected
    <3> QED BY <2>2, <3>1, WorldIs DEF Linked
  <2> QED BY <2>1, <2>2
<1>5. Done(TakeOver(v, stream[c], Fresh).world, c, TakeOver(v, stream[c], Fresh).ptr)
  BY <1>4 DEF CheckConnected, Linked
<1> HIDE DEF w, o
<1>6. w.heap[o].linkId \notin w.live BY <1>3, <1>4, Zeros DEF Worlds
<1>7. v.heap[o].serialId = 0 /\ Shrinks(w, v) BY <1>2, <1>3, <1>6, FreeShrinks, Zeros
<1> HIDE DEF v
<1>8. Shrinks(World, v) BY <1>3, <1>7, ShrinksTwice
<1>9. Good(v, stream, of, incoming) BY <1>1, <1>8, ShrinksKeepsGood
<1>10. ~Valid(v, stream[c]) BY <1>2, <1>7 DEF Valid, o, Obj
<1>11. Agree(of, of, c) BY <1>1 DEF Good, Agree
<1>12. TakeOver(v, stream[c], Fresh).world = v BY <1>9, <1>10, <1>11, TakeOverFresh DEF DecreaseRefCount
<1> QED BY <1>5, <1>7, <1>12 DEF Done, o

(* The BuffStream of a connection that its peer has closed and the sketch has *)
(* read empty goes back to the pool with connected(); it needs no stop().    *)
THEOREM ReleasedAtEnd == Spec /\ []NotWrapped => ReleasedWhenRead
<1> DEFINE A == \A c \in Clients :
                  Bool(c) /\ heap[Obj(c)].linkId \notin live /\ ~heap[Obj(c)].rx /\ CheckConnected(c)
                    => heap'[Obj(c)].serialId = 0
<1>1. Unwrapped /\ NotWrapped /\ [Next]_vars => [A]_vars BY ReleasedStep DEF Unwrapped
<1>2. ReleasedWhenRead <=> [][A]_vars BY DEF ReleasedWhenRead
<1>3. Spec /\ []NotWrapped => [][A]_vars
  <2> HIDE DEF A
  <2> QED BY <1>1, Invariance, PTL DEF Spec
<1> QED BY <1>2, <1>3
=============================================================================
