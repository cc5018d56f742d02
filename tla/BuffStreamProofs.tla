-------------------------- MODULE BuffStreamProofs --------------------------
(***************************************************************************)
(* The transmit and the receive buffer of BuffStream implement Pipe, for    *)
(* buffers of any size and whatever is written, read and received.          *)
(***************************************************************************)
EXTENDS BuffStream, SequenceTheorems, TLAPS

Bytes == Seq(Nat)

Prefix(s, t) == \E x \in Bytes : t = s \o x

----------------------------------------------------------------------------
(* Sequences. *)

\* Concatenation: its type and length, and that it can be regrouped.
LEMMA Concat ==
  ASSUME NEW s \in Bytes, NEW t \in Bytes
  PROVE  s \o t \in Bytes /\ Len(s \o t) = Len(s) + Len(t)
BY ConcatProperties DEF Bytes

\* Concatenation is associative.
LEMMA Regroup ==
  ASSUME NEW s \in Bytes, NEW x \in Bytes, NEW y \in Bytes
  PROVE  (s \o x) \o y = s \o (x \o y)
BY DEF Bytes

\* The empty sequence, and the length of the others.
LEMMA Lengths ==
  ASSUME NEW s \in Bytes
  PROVE  Len(s) \in Nat /\ (Len(s) = 0 <=> s = <<>>) /\ s \o <<>> = s /\ <<>> \o s = s /\ <<>> \in Bytes
<1>1. Len(s) \in Nat /\ <<>> \in Bytes /\ Len(<<>>) = 0 BY LenProperties, EmptySeq DEF Bytes
<1>2. s # <<>> => Len(s) \in Nat \ {0} BY EmptySeq DEF Bytes
<1>3. s \o <<>> = s /\ <<>> \o s = s BY ConcatEmptySeq DEF Bytes
<1> QED BY <1>1, <1>2, <1>3

\* A sequence is its first n elements and the rest.
LEMMA Split ==
  ASSUME NEW s \in Bytes, NEW n \in 0 .. Len(s)
  PROVE  /\ First(s, n) \in Bytes /\ Len(First(s, n)) = n
         /\ From(s, n) \in Bytes /\ Len(From(s, n)) = Len(s) - n
         /\ First(s, n) \o From(s, n) = s
<1>1. Len(s) \in Nat /\ \A i \in 1 .. Len(s) : s[i] \in Nat BY LenProperties, ElementOfSeq DEF Bytes
<1>2. First(s, n) \in Bytes /\ Len(First(s, n)) = n
  <2>1. \A i \in 1 .. n : s[i] \in Nat BY <1>1
  <2>2. n \in Int /\ 1 \in Int BY <1>1
  <2>3. SubSeq(s, 1, n) \in Seq(Nat) /\ Len(SubSeq(s, 1, n)) = IF 1 <= n THEN n - 1 + 1 ELSE 0
    BY <2>1, <2>2, SubSeqProperties
  <2> QED BY <1>1, <2>3 DEF First, Bytes
<1>3. From(s, n) \in Bytes /\ Len(From(s, n)) = Len(s) - n
  <2>1. \A i \in n + 1 .. Len(s) : s[i] \in Nat BY <1>1
  <2>2. n + 1 \in Int /\ Len(s) \in Int BY <1>1
  <2>3. /\ SubSeq(s, n + 1, Len(s)) \in Seq(Nat)
        /\ Len(SubSeq(s, n + 1, Len(s))) = IF n + 1 <= Len(s) THEN Len(s) - (n + 1) + 1 ELSE 0
    BY <2>1, <2>2, SubSeqProperties
  <2> QED BY <1>1, <2>3 DEF From, Bytes
<1>4. First(s, n) \o From(s, n) = s
  <2>1. 1 \in 1 .. Len(s) + 1 /\ n \in 1 - 1 .. Len(s) /\ Len(s) \in n .. Len(s) BY <1>1
  <2>2. SubSeq(s, 1, n) \o SubSeq(s, n + 1, Len(s)) = SubSeq(s, 1, Len(s))
    BY <2>1, ConcatAdjacentSubSeq DEF Bytes
  <2>3. SubSeq(s, 1, Len(s)) = s BY SubSeqFull DEF Bytes
  <2> QED BY <2>2, <2>3 DEF First, From
<1> QED BY <1>2, <1>3, <1>4

\* All of a sequence, and none of it.
LEMMA FirstAll ==
  ASSUME NEW s \in Bytes
  PROVE  First(s, Len(s)) = s /\ First(s, 0) = <<>>
<1>1. First(s, Len(s)) = s BY SubSeqFull DEF First, Bytes
<1>2. 0 \in 0 .. Len(s) BY Lengths
<1>3. First(s, 0) \in Bytes /\ Len(First(s, 0)) = 0 BY <1>2, Split
<1> QED BY <1>1, <1>3, Lengths

\* Prefix is reflexive and transitive, and a sequence that grows has its old value as a prefix.
LEMMA PrefixReflexive ==
  ASSUME NEW s \in Bytes
  PROVE  Prefix(s, s)
BY Lengths DEF Prefix

LEMMA PrefixOfConcat ==
  ASSUME NEW s \in Bytes, NEW t \in Bytes
  PROVE  Prefix(s, s \o t)
BY DEF Prefix

LEMMA PrefixTransitive ==
  ASSUME NEW s \in Bytes, NEW t, NEW u, Prefix(s, t), Prefix(t, u)
  PROVE  Prefix(s, u)
<1>1. PICK x \in Bytes : t = s \o x BY DEF Prefix
<1>2. PICK y \in Bytes : u = t \o y BY DEF Prefix
<1>3. (s \o x) \o y = s \o (x \o y) BY Regroup
<1>4. x \o y \in Bytes BY Concat
<1> QED BY <1>1, <1>2, <1>3, <1>4 DEF Prefix

\* A prefix in the words of Pipe.tla
LEMMA PrefixExtends ==
  ASSUME NEW s \in Bytes, NEW t, Prefix(s, t)
  PROVE  Len(s) <= Len(t) /\ SubSeq(t, 1, Len(s)) = s
<1>1. PICK x \in Bytes : t = s \o x BY DEF Prefix
<1>2. Len(s) \in Nat /\ Len(x) \in Nat /\ Len(t) = Len(s) + Len(x) BY <1>1, Lengths, Concat
<1>3. CASE s = <<>>
  <2>1. Len(s) = 0 BY <1>3, Lengths
  <2>2. SubSeq(t, 1, 0) = <<>> BY SubSeqEmpty
  <2> QED BY <1>2, <1>3, <2>1, <2>2
<1>4. CASE s # <<>>
  <2>1. 1 \in 1 .. Len(s) /\ Len(s) \in 1 .. Len(s) BY <1>4, <1>2, Lengths
  <2>2. SubSeq(s \o x, 1, Len(s)) = SubSeq(s, 1, Len(s)) BY <2>1, SubSeqOfConcat1 DEF Bytes
  <2>3. SubSeq(s, 1, Len(s)) = s BY SubSeqFull DEF Bytes
  <2> QED BY <1>1, <1>2, <2>2, <2>3
<1> QED BY <1>3, <1>4

----------------------------------------------------------------------------
(* Worlds: what is true of the stream, and what a part of a call does. *)

Worlds ==
  [inUse : BOOLEAN, linked : BOOLEAN, tx : Bytes, rx : Bytes, writeError : BOOLEAN,
   accepted : Bytes, sent : Bytes, received : Bytes, taken : Bytes, halfSent : BOOLEAN]

Unused(v) ==
  /\ v.tx = <<>> /\ v.rx = <<>>
  /\ v.accepted = <<>> /\ v.sent = <<>> /\ v.received = <<>> /\ v.taken = <<>>

\* What went in is what came out and what is in the buffers.  The transmit buffer may be full.
Sound(v) ==
  /\ v \in Worlds
  /\ v.linked => v.inUse
  /\ Len(v.tx) <= TxSize /\ Len(v.rx) <= RxSize
  /\ ~v.inUse => Unused(v)
  /\ v.received = v.taken \o v.rx
  /\ ~Broken(v) => v.accepted = v.sent \o v.tx

\* Between the parts of a call it never is full.
Good(v) == Sound(v) /\ Len(v.tx) < TxSize

\* The stream can be broken and freed, and more can go in and come out.
Step(u, v) ==
  /\ Broken(u) => Broken(v)
  /\ v.inUse => u.inUse /\ Prefix(u.received, v.received) /\ Prefix(u.taken, v.taken)
  /\ v.inUse /\ ~Broken(v) => Prefix(u.accepted, v.accepted) /\ Prefix(u.sent, v.sent)

\* Steps of calls can be joined, and doing nothing is one.
LEMMA StepReflexive ==
  ASSUME NEW v \in Worlds
  PROVE  Step(v, v)
<1>1. v.received \in Bytes /\ v.taken \in Bytes /\ v.accepted \in Bytes /\ v.sent \in Bytes BY DEF Worlds
<1> QED BY <1>1, PrefixReflexive DEF Step

LEMMA StepTransitive ==
  ASSUME NEW u \in Worlds, NEW v, NEW x, Step(u, v), Step(v, x)
  PROVE  Step(u, x)
<1>1. u.received \in Bytes /\ u.taken \in Bytes /\ u.accepted \in Bytes /\ u.sent \in Bytes BY DEF Worlds
<1>2. Broken(u) => Broken(x) BY DEF Step
<1>3. x.inUse => u.inUse /\ Prefix(u.received, x.received) /\ Prefix(u.taken, x.taken)
  BY <1>1, PrefixTransitive DEF Step
<1>4. x.inUse /\ ~Broken(x) => Prefix(u.accepted, x.accepted) /\ Prefix(u.sent, x.sent)
  BY <1>1, PrefixTransitive DEF Step
<1> QED BY <1>2, <1>3, <1>4 DEF Step

\* Free
LEMMA FreeGood ==
  ASSUME NEW v, Sound(v)
  PROVE  Good(Free(v)) /\ Step(v, Free(v)) /\ Free(v).writeError = v.writeError /\ Broken(Free(v)) = Broken(v)
<1>1. /\ Free(v) \in Worlds /\ ~Free(v).inUse /\ ~Free(v).linked /\ Unused(Free(v))
      /\ Free(v).writeError = v.writeError /\ Free(v).halfSent = v.halfSent
  BY Lengths DEF Sound, Worlds, Free, Unused
<1>2. Len(<<>>) = 0 /\ <<>> \o <<>> = <<>> /\ <<>> \in Bytes BY Lengths, EmptySeq DEF Bytes
<1>3. Broken(Free(v)) = Broken(v) BY <1>1 DEF Broken
<1>4. Good(Free(v)) BY <1>1, <1>2, SizesAssumption DEF Good, Sound, Unused
<1>5. Step(v, Free(v)) BY <1>1, <1>3 DEF Step
<1> QED BY <1>1, <1>3, <1>4, <1>5

\* CheckLink
LEMMA CheckLinkGood ==
  ASSUME NEW v, Good(v), NEW active
  PROVE  LET c == CheckLink(v, active)
         IN  Good(c) /\ Step(v, c) /\ c.writeError = v.writeError /\ Broken(c) = Broken(v) /\ (v.tx = <<>> => c.tx = <<>>)
<1> DEFINE c == CheckLink(v, active)
<1>1. CASE c = v BY <1>1, StepReflexive DEF Good, Sound
<1>2. CASE c = Free(v)
  <2>1. Free(v).tx = <<>> BY DEF Free, Good, Sound, Worlds
  <2> QED BY <1>2, <2>1, FreeGood DEF Good
<1>3. CASE c = [v EXCEPT !.linked = FALSE]
  <2> DEFINE d == [v EXCEPT !.linked = FALSE]
  <2>1. /\ d \in Worlds /\ ~d.linked /\ d.inUse = v.inUse /\ d.tx = v.tx /\ d.rx = v.rx
        /\ d.writeError = v.writeError /\ d.halfSent = v.halfSent /\ d.accepted = v.accepted
        /\ d.sent = v.sent /\ d.received = v.received /\ d.taken = v.taken
    BY DEF Good, Sound, Worlds
  <2>2. Step(v, v) BY StepReflexive DEF Good, Sound
  <2> HIDE DEF d
  <2>3. Broken(d) = Broken(v) BY <2>1 DEF Broken
  <2>4. Good(d) BY <2>1, <2>3 DEF Good, Sound, Unused
  <2>5. Step(v, d) BY <2>1, <2>2, <2>3 DEF Step
  <2> QED BY <1>3, <2>1, <2>3, <2>4, <2>5 DEF d
<1>4. c = v \/ c = Free(v) \/ c = [v EXCEPT !.linked = FALSE] BY DEF CheckLink
<1> QED BY <1>1, <1>2, <1>3, <1>4

----------------------------------------------------------------------------
(* The transmit buffer. *)

\* What is enough for a part of a call that leaves the receive buffer alone.
LEMMA TransmitEffect ==
  ASSUME NEW u, Sound(u), NEW v \in Worlds,
         v.inUse = u.inUse, v.linked = u.linked, v.rx = u.rx, v.received = u.received, v.taken = u.taken,
         Len(v.tx) <= TxSize, ~u.inUse => Unused(v), Broken(u) => Broken(v),
         ~Broken(v) => /\ Prefix(u.accepted, v.accepted) /\ Prefix(u.sent, v.sent)
                       /\ v.accepted = v.sent \o v.tx
  PROVE  Sound(v) /\ Step(u, v)
<1>1. Sound(v) BY DEF Sound
<1>2. u.received \in Bytes /\ u.taken \in Bytes BY DEF Sound, Worlds
<1>3. Prefix(u.received, v.received) /\ Prefix(u.taken, v.taken) BY <1>2, PrefixReflexive
<1>4. Step(u, v) BY <1>3 DEF Step
<1> QED BY <1>1, <1>4

\* The write error is set, or stays.
LEMMA ErrorGood ==
  ASSUME NEW v, Good(v), NEW e \in BOOLEAN, v.writeError => e
  PROVE  Good([v EXCEPT !.writeError = e]) /\ Step(v, [v EXCEPT !.writeError = e])
<1> DEFINE d == [v EXCEPT !.writeError = e]
<1>1. /\ d \in Worlds /\ d.linked = v.linked /\ d.inUse = v.inUse /\ d.tx = v.tx /\ d.rx = v.rx
      /\ d.writeError = e /\ d.halfSent = v.halfSent /\ d.accepted = v.accepted
      /\ d.sent = v.sent /\ d.received = v.received /\ d.taken = v.taken
  BY DEF Good, Sound, Worlds
<1>2. v.accepted \in Bytes /\ v.sent \in Bytes /\ Sound(v) BY DEF Good, Sound, Worlds
<1>3. Prefix(v.accepted, v.accepted) /\ Prefix(v.sent, v.sent) BY <1>2, PrefixReflexive
<1> HIDE DEF d
<1>4. Broken(v) => Broken(d) BY <1>1 DEF Broken
<1>5. ~Broken(d) => d.accepted = d.sent \o d.tx BY <1>1, <1>4, <1>2 DEF Sound
<1>6. ~v.inUse => Unused(d) BY <1>1, <1>2 DEF Sound, Unused
<1>7. Len(d.tx) <= TxSize BY <1>1, <1>2 DEF Sound
<1>8. Sound(d) /\ Step(v, d) BY <1>1, <1>2, <1>3, <1>4, <1>5, <1>6, <1>7, TransmitEffect
<1> QED BY <1>1, <1>8 DEF Good, d

\* The fields after the driver reported only n bytes of the buffer, which is empty then.
LEMMA PartSentFields ==
  ASSUME NEW v \in Worlds, NEW n \in 0 .. Len(v.tx)
  PROVE  LET s == [[Sent(v, v.tx, n) EXCEPT !.tx = <<>>] EXCEPT !.writeError = TRUE]
         IN  /\ s \in Worlds /\ s.linked = v.linked /\ s.inUse = v.inUse /\ s.tx = <<>> /\ s.rx = v.rx
             /\ s.writeError /\ s.received = v.received /\ s.taken = v.taken
<1>1. v.tx \in Bytes /\ v.sent \in Bytes BY DEF Worlds
<1>2. First(v.tx, n) \in Bytes BY <1>1, Split
<1>3. v.sent \o First(v.tx, n) \in Bytes /\ <<>> \in Bytes BY <1>1, <1>2, Concat, Lengths
<1> QED BY <1>3 DEF Sent, Worlds

\* The fields after all of it was sent.
LEMMA AllSentFields ==
  ASSUME NEW v \in Worlds
  PROVE  LET s == [Sent(v, v.tx, Len(v.tx)) EXCEPT !.tx = <<>>]
         IN  /\ s \in Worlds /\ s.linked = v.linked /\ s.inUse = v.inUse /\ s.tx = <<>> /\ s.rx = v.rx
             /\ s.writeError = v.writeError /\ s.halfSent = v.halfSent /\ s.accepted = v.accepted
             /\ s.received = v.received /\ s.taken = v.taken /\ s.sent = v.sent \o v.tx
<1>1. v.tx \in Bytes /\ v.sent \in Bytes /\ <<>> \in Bytes BY Lengths DEF Worlds
<1>2. First(v.tx, Len(v.tx)) = v.tx /\ v.sent \o v.tx \in Bytes BY <1>1, FirstAll, Concat
<1> QED BY <1>1, <1>2 DEF Sent, Worlds

\* A part or nothing of it was sent: the stream is broken, perhaps free.
LEMMA FailedGood ==
  ASSUME NEW u, Sound(u), u.inUse, NEW e \in Worlds,
         e.inUse = u.inUse, e.linked = u.linked, e.rx = u.rx, e.received = u.received, e.taken = u.taken,
         Len(e.tx) < TxSize, Broken(e)
  PROVE  Good(CheckLink(e, connected)) /\ Step(u, CheckLink(e, connected))
<1>1. Len(e.tx) \in Nat BY Lengths DEF Worlds
<1>2. Len(e.tx) <= TxSize BY <1>1, SizesAssumption
<1>3. Sound(e) /\ Step(u, e) BY <1>2, TransmitEffect
<1>4. Good(e) BY <1>3 DEF Good
<1>5. Good(CheckLink(e, connected)) /\ Step(e, CheckLink(e, connected)) BY <1>4, CheckLinkGood
<1>6. u \in Worlds BY DEF Sound
<1> QED BY <1>3, <1>5, <1>6, StepTransitive

\* flush()
LEMMA FlushedGood ==
  ASSUME NEW v, Sound(v), NEW f \in Flushed(v)
  PROVE  Good(f) /\ Step(v, f) /\ f.tx = <<>>
<1>1. /\ v \in Worlds /\ v.tx \in Bytes /\ v.accepted \in Bytes /\ v.sent \in Bytes
      /\ v.writeError \in BOOLEAN
  BY DEF Sound, Worlds
<1>2. CASE v.tx = <<>>
  <2>1. f = v BY <1>2 DEF Flushed
  <2>2. Len(v.tx) = 0 BY <1>2, <1>1, Lengths
  <2> QED BY <1>1, <1>2, <2>1, <2>2, StepReflexive, SizesAssumption DEF Good
<1>3. CASE v.tx # <<>>
  <2> DEFINE S(n) == [Sent(v, v.tx, n) EXCEPT !.tx = <<>>]
             F(n) == [S(n) EXCEPT !.writeError = TRUE]
  <2>1. PICK n \in Reports(v, Len(v.tx)) : f = IF n = Len(v.tx) THEN S(n) ELSE CheckLink(F(n), connected)
    BY <1>3 DEF Flushed
  <2>2. n \in 0 .. Len(v.tx) /\ Len(<<>>) = 0 BY <1>1, Lengths DEF Reports
  <2>3. v.inUse BY <1>3 DEF Sound, Unused
  <2>4. CASE n = Len(v.tx)
    <3> DEFINE s == S(n)
    <3>1. /\ s \in Worlds /\ s.linked = v.linked /\ s.inUse = v.inUse /\ s.tx = <<>> /\ s.rx = v.rx
          /\ s.writeError = v.writeError /\ s.halfSent = v.halfSent /\ s.accepted = v.accepted
          /\ s.received = v.received /\ s.taken = v.taken /\ s.sent = v.sent \o v.tx
      BY <1>1, <2>4, AllSentFields
    <3> HIDE DEF s
    <3>2. Broken(s) = Broken(v) BY <3>1 DEF Broken
    <3>3. Prefix(v.accepted, s.accepted) /\ Prefix(v.sent, s.sent) BY <1>1, <3>1, PrefixReflexive, PrefixOfConcat
    <3>4. s.sent \o s.tx = s.sent BY <3>1, Lengths DEF Worlds
    <3>5. ~Broken(s) => s.accepted = s.sent \o s.tx BY <3>1, <3>2, <3>4 DEF Sound
    <3>6. Len(s.tx) <= TxSize /\ Len(s.tx) < TxSize BY <3>1, <2>2, SizesAssumption
    <3>7. Sound(s) /\ Step(v, s) BY <2>3, <3>1, <3>2, <3>3, <3>5, <3>6, TransmitEffect
    <3> QED BY <2>1, <2>4, <3>1, <3>6, <3>7 DEF Good, s
  <2>5. CASE n # Len(v.tx)
    <3> DEFINE e == F(n)
    <3>1. /\ e \in Worlds /\ e.linked = v.linked /\ e.inUse = v.inUse /\ e.tx = <<>> /\ e.rx = v.rx
          /\ e.writeError /\ e.received = v.received /\ e.taken = v.taken
      BY <1>1, <2>2, PartSentFields
    <3> HIDE DEF e
    <3>2. Broken(e) /\ Len(e.tx) < TxSize BY <3>1, <2>2, SizesAssumption DEF Broken
    <3>3. Good(CheckLink(e, connected)) /\ Step(v, CheckLink(e, connected)) BY <2>3, <3>1, <3>2, FailedGood
    <3>4. CheckLink(e, connected).tx = <<>> BY <3>1 DEF CheckLink, Free, Worlds
    <3> QED BY <2>1, <2>5, <3>3, <3>4 DEF e
  <2> QED BY <2>4, <2>5
<1> QED BY <1>2, <1>3

\* Bytes that write() counts once they are sent, or in the buffer.
LEMMA CountedGood ==
  ASSUME NEW v, Good(v), v.tx = <<>>, NEW data \in Bytes, NEW n \in 0 .. Len(data), v.linked \/ n = 0
  PROVE  LET s == Counted(Sent(v, data, n), First(data, n))
         IN  Good(s) /\ Step(v, s) /\ s.tx = <<>>
<1> DEFINE d == First(data, n)
           s == Counted(Sent(v, data, n), d)
<1>1. /\ v \in Worlds /\ v.tx \in Bytes /\ v.accepted \in Bytes /\ v.sent \in Bytes /\ d \in Bytes
  BY Split DEF Good, Sound, Worlds
<1>2. v.accepted \o d \in Bytes /\ v.sent \o d \in Bytes BY <1>1, Concat
<1>3. /\ s \in Worlds /\ s.linked = v.linked /\ s.inUse = v.inUse /\ s.tx = <<>> /\ s.rx = v.rx
      /\ s.writeError = v.writeError /\ s.halfSent = v.halfSent
      /\ s.accepted = v.accepted \o d /\ s.sent = v.sent \o d
      /\ s.received = v.received /\ s.taken = v.taken
  <2> HIDE DEF d
  <2> QED BY <1>1, <1>2 DEF Counted, Sent, Worlds, d
<1>4. ~v.inUse => d = <<>> /\ v.accepted = <<>> /\ v.sent = <<>>
  BY FirstAll DEF Good, Sound, Unused
<1>5. <<>> \o <<>> = <<>> /\ Len(<<>>) = 0 BY Lengths, EmptySeq DEF Bytes
<1> HIDE DEF s, d
<1>6. Broken(s) = Broken(v) BY <1>3 DEF Broken
<1>7. Prefix(v.accepted, s.accepted) /\ Prefix(v.sent, s.sent) BY <1>1, <1>3, PrefixOfConcat
<1>8. ~Broken(s) => s.accepted = s.sent \o s.tx
  <2>1. ~Broken(s) => v.accepted = v.sent BY <1>1, <1>6, Lengths DEF Good, Sound
  <2>2. s.sent \o s.tx = s.sent BY <1>2, <1>3, Lengths
  <2> QED BY <1>3, <2>1, <2>2
<1>9. ~v.inUse => Unused(s) BY <1>3, <1>4, <1>5 DEF Unused, Good, Sound
<1>10. Len(s.tx) <= TxSize /\ Len(s.tx) < TxSize BY <1>3, <1>5, SizesAssumption
<1>11. Sound(s) /\ Step(v, s) BY <1>3, <1>6, <1>7, <1>8, <1>9, <1>10, TransmitEffect DEF Good
<1> QED BY <1>3, <1>10, <1>11 DEF Good, s, d

\* Bytes that are put into the buffer.
LEMMA BufferedSound ==
  ASSUME NEW v, Good(v), v.linked, NEW bytes \in Bytes, Len(v.tx) + Len(bytes) <= TxSize
  PROVE  LET c == Counted([v EXCEPT !.tx = @ \o bytes], bytes)
         IN  Sound(c) /\ Step(v, c) /\ Len(c.tx) = Len(v.tx) + Len(bytes)
<1> DEFINE c == Counted([v EXCEPT !.tx = @ \o bytes], bytes)
<1>1. v \in Worlds /\ v.tx \in Bytes /\ v.accepted \in Bytes /\ v.sent \in Bytes
  BY DEF Good, Sound, Worlds
<1>2. v.accepted \o bytes \in Bytes /\ v.tx \o bytes \in Bytes /\ Len(v.tx \o bytes) = Len(v.tx) + Len(bytes)
  BY <1>1, Concat
<1>3. /\ c \in Worlds /\ c.linked = v.linked /\ c.inUse = v.inUse /\ c.tx = v.tx \o bytes /\ c.rx = v.rx
      /\ c.writeError = v.writeError /\ c.halfSent = v.halfSent
      /\ c.accepted = v.accepted \o bytes /\ c.sent = v.sent
      /\ c.received = v.received /\ c.taken = v.taken
  BY <1>1, <1>2 DEF Counted, Worlds
<1> HIDE DEF c
<1>4. Broken(c) = Broken(v) /\ v.inUse BY <1>3 DEF Broken, Good, Sound
<1>5. Prefix(v.accepted, c.accepted) /\ Prefix(v.sent, c.sent)
  BY <1>1, <1>3, PrefixOfConcat, PrefixReflexive
<1>6. ~Broken(c) => c.accepted = c.sent \o c.tx
  <2>1. ~Broken(c) => v.accepted = v.sent \o v.tx BY <1>4 DEF Good, Sound
  <2>2. (v.sent \o v.tx) \o bytes = v.sent \o (v.tx \o bytes) BY <1>1, Regroup
  <2> QED BY <1>3, <2>1, <2>2
<1>7. Sound(c) /\ Step(v, c) BY <1>2, <1>3, <1>4, <1>5, <1>6, TransmitEffect DEF Good
<1> QED BY <1>2, <1>3, <1>7 DEF c

\* write(data, length), one level of it
LEMMA WroteGood ==
  ASSUME NEW v, Good(v), NEW data \in Bytes, NEW f \in Wrote(v, data)
  PROVE  Good(f) /\ Step(v, f)
<1>1. v \in Worlds /\ v.tx \in Bytes /\ Len(v.tx) \in Nat /\ Len(data) \in Nat
  BY Lengths DEF Good, Sound, Worlds
<1>2. CASE ~v.linked
  <2>1. f = [v EXCEPT !.writeError = TRUE] BY <1>2 DEF Wrote
  <2> QED BY <2>1, ErrorGood
<1>3. CASE v.linked /\ data = <<>>
  <2>1. f = v BY <1>3 DEF Wrote
  <2> QED BY <1>1, <2>1, StepReflexive
<1>4. CASE v.linked /\ data # <<>> /\ IsDirect(v, data)
  <2> DEFINE s(n) == Counted(Sent(v, data, n), First(data, n))
             c(n) == CheckLink(s(n), connected)
  <2>1. f \in SentDirectly(v, data) BY <1>4 DEF Wrote
  <2>2. PICK n \in Reports(v, Len(data)) :
          f = IF n = Len(data) THEN s(n) ELSE [c(n) EXCEPT !.writeError = @ \/ ~c(n).linked]
    BY <2>1 DEF SentDirectly
  <2>3. n \in 0 .. Len(data) BY <1>1, <2>2 DEF Reports
  <2>4. Good(s(n)) /\ Step(v, s(n)) BY <1>4, <2>3, CountedGood DEF IsDirect
  <2> HIDE DEF s
  <2>5. Good(c(n)) /\ Step(s(n), c(n)) BY <2>4, CheckLinkGood
  <2> DEFINE e == c(n).writeError \/ ~c(n).linked
  <2> HIDE DEF c
  <2>6. e \in BOOLEAN /\ (c(n).writeError => e) OBVIOUS
  <2>7. Good([c(n) EXCEPT !.writeError = e]) /\ Step(c(n), [c(n) EXCEPT !.writeError = e])
    <3> HIDE DEF e
    <3> QED BY <2>5, <2>6, ErrorGood
  <2>8. Step(v, c(n)) BY <1>1, <2>4, <2>5, StepTransitive
  <2>9. Step(v, [c(n) EXCEPT !.writeError = e]) BY <1>1, <2>7, <2>8, StepTransitive
  <2>10. [c(n) EXCEPT !.writeError = @ \/ ~c(n).linked] = [c(n) EXCEPT !.writeError = e] OBVIOUS
  <2> QED BY <2>2, <2>4, <2>7, <2>9, <2>10
<1>5. CASE v.linked /\ data # <<>> /\ ~IsDirect(v, data)
  <2> DEFINE k == Shorter(Space(v), Len(data))
             bytes == First(data, k)
             c == Counted([v EXCEPT !.tx = @ \o bytes], bytes)
  <2>1. f \in (IF Len(data) >= Space(v) THEN Flushed(c) ELSE {c}) BY <1>5 DEF Wrote, Copied
  <2>2. TxSize \in Nat /\ Len(v.tx) < TxSize BY SizesAssumption DEF Good
  <2>3. k \in 0 .. Len(data) /\ Len(v.tx) + k <= TxSize /\ (Len(data) < Space(v) => Len(v.tx) + k < TxSize)
    <3>1. Space(v) \in Nat /\ Len(v.tx) + Space(v) = TxSize BY <1>1, <2>2 DEF Space
    <3>2. k = IF Space(v) < Len(data) THEN Space(v) ELSE Len(data) BY DEF Shorter
    <3> HIDE DEF k
    <3> QED BY <1>1, <2>2, <3>1, <3>2
  <2>4. bytes \in Bytes /\ Len(bytes) = k BY <2>3, Split
  <2>5. Len(v.tx) + Len(bytes) <= TxSize BY <2>3, <2>4
  <2> HIDE DEF bytes, k
  <2>6. Sound(c) /\ Step(v, c) /\ Len(c.tx) = Len(v.tx) + k BY <1>5, <2>4, <2>5, BufferedSound
  <2> HIDE DEF c
  <2>7. CASE Len(data) >= Space(v)
    <3>1. f \in Flushed(c) BY <2>1, <2>7
    <3>2. Good(f) /\ Step(c, f) BY <2>6, <3>1, FlushedGood
    <3> QED BY <1>1, <2>6, <3>2, StepTransitive
  <2>8. CASE ~(Len(data) >= Space(v))
    <3>1. f = c BY <2>1, <2>8
    <3>2. Len(data) < Space(v) BY <1>1, <2>2, <2>8 DEF Space
    <3>3. Len(c.tx) < TxSize BY <2>3, <2>6, <3>2
    <3> QED BY <2>6, <3>1, <3>3 DEF Good
  <2> QED BY <2>7, <2>8
<1> QED BY <1>2, <1>3, <1>4, <1>5

\* write(b)
LEMMA WroteByteGood ==
  ASSUME Good(w), NEW b \in Nat, NEW f \in WroteByte(b)
  PROVE  Good(f) /\ Step(w, f)
<1> DEFINE v == [w EXCEPT !.tx = @ \o <<b>>]
<1>1. /\ w \in Worlds /\ w.tx \in Bytes /\ Len(w.tx) \in Nat /\ <<b>> \in Bytes /\ Len(<<b>>) = 1
      /\ Sound(w) /\ Len(w.tx) < TxSize /\ TxSize \in Nat
  BY Lengths, SizesAssumption DEF Good, Sound, Worlds, Bytes
<1>2. w.tx \o <<b>> \in Bytes /\ Len(w.tx \o <<b>>) = Len(w.tx) + 1 BY <1>1, Concat
<1>3. /\ v \in Worlds /\ v.linked = w.linked /\ v.inUse = w.inUse /\ v.tx = w.tx \o <<b>> /\ v.rx = w.rx
      /\ v.writeError = w.writeError /\ v.halfSent = w.halfSent /\ v.accepted = w.accepted
      /\ v.sent = w.sent /\ v.received = w.received /\ v.taken = w.taken
  BY <1>1, <1>2 DEF Worlds
<1>4. CASE ~w.linked
  <2>1. f = [w EXCEPT !.writeError = TRUE] BY <1>4 DEF WroteByte
  <2> QED BY <2>1, ErrorGood
<1>5. CASE w.linked /\ Len(v.tx) < TxSize
  <2>1. f = Counted(v, <<b>>) BY <1>5 DEF WroteByte
  <2>2. Len(w.tx) + Len(<<b>>) <= TxSize BY <1>1
  <2> DEFINE bytes == <<b>>
  <2>3. bytes \in Bytes /\ Len(w.tx) + Len(bytes) <= TxSize /\ Len(bytes) = 1 BY <1>1, <2>2
  <2>4. f = Counted([w EXCEPT !.tx = @ \o bytes], bytes) BY <2>1
  <2> HIDE DEF bytes, v
  <2>5. Sound(f) /\ Step(w, f) /\ Len(f.tx) = Len(w.tx) + Len(bytes) BY <1>5, <2>3, <2>4, BufferedSound
  <2> QED BY <1>2, <1>3, <1>5, <2>3, <2>5 DEF Good
<1>6. CASE w.linked /\ ~(Len(v.tx) < TxSize)
  <2> DEFINE S(n) == [Sent(v, v.tx, n) EXCEPT !.tx = <<>>]
             F(n) == [S(n) EXCEPT !.writeError = TRUE]
  <2>1. v.tx # <<>> BY <1>1, <1>2, <1>3, Lengths
  <2>2. w.inUse BY <1>6, <1>1 DEF Sound
  <2>3. PICK g \in Flushed(v) : f = IF g.writeError THEN g ELSE Counted(g, <<b>>) BY <1>6 DEF WroteByte
  <2>4. PICK n \in Reports(v, Len(v.tx)) : g = IF n = Len(v.tx) THEN S(n) ELSE CheckLink(F(n), connected)
    BY <2>1, <2>3 DEF Flushed
  <2>5. Len(v.tx) \in Nat BY <1>2, <1>3, Lengths
  <2>6. n \in 0 .. Len(v.tx) /\ Len(<<>>) = 0 /\ <<>> \in Bytes
    BY <1>2, <1>3, <2>5, Lengths DEF Reports
  <2>7. CASE n = Len(v.tx)
    <3> HIDE DEF v
    <3>1. /\ g \in Worlds /\ g.linked = v.linked /\ g.inUse = v.inUse /\ g.tx = <<>> /\ g.rx = v.rx
          /\ g.writeError = v.writeError /\ g.halfSent = v.halfSent /\ g.accepted = v.accepted
          /\ g.received = v.received /\ g.taken = v.taken /\ g.sent = v.sent \o v.tx
      BY <1>3, <2>4, <2>7, AllSentFields
    <3>2. Len(g.tx) <= TxSize /\ Len(g.tx) < TxSize BY <1>1, <2>6, <3>1
    <3>3. CASE g.writeError
      <4>1. f = g BY <2>3, <3>3
      <4>2. Broken(g) BY <3>3 DEF Broken
      <4>3. Sound(g) /\ Step(w, g) BY <1>1, <1>3, <2>2, <3>1, <3>2, <4>2, TransmitEffect
      <4> QED BY <3>2, <4>1, <4>3 DEF Good
    <3>4. CASE ~g.writeError
      <4>1. f = Counted(g, <<b>>) BY <2>3, <3>4
      <4>2. w.accepted \in Bytes /\ w.sent \in Bytes /\ w.accepted \o <<b>> \in Bytes
        BY <1>1, Concat DEF Worlds
      <4>3. /\ f \in Worlds /\ f.linked = w.linked /\ f.inUse = w.inUse /\ f.tx = <<>> /\ f.rx = w.rx
            /\ f.writeError = w.writeError /\ f.halfSent = w.halfSent /\ f.accepted = w.accepted \o <<b>>
            /\ f.received = w.received /\ f.taken = w.taken /\ f.sent = w.sent \o (w.tx \o <<b>>)
        BY <1>3, <3>1, <4>1, <4>2 DEF Counted, Worlds
      <4>4. Broken(f) = Broken(w) BY <4>3 DEF Broken
      <4>5. Prefix(w.accepted, f.accepted) /\ Prefix(w.sent, f.sent) BY <1>1, <1>2, <4>2, <4>3, PrefixOfConcat
      <4>6. ~Broken(f) => f.accepted = f.sent \o f.tx
        <5>1. ~Broken(f) => w.accepted = w.sent \o w.tx BY <1>1, <4>4 DEF Sound
        <5>2. (w.sent \o w.tx) \o <<b>> = w.sent \o (w.tx \o <<b>>) BY <1>1, <4>2, Regroup
        <5>3. f.sent \in Bytes BY <4>3 DEF Worlds
        <5>4. f.sent \o f.tx = f.sent BY <4>3, <5>3, Lengths
        <5> QED BY <4>3, <5>1, <5>2, <5>4
      <4>7. Len(f.tx) <= TxSize /\ Len(f.tx) < TxSize BY <1>1, <2>6, <4>3
      <4>8. Sound(f) /\ Step(w, f) BY <1>1, <2>2, <4>3, <4>4, <4>5, <4>6, <4>7, TransmitEffect
      <4> QED BY <4>7, <4>8 DEF Good
    <3> QED BY <3>3, <3>4
  <2>8. CASE n # Len(v.tx)
    <3> DEFINE e == F(n)
    <3> HIDE DEF v
    <3>1. /\ e \in Worlds /\ e.linked = v.linked /\ e.inUse = v.inUse /\ e.tx = <<>> /\ e.rx = v.rx
          /\ e.writeError /\ e.received = v.received /\ e.taken = v.taken
      BY <1>3, <2>6, PartSentFields
    <3>2. g = CheckLink(e, connected) BY <2>4, <2>8
    <3> HIDE DEF e
    <3>3. Broken(e) /\ Len(e.tx) < TxSize BY <1>1, <2>6, <3>1 DEF Broken
    <3>4. Good(g) /\ Step(w, g) BY <1>1, <1>3, <2>2, <3>1, <3>2, <3>3, FailedGood
    <3>5. g.writeError BY <3>1, <3>2 DEF CheckLink, Free, Worlds
    <3> QED BY <2>3, <3>4, <3>5
  <2> QED BY <2>7, <2>8
<1> QED BY <1>4, <1>5, <1>6

\* sendData() of a file or a callback, when the buffer is empty
LEMMA SentFileGood ==
  ASSUME NEW v, Good(v), v.tx = <<>>, NEW data \in Bytes, NEW f \in SentFile(v, data)
  PROVE  Good(f) /\ Step(v, f)
<1> DEFINE S(n) == Counted(Sent(v, data, n), First(data, n))
           E(n) == [Sent(v, data, n) EXCEPT !.halfSent = TRUE]
<1>1. /\ v \in Worlds /\ v.tx \in Bytes /\ v.sent \in Bytes /\ Len(data) \in Nat
      /\ Len(v.tx) < TxSize /\ (v.linked => v.inUse) /\ Sound(v)
  BY Lengths DEF Good, Sound, Worlds
<1>2. \/ \E n \in Reports(v, Len(data)) : f = CheckLink(S(n), connected)
      \/ \E n \in Reports(v, Len(data) - 1) \ {0} : f = CheckLink(E(n), connected)
  BY DEF SentFile
<1>3. CASE \E n \in Reports(v, Len(data)) : f = CheckLink(S(n), connected)
  <2>1. PICK n \in Reports(v, Len(data)) : f = CheckLink(S(n), connected) BY <1>3
  <2>2. n \in 0 .. Len(data) /\ (v.linked \/ n = 0) BY <1>1, <2>1 DEF Reports
  <2>3. Good(S(n)) /\ Step(v, S(n)) BY <2>2, CountedGood
  <2> HIDE DEF S
  <2>4. Good(f) /\ Step(S(n), f) BY <2>1, <2>3, CheckLinkGood
  <2> QED BY <1>1, <2>3, <2>4, StepTransitive
<1>4. CASE \E n \in Reports(v, Len(data) - 1) \ {0} : f = CheckLink(E(n), connected)
  <2>1. PICK n \in Reports(v, Len(data) - 1) \ {0} : f = CheckLink(E(n), connected) BY <1>4
  <2>2. n \in 0 .. Len(data) /\ v.linked BY <1>1, <2>1 DEF Reports
  <2>3. First(data, n) \in Bytes BY <2>2, Split
  <2>4. v.sent \o First(data, n) \in Bytes BY <1>1, <2>3, Concat
  <2>5. /\ E(n) \in Worlds /\ E(n).inUse = v.inUse /\ E(n).linked = v.linked /\ E(n).rx = v.rx
        /\ E(n).received = v.received /\ E(n).taken = v.taken /\ E(n).tx = v.tx /\ E(n).halfSent
    BY <1>1, <2>4 DEF Sent, Worlds
  <2> HIDE DEF E
  <2>6. Broken(E(n)) /\ v.inUse BY <1>1, <2>2, <2>5 DEF Broken
  <2> QED BY <1>1, <2>1, <2>5, <2>6, FailedGood
<1> QED BY <1>2, <1>3, <1>4

----------------------------------------------------------------------------
(* The receive buffer. *)

\* What is enough for a part of a call that leaves the transmit buffer alone.
LEMMA ReceiveEffect ==
  ASSUME NEW u, Good(u), u.inUse, NEW v \in Worlds,
         v.inUse = u.inUse, v.linked = u.linked, v.tx = u.tx, v.accepted = u.accepted, v.sent = u.sent,
         v.writeError = u.writeError, v.halfSent = u.halfSent,
         Len(v.rx) <= RxSize, v.received = v.taken \o v.rx,
         Prefix(u.received, v.received), Prefix(u.taken, v.taken)
  PROVE  Good(v) /\ Step(u, v)
<1>1. Broken(v) = Broken(u) BY DEF Broken
<1>2. Good(v) BY <1>1 DEF Good, Sound
<1>3. u.accepted \in Bytes /\ u.sent \in Bytes BY DEF Good, Sound, Worlds
<1>4. Prefix(u.accepted, v.accepted) /\ Prefix(u.sent, v.sent) BY <1>3, PrefixReflexive
<1> QED BY <1>1, <1>2, <1>4 DEF Step

\* The buffer is empty, and filled with n bytes.
LEMMA FilledGood ==
  ASSUME NEW v, Good(v), v.inUse, v.rx = <<>>, queue \in Bytes, NEW n \in 0 .. Len(queue), n <= RxSize
  PROVE  Good(Filled(v, n)) /\ Step(v, Filled(v, n)) /\ Filled(v, n).tx = v.tx
<1> DEFINE d == First(queue, n)
           f == Filled(v, n)
<1>1. v \in Worlds /\ v.received \in Bytes /\ v.taken \in Bytes BY DEF Good, Sound, Worlds
<1>2. d \in Bytes /\ Len(d) = n BY Split
<1>3. v.received \o d \in Bytes BY <1>1, <1>2, Concat
<1>4. /\ f \in Worlds /\ f.inUse = v.inUse /\ f.linked = v.linked /\ f.tx = v.tx
      /\ f.accepted = v.accepted /\ f.sent = v.sent /\ f.writeError = v.writeError /\ f.halfSent = v.halfSent
      /\ f.rx = d /\ f.received = v.received \o d /\ f.taken = v.taken
  <2> HIDE DEF d
  <2> QED BY <1>1, <1>2, <1>3 DEF Filled, Worlds, d
<1> HIDE DEF f, d
<1>5. v.received = v.taken BY <1>1, Lengths DEF Good, Sound
<1>6. Prefix(v.received, f.received) /\ Prefix(v.taken, f.taken)
  BY <1>1, <1>2, <1>4, PrefixOfConcat, PrefixReflexive
<1>7. Good(f) /\ Step(v, f) BY <1>2, <1>4, <1>5, <1>6, ReceiveEffect
<1> QED BY <1>4, <1>7 DEF f

\* The buffer is empty, and passed by.
LEMMA TookDirectlyGood ==
  ASSUME NEW v, Good(v), v.inUse, v.rx = <<>>, queue \in Bytes, NEW n \in 0 .. Len(queue)
  PROVE  Good(TookDirectly(v, n)) /\ Step(v, TookDirectly(v, n))
<1> DEFINE d == First(queue, n)
           f == TookDirectly(v, n)
<1>1. v \in Worlds /\ v.received \in Bytes /\ v.taken \in Bytes BY DEF Good, Sound, Worlds
<1>2. d \in Bytes BY Split
<1>3. v.received \o d \in Bytes /\ v.taken \o d \in Bytes BY <1>1, <1>2, Concat
<1>4. /\ f \in Worlds /\ f.inUse = v.inUse /\ f.linked = v.linked /\ f.tx = v.tx
      /\ f.accepted = v.accepted /\ f.sent = v.sent /\ f.writeError = v.writeError /\ f.halfSent = v.halfSent
      /\ f.rx = v.rx /\ f.received = v.received \o d /\ f.taken = v.taken \o d
  <2> HIDE DEF d
  <2> QED BY <1>1, <1>2, <1>3 DEF TookDirectly, Worlds, d
<1> HIDE DEF f, d
<1>5. v.received = v.taken BY <1>1, Lengths DEF Good, Sound
<1>6. f.taken \o f.rx = f.taken BY <1>3, <1>4, Lengths
<1>7. Prefix(v.received, f.received) /\ Prefix(v.taken, f.taken) BY <1>1, <1>2, <1>4, PrefixOfConcat
<1>8. Len(f.rx) <= RxSize BY <1>4 DEF Good, Sound
<1>9. Good(f) /\ Step(v, f) BY <1>4, <1>5, <1>6, <1>7, <1>8, ReceiveEffect
<1> QED BY <1>9 DEF f

\* n bytes are taken out of the buffer.
LEMMA TookGood ==
  ASSUME NEW v, Good(v), v.inUse, NEW n \in 0 .. Len(v.rx)
  PROVE  Good(Took(v, n)) /\ Step(v, Took(v, n))
<1> DEFINE d == First(v.rx, n)
           r == From(v.rx, n)
           f == Took(v, n)
<1>1. /\ v \in Worlds /\ v.received \in Bytes /\ v.taken \in Bytes /\ v.rx \in Bytes
      /\ Len(v.rx) \in Nat /\ Len(v.rx) <= RxSize
  BY Lengths DEF Good, Sound, Worlds
<1>2. d \in Bytes /\ r \in Bytes /\ d \o r = v.rx /\ Len(r) = Len(v.rx) - n BY <1>1, Split
<1>3. v.taken \o d \in Bytes BY <1>1, <1>2, Concat
<1>4. /\ f \in Worlds /\ f.inUse = v.inUse /\ f.linked = v.linked /\ f.tx = v.tx
      /\ f.accepted = v.accepted /\ f.sent = v.sent /\ f.writeError = v.writeError /\ f.halfSent = v.halfSent
      /\ f.rx = r /\ f.received = v.received /\ f.taken = v.taken \o d
  <2> HIDE DEF d, r
  <2> QED BY <1>1, <1>2, <1>3 DEF Took, Worlds, d, r
<1> HIDE DEF f, d, r
<1>5. (v.taken \o d) \o r = v.taken \o (d \o r)
  <2>1. v.taken \in Bytes BY <1>1
  <2>2. d \in Bytes /\ r \in Bytes BY <1>2
  <2> QED BY <2>1, <2>2, Regroup
<1>6. f.received = f.taken \o f.rx BY <1>2, <1>4, <1>5 DEF Good, Sound
<1>7. Prefix(v.received, f.received) /\ Prefix(v.taken, f.taken)
  BY <1>1, <1>2, <1>4, PrefixOfConcat, PrefixReflexive
<1>8. Len(f.rx) <= RxSize BY <1>1, <1>2, <1>4, SizesAssumption
<1>9. Good(f) /\ Step(v, f) BY <1>4, <1>6, <1>7, <1>8, ReceiveEffect
<1> QED BY <1>9 DEF f

\* available() when it is 0
LEMMA NoneAvailableGood ==
  ASSUME NEW v, Good(v), NEW f \in NoneAvailable(v)
  PROVE  Good(f) /\ Step(v, f)
<1>1. Sound(v) BY DEF Good
<1>2. f = Free(v) \/ f = CheckLink(v, FALSE) \/ f \in Flushed(v) BY DEF NoneAvailable
<1> QED BY <1>1, <1>2, FreeGood, CheckLinkGood, FlushedGood

----------------------------------------------------------------------------
(* The inductive invariant. *)

Calls == [op : {"none", "write", "file", "read"}, rest : Bytes, want : Nat]

\* A file is sent when nothing is left in the buffer before it.
Inv ==
  /\ Good(w)
  /\ call \in Calls /\ connected \in BOOLEAN /\ queue \in Bytes
  /\ call.op = "file" => w.tx = <<>>

\* A free stream is taken for a new connection.
Opened ==
  /\ ~w.inUse /\ w'.inUse /\ Unused(w)'
  /\ Broken(w)' = Broken(w)

\* The invariant holds at first,
LEMMA InitInv == Init => Inv
<1> SUFFICES ASSUME Init PROVE Inv OBVIOUS
<1>1. <<>> \in Bytes /\ Len(<<>>) = 0 /\ <<>> \o <<>> = <<>> BY EmptySeq, ConcatEmptySeq DEF Bytes
<1>2. Good(w) BY <1>1, SizesAssumption DEF Init, Good, Sound, Worlds, Unused, Broken
<1>3. call \in Calls BY <1>1 DEF Init, Calls, NoCall
<1> QED BY <1>1, <1>2, <1>3 DEF Init, Inv, NoCall

\* The ghosts of a broken stream are cleared; what is good stays good.
LEMMA FollowedGood ==
  ASSUME NEW u, NEW v, Good(v), Step(u, v)
  PROVE  Good(Followed(v)) /\ Step(u, Followed(v)) /\ Followed(v).tx = v.tx
<1>1. CASE ~Broken(v) BY <1>1 DEF Followed
<1>2. CASE Broken(v)
  <2> DEFINE f == [v EXCEPT !.accepted = <<>>, !.sent = <<>>]
  <2>1. v \in Worlds /\ <<>> \in Bytes BY EmptySeq DEF Good, Sound, Bytes
  <2>2. /\ f \in Worlds /\ f.linked = v.linked /\ f.inUse = v.inUse /\ f.tx = v.tx /\ f.rx = v.rx
        /\ f.writeError = v.writeError /\ f.halfSent = v.halfSent
        /\ f.received = v.received /\ f.taken = v.taken /\ f.accepted = <<>> /\ f.sent = <<>>
    BY <2>1 DEF Worlds
  <2> HIDE DEF f
  <2>3. Broken(f) BY <1>2, <2>2 DEF Broken
  <2>4. Good(f) BY <2>2, <2>3 DEF Good, Sound, Unused
  <2>5. Step(u, f) BY <2>2, <2>3 DEF Step
  <2>6. Followed(v) = f BY <1>2 DEF Followed, f
  <2> QED BY <2>2, <2>4, <2>5, <2>6
<1> QED BY <1>1, <1>2

\* What a call does with the stream, when every outcome is good.
LEMMA DoesGood ==
  ASSUME NEW worlds, Does(worlds), \A f \in worlds : Good(f) /\ Step(w, f)
  PROVE  Good(w)' /\ Step(w, w')
<1>1. PICK f \in worlds : w' = Followed(f) BY DEF Does
<1>2. Good(w') /\ Step(w, w') BY <1>1, FollowedGood
<1> QED BY <1>2 DEF Good, Sound, Unused, Broken

\* The steps, the writing ones first.
LEMMA WritingSteps ==
  ASSUME Inv, Flush \/ AvailableForWrite \/ Available \/ WriteLevel \/ FileLevel
              \/ \E data \in Data : Write(data) \/ WriteFile(data) \/ (data # <<>> /\ WriteByte(Head(data)))
  PROVE  Inv' /\ Step(w, w')
<1>1. Good(w) /\ Sound(w) /\ w \in Worlds /\ Step(w, w) BY StepReflexive DEF Inv, Good, Sound
<1>2. NoCall \in Calls /\ NoCall.op # "file" BY EmptySeq DEF NoCall, Calls, Bytes
<1>3. ASSUME Idle, UNCHANGED call, UNCHANGED driver, Good(w)', Step(w, w') PROVE Inv' /\ Step(w, w')
  BY <1>2, <1>3 DEF Inv, Idle, driver
<1>4. CASE Flush
  <2>1. \A f \in Flushed(w) : Good(f) /\ Step(w, f) BY <1>1, FlushedGood
  <2>2. Good(w)' /\ Step(w, w') BY <1>4, <2>1, DoesGood DEF Flush
  <2> QED BY <1>3, <1>4, <2>2 DEF Flush
<1>5. CASE AvailableForWrite
  <2>1. Good([w EXCEPT !.writeError = TRUE]) /\ Step(w, [w EXCEPT !.writeError = TRUE]) BY <1>1, ErrorGood
  <2>2. Good(w)' /\ Step(w, w') BY <1>5, <2>1, DoesGood DEF AvailableForWrite
  <2> QED BY <1>3, <1>5, <2>2 DEF AvailableForWrite
<1>6. CASE Available
  <2>1. \A f \in NoneAvailable(w) : Good(f) /\ Step(w, f) BY <1>1, NoneAvailableGood
  <2>2. Good(w)' /\ Step(w, w') BY <1>6, <2>1, DoesGood DEF Available
  <2> QED BY <1>3, <1>6, <2>2 DEF Available
<1>7. CASE WriteLevel
  <2>1. call.op = "write" /\ call.rest \in Bytes BY <1>7 DEF WriteLevel, Inv, Calls
  <2>2. \A f \in Wrote(w, call.rest) : Good(f) /\ Step(w, f) BY <1>1, <2>1, WroteGood
  <2>3. Good(w)' /\ Step(w, w') BY <1>7, <2>2, DoesGood DEF WriteLevel
  <2>4. Left(w, call.rest) \in Bytes
    <3>1. CASE Left(w, call.rest) = <<>> BY <3>1, EmptySeq DEF Bytes
    <3>2. CASE Left(w, call.rest) # <<>>
      <4>1. Left(w, call.rest) = From(call.rest, Space(w)) /\ ~(Len(call.rest) <= Space(w))
        BY <3>2 DEF Left
      <4>2. /\ w.tx \in Bytes /\ Len(w.tx) \in Nat /\ Len(call.rest) \in Nat /\ Len(w.tx) < TxSize
            /\ TxSize \in Nat
        BY <1>1, <2>1, Lengths, SizesAssumption DEF Worlds, Good
      <4>3. Space(w) \in 0 .. Len(call.rest)
        <5>1. Space(w) = TxSize - Len(w.tx) BY DEF Space
        <5>2. Space(w) \in Nat BY <4>2, <5>1
        <5>3. ~(Len(call.rest) <= Space(w)) BY <4>1
        <5> QED BY <4>2, <5>2, <5>3
      <4> QED BY <2>1, <4>1, <4>3, Split
    <3> QED BY <3>1, <3>2
  <2>5. call' \in Calls /\ call'.op # "file"
    <3>1. CASE call' = NoCall BY <1>2, <3>1
    <3>2. CASE call' = [call EXCEPT !.rest = Left(w, call.rest)]
      BY <2>1, <2>4, <3>2 DEF Inv, Calls
    <3> QED BY <1>7, <3>1, <3>2 DEF WriteLevel
  <2> QED BY <1>7, <2>3, <2>5 DEF WriteLevel, Inv, driver
<1>8. CASE FileLevel
  <2>1. call.op = "file" /\ call.rest \in Bytes /\ w.tx = <<>> BY <1>8 DEF FileLevel, Inv, Calls
  <2>2. \A f \in SentFile(w, call.rest) : Good(f) /\ Step(w, f) BY <1>1, <2>1, SentFileGood
  <2>3. Good(w)' /\ Step(w, w') BY <1>8, <2>2, DoesGood DEF FileLevel
  <2> QED BY <1>2, <1>8, <2>3 DEF FileLevel, Inv, driver
<1>9. ASSUME NEW data \in Data, Write(data) PROVE Inv' /\ Step(w, w')
  <2>1. data \in Bytes BY DataAssumption DEF Bytes
  <2>2. call' \in Calls /\ call'.op = "write" BY <1>9, <2>1 DEF Write, Begin, Calls
  <2>3. w' = w /\ UNCHANGED driver BY <1>9 DEF Write
  <2> QED BY <1>1, <2>2, <2>3 DEF Inv, driver, Good, Sound, Unused, Broken
<1>10. ASSUME NEW data \in Data, WriteFile(data) PROVE Inv' /\ Step(w, w')
  <2>1. data \in Bytes BY DataAssumption DEF Bytes
  <2>2. call' \in Calls BY <1>10, <2>1 DEF WriteFile, Begin, Calls
  <2>3. \A f \in Flushed(w) : Good(f) /\ Step(w, f) /\ f.tx = <<>> BY <1>1, FlushedGood
  <2>4. Good(w)' /\ Step(w, w') BY <1>10, <2>3, DoesGood DEF WriteFile
  <2>5. w'.tx = <<>>
    <3>1. PICK f \in Flushed(w) : w' = Followed(f) BY <1>10 DEF WriteFile, Does
    <3> QED BY <2>3, <3>1, FollowedGood
  <2> QED BY <1>10, <2>2, <2>4, <2>5 DEF WriteFile, Inv, driver
<1>11. ASSUME NEW data \in Data, data # <<>>, WriteByte(Head(data)) PROVE Inv' /\ Step(w, w')
  <2>1. Head(data) \in Nat BY <1>11, DataAssumption, HeadTailProperties
  <2>2. \A f \in WroteByte(Head(data)) : Good(f) /\ Step(w, f) BY <1>1, <2>1, WroteByteGood
  <2>3. Good(w)' /\ Step(w, w') BY <1>11, <2>2, DoesGood DEF WriteByte
  <2> QED BY <1>3, <1>11, <2>3 DEF WriteByte
<1> QED BY <1>4, <1>5, <1>6, <1>7, <1>8, <1>9, <1>10, <1>11

\* Those that read, and those that end the connection.
LEMMA ReadingSteps ==
  ASSUME Inv, ReadLevel \/ Peek \/ Connected \/ Close \/ \E size \in Sizes : Read(size)
  PROVE  Inv' /\ Step(w, w')
<1>1. /\ Good(w) /\ Sound(w) /\ w \in Worlds /\ Step(w, w) /\ queue \in Bytes /\ Len(queue) \in Nat
      /\ w.rx \in Bytes /\ Len(w.rx) \in Nat /\ (w.linked => w.inUse)
  BY StepReflexive, Lengths DEF Inv, Good, Sound, Worlds
<1>2. NoCall \in Calls /\ NoCall.op # "file" BY EmptySeq DEF NoCall, Calls, Bytes
<1>3. ASSUME NEW n \in 0 .. Len(queue), Receives(n) PROVE queue' \in Bytes /\ connected' \in BOOLEAN
  BY <1>1, <1>3, Split DEF Receives, Inv
<1>4. ASSUME NEW m \in Nat, NEW n \in Handed(m) PROVE n \in 0 .. Len(queue) /\ n <= m
  BY <1>1, <1>4 DEF Handed, Shorter
<1>5. Good(w') /\ Step(w, w') => Good(w)' BY DEF Good, Sound, Unused, Broken
<1>6. \A f \in NoneAvailable(w) : Good(f) /\ Step(w, f) BY <1>1, NoneAvailableGood
<1>7. TxSize \in Nat /\ RxSize \in Nat BY SizesAssumption
<1>8. CASE ReadLevel
  <2>1. call.op = "read" /\ call \in Calls /\ call.want \in Nat BY <1>8 DEF ReadLevel, Inv, Calls
  <2>2. CASE call.want = 0 /\ call' = NoCall /\ UNCHANGED <<w, driver>>
    BY <1>1, <1>2, <1>5, <2>2 DEF Inv, driver
  <2>3. CASE call.want > 0 /\ Does(NoneAvailable(w)) /\ call' = NoCall /\ UNCHANGED driver
    <3>1. Good(w)' /\ Step(w, w') BY <1>6, <2>3, DoesGood
    <3> QED BY <1>2, <2>3, <3>1 DEF Inv, driver
  <2>4. CASE /\ call.want > RxSize /\ CanFill(w) /\ call' = NoCall
             /\ \E n \in Handed(call.want) : w' = TookDirectly(w, n) /\ Receives(n)
    <3>1. PICK n \in Handed(call.want) : w' = TookDirectly(w, n) /\ Receives(n) BY <2>4
    <3>2. n \in 0 .. Len(queue) BY <1>4, <2>1, <3>1
    <3>3. w.inUse /\ w.rx = <<>> BY <1>1, <2>4 DEF CanFill
    <3>4. Good(w') /\ Step(w, w') BY <1>1, <3>1, <3>2, <3>3, TookDirectlyGood
    <3>5. queue' \in Bytes /\ connected' \in BOOLEAN BY <1>3, <3>1, <3>2
    <3> QED BY <1>2, <1>5, <2>4, <3>4, <3>5 DEF Inv
  <2>5. CASE /\ call.want \in 1 .. RxSize /\ CanFill(w) /\ UNCHANGED call
             /\ \E n \in Handed(RxSize) : w' = Filled(w, n) /\ Receives(n)
    <3>1. PICK n \in Handed(RxSize) : w' = Filled(w, n) /\ Receives(n) BY <2>5
    <3>2. n \in 0 .. Len(queue) /\ n <= RxSize BY <1>4, <1>7, <3>1
    <3>3. w.inUse /\ w.rx = <<>> BY <1>1, <2>5 DEF CanFill
    <3>4. Good(w') /\ Step(w, w') BY <1>1, <3>1, <3>2, <3>3, FilledGood
    <3>5. queue' \in Bytes /\ connected' \in BOOLEAN BY <1>3, <3>1, <3>2
    <3> QED BY <1>5, <2>1, <2>5, <3>4, <3>5 DEF Inv
  <2>6. CASE /\ call.want > 0 /\ w.rx # <<>> /\ UNCHANGED driver
             /\ LET n == Shorter(call.want, Len(w.rx))
                IN  /\ w' = Took(w, n)
                    /\ call' = IF n = call.want THEN NoCall ELSE [call EXCEPT !.want = @ - n]
    <3> DEFINE n == Shorter(call.want, Len(w.rx))
    <3>1. n \in 0 .. Len(w.rx) /\ n <= call.want BY <1>1, <2>1 DEF Shorter
    <3>2. w.inUse BY <1>1, <2>6 DEF Sound, Unused
    <3>3. w' = Took(w, n) /\ call' = IF n = call.want THEN NoCall ELSE [call EXCEPT !.want = @ - n] BY <2>6
    <3> HIDE DEF n
    <3>4. Good(w') /\ Step(w, w') BY <1>1, <3>1, <3>2, <3>3, TookGood
    <3>5. call' \in Calls /\ call'.op # "file"
      <4>1. call.want - n \in Nat BY <1>1, <2>1, <3>1
      <4>2. CASE call' = [call EXCEPT !.want = @ - n] BY <2>1, <4>1, <4>2 DEF Calls
      <4> QED BY <1>2, <3>3, <4>2
    <3> QED BY <1>5, <2>6, <3>4, <3>5 DEF Inv, driver
  <2> QED BY <1>8, <2>2, <2>3, <2>4, <2>5, <2>6 DEF ReadLevel
<1>9. CASE Peek
  <2>1. Idle /\ UNCHANGED call BY <1>9 DEF Peek
  <2>2. CASE Does(NoneAvailable(w)) /\ UNCHANGED driver
    <3>1. Good(w)' /\ Step(w, w') BY <1>6, <2>2, DoesGood
    <3> QED BY <1>2, <2>1, <2>2, <3>1 DEF Inv, Idle, driver
  <2>3. CASE CanFill(w) /\ \E n \in Handed(RxSize) : w' = Filled(w, n) /\ Receives(n)
    <3>1. PICK n \in Handed(RxSize) : w' = Filled(w, n) /\ Receives(n) BY <2>3
    <3>2. n \in 0 .. Len(queue) /\ n <= RxSize BY <1>4, <1>7, <3>1
    <3>3. w.inUse /\ w.rx = <<>> BY <1>1, <2>3 DEF CanFill
    <3>4. Good(w') /\ Step(w, w') BY <1>1, <3>1, <3>2, <3>3, FilledGood
    <3>5. queue' \in Bytes /\ connected' \in BOOLEAN BY <1>3, <3>1, <3>2
    <3> QED BY <1>2, <1>5, <2>1, <3>4, <3>5 DEF Inv, Idle
  <2> QED BY <1>9, <2>2, <2>3 DEF Peek
<1>10. CASE Connected
  <2>1. w' = CheckLink(w, connected) /\ Idle /\ UNCHANGED <<call, driver>> BY <1>10 DEF Connected
  <2>2. Good(w') /\ Step(w, w') BY <1>1, <2>1, CheckLinkGood
  <2> QED BY <1>2, <1>5, <2>1, <2>2 DEF Inv, Idle, driver
<1>11. CASE Close
  <2>1. w' = Free(w) /\ Idle /\ UNCHANGED call /\ connected' = FALSE /\ queue' = <<>> BY <1>11 DEF Close
  <2>2. Good(w') /\ Step(w, w') BY <1>1, <2>1, FreeGood
  <2> QED BY <1>2, <1>5, <2>1, <2>2, EmptySeq DEF Inv, Idle, Bytes
<1>12. ASSUME NEW size \in Sizes, Read(size) PROVE Inv' /\ Step(w, w')
  <2>1. call' \in Calls /\ call'.op = "read" BY <1>12, DataAssumption, EmptySeq DEF Read, Begin, Calls, Bytes
  <2>2. w' = w /\ UNCHANGED driver BY <1>12 DEF Read
  <2> QED BY <1>1, <1>5, <2>1, <2>2 DEF Inv, driver
<1> QED BY <1>8, <1>9, <1>10, <1>11, <1>12

\* A stream is taken for a new connection.
LEMMA AttachStep ==
  ASSUME Inv, Attach
  PROVE  Inv' /\ Opened
<1>1. /\ Idle /\ ~w.inUse /\ w' = [w EXCEPT !.inUse = TRUE, !.linked = TRUE]
      /\ connected' = TRUE /\ queue' = <<>> /\ UNCHANGED call
  BY DEF Attach
<1>2. w \in Worlds /\ Unused(w) /\ Good(w) BY <1>1 DEF Inv, Good, Sound
<1>3. /\ w' \in Worlds /\ w'.linked /\ w'.inUse /\ w'.tx = w.tx /\ w'.rx = w.rx
      /\ w'.writeError = w.writeError /\ w'.halfSent = w.halfSent
      /\ w'.received = w.received /\ w'.taken = w.taken /\ w'.accepted = w.accepted /\ w'.sent = w.sent
  BY <1>1, <1>2 DEF Worlds
<1>4. Unused(w)' /\ Broken(w)' = Broken(w) BY <1>2, <1>3 DEF Unused, Broken
<1>5. Good(w)' BY <1>2, <1>3, <1>4 DEF Good, Sound, Unused, Broken
<1>6. call.op # "file" BY <1>1 DEF Idle, NoCall
<1> QED BY <1>1, <1>3, <1>4, <1>5, <1>6, EmptySeq DEF Inv, Opened, Bytes

\* The peer and the driver leave the stream alone.
LEMMA EnvironmentStep ==
  ASSUME Inv, Environment
  PROVE  Inv' /\ Step(w, w')
<1>1. w' = w /\ call' = call BY DEF Environment
<1>2. Good(w)' /\ Step(w, w')
  <2>1. Good(w) /\ Step(w, w) BY StepReflexive DEF Inv, Good, Sound
  <2> QED BY <1>1, <2>1 DEF Good, Sound, Unused, Broken
<1>3. queue' \in Bytes /\ connected' \in BOOLEAN
  <2>1. queue \in Bytes /\ w.received \in Bytes BY DEF Inv, Good, Sound, Worlds
  <2>2. Len(w.received) + Len(queue) \in Nat
    <3>1. Len(w.received) \in Nat /\ Len(queue) \in Nat BY <2>1, Lengths
    <3> QED BY <3>1
  <2>3. Append(queue, Len(w.received) + Len(queue)) \in Bytes BY <2>1, <2>2, AppendProperties DEF Bytes
  <2>4. queue # <<>> => Tail(queue) \in Bytes BY <2>1, HeadTailProperties DEF Bytes
  <2> QED BY <2>1, <2>3, <2>4 DEF Environment, Inv
<1> QED BY <1>1, <1>2, <1>3 DEF Inv

\* and every step preserves it, and opens, moves or closes the buffers.
LEMMA NextInv == Inv /\ [Next]_vars => Inv' /\ (Opened \/ Step(w, w'))
<1> SUFFICES ASSUME Inv, [Next]_vars PROVE Inv' /\ (Opened \/ Step(w, w')) OBVIOUS
<1>1. CASE UNCHANGED vars
  <2>1. Step(w, w) BY StepReflexive DEF Inv, Good, Sound
  <2> QED BY <1>1, <2>1 DEF Inv, vars, Good, Sound, Unused, Broken
<1>2. CASE Sketch BY <1>2, WritingSteps, ReadingSteps, AttachStep DEF Sketch
<1>3. CASE Environment BY <1>3, EnvironmentStep
<1> QED BY <1>1, <1>2, <1>3 DEF Next

\* It contains the type invariant.
LEMMA InvType == Inv => TypeOK
BY DEF Inv, Good, Sound, Worlds, Unused, Calls, TypeOK

----------------------------------------------------------------------------
(* What is left to read keeps the stream in use: each part of a call leaves *)
(* such a stream and its receive buffer alone.                              *)

Kept(u, v) == v.rx = u.rx /\ v.inUse = u.inUse /\ DOMAIN v = DOMAIN u

Fields == {"inUse", "linked", "tx", "rx", "writeError", "accepted", "sent", "halfSent"}

\* checkLink() frees a stream only if nothing is left to read.
LEMMA CheckLinkKeeps ==
  ASSUME NEW v, v.rx # <<>>, {"rx", "inUse", "linked"} \subseteq DOMAIN v, NEW active
  PROVE  Kept(v, CheckLink(v, active))
<1>1. CheckLink(v, active) = v \/ CheckLink(v, active) = [v EXCEPT !.linked = FALSE] BY DEF CheckLink
<1>2. Kept(v, v) /\ Kept(v, [v EXCEPT !.linked = FALSE]) BY DEF Kept
<1> QED BY <1>1, <1>2

\* flush()
LEMMA FlushedKeepsRx ==
  ASSUME NEW v, v.rx # <<>>, Fields \subseteq DOMAIN v, NEW f \in Flushed(v)
  PROVE  Kept(v, f)
<1>1. CASE v.tx = <<>> BY <1>1 DEF Flushed, Kept
<1>2. CASE v.tx # <<>>
  <2> DEFINE s(n) == [Sent(v, v.tx, n) EXCEPT !.tx = <<>>]
             e(n) == [s(n) EXCEPT !.writeError = TRUE]
  <2>1. PICK n \in Reports(v, Len(v.tx)) : f = s(n) \/ f = CheckLink(e(n), connected) BY <1>2 DEF Flushed
  <2>2. Kept(v, s(n)) /\ Kept(v, e(n)) BY DEF Kept, Sent, Fields
  <2> HIDE DEF e, s
  <2>3. Kept(e(n), CheckLink(e(n), connected)) BY <2>2, CheckLinkKeeps DEF Kept, Fields
  <2> QED BY <2>1, <2>2, <2>3 DEF Kept
<1> QED BY <1>1, <1>2

\* write(b)
LEMMA WroteByteKeepsRx ==
  ASSUME NEW v, v = w, v.rx # <<>>, Fields \subseteq DOMAIN v, NEW b, NEW f \in WroteByte(b)
  PROVE  Kept(v, f)
<1> DEFINE t == [v EXCEPT !.tx = @ \o <<b>>]
<1>1. Kept(v, t) BY DEF Kept, Fields
<1>2. CASE f = [v EXCEPT !.writeError = TRUE] BY <1>2 DEF Kept, Fields
<1>3. CASE f = Counted(t, <<b>>) BY <1>3 DEF Kept, Fields, Counted
<1> HIDE DEF t
<1>4. ASSUME NEW g \in Flushed(t), f = g \/ f = Counted(g, <<b>>) PROVE Kept(v, f)
  <2>1. Kept(t, g) BY <1>1, FlushedKeepsRx DEF Kept
  <2>2. CASE f = g BY <1>1, <2>1, <2>2 DEF Kept
  <2>3. CASE f = Counted(g, <<b>>)
    <3>1. Counted(g, <<b>>) = [g EXCEPT !.accepted = @ \o <<b>>] BY DEF Counted
    <3>2. Fields \subseteq DOMAIN g BY <1>1, <2>1 DEF Kept
    <3>3. Kept(g, Counted(g, <<b>>)) BY <3>1, <3>2 DEF Kept, Fields
    <3> QED BY <1>1, <2>1, <2>3, <3>3 DEF Kept
  <2> QED BY <1>4, <2>2, <2>3
<1>5. \/ f = [v EXCEPT !.writeError = TRUE] \/ f = Counted(t, <<b>>)
      \/ \E g \in Flushed(t) : f = g \/ f = Counted(g, <<b>>)
  BY DEF WroteByte, t
<1> QED BY <1>2, <1>3, <1>4, <1>5

\* write(data, length), one level of it
LEMMA WroteKeepsRx ==
  ASSUME NEW v, v.rx # <<>>, Fields \subseteq DOMAIN v, NEW data, NEW f \in Wrote(v, data)
  PROVE  Kept(v, f)
<1>1. CASE f = v \/ f = [v EXCEPT !.writeError = TRUE] BY <1>1 DEF Kept, Fields
<1>2. CASE f \in SentDirectly(v, data)
  <2> DEFINE s(n) == Counted(Sent(v, data, n), First(data, n))
             c(n) == CheckLink(s(n), connected)
  <2>1. PICK n \in Reports(v, Len(data)) : f = s(n) \/ f = [c(n) EXCEPT !.writeError = @ \/ ~c(n).linked]
    BY <1>2 DEF SentDirectly
  <2>2. Kept(v, s(n)) BY DEF Kept, Sent, Counted, Fields
  <2>3. Kept(s(n), c(n)) BY <2>2, CheckLinkKeeps DEF Kept, Fields
  <2> HIDE DEF c, s
  <2>4. Kept(v, [c(n) EXCEPT !.writeError = @ \/ ~c(n).linked]) BY <2>2, <2>3 DEF Kept
  <2> QED BY <2>1, <2>2, <2>4
<1>3. CASE f \in Copied(v, data)
  <2> DEFINE bytes == First(data, Shorter(Space(v), Len(data)))
             c == Counted([v EXCEPT !.tx = @ \o bytes], bytes)
  <2>1. Kept(v, c) BY DEF Kept, Counted, Fields
  <2>2. f \in Flushed(c) \/ f = c BY <1>3 DEF Copied
  <2> HIDE DEF c
  <2>3. f \in Flushed(c) => Kept(c, f) BY <2>1, FlushedKeepsRx DEF Kept
  <2> QED BY <2>1, <2>2, <2>3 DEF Kept
<1> QED BY <1>1, <1>2, <1>3 DEF Wrote

\* sendData() of a file or a callback
LEMMA SentFileKeepsRx ==
  ASSUME NEW v, v.rx # <<>>, Fields \subseteq DOMAIN v, NEW data, NEW f \in SentFile(v, data)
  PROVE  Kept(v, f)
<1> DEFINE s(n) == Counted(Sent(v, data, n), First(data, n))
           h(n) == [Sent(v, data, n) EXCEPT !.halfSent = TRUE]
<1>1. \E n : f = CheckLink(s(n), connected) \/ f = CheckLink(h(n), connected) BY DEF SentFile
<1>2. ASSUME NEW n
      PROVE  Kept(v, s(n)) /\ Kept(v, h(n))
  BY DEF Kept, Sent, Counted, Fields
<1> HIDE DEF s, h
<1>3. ASSUME NEW n PROVE Kept(s(n), CheckLink(s(n), connected)) /\ Kept(h(n), CheckLink(h(n), connected))
  BY <1>2, CheckLinkKeeps DEF Kept, Fields
<1> QED BY <1>1, <1>2, <1>3 DEF Kept

\* What a call does, when every outcome leaves the receive buffer alone.
LEMMA DoesKeepsRx ==
  ASSUME Fields \subseteq DOMAIN w, NEW worlds, Does(worlds), \A f \in worlds : Kept(w, f)
  PROVE  w'.inUse = w.inUse
<1>1. PICK f \in worlds : w' = Followed(f) BY DEF Does
<1>2. Followed(f).inUse = f.inUse
  <2> DEFINE g == [f EXCEPT !.accepted = <<>>, !.sent = <<>>]
  <2>1. "inUse" \in DOMAIN f BY DEF Kept, Fields
  <2>2. g.inUse = f.inUse BY <2>1
  <2> QED BY <2>2 DEF Followed
<1> QED BY <1>1, <1>2 DEF Kept

\* No step but close() drops what is left to read.
LEMMA NextKeepsUnread ==
  ASSUME Inv, [Next]_vars, w.rx # <<>>, ~Close
  PROVE  w'.inUse
<1>1. w \in Worlds /\ w.inUse BY DEF Inv, Good, Sound, Unused
<1>2. Fields \subseteq DOMAIN w BY <1>1 DEF Worlds, Fields
<1>3. \A f \in Flushed(w) : Kept(w, f) BY <1>2, FlushedKeepsRx
<1>4. NoneAvailable(w) = {} BY DEF NoneAvailable
<1>5. CASE Next
  <2>1. ~Attach BY <1>1 DEF Attach
  <2>2. CASE Flush BY <1>1, <1>2, <1>3, <2>2, DoesKeepsRx DEF Flush
  <2>3. CASE AvailableForWrite
    <3>1. Kept(w, [w EXCEPT !.writeError = TRUE]) BY <1>2 DEF Kept, Fields
    <3> QED BY <1>1, <1>2, <2>3, <3>1, DoesKeepsRx DEF AvailableForWrite
  <2>4. CASE Available BY <1>4, <2>4 DEF Available, Does
  <2>5. CASE Peek BY <1>4, <2>5 DEF Peek, Does, CanFill
  <2>6. CASE Connected BY <1>1, <1>2, <2>6, CheckLinkKeeps DEF Connected, Kept, Fields
  <2>7. CASE WriteLevel
    <3>1. \A f \in Wrote(w, call.rest) : Kept(w, f) BY <1>2, WroteKeepsRx
    <3> QED BY <1>1, <1>2, <2>7, <3>1, DoesKeepsRx DEF WriteLevel
  <2>8. CASE FileLevel
    <3>1. \A f \in SentFile(w, call.rest) : Kept(w, f) BY <1>2, SentFileKeepsRx
    <3> QED BY <1>1, <1>2, <2>8, <3>1, DoesKeepsRx DEF FileLevel
  <2>9. CASE ReadLevel
    <3>1. w' = w \/ \E n : w' = Took(w, n) BY <1>4, <2>9 DEF ReadLevel, Does, CanFill
    <3>2. ASSUME NEW n PROVE Took(w, n).inUse = w.inUse BY <1>2 DEF Took, Fields
    <3> QED BY <1>1, <3>1, <3>2
  <2>10. CASE \E data \in Data : Write(data) BY <1>1, <2>10 DEF Write
  <2>11. CASE \E data \in Data : WriteFile(data) BY <1>1, <1>2, <1>3, <2>11, DoesKeepsRx DEF WriteFile
  <2>12. ASSUME NEW b, WriteByte(b) PROVE w'.inUse
    <3>1. \A f \in WroteByte(b) : Kept(w, f) BY <1>2, WroteByteKeepsRx
    <3> QED BY <1>1, <1>2, <2>12, <3>1, DoesKeepsRx DEF WriteByte
  <2>13. CASE \E size \in Sizes : Read(size) BY <1>1, <2>13 DEF Read
  <2>14. CASE Environment BY <1>1, <2>14 DEF Environment
  <2> QED BY <1>5, <2>1, <2>2, <2>3, <2>4, <2>5, <2>6, <2>7, <2>8, <2>9, <2>10, <2>11, <2>12, <2>13, <2>14
          DEF Next, Sketch
<1>6. CASE UNCHANGED vars BY <1>1, <1>6 DEF vars
<1> QED BY <1>5, <1>6

----------------------------------------------------------------------------
(* The theorems. *)

(* The buffers never hold more than they have room for, and nothing when    *)
(* the stream is free.                                                      *)
THEOREM StreamTypeCorrect == Spec => []TypeOK
<1>1. Spec => []Inv BY InitInv, NextInv, PTL DEF Spec
<1> QED BY <1>1, InvType, PTL

(* The stream's write() and the sends of the driver implement Pipe: what is *)
(* counted as written is sent once and in order or still in the buffer,     *)
(* until a write error.                                                     *)
THEOREM TransmitImplementsPipe == Spec => TransmitIsPipe
<1>1. Init => Transmit!Init BY DEF Init, Transmit!Init, Transmit!Empty, Broken
<1>2. Inv /\ Inv' /\ Opened => [Transmit!Next]_(Transmit!vars)
  BY DEF Opened, Unused, Transmit!Next, Transmit!Open, Transmit!Empty, Transmit!vars
<1>3. Inv /\ Inv' /\ Step(w, w') => [Transmit!Next]_(Transmit!vars)
  <2> SUFFICES ASSUME Inv, Inv', Step(w, w') PROVE [Transmit!Next]_(Transmit!vars) OBVIOUS
  <2>1. CASE Broken(w') BY <2>1 DEF Transmit!Next, Broken
  <2>2. CASE ~Broken(w')
    <3>1. ~Broken(w) /\ ~Broken(w)' BY <2>2 DEF Step, Broken
    <3>2. CASE w'.inUse
      <4>1. w.accepted \in Bytes /\ w.sent \in Bytes BY DEF Inv, Good, Sound, Worlds
      <4>2. Prefix(w.accepted, w'.accepted) /\ Prefix(w.sent, w'.sent) /\ w.inUse BY <2>2, <3>2 DEF Step
      <4>3. /\ Len(w.accepted) <= Len(w'.accepted) /\ SubSeq(w'.accepted, 1, Len(w.accepted)) = w.accepted
            /\ Len(w.sent) <= Len(w'.sent) /\ SubSeq(w'.sent, 1, Len(w.sent)) = w.sent
        BY <4>1, <4>2, PrefixExtends
      <4>4. w'.accepted = w'.sent \o w'.tx BY <3>1 DEF Inv, Good, Sound
      <4>5. Transmit!Move BY <3>2, <4>2, <4>3, <4>4 DEF Transmit!Move, Transmit!Extends
      <4> QED BY <3>1, <4>5 DEF Transmit!Next
    <3>3. CASE ~w'.inUse
      <4>1. Unused(w)' BY <3>3 DEF Inv, Good, Sound
      <4>2. CASE w.inUse BY <3>1, <3>3, <4>1, <4>2 DEF Transmit!Next, Transmit!Close, Transmit!Empty, Unused
      <4>3. CASE ~w.inUse
        <5>1. Unused(w) /\ w.inUse = w'.inUse BY <3>3, <4>3 DEF Inv, Good, Sound, Worlds
        <5> QED BY <3>1, <4>1, <5>1 DEF Transmit!vars, Unused, Broken
      <4> QED BY <4>2, <4>3
    <3> QED BY <3>2, <3>3
  <2> QED BY <2>1, <2>2
<1>4. Spec => []Inv BY InitInv, NextInv, PTL DEF Spec
<1> QED BY <1>1, <1>2, <1>3, <1>4, NextInv, PTL DEF Spec, TransmitIsPipe, Transmit!Spec

(* The driver's data and the stream's read() implement Pipe: what was       *)
(* received is read once and in order, or still in the buffer.              *)
THEOREM ReceiveImplementsPipe == Spec => ReceiveIsPipe
<1>1. Init => Receive!Init BY DEF Init, Receive!Init, Receive!Empty
<1>2. Inv /\ Inv' /\ Opened => [Receive!Next]_(Receive!vars)
  BY DEF Opened, Unused, Receive!Next, Receive!Open, Receive!Empty, Receive!vars
<1>3. Inv /\ Inv' /\ Step(w, w') => [Receive!Next]_(Receive!vars)
  <2> SUFFICES ASSUME Inv, Inv', Step(w, w') PROVE [Receive!Next]_(Receive!vars) OBVIOUS
  <2>1. CASE w'.inUse
    <3>1. w.received \in Bytes /\ w.taken \in Bytes BY DEF Inv, Good, Sound, Worlds
    <3>2. Prefix(w.received, w'.received) /\ Prefix(w.taken, w'.taken) /\ w.inUse BY <2>1 DEF Step
    <3>3. /\ Len(w.received) <= Len(w'.received) /\ SubSeq(w'.received, 1, Len(w.received)) = w.received
          /\ Len(w.taken) <= Len(w'.taken) /\ SubSeq(w'.taken, 1, Len(w.taken)) = w.taken
      BY <3>1, <3>2, PrefixExtends
    <3>4. w'.received = w'.taken \o w'.rx BY DEF Inv, Good, Sound
    <3> QED BY <2>1, <3>2, <3>3, <3>4 DEF Receive!Next, Receive!Move, Receive!Extends
  <2>2. CASE ~w'.inUse
    <3>1. Unused(w)' BY <2>2 DEF Inv, Good, Sound
    <3>2. CASE w.inUse BY <2>2, <3>1, <3>2 DEF Receive!Next, Receive!Close, Receive!Empty, Unused
    <3>3. CASE ~w.inUse
      <4>1. Unused(w) /\ w.inUse = w'.inUse BY <2>2, <3>3 DEF Inv, Good, Sound, Worlds
      <4> QED BY <3>1, <4>1 DEF Receive!vars, Unused
    <3> QED BY <3>2, <3>3
  <2> QED BY <2>1, <2>2
<1>4. Spec => []Inv BY InitInv, NextInv, PTL DEF Spec
<1> QED BY <1>1, <1>2, <1>3, <1>4, NextInv, PTL DEF Spec, ReceiveIsPipe, Receive!Spec

(* A stream that loses its link, in whatever call it is noticed, keeps what *)
(* is left to read until it was read or the sketch closes it.               *)
THEOREM UnreadKept == Spec => NothingUnreadDropped
<1>1. Inv /\ [Next]_vars => [w.rx # <<>> /\ ~w'.inUse => Close]_vars BY NextKeepsUnread
<1>2. Spec => []Inv BY InitInv, NextInv, PTL DEF Spec
<1> QED BY <1>1, <1>2, PTL DEF Spec, NothingUnreadDropped
=============================================================================
