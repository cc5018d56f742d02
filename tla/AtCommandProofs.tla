--------------------------- MODULE AtCommandProofs ---------------------------
(***************************************************************************)
(* The command protocol (AtCommand.tla), for any set of calls, any limits of *)
(* readRX and any bounds: types, and that a call takes its own answers,      *)
(* explains its failures and reports refusals.                              *)
(*                                                                          *)
(* The argument has two halves.  What the scripts have in common is stated   *)
(* of a script and its steps, and shown for each script.  The steps of       *)
(* AtCommand are then shown to keep the invariant from these facts alone.   *)
(***************************************************************************)
EXTENDS AtCommand, SequenceTheorems, TLAPS

\* The lines that the firmware has.
Texts ==
  Queries \cup Unsolicited \cup
  {"+CIPSTA", "+CIPAP", "+CIPETH", "+CIPDNS_CUR", "+CWLAP", "+CWJAP", "STATUS", "+CIPSTATUS", "No AP",
   "+BLEGATT", "+BLECONN", "OK", "ERROR", ">", "Recv ", "SEND OK", "SEND FAIL", "busy p...", "nothing"}

\* Who is not asked has only these things to say.
AllLines ==
  {l \in [t : Texts, from : Sources] :
     /\ l.from = "probe" => l.t = "ERROR"
     /\ l.from = "nobody" => l.t \in Unsolicited \cup {"busy p...", "nothing"}}

----------------------------------------------------------------------------
(* The wire: the lines u in the serial buffer, and the lines t to be sent.  *)

OnWire(l, u, t) == (\E i \in DOMAIN u : u[i] = l) \/ (\E i \in DOMAIN t : t[i] = l)

Precedes(k, l, u, t) ==
  \/ \E i, j \in DOMAIN u : i < j /\ u[i] = k /\ u[j] = l
  \/ \E i, j \in DOMAIN t : i < j /\ t[i] = k /\ t[j] = l
  \/ \E i \in DOMAIN u, j \in DOMAIN t : u[i] = k /\ t[j] = l

\* From u, t to v, s there are no new answers, and the old ones stay in order.
NoNews(u, t, v, s) ==
  /\ \A l : OnWire(l, v, s) => OnWire(l, u, t) \/ l.from \in {"probe", "nobody"}
  /\ \A k, l : Precedes(k, l, v, s) => Precedes(k, l, u, t) \/ k.from # "command" \/ l.from # "command"

NothingOn(u, t) == \A l : OnWire(l, u, t) => l.from \notin {"command", "earlier"}

LEMMA SeqFacts ==
  ASSUME NEW s \in Seq(AllLines)
  PROVE  /\ Len(s) \in Nat /\ DOMAIN s = 1 .. Len(s)
         /\ \A i \in 1 .. Len(s) : s[i] \in AllLines
         /\ s # <<>> => /\ Len(s) \in Nat \ {0} /\ Head(s) = s[1] /\ Head(s) \in AllLines
                        /\ Tail(s) \in Seq(AllLines) /\ Len(Tail(s)) = Len(s) - 1
                        /\ DOMAIN Tail(s) = 1 .. Len(s) - 1
                        /\ \A i \in 1 .. Len(s) - 1 : Tail(s)[i] = s[i + 1]
<1>1. Len(s) \in Nat /\ DOMAIN s = 1 .. Len(s) /\ \A i \in 1 .. Len(s) : s[i] \in AllLines
  BY LenProperties, ElementOfSeq
<1>2. ASSUME s # <<>>
      PROVE  /\ Len(s) \in Nat \ {0} /\ Head(s) = s[1] /\ Head(s) \in AllLines
             /\ Tail(s) \in Seq(AllLines) /\ Len(Tail(s)) = Len(s) - 1
             /\ \A i \in 1 .. Len(s) - 1 : Tail(s)[i] = s[i + 1]
  <2>1. Len(s) \in Nat \ {0} BY <1>2, EmptySeq
  <2> QED BY <1>1, <1>2, <2>1, HeadTailProperties
<1>3. ASSUME s # <<>> PROVE DOMAIN Tail(s) = 1 .. Len(s) - 1
  BY <1>2, <1>3, LenProperties
<1> QED BY <1>1, <1>2, <1>3

\* The first line is read: the others were behind it.
LEMMA ReadFirst ==
  ASSUME NEW u \in Seq(AllLines), NEW t \in Seq(AllLines), u # <<>>
  PROVE  /\ NoNews(u, t, Tail(u), t)
         /\ \A l : OnWire(l, Tail(u), t) => OnWire(l, u, t) /\ Precedes(Head(u), l, u, t)
         /\ \A k, l : Precedes(k, l, Tail(u), t) => Precedes(k, l, u, t)
         /\ OnWire(Head(u), u, t)
<1>1. /\ DOMAIN u = 1 .. Len(u) /\ Len(u) \in Nat \ {0} /\ Head(u) = u[1]
      /\ DOMAIN Tail(u) = 1 .. Len(u) - 1 /\ \A i \in 1 .. Len(u) - 1 : Tail(u)[i] = u[i + 1]
  BY SeqFacts
<1>2. \A i \in DOMAIN Tail(u) : i + 1 \in DOMAIN u /\ 1 \in DOMAIN u /\ 1 < i + 1 /\ Tail(u)[i] = u[i + 1] BY <1>1
<1>3. \A i, j \in DOMAIN Tail(u) : i < j => i + 1 < j + 1 BY <1>1
<1>4. ASSUME NEW l, OnWire(l, Tail(u), t) PROVE OnWire(l, u, t) /\ Precedes(Head(u), l, u, t)
  <2>1. CASE \E i \in DOMAIN Tail(u) : Tail(u)[i] = l BY <1>1, <1>2, <2>1 DEF OnWire, Precedes
  <2>2. CASE \E i \in DOMAIN t : t[i] = l BY <1>1, <2>2 DEF OnWire, Precedes
  <2> QED BY <1>4, <2>1, <2>2 DEF OnWire
<1>5. ASSUME NEW k, NEW l, Precedes(k, l, Tail(u), t) PROVE Precedes(k, l, u, t)
  <2>1. CASE \E i, j \in DOMAIN Tail(u) : i < j /\ Tail(u)[i] = k /\ Tail(u)[j] = l
    <3>1. PICK i \in DOMAIN Tail(u), j \in DOMAIN Tail(u) : i < j /\ Tail(u)[i] = k /\ Tail(u)[j] = l BY <2>1
    <3>2. i + 1 \in DOMAIN u /\ j + 1 \in DOMAIN u /\ i + 1 < j + 1 /\ u[i + 1] = k /\ u[j + 1] = l
      BY <1>2, <1>3, <3>1
    <3> QED BY <3>2 DEF Precedes
  <2>2. CASE \E i, j \in DOMAIN t : i < j /\ t[i] = k /\ t[j] = l BY <2>2 DEF Precedes
  <2>3. CASE \E i \in DOMAIN Tail(u), j \in DOMAIN t : Tail(u)[i] = k /\ t[j] = l
    BY <1>2, <2>3 DEF Precedes
  <2> QED BY <1>5, <2>1, <2>2, <2>3 DEF Precedes
<1>6. OnWire(Head(u), u, t) BY <1>1 DEF OnWire
<1> QED BY <1>4, <1>5, <1>6 DEF NoNews


LEMMA LossIsNoNews ==
  ASSUME NEW u \in Seq(AllLines), NEW t \in Seq(AllLines), t # <<>>
  PROVE  NoNews(u, t, u, Tail(t))
<1>1. /\ DOMAIN t = 1 .. Len(t) /\ Len(t) \in Nat \ {0}
      /\ DOMAIN Tail(t) = 1 .. Len(t) - 1 /\ \A i \in 1 .. Len(t) - 1 : Tail(t)[i] = t[i + 1]
  BY SeqFacts
<1>2. \A i \in DOMAIN Tail(t) : i + 1 \in DOMAIN t /\ Tail(t)[i] = t[i + 1] BY <1>1
<1>3. \A i, j \in DOMAIN Tail(t) : i < j => i + 1 < j + 1 BY <1>1
<1>4. \A l : OnWire(l, u, Tail(t)) => OnWire(l, u, t) BY <1>2 DEF OnWire
<1>5. ASSUME NEW k, NEW l, Precedes(k, l, u, Tail(t)) PROVE Precedes(k, l, u, t)
  <2>1. CASE \E i, j \in DOMAIN Tail(t) : i < j /\ Tail(t)[i] = k /\ Tail(t)[j] = l
    <3>1. PICK i \in DOMAIN Tail(t), j \in DOMAIN Tail(t) : i < j /\ Tail(t)[i] = k /\ Tail(t)[j] = l BY <2>1
    <3>2. i + 1 \in DOMAIN t /\ j + 1 \in DOMAIN t /\ i + 1 < j + 1 /\ t[i + 1] = k /\ t[j + 1] = l
      BY <1>2, <1>3, <3>1
    <3> QED BY <3>2 DEF Precedes
  <2>2. CASE \E i, j \in DOMAIN u : i < j /\ u[i] = k /\ u[j] = l BY <2>2 DEF Precedes
  <2>3. CASE \E i \in DOMAIN u, j \in DOMAIN Tail(t) : u[i] = k /\ Tail(t)[j] = l
    BY <1>2, <2>3 DEF Precedes
  <2> QED BY <1>5, <2>1, <2>2, <2>3 DEF Precedes
<1> QED BY <1>4, <1>5 DEF NoNews

\* A line goes over to the host behind the lines that went before.
LEMMA SendingIsNoNews ==
  ASSUME NEW u \in Seq(AllLines), NEW t \in Seq(AllLines), t # <<>>
  PROVE  NoNews(u, t, Append(u, Head(t)), Tail(t))
<1> DEFINE v == Append(u, Head(t))
           s == Tail(t)
<1>1. /\ DOMAIN t = 1 .. Len(t) /\ Len(t) \in Nat \ {0} /\ Head(t) = t[1] /\ Head(t) \in AllLines
      /\ DOMAIN s = 1 .. Len(t) - 1 /\ \A i \in 1 .. Len(t) - 1 : s[i] = t[i + 1]
  BY SeqFacts
<1>2. DOMAIN u = 1 .. Len(u) /\ Len(u) \in Nat BY SeqFacts
<1>3. v \in Seq(AllLines) /\ Len(v) = Len(u) + 1 /\ (\A i \in 1 .. Len(u) : v[i] = u[i]) /\ v[Len(u) + 1] = Head(t)
  BY <1>1, AppendProperties
<1>4. DOMAIN v = 1 .. Len(u) + 1 BY <1>3, SeqFacts
<1> HIDE DEF v, s
<1>5. \A i \in DOMAIN s : i + 1 \in DOMAIN t /\ 1 < i + 1 /\ s[i] = t[i + 1] BY <1>1
<1>6. \A i, j \in DOMAIN s : i < j => i + 1 < j + 1 BY <1>1
<1>7. 1 \in DOMAIN t BY <1>1
<1>8. \A i \in DOMAIN v : (i \in DOMAIN u /\ v[i] = u[i]) \/ (i = Len(u) + 1 /\ v[i] = t[1]) BY <1>1, <1>2, <1>3, <1>4
<1>9. \A i, j \in DOMAIN v : i < j => i \in DOMAIN u BY <1>2, <1>4
<1>10. \A l : OnWire(l, v, s) => OnWire(l, u, t) BY <1>5, <1>7, <1>8 DEF OnWire
<1>11. ASSUME NEW k, NEW l, Precedes(k, l, v, s) PROVE Precedes(k, l, u, t)
  <2>1. CASE \E i, j \in DOMAIN s : i < j /\ s[i] = k /\ s[j] = l
    <3>1. PICK i \in DOMAIN s, j \in DOMAIN s : i < j /\ s[i] = k /\ s[j] = l BY <2>1
    <3>2. i + 1 \in DOMAIN t /\ j + 1 \in DOMAIN t /\ i + 1 < j + 1 /\ t[i + 1] = k /\ t[j + 1] = l
      BY <1>5, <1>6, <3>1
    <3> QED BY <3>2 DEF Precedes
  <2>2. CASE \E i, j \in DOMAIN v : i < j /\ v[i] = k /\ v[j] = l
    <3>1. PICK i \in DOMAIN v, j \in DOMAIN v : i < j /\ v[i] = k /\ v[j] = l BY <2>2
    <3>2. i \in DOMAIN u /\ u[i] = k
      <4>1. i \in DOMAIN u BY <1>9, <3>1
      <4> QED BY <1>2, <1>3, <3>1, <4>1
    <3>3. CASE j \in DOMAIN u /\ v[j] = u[j] BY <3>1, <3>2, <3>3 DEF Precedes
    <3>4. CASE j = Len(u) + 1 /\ v[j] = t[1] BY <1>7, <3>1, <3>2, <3>4 DEF Precedes
    <3> QED BY <1>8, <3>3, <3>4
  <2>3. CASE \E i \in DOMAIN v, j \in DOMAIN s : v[i] = k /\ s[j] = l
    <3>1. PICK i \in DOMAIN v, j \in DOMAIN s : v[i] = k /\ s[j] = l BY <2>3
    <3>2. j + 1 \in DOMAIN t /\ 1 < j + 1 /\ t[j + 1] = l BY <1>5, <3>1
    <3>3. CASE i \in DOMAIN u /\ v[i] = u[i] BY <3>1, <3>2, <3>3 DEF Precedes
    <3>4. CASE v[i] = t[1] BY <1>7, <3>1, <3>2, <3>4 DEF Precedes
    <3> QED BY <1>8, <3>3, <3>4
  <2> QED BY <1>11, <2>1, <2>2, <2>3 DEF Precedes
<1>12. NoNews(u, t, v, s) BY <1>10, <1>11 DEF NoNews
<1> QED BY <1>12 DEF v, s

\* What nobody asked for, and what answers a '?', is no news wherever it is put.
LEMMA UnaskedIsNoNews ==
  ASSUME NEW u \in Seq(AllLines), NEW t \in Seq(AllLines), NEW x \in AllLines, x.from \in {"probe", "nobody"}
  PROVE  /\ NoNews(u, t, Append(u, x), t) /\ Append(u, x) \in Seq(AllLines)
         /\ NoNews(u, t, u, t \o <<x>>) /\ t \o <<x>> \in Seq(AllLines)
         /\ NoNews(u, t, u, <<x>> \o t) /\ <<x>> \o t \in Seq(AllLines)
<1>1. DOMAIN u = 1 .. Len(u) /\ Len(u) \in Nat /\ DOMAIN t = 1 .. Len(t) /\ Len(t) \in Nat BY SeqFacts
<1>2. NoNews(u, t, Append(u, x), t) /\ Append(u, x) \in Seq(AllLines)
  <2> DEFINE v == Append(u, x)
  <2>1. v \in Seq(AllLines) /\ Len(v) = Len(u) + 1 /\ (\A i \in 1 .. Len(u) : v[i] = u[i]) /\ v[Len(u) + 1] = x
    BY AppendProperties
  <2>2. DOMAIN v = 1 .. Len(u) + 1 BY <2>1, SeqFacts
  <2> HIDE DEF v
  <2>3. \A i \in DOMAIN v : (i \in DOMAIN u /\ v[i] = u[i]) \/ v[i] = x BY <1>1, <2>1, <2>2
  <2>4. NoNews(u, t, v, t) BY <2>3 DEF NoNews, OnWire, Precedes
  <2> QED BY <2>1, <2>4 DEF v
<1>3. <<x>> \in Seq(AllLines) /\ Len(<<x>>) = 1 /\ <<x>>[1] = x OBVIOUS
<1>4. NoNews(u, t, u, t \o <<x>>) /\ t \o <<x>> \in Seq(AllLines)
  <2> DEFINE s == t \o <<x>>
  <2>1. s \in Seq(AllLines) /\ Len(s) = Len(t) + 1 /\ (\A i \in 1 .. Len(t) : s[i] = t[i]) /\ s[Len(t) + 1] = x
    BY <1>1, <1>3, ConcatProperties, Z3
  <2>2. DOMAIN s = 1 .. Len(t) + 1 BY <2>1, SeqFacts
  <2> HIDE DEF s
  <2>3. \A i \in DOMAIN s : (i \in DOMAIN t /\ s[i] = t[i]) \/ s[i] = x BY <1>1, <2>1, <2>2
  <2>4. NoNews(u, t, u, s) BY <2>3 DEF NoNews, OnWire, Precedes
  <2> QED BY <2>1, <2>4 DEF s
<1>5. NoNews(u, t, u, <<x>> \o t) /\ <<x>> \o t \in Seq(AllLines)
  <2> DEFINE s == <<x>> \o t
  <2>1. s \in Seq(AllLines) /\ Len(s) = Len(t) + 1 /\ s[1] = x /\ (\A i \in 2 .. Len(t) + 1 : s[i] = t[i - 1])
    BY <1>1, <1>3, ConcatProperties, Z3
  <2>2. DOMAIN s = 1 .. Len(t) + 1 BY <2>1, SeqFacts
  <2> HIDE DEF s
  <2>3. \A i \in DOMAIN s : (i - 1 \in DOMAIN t /\ s[i] = t[i - 1]) \/ s[i] = x BY <1>1, <2>1, <2>2
  <2>4. \A i, j \in DOMAIN s : i < j => i - 1 < j - 1 BY <2>2
  <2>5. \A l : OnWire(l, u, s) => OnWire(l, u, t) \/ l = x BY <2>3 DEF OnWire
  <2>6. ASSUME NEW k, NEW l, k # x, l # x, Precedes(k, l, u, s) PROVE Precedes(k, l, u, t)
    <3>1. CASE \E i, j \in DOMAIN s : i < j /\ s[i] = k /\ s[j] = l
      <4>1. PICK i \in DOMAIN s, j \in DOMAIN s : i < j /\ s[i] = k /\ s[j] = l BY <3>1
      <4>2. i - 1 \in DOMAIN t /\ j - 1 \in DOMAIN t /\ i - 1 < j - 1 /\ t[i - 1] = k /\ t[j - 1] = l
        BY <2>3, <2>4, <2>6, <4>1
      <4> QED BY <4>2 DEF Precedes
    <3>2. CASE \E i, j \in DOMAIN u : i < j /\ u[i] = k /\ u[j] = l BY <3>2 DEF Precedes
    <3>3. CASE \E i \in DOMAIN u, j \in DOMAIN s : u[i] = k /\ s[j] = l
      BY <2>3, <2>6, <3>3 DEF Precedes
    <3> QED BY <2>6, <3>1, <3>2, <3>3 DEF Precedes
  <2>7. NoNews(u, t, u, s) BY <2>5, <2>6 DEF NoNews
  <2> QED BY <2>1, <2>7 DEF s
<1> QED BY <1>2, <1>4, <1>5


LEMMA AgedFacts ==
  ASSUME NEW s \in Seq(AllLines)
  PROVE  /\ Aged(s) \in Seq(AllLines) /\ DOMAIN Aged(s) = DOMAIN s
         /\ \A i \in DOMAIN s : /\ Aged(s)[i].from # "command"
                                /\ s[i].from \notin {"command", "earlier"} => Aged(s)[i].from # "earlier"
<1>1. Len(s) \in Nat /\ DOMAIN s = 1 .. Len(s) /\ \A i \in 1 .. Len(s) : s[i] \in AllLines BY SeqFacts
<1>2. ASSUME NEW l \in AllLines
      PROVE  LET a == [l EXCEPT !.from = IF @ = "command" THEN "earlier" ELSE @]
             IN  a \in AllLines /\ a.from # "command" /\ (l.from \notin {"command", "earlier"} => a.from # "earlier")
  BY DEF AllLines, Sources
<1>3. Aged(s) = [i \in 1 .. Len(s) |-> [s[i] EXCEPT !.from = IF @ = "command" THEN "earlier" ELSE @]]
  BY <1>1 DEF Aged
<1>4. Aged(s) \in Seq(AllLines) BY <1>1, <1>2, <1>3
<1> QED BY <1>1, <1>2, <1>3, <1>4

LEMMA LatestFacts ==
  ASSUME NEW s \in Seq(AllLines)
  PROVE  /\ Latest(s) \in Seq(AllLines)
         /\ \A i \in DOMAIN Latest(s) : \E j \in DOMAIN s : Latest(s)[i] = s[j]
<1>1. Len(s) \in Nat /\ DOMAIN s = 1 .. Len(s) /\ MaxLate \in Nat BY SeqFacts, BoundsAssumption
<1>2. CASE ~(Len(s) > MaxLate) BY <1>2 DEF Latest
<1>3. CASE Len(s) > MaxLate
  <2> DEFINE m == Len(s) - MaxLate
             r == SubSeq(s, m, Len(s))
  <2>1. m \in 1 .. Len(s) /\ Len(s) \in 1 .. Len(s) BY <1>1, <1>3
  <2>2. r \in Seq(AllLines) /\ Len(r) = Len(s) - m + 1 /\ \A i \in 1 .. Len(r) : r[i] = s[m + i - 1]
    BY <1>1, <2>1, SubSeqProperties
  <2>3. r # <<>> BY <1>1, <2>1, <2>2
  <2>4. Latest(s) = Tail(r) BY <1>3 DEF Latest
  <2> HIDE DEF r
  <2>5. Tail(r) \in Seq(AllLines) /\ DOMAIN Tail(r) = 1 .. Len(r) - 1 /\ \A i \in 1 .. Len(r) - 1 : Tail(r)[i] = r[i + 1]
    BY <2>2, <2>3, SeqFacts
  <2>6. \A i \in DOMAIN Tail(r) : i + 1 \in 1 .. Len(r) /\ m + i \in DOMAIN s /\ m + (i + 1) - 1 = m + i
    BY <1>1, <2>1, <2>2, <2>5
  <2> HIDE DEF m
  <2>7. ASSUME NEW i \in DOMAIN Tail(r) PROVE Tail(r)[i] = s[m + i] BY <2>2, <2>5, <2>6
  <2> QED BY <2>4, <2>5, <2>6, <2>7
<1> QED BY <1>2, <1>3

\* When nothing is owed a new command finds no answers under way.
LEMMA AgedWire ==
  ASSUME NEW u \in Seq(AllLines), NEW t \in Seq(AllLines)
  PROVE  /\ Aged(u) \in Seq(AllLines) /\ Aged(Latest(t)) \in Seq(AllLines)
         /\ NothingOn(u, t) => NothingOn(Aged(u), Aged(Latest(t)))
<1>1. Aged(u) \in Seq(AllLines) /\ Aged(Latest(t)) \in Seq(AllLines) BY AgedFacts, LatestFacts
<1>2. ASSUME NothingOn(u, t), NEW l, OnWire(l, Aged(u), Aged(Latest(t))) PROVE l.from \notin {"command", "earlier"}
  <2>1. CASE \E i \in DOMAIN Aged(u) : Aged(u)[i] = l BY <1>2, <2>1, AgedFacts DEF NothingOn, OnWire
  <2>2. CASE \E i \in DOMAIN Aged(Latest(t)) : Aged(Latest(t))[i] = l
    <3>1. PICK i \in DOMAIN Latest(t) : Aged(Latest(t))[i] = l BY <2>2, LatestFacts, AgedFacts
    <3>2. PICK j \in DOMAIN t : Latest(t)[i] = t[j] BY LatestFacts
    <3>3. Latest(t)[i].from \notin {"command", "earlier"} BY <1>2, <3>2 DEF NothingOn, OnWire
    <3> QED BY <3>1, <3>3, LatestFacts, AgedFacts
  <2> QED BY <1>2, <2>1, <2>2 DEF OnWire
<1> QED BY <1>1, <1>2 DEF NothingOn

\* Then the answers on the wire are those to the new command, in their order.
LEMMA AnswerOnWire ==
  ASSUME NEW u \in Seq(AllLines), NEW t \in Seq(AllLines), NothingOn(u, t), NEW a \in Seq(Texts)
  PROVE  LET s == t \o Lines(a)
         IN  /\ \A l : OnWire(l, u, s) => l.from # "earlier"
             /\ \A l : OnWire(l, u, s) /\ l.from = "command" => \E i \in DOMAIN a : l.t = a[i]
             /\ \A k, l : Precedes(k, l, u, s) /\ k.from = "command" /\ l.from = "command" =>
                            \E i, j \in DOMAIN a : i < j /\ k.t = a[i] /\ l.t = a[j]
<1> DEFINE r == Lines(a)
           s == t \o r
<1>1. Len(a) \in Nat /\ DOMAIN a = 1 .. Len(a) /\ \A i \in 1 .. Len(a) : a[i] \in Texts BY LenProperties, ElementOfSeq
<1>2. r = [i \in 1 .. Len(a) |-> Line(a[i], "command")] BY <1>1 DEF Lines
<1>3. \A i \in 1 .. Len(a) : Line(a[i], "command") \in AllLines BY <1>1 DEF Line, AllLines, Sources
<1>4. r \in Seq(AllLines) /\ Len(r) = Len(a) /\ \A i \in 1 .. Len(a) : r[i] = Line(a[i], "command") BY <1>1, <1>2, <1>3
<1>5. DOMAIN t = 1 .. Len(t) /\ Len(t) \in Nat BY SeqFacts
<1> HIDE DEF r
<1>6. /\ s \in Seq(AllLines) /\ Len(s) = Len(t) + Len(a)
      /\ \A i \in 1 .. Len(t) + Len(a) : s[i] = IF i <= Len(t) THEN t[i] ELSE r[i - Len(t)]
  <2>1. /\ s \in Seq(AllLines) /\ Len(s) = Len(t) + Len(r)
        /\ \A i \in 1 .. Len(t) + Len(r) : s[i] = IF i <= Len(t) THEN t[i] ELSE r[i - Len(t)]
    BY <1>4, ConcatProperties, Zenon
  <2> HIDE DEF s
  <2> QED BY <1>4, <2>1
<1>7. DOMAIN s = 1 .. Len(t) + Len(a) BY <1>6, SeqFacts
<1> HIDE DEF s
<1>8. ASSUME NEW i \in DOMAIN s
      PROVE  \/ i \in DOMAIN t /\ s[i] = t[i] /\ s[i].from \notin {"command", "earlier"}
             \/ i - Len(t) \in DOMAIN a /\ s[i] = Line(a[i - Len(t)], "command")
  <2>1. CASE i <= Len(t)
    <3>1. i \in DOMAIN t /\ s[i] = t[i] BY <1>5, <1>6, <1>7, <2>1
    <3> QED BY <3>1 DEF NothingOn, OnWire
  <2>2. CASE ~(i <= Len(t))
    <3>1. i - Len(t) \in 1 .. Len(a) /\ s[i] = r[i - Len(t)] BY <1>1, <1>5, <1>6, <1>7, <2>2
    <3> QED BY <1>1, <1>4, <3>1
  <2> QED BY <2>1, <2>2
<1>9. \A i \in DOMAIN s : s[i].from # "earlier" /\ (s[i].from = "command" => i - Len(t) \in DOMAIN a /\ s[i].t = a[i - Len(t)])
  BY <1>8 DEF Line
<1>10. \A i, j \in DOMAIN s : i < j => i - Len(t) < j - Len(t) BY <1>5, <1>7
<1>11. \A i \in DOMAIN u : u[i].from \notin {"command", "earlier"} BY DEF NothingOn, OnWire
<1>12. /\ \A l : OnWire(l, u, s) => l.from # "earlier"
       /\ \A l : OnWire(l, u, s) /\ l.from = "command" => \E i \in DOMAIN a : l.t = a[i]
  BY <1>9, <1>11 DEF OnWire
<1>13. ASSUME NEW k, NEW l, Precedes(k, l, u, s), k.from = "command", l.from = "command"
       PROVE  \E i, j \in DOMAIN a : i < j /\ k.t = a[i] /\ l.t = a[j]
  <2>1. PICK i \in DOMAIN s, j \in DOMAIN s : i < j /\ s[i] = k /\ s[j] = l BY <1>11, <1>13 DEF Precedes
  <2> QED BY <1>9, <1>10, <1>13, <2>1
<1> QED BY <1>12, <1>13 DEF s, r


----------------------------------------------------------------------------
(* Scripts. *)

\* The last lines of answers; what nobody's lines say; the lines of a refusal.
Lasting == {"OK", "ERROR", ">", "SEND OK", "SEND FAIL"}
Foreign == Unsolicited \cup {"busy p...", "nothing", "ERROR"}
Refusing == {"ERROR", "Recv ", "SEND FAIL"}

\* The firmware asks for data after the OK of these.
Prompting == {"CIPSEND=", "CIPSENDEX="}

\* Commands, and the lines that answer them, with a meaning of their own.
Special == Lasting \cup Foreign \cup Refusing \cup Prompting \cup {"BLECONN=", "+BLECONN", "SEND "}

\* Where a step that succeeds goes on
Target(s, n) == IF s[n].next # Fail THEN s[n].next ELSE IF n = Len(s) THEN End ELSE n + 1

IsStep(s, n, kinds) == n \in 1 .. Len(s) /\ s[n].do \in kinds

\* Steps at which a part of an answer may not have been read yet.
Open(s, n) ==
  \/ s[n].do \in {"wait", "data"}
  \/ s[n].do \in {"parse", "branch"} /\ IsStep(s, Target(s, n), {"wait", "branch"})

Inside(s, n) == n \in 1 .. Len(s) /\ Open(s, n) /\ s[n].what # ">"

(* A command is waited for.  Only the last line of an answer, and what       *)
(* follows a failure, leads to steps where nothing may be left of it.       *)
Fits(s, n) ==
  /\ s[n].do = "send" =>
       /\ IsStep(s, Target(s, n), {"wait"})
       /\ s[n].what \notin Lasting \cup {"+BLECONN"}
       /\ s[Target(s, n)].what = ">" <=> s[n].what \in Prompting
  /\ s[n].do = "wait" =>
       /\ s[n].what \notin Foreign \cup {"SEND FAIL"}
       /\ s[n].what \notin {"OK", "SEND ", ">"} => Inside(s, Target(s, n))
  /\ s[n].do \in {"data", "parse", "branch"} /\ Open(s, n) => Inside(s, Target(s, n))
  /\ s[n].do = "branch" /\ Open(s, n) => Inside(s, s[n].orElse)
  /\ s[n].do # "wait" => s[n].what # ">"
  /\ s[n].list => s[n].do = "wait" /\ s[n].what # ">"

Regular(s) ==
  /\ Len(s) \in 1 .. End - 1 /\ DOMAIN s = 1 .. Len(s) /\ s[1].do = "error"
  /\ \A n \in 1 .. Len(s) : Fits(s, n)

\* A step that makes the call fail has a reason to give.
Explains(s, n) ==
  /\ s[n].do # "error" => s[n].error # "NO_ERROR"
  /\ ~s[n].list
  /\ s[n].do \in {"data", "verify", "require", "branch"} /\ s[n].orElse = Fail => s[n].error # Keep

Explaining(s) == \A n \in 1 .. Len(s) : Explains(s, n)

\* The text is used after it was matched, or after more of it was read.
Users == {"parse", "data"}
Owns(s, n) ==
  /\ IsStep(s, Target(s, n), Users) => s[n].do = "data" \/ (s[n].do = "wait" /\ s[n].what \notin Lasting)
  /\ ~IsStep(s, s[n].orElse, Users)

OwnText(s) == \A n \in 1 .. Len(s) : Owns(s, n)

(* Steps that a call reaches whose command was refused: they have no way to  *)
(* success, but through SEND FAIL, which is compared with SEND OK.          *)
Doomed(s, n) ==
  \/ s[n].do \in {"wait", "verify"} /\ s[n].orElse = Fail
  \/ /\ s[n].do = "parse" /\ IsStep(s, Target(s, n), {"wait"})
     /\ s[Target(s, n)].what = "SEND " /\ s[Target(s, n)].orElse = Fail

Reports(s, n) ==
  /\ s[n].do = "send" => Doomed(s, Target(s, n))
  /\ s[n].do = "wait" /\ s[n].what = "Recv " => IsStep(s, Target(s, n), {"parse"}) /\ Doomed(s, Target(s, n))
  /\ s[n].do = "wait" /\ s[n].what = "SEND " => IsStep(s, Target(s, n), {"verify"}) /\ Doomed(s, Target(s, n))
  /\ s[n].do = "verify" => s[n].what = "SEND OK"

Reporting(s) == \A n \in 1 .. Len(s) : Reports(s, n)

\* All scripts but one leave BLECONN alone.
Classic(s) == \A n \in 1 .. Len(s) : s[n].do = "send" => s[n].what # "BLECONN="

(* The shapes of steps and scripts.  Step n of a script is expanded only to   *)
(* what is said of it here.                                                 *)
Fields(x, kind, next, orElse, error) ==
  /\ DOMAIN x = {"do", "what", "list", "next", "orElse", "error"}
  /\ x.do = kind /\ x.next = next /\ x.orElse = orElse /\ x.error = error

Is(x, kind, next, orElse, error) ==
  Fields(x, kind, next, orElse, error) /\ ~x.list /\ (kind # "wait" => x.what # ">")

IsItem(x, next, orElse) == Fields(x, "wait", next, orElse, Keep) /\ x.list /\ x.what # ">"

LEMMA StepsAre ==
  /\ Is(Clear, "error", Fail, Fail, Keep) /\ Is(Drain, "drain", Fail, Fail, Keep)
  /\ Is(Parse, "parse", Fail, Fail, Keep) /\ Is(Data, "data", Fail, Fail, Keep)
  /\ Is(ReturnZero, "require", Fail, Fail, Keep)
  /\ \A code : Is(Require(code), "require", Fail, Fail, code)
  /\ \A n : Is(Branch(n), "branch", Fail, n, Keep)
  /\ \A c : Is(Wait(c), "wait", Fail, Fail, Keep) /\ Wait(c).what = c
  /\ \A c : c # ">" => /\ Is(Send(c), "send", Fail, Fail, Keep) /\ Is(Verify(c), "verify", Fail, Fail, Keep)
                       /\ Is(Error(c), "error", Fail, Fail, Keep) /\ IsItem(WaitItem(c), Fail, Fail)
  /\ \A c : Send(c).what = c /\ Verify(c).what = c /\ WaitItem(c).what = c
<1>1. \A d, w : w # ">" => Is(Step(d, w), d, Fail, Fail, Keep) BY DEF Is, Fields, Step
<1>2. Is(Clear, "error", Fail, Fail, Keep) /\ Is(ReturnZero, "require", Fail, Fail, Keep)
  BY DEF Is, Fields, Step, Clear, ReturnZero
<1>3. /\ Is(Drain, "drain", Fail, Fail, Keep) /\ Is(Parse, "parse", Fail, Fail, Keep)
      /\ Is(Data, "data", Fail, Fail, Keep)
  BY <1>1, Zenon DEF Drain, Parse, Data
<1>4. \A code : Is(Require(code), "require", Fail, Fail, code) BY Zenon DEF Is, Fields, Step, Require
<1>5. \A n : Is(Branch(n), "branch", Fail, n, Keep) BY Zenon DEF Is, Fields, Step, Branch
<1>6. \A c : Is(Wait(c), "wait", Fail, Fail, Keep) /\ Wait(c).what = c BY DEF Is, Fields, Step, Wait
<1>7. \A c : c # ">" => /\ Is(Send(c), "send", Fail, Fail, Keep) /\ Is(Verify(c), "verify", Fail, Fail, Keep)
                        /\ Is(Error(c), "error", Fail, Fail, Keep) /\ IsItem(WaitItem(c), Fail, Fail)
  BY DEF Is, IsItem, Fields, Step, Wait, Send, Verify, Error, WaitItem
<1>8. \A c : Send(c).what = c /\ Verify(c).what = c /\ WaitItem(c).what = c
  BY DEF Step, Wait, Send, Verify, WaitItem
<1> QED BY <1>2, <1>3, <1>4, <1>5, <1>6, <1>7, <1>8


LEMMA VariantsAre ==
  /\ \A c, n : Is(OrElse(n, Wait(c)), "wait", Fail, n, Keep) /\ OrElse(n, Wait(c)).what = c
  /\ \A c, n, k : Is(OrElse(n, Then(k, Wait(c))), "wait", k, n, Keep) /\ OrElse(n, Then(k, Wait(c))).what = c
  /\ \A c, n, k : Is(Then(k, OrElse(n, Wait(c))), "wait", k, n, Keep) /\ Then(k, OrElse(n, Wait(c))).what = c
  /\ \A c, e : Is(WithError(e, Wait(c)), "wait", Fail, Fail, e) /\ WithError(e, Wait(c)).what = c
  /\ \A c, e, n : Is(WithError(e, OrElse(n, Wait(c))), "wait", Fail, n, e) /\ WithError(e, OrElse(n, Wait(c))).what = c
  /\ \A c, e : WithError(e, Verify(c)).what = c /\ (c # ">" => Is(WithError(e, Verify(c)), "verify", Fail, Fail, e))
  /\ \A c, e, k : /\ WithError(e, Then(k, Verify(c))).what = c
                  /\ c # ">" => Is(WithError(e, Then(k, Verify(c))), "verify", k, Fail, e)
  /\ \A c, n : OrElse(n, WaitItem(c)).what = c /\ (c # ">" => IsItem(OrElse(n, WaitItem(c)), Fail, n))
  /\ \A c, n, k : /\ OrElse(n, Then(k, WaitItem(c))).what = c
                  /\ c # ">" => IsItem(OrElse(n, Then(k, WaitItem(c))), k, n)
  /\ \A e, n : Is(WithError(e, OrElse(n, Data)), "data", Fail, n, e)
<1>1. /\ \A c, n : Is(OrElse(n, Wait(c)), "wait", Fail, n, Keep) /\ OrElse(n, Wait(c)).what = c
      /\ \A c, n, k : Is(OrElse(n, Then(k, Wait(c))), "wait", k, n, Keep) /\ OrElse(n, Then(k, Wait(c))).what = c
      /\ \A c, n, k : Is(Then(k, OrElse(n, Wait(c))), "wait", k, n, Keep) /\ Then(k, OrElse(n, Wait(c))).what = c
  BY DEF Is, Fields, OrElse, Then, Wait, Step
<1>2. /\ \A c, e : Is(WithError(e, Wait(c)), "wait", Fail, Fail, e) /\ WithError(e, Wait(c)).what = c
      /\ \A c, e, n : Is(WithError(e, OrElse(n, Wait(c))), "wait", Fail, n, e) /\ WithError(e, OrElse(n, Wait(c))).what = c
  BY DEF Is, Fields, OrElse, WithError, Wait, Step
<1>3. /\ \A c, e : WithError(e, Verify(c)).what = c /\ (c # ">" => Is(WithError(e, Verify(c)), "verify", Fail, Fail, e))
      /\ \A c, e, k : /\ WithError(e, Then(k, Verify(c))).what = c
                      /\ c # ">" => Is(WithError(e, Then(k, Verify(c))), "verify", k, Fail, e)
  BY DEF Is, Fields, Then, WithError, Verify, Step
<1>4. /\ \A c, n : OrElse(n, WaitItem(c)).what = c /\ (c # ">" => IsItem(OrElse(n, WaitItem(c)), Fail, n))
      /\ \A c, n, k : /\ OrElse(n, Then(k, WaitItem(c))).what = c
                      /\ c # ">" => IsItem(OrElse(n, Then(k, WaitItem(c))), k, n)
  BY DEF IsItem, Fields, OrElse, Then, WaitItem, Wait, Step
<1>5. \A e, n : Is(WithError(e, OrElse(n, Data)), "data", Fail, n, e)
  BY StepsAre DEF Is, Fields, OrElse, WithError
<1> QED BY <1>1, <1>2, <1>3, <1>4, <1>5

\* Step m is there and does d.
Does(s, m, d) == m \in 1 .. Len(s) /\ s[m].do = d

\* No text is used at step m, if there is one.
Unused(s, m) == m \in 1 .. Len(s) => s[m].do \notin Users

\* An error code that tells something
Reason(e) == e # "NO_ERROR"
Given(e) == e \notin {"NO_ERROR", Keep}

Whole(s, n) == Fits(s, n) /\ Owns(s, n) /\ Reports(s, n)

Fine(s) == Regular(s) /\ Explaining(s) /\ OwnText(s) /\ Reporting(s) /\ Classic(s)

\* The calls that go on after a refusal as after a success
Careless == {"listAP", "recvDataWithInfo"}

LEMMA ErrorStep ==
  ASSUME NEW s, NEW n, Is(s[n], "error", Fail, Fail, Keep), Unused(s, Fail), Unused(s, Target(s, n))
  PROVE  Whole(s, n) /\ Explains(s, n)
<1>1. Fits(s, n) BY DEF Is, Fields, Fits, Open
<1>2. Owns(s, n) BY DEF Is, Fields, Owns, Unused, IsStep
<1>3. Reports(s, n) BY DEF Is, Fields, Reports
<1>4. Explains(s, n) BY DEF Is, Fields, Explains, Keep
<1> QED BY <1>1, <1>2, <1>3, <1>4 DEF Whole

LEMMA DrainStep ==
  ASSUME NEW s, NEW n, Is(s[n], "drain", Fail, Fail, Keep), Unused(s, Fail), Unused(s, Target(s, n))
  PROVE  Whole(s, n) /\ Explains(s, n)
<1>1. Fits(s, n) BY DEF Is, Fields, Fits, Open
<1>2. Owns(s, n) BY DEF Is, Fields, Owns, Unused, IsStep
<1>3. Reports(s, n) BY DEF Is, Fields, Reports
<1>4. Explains(s, n) BY DEF Is, Fields, Explains, Keep
<1> QED BY <1>1, <1>2, <1>3, <1>4 DEF Whole

LEMMA RequireStep ==
  ASSUME NEW s, NEW n, NEW e, Is(s[n], "require", Fail, Fail, e), Unused(s, Fail), Unused(s, Target(s, n))
  PROVE  Whole(s, n) /\ (Given(e) => Explains(s, n))
<1>1. Fits(s, n) BY DEF Is, Fields, Fits, Open
<1>2. Owns(s, n) BY DEF Is, Fields, Owns, Unused, IsStep
<1>3. Reports(s, n) BY DEF Is, Fields, Reports
<1>4. Given(e) => Explains(s, n) BY DEF Is, Fields, Explains, Given
<1> QED BY <1>1, <1>2, <1>3, <1>4 DEF Whole

\* A condition between commands
LEMMA BranchStep ==
  ASSUME NEW s, NEW n, NEW k, Is(s[n], "branch", Fail, k, Keep),
         Unused(s, Target(s, n)), Unused(s, k), ~IsStep(s, Target(s, n), {"wait", "branch"})
  PROVE  Whole(s, n) /\ (k # Fail => Explains(s, n))
<1>1. Fits(s, n) BY DEF Is, Fields, Fits, Open
<1>2. Owns(s, n) BY DEF Is, Fields, Owns, Unused, IsStep
<1>3. Reports(s, n) BY DEF Is, Fields, Reports
<1>4. k # Fail => Explains(s, n) BY DEF Is, Fields, Explains, Keep
<1> QED BY <1>1, <1>2, <1>3, <1>4 DEF Whole

\* A condition on the lines of a list
LEMMA BranchInside ==
  ASSUME NEW s, NEW n, NEW k, Is(s[n], "branch", Fail, k, Keep),
         Unused(s, Target(s, n)), Unused(s, k), Inside(s, Target(s, n)), Inside(s, k)
  PROVE  Whole(s, n)
<1>1. Fits(s, n) BY DEF Is, Fields, Fits
<1>2. Owns(s, n) BY DEF Is, Fields, Owns, Unused, IsStep
<1>3. Reports(s, n) BY DEF Is, Fields, Reports
<1> QED BY <1>1, <1>2, <1>3 DEF Whole

\* A command, and the wait for its answer
LEMMA SendStep ==
  ASSUME NEW s, NEW n, Unused(s, Fail), Is(s[n], "send", Fail, Fail, Keep),
         Does(s, Target(s, n), "wait"), s[n].what \notin Lasting \cup {"+BLECONN"},
         s[Target(s, n)].what = ">" <=> s[n].what \in Prompting
  PROVE  /\ Fits(s, n) /\ Owns(s, n) /\ Explains(s, n)
         /\ s[Target(s, n)].orElse = Fail => Whole(s, n)
<1>1. Fits(s, n) BY DEF Is, Fields, Fits, Does, IsStep
<1>2. Owns(s, n) BY DEF Is, Fields, Owns, Does, IsStep, Unused, Users
<1>3. s[Target(s, n)].orElse = Fail => Reports(s, n) BY DEF Is, Fields, Reports, Does, Doomed
<1>4. Explains(s, n) BY DEF Is, Fields, Explains, Keep
<1> QED BY <1>1, <1>2, <1>3, <1>4 DEF Whole

LEMMA SendPlain ==
  ASSUME NEW s, NEW n, Unused(s, Fail), Is(s[n], "send", Fail, Fail, Keep),
         Does(s, Target(s, n), "wait"), s[n].what \notin Special,
         s[Target(s, n)].what \notin Special \/ s[Target(s, n)].what \in {"OK", "Recv "}
  PROVE  /\ Fits(s, n) /\ Owns(s, n) /\ Explains(s, n) /\ s[n].what # "BLECONN="
         /\ s[Target(s, n)].orElse = Fail => Whole(s, n)
<1>1. s[n].what \notin Lasting \cup {"+BLECONN", "BLECONN="} /\ s[n].what \notin Prompting BY DEF Special
<1>2. s[Target(s, n)].what # ">" BY DEF Special, Lasting
<1> QED BY <1>1, <1>2, SendStep

\* A wait that ends an answer
LEMMA LastWait ==
  ASSUME NEW s, NEW n, NEW j, NEW k, NEW e, Is(s[n], "wait", j, k, e),
         s[n].what \in {"OK", ">"}, Reason(e)
  PROVE  /\ Fits(s, n) /\ Reports(s, n) /\ Explains(s, n)
         /\ Unused(s, Target(s, n)) /\ Unused(s, k) => Whole(s, n)
<1>1. s[n].what \notin Foreign \cup {"SEND FAIL"} BY DEF Foreign, Unsolicited
<1>2. Fits(s, n) BY <1>1 DEF Is, Fields, Fits
<1>3. Unused(s, Target(s, n)) /\ Unused(s, k) => Owns(s, n) BY DEF Is, Fields, Owns, Unused, IsStep
<1>4. Reports(s, n) BY DEF Is, Fields, Reports
<1>5. Explains(s, n) BY DEF Is, Fields, Explains, Reason
<1> QED BY <1>2, <1>3, <1>4, <1>5 DEF Whole

\* A wait for a line of an answer that goes on
LEMMA InnerWait ==
  ASSUME NEW s, NEW n, NEW j, NEW k, NEW e,
         Is(s[n], "wait", j, k, e) \/ (IsItem(s[n], j, k)),
         s[n].what \notin Special, Inside(s, Target(s, n)), Unused(s, k), Reason(e)
  PROVE  Whole(s, n) /\ (~s[n].list => Explains(s, n))
<1>1. s[n].what \notin Foreign \cup {"SEND FAIL"} /\ s[n].what \notin Lasting /\ s[n].what \notin {"Recv ", "SEND ", ">"}
  BY DEF Special, Lasting, Refusing
<1>2. Fits(s, n) BY <1>1 DEF Is, IsItem, Fields, Fits
<1>3. Owns(s, n) BY <1>1 DEF Is, IsItem, Fields, Owns, Unused, IsStep
<1>4. Reports(s, n) BY <1>1 DEF Is, IsItem, Fields, Reports
<1>5. ~s[n].list => Explains(s, n) BY DEF Is, IsItem, Fields, Explains, Reason, Keep
<1> QED BY <1>2, <1>3, <1>4, <1>5 DEF Whole

\* The waits for the answer to the data of a send
LEMMA RecvWait ==
  ASSUME NEW s, NEW n, Unused(s, Fail), Is(s[n], "wait", Fail, Fail, Keep), s[n].what = "Recv ",
         Does(s, Target(s, n), "parse"), Inside(s, Target(s, n)), Doomed(s, Target(s, n))
  PROVE  Whole(s, n) /\ Explains(s, n)
<1>1. s[n].what \notin Foreign \cup {"SEND FAIL"} /\ s[n].what \notin Lasting
  BY DEF Foreign, Unsolicited, Lasting
<1>2. Fits(s, n) BY <1>1 DEF Is, Fields, Fits
<1>3. Owns(s, n) BY <1>1 DEF Is, Fields, Owns, Unused, IsStep
<1>4. Reports(s, n) BY DEF Is, Fields, Reports, Does, IsStep
<1>5. Explains(s, n) BY DEF Is, Fields, Explains, Keep
<1> QED BY <1>2, <1>3, <1>4, <1>5 DEF Whole

LEMMA ResultWait ==
  ASSUME NEW s, NEW n, Unused(s, Fail), NEW e, Is(s[n], "wait", Fail, Fail, e), s[n].what = "SEND ",
         Does(s, Target(s, n), "verify"), s[Target(s, n)].orElse = Fail, Reason(e)
  PROVE  Whole(s, n) /\ Explains(s, n)
<1>1. s[n].what \notin Foreign \cup {"SEND FAIL"} /\ s[n].what \notin Lasting
  BY DEF Foreign, Unsolicited, Lasting
<1>2. Fits(s, n) BY <1>1 DEF Is, Fields, Fits
<1>3. Owns(s, n) BY <1>1 DEF Is, Fields, Owns, Unused, IsStep
<1>4. Reports(s, n) BY DEF Is, Fields, Reports, Does, IsStep, Doomed
<1>5. Explains(s, n) BY DEF Is, Fields, Explains, Reason
<1> QED BY <1>2, <1>3, <1>4, <1>5 DEF Whole

LEMMA VerifyStep ==
  ASSUME NEW s, NEW n, Unused(s, Fail), NEW j, NEW e, Is(s[n], "verify", j, Fail, e),
         s[n].what = "SEND OK", Unused(s, Target(s, n)), Given(e)
  PROVE  Whole(s, n) /\ Explains(s, n)
<1>1. Fits(s, n) BY DEF Is, Fields, Fits, Open
<1>2. Owns(s, n) BY DEF Is, Fields, Owns, Unused, IsStep
<1>3. Reports(s, n) BY DEF Is, Fields, Reports
<1>4. Explains(s, n) BY DEF Is, Fields, Explains, Given
<1> QED BY <1>1, <1>2, <1>3, <1>4 DEF Whole

\* The use of a text, in the middle of an answer and after it
LEMMA ParseStep ==
  ASSUME NEW s, NEW n, Unused(s, Fail), Is(s[n], "parse", Fail, Fail, Keep), Unused(s, Target(s, n)),
         Inside(s, Target(s, n)) \/ ~IsStep(s, Target(s, n), {"wait", "branch"})
  PROVE  Whole(s, n) /\ Explains(s, n)
<1>1. Fits(s, n) BY DEF Is, Fields, Fits, Open
<1>2. Owns(s, n) BY DEF Is, Fields, Owns, Unused, IsStep
<1>3. Reports(s, n) BY DEF Is, Fields, Reports
<1>4. Explains(s, n) BY DEF Is, Fields, Explains, Keep
<1> QED BY <1>1, <1>2, <1>3, <1>4 DEF Whole

LEMMA DataStep ==
  ASSUME NEW s, NEW n, NEW k, NEW e, Is(s[n], "data", Fail, k, e),
         Inside(s, Target(s, n)), Unused(s, k)
  PROVE  Whole(s, n)
<1>1. Fits(s, n) BY DEF Is, Fields, Fits
<1>2. Owns(s, n) BY DEF Is, Fields, Owns, Unused, IsStep
<1>3. Reports(s, n) BY DEF Is, Fields, Reports
<1> QED BY <1>1, <1>2, <1>3 DEF Whole

\* Steps inside an answer
LEMMA InsideIs ==
  ASSUME NEW s, NEW m, s[m].what # ">",
         \/ Does(s, m, "wait") \/ Does(s, m, "data")
         \/ Does(s, m, "parse") /\ (Does(s, Target(s, m), "wait") \/ Does(s, Target(s, m), "branch"))
         \/ Does(s, m, "branch") /\ (Does(s, Target(s, m), "wait") \/ Does(s, Target(s, m), "branch"))
  PROVE  Inside(s, m)
BY DEF Inside, Open, Does, IsStep

LEMMA MaintainIs ==
  Fine(Maintain)
<1> DEFINE s == Maintain
<1>1. s[1] = Clear /\ s[2] = Drain
  BY DEF Maintain
<1>2. Len(s) = 2 /\ DOMAIN s = 1 .. 2
  BY DEF Maintain
<1> HIDE DEF s
<1>3. Is(s[1], "error", Fail, Fail, Keep) BY <1>1, StepsAre
<1>4. Is(s[2], "drain", Fail, Fail, Keep) BY <1>1, StepsAre
<1>5. s[1].do = "error" /\ s[2].do = "drain" /\ ~s[1].list /\ ~s[2].list
  BY <1>3, <1>4 DEF Is, IsItem, Fields
<1>6. Target(s, 1) = 2 /\ Target(s, 2) = End
  BY <1>2, <1>3, <1>4 DEF Target, Is, IsItem, Fields, Fail, End
<1>7. Unused(s, Target(s, 1)) /\ Unused(s, Target(s, 2)) /\ Unused(s, Fail)
  BY <1>2, <1>5, <1>6 DEF Unused, Does, Users, End, Fail
<1>8. Whole(s, 1) /\ Explains(s, 1) BY <1>3, <1>7, ErrorStep
<1>9. Whole(s, 2) /\ Explains(s, 2) BY <1>4, <1>7, DrainStep
<1>10. 1 .. 2 = {1, 2} OBVIOUS
<1>11. Regular(s)
  BY <1>2, <1>10, <1>8, <1>9, <1>5 DEF Regular, Whole, End
<1>12. Explaining(s)
  BY <1>2, <1>10, <1>8, <1>9 DEF Explaining
<1>13. OwnText(s)
  BY <1>2, <1>10, <1>8, <1>9 DEF OwnText, Whole
<1>14. Reporting(s)
  BY <1>2, <1>10, <1>8, <1>9 DEF Reporting, Whole
<1>15. Classic(s) BY <1>2, <1>10, <1>5 DEF Classic
<1> QED BY <1>11, <1>12, <1>13, <1>14, <1>15 DEF s, Fine

LEMMA SettingIs ==
  ASSUME NEW c, c \notin Special
  PROVE  Fine(Setting(c))
<1> DEFINE s == Setting(c)
<1>1. s[1] = Clear /\ s[2] = Drain /\ s[3] = Send(c) /\ s[4] = Wait("OK")
  BY DEF Setting
<1>2. Len(s) = 4 /\ DOMAIN s = 1 .. 4
  BY DEF Setting
<1> HIDE DEF s
<1>3. c # ">" /\ c # "BLECONN=" BY DEF Special, Lasting
<1>4. Is(s[1], "error", Fail, Fail, Keep) BY <1>1, StepsAre
<1>5. Is(s[2], "drain", Fail, Fail, Keep) BY <1>1, StepsAre
<1>6. Is(s[3], "send", Fail, Fail, Keep) /\ s[3].what = c BY <1>1, <1>3, StepsAre
<1>7. Is(s[4], "wait", Fail, Fail, Keep) /\ s[4].what = "OK" BY <1>1, StepsAre
<1>8. /\ s[1].do = "error" /\ s[2].do = "drain" /\ s[3].do = "send" /\ s[4].do = "wait" /\ ~s[1].list
      /\ ~s[2].list /\ ~s[3].list /\ ~s[4].list /\ s[4].orElse = Fail
  BY <1>4, <1>5, <1>6, <1>7 DEF Is, IsItem, Fields
<1>9. Target(s, 1) = 2 /\ Target(s, 2) = 3 /\ Target(s, 3) = 4 /\ Target(s, 4) = End
  BY <1>2, <1>4, <1>5, <1>6, <1>7 DEF Target, Is, IsItem, Fields, Fail, End
<1>10. /\ Unused(s, Target(s, 1)) /\ Unused(s, Target(s, 2)) /\ Does(s, Target(s, 3), "wait")
       /\ Unused(s, Target(s, 4)) /\ Unused(s, Fail)
  BY <1>2, <1>8, <1>9 DEF Unused, Does, Users, End, Fail
<1>11. s[Target(s, 3)].what = "OK" /\ s[Target(s, 3)].orElse = Fail
  BY <1>9, <1>8, <1>7
<1>12. Reason(Keep)
  BY DEF Reason, Keep
<1>13. Whole(s, 1) /\ Explains(s, 1) BY <1>4, <1>10, ErrorStep
<1>14. Whole(s, 2) /\ Explains(s, 2) BY <1>5, <1>10, DrainStep
<1>15. Whole(s, 3) /\ Explains(s, 3) BY <1>6, <1>10, <1>11, SendPlain
<1>16. Whole(s, 4) /\ Explains(s, 4) BY <1>7, <1>10, <1>12, LastWait
<1>17. 1 .. 4 = {1, 2, 3, 4} OBVIOUS
<1>18. Regular(s)
  BY <1>2, <1>17, <1>13, <1>14, <1>15, <1>16, <1>8 DEF Regular, Whole, End
<1>19. Explaining(s)
  BY <1>2, <1>17, <1>13, <1>14, <1>15, <1>16 DEF Explaining
<1>20. OwnText(s)
  BY <1>2, <1>17, <1>13, <1>14, <1>15, <1>16 DEF OwnText, Whole
<1>21. Reporting(s)
  BY <1>2, <1>17, <1>13, <1>14, <1>15, <1>16 DEF Reporting, Whole
<1>22. Classic(s) BY <1>2, <1>17, <1>8, <1>6, <1>3 DEF Classic
<1> QED BY <1>18, <1>19, <1>20, <1>21, <1>22 DEF s, Fine

LEMMA MaintainTwiceIs ==
  ASSUME NEW c, c \notin Special
  PROVE  Fine(MaintainTwice(c))
<1> DEFINE s == MaintainTwice(c)
<1>1. /\ s[1] = Clear /\ s[2] = Drain /\ s[3] = Clear /\ s[4] = Drain /\ s[5] = Send(c)
      /\ s[6] = Wait("OK")
  BY DEF MaintainTwice
<1>2. Len(s) = 6 /\ DOMAIN s = 1 .. 6
  BY DEF MaintainTwice
<1> HIDE DEF s
<1>3. c # ">" /\ c # "BLECONN=" BY DEF Special, Lasting
<1>4. Is(s[1], "error", Fail, Fail, Keep) BY <1>1, StepsAre
<1>5. Is(s[2], "drain", Fail, Fail, Keep) BY <1>1, StepsAre
<1>6. Is(s[3], "error", Fail, Fail, Keep) BY <1>1, StepsAre
<1>7. Is(s[4], "drain", Fail, Fail, Keep) BY <1>1, StepsAre
<1>8. Is(s[5], "send", Fail, Fail, Keep) /\ s[5].what = c BY <1>1, <1>3, StepsAre
<1>9. Is(s[6], "wait", Fail, Fail, Keep) /\ s[6].what = "OK" BY <1>1, StepsAre
<1>10. /\ s[1].do = "error" /\ s[2].do = "drain" /\ s[3].do = "error" /\ s[4].do = "drain"
       /\ s[5].do = "send" /\ s[6].do = "wait" /\ ~s[1].list /\ ~s[2].list /\ ~s[3].list /\ ~s[4].list
       /\ ~s[5].list /\ ~s[6].list /\ s[6].orElse = Fail
  BY <1>4, <1>5, <1>6, <1>7, <1>8, <1>9 DEF Is, IsItem, Fields
<1>11. /\ Target(s, 1) = 2 /\ Target(s, 2) = 3 /\ Target(s, 3) = 4 /\ Target(s, 4) = 5 /\ Target(s, 5) = 6
       /\ Target(s, 6) = End
  BY <1>2, <1>4, <1>5, <1>6, <1>7, <1>8, <1>9 DEF Target, Is, IsItem, Fields, Fail, End
<1>12. /\ Unused(s, Target(s, 1)) /\ Unused(s, Target(s, 2)) /\ Unused(s, Target(s, 3))
       /\ Unused(s, Target(s, 4)) /\ Does(s, Target(s, 5), "wait") /\ Unused(s, Target(s, 6))
       /\ Unused(s, Fail)
  BY <1>2, <1>10, <1>11 DEF Unused, Does, Users, End, Fail
<1>13. s[Target(s, 5)].what = "OK" /\ s[Target(s, 5)].orElse = Fail
  BY <1>11, <1>10, <1>9
<1>14. Reason(Keep)
  BY DEF Reason, Keep
<1>15. Whole(s, 1) /\ Explains(s, 1) BY <1>4, <1>12, ErrorStep
<1>16. Whole(s, 2) /\ Explains(s, 2) BY <1>5, <1>12, DrainStep
<1>17. Whole(s, 3) /\ Explains(s, 3) BY <1>6, <1>12, ErrorStep
<1>18. Whole(s, 4) /\ Explains(s, 4) BY <1>7, <1>12, DrainStep
<1>19. Whole(s, 5) /\ Explains(s, 5) BY <1>8, <1>12, <1>13, SendPlain
<1>20. Whole(s, 6) /\ Explains(s, 6) BY <1>9, <1>12, <1>14, LastWait
<1>21. 1 .. 6 = {1, 2, 3, 4, 5, 6} OBVIOUS
<1>22. Regular(s)
  BY <1>2, <1>21, <1>15, <1>16, <1>17, <1>18, <1>19, <1>20, <1>10 DEF Regular, Whole, End
<1>23. Explaining(s)
  BY <1>2, <1>21, <1>15, <1>16, <1>17, <1>18, <1>19, <1>20 DEF Explaining
<1>24. OwnText(s)
  BY <1>2, <1>21, <1>15, <1>16, <1>17, <1>18, <1>19, <1>20 DEF OwnText, Whole
<1>25. Reporting(s)
  BY <1>2, <1>21, <1>15, <1>16, <1>17, <1>18, <1>19, <1>20 DEF Reporting, Whole
<1>26. Classic(s) BY <1>2, <1>21, <1>10, <1>8, <1>3 DEF Classic
<1> QED BY <1>22, <1>23, <1>24, <1>25, <1>26 DEF s, Fine

LEMMA QueryIs ==
  ASSUME NEW c, c \notin Special
  PROVE  Fine(Query(c))
<1> DEFINE s == Query(c)
<1>1. /\ s[1] = Clear /\ s[2] = Drain /\ s[3] = Send(c) /\ s[4] = Wait(c) /\ s[5] = Parse
      /\ s[6] = Wait("OK")
  BY DEF Query
<1>2. Len(s) = 6 /\ DOMAIN s = 1 .. 6
  BY DEF Query
<1> HIDE DEF s
<1>3. c # ">" /\ c # "BLECONN=" BY DEF Special, Lasting
<1>4. Is(s[1], "error", Fail, Fail, Keep) BY <1>1, StepsAre
<1>5. Is(s[2], "drain", Fail, Fail, Keep) BY <1>1, StepsAre
<1>6. Is(s[3], "send", Fail, Fail, Keep) /\ s[3].what = c BY <1>1, <1>3, StepsAre
<1>7. Is(s[4], "wait", Fail, Fail, Keep) /\ s[4].what = c BY <1>1, <1>3, StepsAre
<1>8. Is(s[5], "parse", Fail, Fail, Keep) BY <1>1, StepsAre
<1>9. Is(s[6], "wait", Fail, Fail, Keep) /\ s[6].what = "OK" BY <1>1, StepsAre
<1>10. /\ s[1].do = "error" /\ s[2].do = "drain" /\ s[3].do = "send" /\ s[4].do = "wait"
       /\ s[5].do = "parse" /\ s[6].do = "wait" /\ ~s[1].list /\ ~s[2].list /\ ~s[3].list /\ ~s[4].list
       /\ ~s[5].list /\ ~s[6].list /\ s[4].orElse = Fail /\ s[6].orElse = Fail
  BY <1>4, <1>5, <1>6, <1>7, <1>8, <1>9 DEF Is, IsItem, Fields
<1>11. /\ Target(s, 1) = 2 /\ Target(s, 2) = 3 /\ Target(s, 3) = 4 /\ Target(s, 4) = 5 /\ Target(s, 5) = 6
       /\ Target(s, 6) = End
  BY <1>2, <1>4, <1>5, <1>6, <1>7, <1>8, <1>9 DEF Target, Is, IsItem, Fields, Fail, End
<1>12. /\ Unused(s, Target(s, 1)) /\ Unused(s, Target(s, 2)) /\ Does(s, Target(s, 3), "wait")
       /\ Unused(s, Target(s, 5)) /\ Does(s, Target(s, 5), "wait") /\ Unused(s, Target(s, 6))
       /\ Unused(s, Fail)
  BY <1>2, <1>10, <1>11 DEF Unused, Does, Users, End, Fail
<1>13. s[Target(s, 3)].what = c /\ s[Target(s, 3)].orElse = Fail
  BY <1>11, <1>10, <1>7
<1>14. Reason(Keep)
  BY DEF Reason, Keep
<1>15. Whole(s, 1) /\ Explains(s, 1) BY <1>4, <1>12, ErrorStep
<1>16. Whole(s, 2) /\ Explains(s, 2) BY <1>5, <1>12, DrainStep
<1>17. Whole(s, 3) /\ Explains(s, 3) BY <1>6, <1>12, <1>13, SendPlain
<1>18. s[5].what # ">" /\ Does(s, 5, "parse") BY <1>2, <1>8, <1>10 DEF Does, Is, IsItem, Fields
<1>19. Inside(s, 5) BY <1>18, <1>12, InsideIs
<1>20. Inside(s, Target(s, 4)) BY <1>19, <1>11
<1>21. Whole(s, 4) /\ Explains(s, 4) BY <1>7, <1>12, <1>14, <1>20, <1>10, InnerWait
<1>22. s[6].what # ">" /\ Does(s, 6, "wait") BY <1>2, <1>9, <1>10 DEF Does, Is, IsItem, Fields
<1>23. Inside(s, 6) BY <1>22, <1>12, InsideIs
<1>24. Inside(s, Target(s, 5)) BY <1>23, <1>11
<1>25. Whole(s, 5) /\ Explains(s, 5) BY <1>8, <1>12, <1>24, ParseStep
<1>26. Whole(s, 6) /\ Explains(s, 6) BY <1>9, <1>12, <1>14, LastWait
<1>27. 1 .. 6 = {1, 2, 3, 4, 5, 6} OBVIOUS
<1>28. Regular(s)
  BY <1>2, <1>27, <1>15, <1>16, <1>17, <1>21, <1>25, <1>26, <1>10 DEF Regular, Whole, End
<1>29. Explaining(s)
  BY <1>2, <1>27, <1>15, <1>16, <1>17, <1>21, <1>25, <1>26 DEF Explaining
<1>30. OwnText(s)
  BY <1>2, <1>27, <1>15, <1>16, <1>17, <1>21, <1>25, <1>26 DEF OwnText, Whole
<1>31. Reporting(s)
  BY <1>2, <1>27, <1>15, <1>16, <1>17, <1>21, <1>25, <1>26 DEF Reporting, Whole
<1>32. Classic(s) BY <1>2, <1>27, <1>10, <1>6, <1>3 DEF Classic
<1> QED BY <1>28, <1>29, <1>30, <1>31, <1>32 DEF s, Fine

LEMMA GetterIs ==
  ASSUME NEW c, c \notin Special
  PROVE  Regular(Getter(c)) /\ Explaining(Getter(c)) /\ Reporting(Getter(c)) /\ Classic(Getter(c))
<1> DEFINE s == Getter(c)
<1>1. /\ s[1] = Clear /\ s[2] = Drain /\ s[3] = Send(c) /\ s[4] = Wait(c) /\ s[5] = OrElse(6, Wait("OK"))
      /\ s[6] = Parse
  BY DEF Getter
<1>2. Len(s) = 6 /\ DOMAIN s = 1 .. 6
  BY DEF Getter
<1> HIDE DEF s
<1>3. c # ">" /\ c # "BLECONN=" BY DEF Special, Lasting
<1>4. Is(s[1], "error", Fail, Fail, Keep) BY <1>1, StepsAre
<1>5. Is(s[2], "drain", Fail, Fail, Keep) BY <1>1, StepsAre
<1>6. Is(s[3], "send", Fail, Fail, Keep) /\ s[3].what = c BY <1>1, <1>3, StepsAre
<1>7. Is(s[4], "wait", Fail, Fail, Keep) /\ s[4].what = c BY <1>1, <1>3, StepsAre
<1>8. Is(s[5], "wait", Fail, 6, Keep) /\ s[5].what = "OK" BY <1>1, VariantsAre
<1>9. Is(s[6], "parse", Fail, Fail, Keep) BY <1>1, StepsAre
<1>10. /\ s[1].do = "error" /\ s[2].do = "drain" /\ s[3].do = "send" /\ s[4].do = "wait"
       /\ s[5].do = "wait" /\ s[6].do = "parse" /\ ~s[1].list /\ ~s[2].list /\ ~s[3].list /\ ~s[4].list
       /\ ~s[5].list /\ ~s[6].list /\ s[4].orElse = Fail /\ s[5].orElse = 6
  BY <1>4, <1>5, <1>6, <1>7, <1>8, <1>9 DEF Is, IsItem, Fields
<1>11. /\ Target(s, 1) = 2 /\ Target(s, 2) = 3 /\ Target(s, 3) = 4 /\ Target(s, 4) = 5 /\ Target(s, 5) = 6
       /\ Target(s, 6) = End
  BY <1>2, <1>4, <1>5, <1>6, <1>7, <1>8, <1>9 DEF Target, Is, IsItem, Fields, Fail, End
<1>12. /\ Unused(s, Target(s, 1)) /\ Unused(s, Target(s, 2)) /\ Does(s, Target(s, 3), "wait")
       /\ Unused(s, Target(s, 4)) /\ Unused(s, Target(s, 6))
       /\ ~IsStep(s, Target(s, 6), {"wait", "branch"}) /\ Unused(s, Fail)
  BY <1>2, <1>10, <1>11 DEF Unused, Does, Users, End, Fail, IsStep
<1>13. s[Target(s, 3)].what = c /\ s[Target(s, 3)].orElse = Fail
  BY <1>11, <1>10, <1>7
<1>14. Reason(Keep)
  BY DEF Reason, Keep
<1>15. Whole(s, 1) /\ Explains(s, 1) BY <1>4, <1>12, ErrorStep
<1>16. Whole(s, 2) /\ Explains(s, 2) BY <1>5, <1>12, DrainStep
<1>17. Whole(s, 3) /\ Explains(s, 3) BY <1>6, <1>12, <1>13, SendPlain
<1>18. s[5].what # ">" /\ Does(s, 5, "wait") BY <1>2, <1>8, <1>10 DEF Does, Is, IsItem, Fields
<1>19. Inside(s, 5) BY <1>18, <1>12, InsideIs
<1>20. Inside(s, Target(s, 4)) BY <1>19, <1>11
<1>21. Whole(s, 4) /\ Explains(s, 4) BY <1>7, <1>12, <1>14, <1>20, <1>10, InnerWait
<1>22. Fits(s, 5) /\ Reports(s, 5) /\ Explains(s, 5) BY <1>8, <1>12, <1>14, LastWait
<1>23. Whole(s, 6) /\ Explains(s, 6) BY <1>9, <1>12, ParseStep
<1>24. 1 .. 6 = {1, 2, 3, 4, 5, 6} OBVIOUS
<1>25. Regular(s)
  BY <1>2, <1>24, <1>15, <1>16, <1>17, <1>21, <1>22, <1>23, <1>10 DEF Regular, Whole, End
<1>26. Explaining(s)
  BY <1>2, <1>24, <1>15, <1>16, <1>17, <1>21, <1>22, <1>23 DEF Explaining
<1>27. Reporting(s)
  BY <1>2, <1>24, <1>15, <1>16, <1>17, <1>21, <1>22, <1>23 DEF Reporting, Whole
<1>28. Classic(s) BY <1>2, <1>24, <1>10, <1>6, <1>3 DEF Classic
<1> QED BY <1>25, <1>26, <1>27, <1>28 DEF s

LEMMA ThreeLinesIs ==
  ASSUME NEW c, c \notin Special
  PROVE  Fine(ThreeLines(c))
<1> DEFINE s == ThreeLines(c)
<1>1. /\ s[1] = Clear /\ s[2] = Drain /\ s[3] = Send(c) /\ s[4] = Wait(c) /\ s[5] = Parse
      /\ s[6] = Wait(c) /\ s[7] = Parse /\ s[8] = Wait(c) /\ s[9] = Parse /\ s[10] = Wait("OK")
  BY DEF ThreeLines
<1>2. Len(s) = 10 /\ DOMAIN s = 1 .. 10
  BY DEF ThreeLines
<1> HIDE DEF s
<1>3. c # ">" /\ c # "BLECONN=" BY DEF Special, Lasting
<1>4. Is(s[1], "error", Fail, Fail, Keep) BY <1>1, StepsAre
<1>5. Is(s[2], "drain", Fail, Fail, Keep) BY <1>1, StepsAre
<1>6. Is(s[3], "send", Fail, Fail, Keep) /\ s[3].what = c BY <1>1, <1>3, StepsAre
<1>7. Is(s[4], "wait", Fail, Fail, Keep) /\ s[4].what = c BY <1>1, <1>3, StepsAre
<1>8. Is(s[5], "parse", Fail, Fail, Keep) BY <1>1, StepsAre
<1>9. Is(s[6], "wait", Fail, Fail, Keep) /\ s[6].what = c BY <1>1, <1>3, StepsAre
<1>10. Is(s[7], "parse", Fail, Fail, Keep) BY <1>1, StepsAre
<1>11. Is(s[8], "wait", Fail, Fail, Keep) /\ s[8].what = c BY <1>1, <1>3, StepsAre
<1>12. Is(s[9], "parse", Fail, Fail, Keep) BY <1>1, StepsAre
<1>13. Is(s[10], "wait", Fail, Fail, Keep) /\ s[10].what = "OK" BY <1>1, StepsAre
<1>14. /\ s[1].do = "error" /\ s[2].do = "drain" /\ s[3].do = "send" /\ s[4].do = "wait"
       /\ s[5].do = "parse" /\ s[6].do = "wait" /\ s[7].do = "parse" /\ s[8].do = "wait"
       /\ s[9].do = "parse" /\ s[10].do = "wait" /\ ~s[1].list /\ ~s[2].list /\ ~s[3].list /\ ~s[4].list
       /\ ~s[5].list /\ ~s[6].list /\ ~s[7].list /\ ~s[8].list /\ ~s[9].list /\ ~s[10].list
       /\ s[4].orElse = Fail /\ s[6].orElse = Fail /\ s[8].orElse = Fail /\ s[10].orElse = Fail
  BY <1>4, <1>5, <1>6, <1>7, <1>8, <1>9, <1>10, <1>11, <1>12, <1>13 DEF Is, IsItem, Fields
<1>15. /\ Target(s, 1) = 2 /\ Target(s, 2) = 3 /\ Target(s, 3) = 4 /\ Target(s, 4) = 5 /\ Target(s, 5) = 6
       /\ Target(s, 6) = 7 /\ Target(s, 7) = 8 /\ Target(s, 8) = 9 /\ Target(s, 9) = 10
       /\ Target(s, 10) = End
  BY <1>2, <1>4, <1>5, <1>6, <1>7, <1>8, <1>9, <1>10, <1>11, <1>12, <1>13 DEF Target, Is, IsItem, Fields,
     Fail, End
<1>16. /\ Unused(s, Target(s, 1)) /\ Unused(s, Target(s, 2)) /\ Does(s, Target(s, 3), "wait")
       /\ Unused(s, Target(s, 5)) /\ Does(s, Target(s, 5), "wait") /\ Unused(s, Target(s, 7))
       /\ Does(s, Target(s, 7), "wait") /\ Unused(s, Target(s, 9)) /\ Does(s, Target(s, 9), "wait")
       /\ Unused(s, Target(s, 10)) /\ Unused(s, Fail)
  BY <1>2, <1>14, <1>15 DEF Unused, Does, Users, End, Fail
<1>17. s[Target(s, 3)].what = c /\ s[Target(s, 3)].orElse = Fail
  BY <1>15, <1>14, <1>7
<1>18. Reason(Keep)
  BY DEF Reason, Keep
<1>19. Whole(s, 1) /\ Explains(s, 1) BY <1>4, <1>16, ErrorStep
<1>20. Whole(s, 2) /\ Explains(s, 2) BY <1>5, <1>16, DrainStep
<1>21. Whole(s, 3) /\ Explains(s, 3) BY <1>6, <1>16, <1>17, SendPlain
<1>22. s[5].what # ">" /\ Does(s, 5, "parse") BY <1>2, <1>8, <1>14 DEF Does, Is, IsItem, Fields
<1>23. Inside(s, 5) BY <1>22, <1>16, InsideIs
<1>24. Inside(s, Target(s, 4)) BY <1>23, <1>15
<1>25. Whole(s, 4) /\ Explains(s, 4) BY <1>7, <1>16, <1>18, <1>24, <1>14, InnerWait
<1>26. s[6].what # ">" /\ Does(s, 6, "wait") BY <1>2, <1>9, <1>14, <1>3 DEF Does, Is, IsItem, Fields
<1>27. Inside(s, 6) BY <1>26, <1>16, InsideIs
<1>28. Inside(s, Target(s, 5)) BY <1>27, <1>15
<1>29. Whole(s, 5) /\ Explains(s, 5) BY <1>8, <1>16, <1>28, ParseStep
<1>30. s[7].what # ">" /\ Does(s, 7, "parse") BY <1>2, <1>10, <1>14 DEF Does, Is, IsItem, Fields
<1>31. Inside(s, 7) BY <1>30, <1>16, InsideIs
<1>32. Inside(s, Target(s, 6)) BY <1>31, <1>15
<1>33. Whole(s, 6) /\ Explains(s, 6) BY <1>9, <1>16, <1>18, <1>32, <1>14, InnerWait
<1>34. s[8].what # ">" /\ Does(s, 8, "wait") BY <1>2, <1>11, <1>14, <1>3 DEF Does, Is, IsItem, Fields
<1>35. Inside(s, 8) BY <1>34, <1>16, InsideIs
<1>36. Inside(s, Target(s, 7)) BY <1>35, <1>15
<1>37. Whole(s, 7) /\ Explains(s, 7) BY <1>10, <1>16, <1>36, ParseStep
<1>38. s[9].what # ">" /\ Does(s, 9, "parse") BY <1>2, <1>12, <1>14 DEF Does, Is, IsItem, Fields
<1>39. Inside(s, 9) BY <1>38, <1>16, InsideIs
<1>40. Inside(s, Target(s, 8)) BY <1>39, <1>15
<1>41. Whole(s, 8) /\ Explains(s, 8) BY <1>11, <1>16, <1>18, <1>40, <1>14, InnerWait
<1>42. s[10].what # ">" /\ Does(s, 10, "wait") BY <1>2, <1>13, <1>14 DEF Does, Is, IsItem, Fields
<1>43. Inside(s, 10) BY <1>42, <1>16, InsideIs
<1>44. Inside(s, Target(s, 9)) BY <1>43, <1>15
<1>45. Whole(s, 9) /\ Explains(s, 9) BY <1>12, <1>16, <1>44, ParseStep
<1>46. Whole(s, 10) /\ Explains(s, 10) BY <1>13, <1>16, <1>18, LastWait
<1>47. 1 .. 10 = {1, 2, 3, 4, 5, 6, 7, 8, 9, 10} OBVIOUS
<1>48. Regular(s)
  BY <1>2, <1>47, <1>19, <1>20, <1>21, <1>25, <1>29, <1>33, <1>37, <1>41, <1>45, <1>46, <1>14 DEF Regular,
     Whole, End
<1>49. Explaining(s)
  BY <1>2, <1>47, <1>19, <1>20, <1>21, <1>25, <1>29, <1>33, <1>37, <1>41, <1>45, <1>46 DEF Explaining
<1>50. OwnText(s)
  BY <1>2, <1>47, <1>19, <1>20, <1>21, <1>25, <1>29, <1>33, <1>37, <1>41, <1>45, <1>46 DEF OwnText, Whole
<1>51. Reporting(s)
  BY <1>2, <1>47, <1>19, <1>20, <1>21, <1>25, <1>29, <1>33, <1>37, <1>41, <1>45, <1>46 DEF Reporting, Whole
<1>52. Classic(s) BY <1>2, <1>47, <1>14, <1>6, <1>3 DEF Classic
<1> QED BY <1>48, <1>49, <1>50, <1>51, <1>52 DEF s, Fine

LEMMA StaStatusIs ==
  Fine(StaStatus)
<1> DEFINE s == StaStatus
<1>1. /\ s[1] = Clear /\ s[2] = Drain /\ s[3] = Require("NOT_INITIALIZED") /\ s[4] = Send("STATUS")
      /\ s[5] = Wait("STATUS") /\ s[6] = Parse /\ s[7] = Wait("OK")
  BY DEF StaStatus
<1>2. Len(s) = 7 /\ DOMAIN s = 1 .. 7
  BY DEF StaStatus
<1> HIDE DEF s
<1>3. "STATUS" \notin Special
  BY DEF Special, Lasting, Foreign, Unsolicited, Refusing, Prompting
<1>4. Is(s[1], "error", Fail, Fail, Keep) BY <1>1, StepsAre
<1>5. Is(s[2], "drain", Fail, Fail, Keep) BY <1>1, StepsAre
<1>6. Is(s[3], "require", Fail, Fail, "NOT_INITIALIZED") BY <1>1, StepsAre
<1>7. Is(s[4], "send", Fail, Fail, Keep) /\ s[4].what = "STATUS" BY <1>1, StepsAre
<1>8. Is(s[5], "wait", Fail, Fail, Keep) /\ s[5].what = "STATUS" BY <1>1, StepsAre
<1>9. Is(s[6], "parse", Fail, Fail, Keep) BY <1>1, StepsAre
<1>10. Is(s[7], "wait", Fail, Fail, Keep) /\ s[7].what = "OK" BY <1>1, StepsAre
<1>11. /\ s[1].do = "error" /\ s[2].do = "drain" /\ s[3].do = "require" /\ s[4].do = "send"
       /\ s[5].do = "wait" /\ s[6].do = "parse" /\ s[7].do = "wait" /\ ~s[1].list /\ ~s[2].list
       /\ ~s[3].list /\ ~s[4].list /\ ~s[5].list /\ ~s[6].list /\ ~s[7].list /\ s[5].orElse = Fail
       /\ s[7].orElse = Fail
  BY <1>4, <1>5, <1>6, <1>7, <1>8, <1>9, <1>10 DEF Is, IsItem, Fields
<1>12. /\ Target(s, 1) = 2 /\ Target(s, 2) = 3 /\ Target(s, 3) = 4 /\ Target(s, 4) = 5 /\ Target(s, 5) = 6
       /\ Target(s, 6) = 7 /\ Target(s, 7) = End
  BY <1>2, <1>4, <1>5, <1>6, <1>7, <1>8, <1>9, <1>10 DEF Target, Is, IsItem, Fields, Fail, End
<1>13. /\ Unused(s, Target(s, 1)) /\ Unused(s, Target(s, 2)) /\ Unused(s, Target(s, 3))
       /\ Does(s, Target(s, 4), "wait") /\ Unused(s, Target(s, 6)) /\ Does(s, Target(s, 6), "wait")
       /\ Unused(s, Target(s, 7)) /\ Unused(s, Fail)
  BY <1>2, <1>11, <1>12 DEF Unused, Does, Users, End, Fail
<1>14. s[Target(s, 4)].what = "STATUS" /\ s[Target(s, 4)].orElse = Fail
  BY <1>12, <1>11, <1>8
<1>15. Given("NOT_INITIALIZED") /\ Reason(Keep)
  BY DEF Reason, Given, Keep
<1>16. Whole(s, 1) /\ Explains(s, 1) BY <1>4, <1>13, ErrorStep
<1>17. Whole(s, 2) /\ Explains(s, 2) BY <1>5, <1>13, DrainStep
<1>18. Whole(s, 3) /\ Explains(s, 3) BY <1>6, <1>13, <1>15, RequireStep
<1>19. Whole(s, 4) /\ Explains(s, 4) BY <1>7, <1>13, <1>14, <1>3, SendPlain
<1>20. s[6].what # ">" /\ Does(s, 6, "parse") BY <1>2, <1>9, <1>11 DEF Does, Is, IsItem, Fields
<1>21. Inside(s, 6) BY <1>20, <1>13, InsideIs
<1>22. Inside(s, Target(s, 5)) BY <1>21, <1>12
<1>23. Whole(s, 5) /\ Explains(s, 5) BY <1>8, <1>13, <1>15, <1>22, <1>11, <1>3, InnerWait
<1>24. s[7].what # ">" /\ Does(s, 7, "wait") BY <1>2, <1>10, <1>11 DEF Does, Is, IsItem, Fields
<1>25. Inside(s, 7) BY <1>24, <1>13, InsideIs
<1>26. Inside(s, Target(s, 6)) BY <1>25, <1>12
<1>27. Whole(s, 6) /\ Explains(s, 6) BY <1>9, <1>13, <1>26, ParseStep
<1>28. Whole(s, 7) /\ Explains(s, 7) BY <1>10, <1>13, <1>15, LastWait
<1>29. 1 .. 7 = {1, 2, 3, 4, 5, 6, 7} OBVIOUS
<1>30. Regular(s)
  BY <1>2, <1>29, <1>16, <1>17, <1>18, <1>19, <1>23, <1>27, <1>28, <1>11 DEF Regular, Whole, End
<1>31. Explaining(s)
  BY <1>2, <1>29, <1>16, <1>17, <1>18, <1>19, <1>23, <1>27, <1>28 DEF Explaining
<1>32. OwnText(s)
  BY <1>2, <1>29, <1>16, <1>17, <1>18, <1>19, <1>23, <1>27, <1>28 DEF OwnText, Whole
<1>33. Reporting(s)
  BY <1>2, <1>29, <1>16, <1>17, <1>18, <1>19, <1>23, <1>27, <1>28 DEF Reporting, Whole
<1>34. Classic(s) BY <1>2, <1>29, <1>11, <1>7 DEF Classic
<1> QED BY <1>30, <1>31, <1>32, <1>33, <1>34 DEF s, Fine

LEMMA QueryIfOnIs ==
  ASSUME NEW c, c \notin Special
  PROVE  Regular(QueryIfOn(c)) /\ OwnText(QueryIfOn(c)) /\ Reporting(QueryIfOn(c)) /\ Classic(QueryIfOn(c))
<1> DEFINE s == QueryIfOn(c)
<1>1. /\ s[1] = Clear /\ s[2] = Drain /\ s[3] = Require(Keep) /\ s[4] = Send(c) /\ s[5] = Wait(c)
      /\ s[6] = Parse /\ s[7] = Wait("OK")
  BY DEF QueryIfOn
<1>2. Len(s) = 7 /\ DOMAIN s = 1 .. 7
  BY DEF QueryIfOn
<1> HIDE DEF s
<1>3. c # ">" /\ c # "BLECONN=" BY DEF Special, Lasting
<1>4. Is(s[1], "error", Fail, Fail, Keep) BY <1>1, StepsAre
<1>5. Is(s[2], "drain", Fail, Fail, Keep) BY <1>1, StepsAre
<1>6. Is(s[3], "require", Fail, Fail, Keep) BY <1>1, StepsAre
<1>7. Is(s[4], "send", Fail, Fail, Keep) /\ s[4].what = c BY <1>1, <1>3, StepsAre
<1>8. Is(s[5], "wait", Fail, Fail, Keep) /\ s[5].what = c BY <1>1, <1>3, StepsAre
<1>9. Is(s[6], "parse", Fail, Fail, Keep) BY <1>1, StepsAre
<1>10. Is(s[7], "wait", Fail, Fail, Keep) /\ s[7].what = "OK" BY <1>1, StepsAre
<1>11. /\ s[1].do = "error" /\ s[2].do = "drain" /\ s[3].do = "require" /\ s[4].do = "send"
       /\ s[5].do = "wait" /\ s[6].do = "parse" /\ s[7].do = "wait" /\ ~s[1].list /\ ~s[2].list
       /\ ~s[3].list /\ ~s[4].list /\ ~s[5].list /\ ~s[6].list /\ ~s[7].list /\ s[5].orElse = Fail
       /\ s[7].orElse = Fail
  BY <1>4, <1>5, <1>6, <1>7, <1>8, <1>9, <1>10 DEF Is, IsItem, Fields
<1>12. /\ Target(s, 1) = 2 /\ Target(s, 2) = 3 /\ Target(s, 3) = 4 /\ Target(s, 4) = 5 /\ Target(s, 5) = 6
       /\ Target(s, 6) = 7 /\ Target(s, 7) = End
  BY <1>2, <1>4, <1>5, <1>6, <1>7, <1>8, <1>9, <1>10 DEF Target, Is, IsItem, Fields, Fail, End
<1>13. /\ Unused(s, Target(s, 1)) /\ Unused(s, Target(s, 2)) /\ Unused(s, Target(s, 3))
       /\ Does(s, Target(s, 4), "wait") /\ Unused(s, Target(s, 6)) /\ Does(s, Target(s, 6), "wait")
       /\ Unused(s, Target(s, 7)) /\ Unused(s, Fail)
  BY <1>2, <1>11, <1>12 DEF Unused, Does, Users, End, Fail
<1>14. s[Target(s, 4)].what = c /\ s[Target(s, 4)].orElse = Fail
  BY <1>12, <1>11, <1>8
<1>15. Reason(Keep)
  BY DEF Reason, Keep
<1>16. Whole(s, 1) BY <1>4, <1>13, ErrorStep
<1>17. Whole(s, 2) BY <1>5, <1>13, DrainStep
<1>18. Whole(s, 3) BY <1>6, <1>13, RequireStep
<1>19. Whole(s, 4) BY <1>7, <1>13, <1>14, SendPlain
<1>20. s[6].what # ">" /\ Does(s, 6, "parse") BY <1>2, <1>9, <1>11 DEF Does, Is, IsItem, Fields
<1>21. Inside(s, 6) BY <1>20, <1>13, InsideIs
<1>22. Inside(s, Target(s, 5)) BY <1>21, <1>12
<1>23. Whole(s, 5) BY <1>8, <1>13, <1>15, <1>22, <1>11, InnerWait
<1>24. s[7].what # ">" /\ Does(s, 7, "wait") BY <1>2, <1>10, <1>11 DEF Does, Is, IsItem, Fields
<1>25. Inside(s, 7) BY <1>24, <1>13, InsideIs
<1>26. Inside(s, Target(s, 6)) BY <1>25, <1>12
<1>27. Whole(s, 6) BY <1>9, <1>13, <1>26, ParseStep
<1>28. Whole(s, 7) BY <1>10, <1>13, <1>15, LastWait
<1>29. 1 .. 7 = {1, 2, 3, 4, 5, 6, 7} OBVIOUS
<1>30. Regular(s)
  BY <1>2, <1>29, <1>16, <1>17, <1>18, <1>19, <1>23, <1>27, <1>28, <1>11 DEF Regular, Whole, End
<1>31. OwnText(s)
  BY <1>2, <1>29, <1>16, <1>17, <1>18, <1>19, <1>23, <1>27, <1>28 DEF OwnText, Whole
<1>32. Reporting(s)
  BY <1>2, <1>29, <1>16, <1>17, <1>18, <1>19, <1>23, <1>27, <1>28 DEF Reporting, Whole
<1>33. Classic(s) BY <1>2, <1>29, <1>11, <1>7, <1>3 DEF Classic
<1> QED BY <1>30, <1>31, <1>32, <1>33 DEF s

LEMMA DnsQueryAT1Is ==
  Regular(DnsQueryAT1) /\ OwnText(DnsQueryAT1) /\ Reporting(DnsQueryAT1) /\ Classic(DnsQueryAT1)
<1> DEFINE s == DnsQueryAT1
<1>1. /\ s[1] = Clear /\ s[2] = Drain /\ s[3] = Send("+CIPDNS_CUR") /\ s[4] = WaitItem("+CIPDNS_CUR")
      /\ s[5] = Parse /\ s[6] = OrElse(End, WaitItem("+CIPDNS_CUR")) /\ s[7] = Parse /\ s[8] = Wait("OK")
  BY DEF DnsQueryAT1
<1>2. Len(s) = 8 /\ DOMAIN s = 1 .. 8
  BY DEF DnsQueryAT1
<1> HIDE DEF s
<1>3. "+CIPDNS_CUR" \notin Special
  BY DEF Special, Lasting, Foreign, Unsolicited, Refusing, Prompting
<1>4. Is(s[1], "error", Fail, Fail, Keep) BY <1>1, StepsAre
<1>5. Is(s[2], "drain", Fail, Fail, Keep) BY <1>1, StepsAre
<1>6. Is(s[3], "send", Fail, Fail, Keep) /\ s[3].what = "+CIPDNS_CUR" BY <1>1, StepsAre
<1>7. IsItem(s[4], Fail, Fail) /\ s[4].what = "+CIPDNS_CUR" BY <1>1, StepsAre
<1>8. Is(s[5], "parse", Fail, Fail, Keep) BY <1>1, StepsAre
<1>9. IsItem(s[6], Fail, End) /\ s[6].what = "+CIPDNS_CUR" BY <1>1, VariantsAre
<1>10. Is(s[7], "parse", Fail, Fail, Keep) BY <1>1, StepsAre
<1>11. Is(s[8], "wait", Fail, Fail, Keep) /\ s[8].what = "OK" BY <1>1, StepsAre
<1>12. /\ s[1].do = "error" /\ s[2].do = "drain" /\ s[3].do = "send" /\ s[4].do = "wait"
       /\ s[5].do = "parse" /\ s[6].do = "wait" /\ s[7].do = "parse" /\ s[8].do = "wait" /\ ~s[1].list
       /\ ~s[2].list /\ ~s[3].list /\ ~s[5].list /\ ~s[7].list /\ ~s[8].list /\ s[4].orElse = Fail
       /\ s[6].orElse = End /\ s[8].orElse = Fail
  BY <1>4, <1>5, <1>6, <1>7, <1>8, <1>9, <1>10, <1>11 DEF Is, IsItem, Fields
<1>13. /\ Target(s, 1) = 2 /\ Target(s, 2) = 3 /\ Target(s, 3) = 4 /\ Target(s, 4) = 5 /\ Target(s, 5) = 6
       /\ Target(s, 6) = 7 /\ Target(s, 7) = 8 /\ Target(s, 8) = End
  BY <1>2, <1>4, <1>5, <1>6, <1>7, <1>8, <1>9, <1>10, <1>11 DEF Target, Is, IsItem, Fields, Fail, End
<1>14. /\ Unused(s, Target(s, 1)) /\ Unused(s, Target(s, 2)) /\ Does(s, Target(s, 3), "wait")
       /\ Unused(s, Target(s, 5)) /\ Does(s, Target(s, 5), "wait") /\ Unused(s, Target(s, 7))
       /\ Does(s, Target(s, 7), "wait") /\ Unused(s, Target(s, 8)) /\ Unused(s, Fail) /\ Unused(s, End)
  BY <1>2, <1>12, <1>13 DEF Unused, Does, Users, End, Fail
<1>15. s[Target(s, 3)].what = "+CIPDNS_CUR" /\ s[Target(s, 3)].orElse = Fail
  BY <1>13, <1>12, <1>7
<1>16. Reason(Keep)
  BY DEF Reason, Keep
<1>17. Whole(s, 1) BY <1>4, <1>14, ErrorStep
<1>18. Whole(s, 2) BY <1>5, <1>14, DrainStep
<1>19. Whole(s, 3) BY <1>6, <1>14, <1>15, <1>3, SendPlain
<1>20. s[5].what # ">" /\ Does(s, 5, "parse") BY <1>2, <1>8, <1>12 DEF Does, Is, IsItem, Fields
<1>21. Inside(s, 5) BY <1>20, <1>14, InsideIs
<1>22. Inside(s, Target(s, 4)) BY <1>21, <1>13
<1>23. Whole(s, 4) BY <1>7, <1>14, <1>16, <1>22, <1>12, <1>3, InnerWait
<1>24. s[6].what # ">" /\ Does(s, 6, "wait") BY <1>2, <1>9, <1>12 DEF Does, Is, IsItem, Fields
<1>25. Inside(s, 6) BY <1>24, <1>14, InsideIs
<1>26. Inside(s, Target(s, 5)) BY <1>25, <1>13
<1>27. Whole(s, 5) BY <1>8, <1>14, <1>26, ParseStep
<1>28. s[7].what # ">" /\ Does(s, 7, "parse") BY <1>2, <1>10, <1>12 DEF Does, Is, IsItem, Fields
<1>29. Inside(s, 7) BY <1>28, <1>14, InsideIs
<1>30. Inside(s, Target(s, 6)) BY <1>29, <1>13
<1>31. Whole(s, 6) BY <1>9, <1>14, <1>16, <1>30, <1>12, <1>3, InnerWait
<1>32. s[8].what # ">" /\ Does(s, 8, "wait") BY <1>2, <1>11, <1>12 DEF Does, Is, IsItem, Fields
<1>33. Inside(s, 8) BY <1>32, <1>14, InsideIs
<1>34. Inside(s, Target(s, 7)) BY <1>33, <1>13
<1>35. Whole(s, 7) BY <1>10, <1>14, <1>34, ParseStep
<1>36. Whole(s, 8) BY <1>11, <1>14, <1>16, LastWait
<1>37. 1 .. 8 = {1, 2, 3, 4, 5, 6, 7, 8} OBVIOUS
<1>38. Regular(s)
  BY <1>2, <1>37, <1>17, <1>18, <1>19, <1>23, <1>27, <1>31, <1>35, <1>36, <1>12 DEF Regular, Whole, End
<1>39. OwnText(s)
  BY <1>2, <1>37, <1>17, <1>18, <1>19, <1>23, <1>27, <1>31, <1>35, <1>36 DEF OwnText, Whole
<1>40. Reporting(s)
  BY <1>2, <1>37, <1>17, <1>18, <1>19, <1>23, <1>27, <1>31, <1>35, <1>36 DEF Reporting, Whole
<1>41. Classic(s) BY <1>2, <1>37, <1>12, <1>6 DEF Classic
<1> QED BY <1>38, <1>39, <1>40, <1>41 DEF s

LEMMA SntpTimeIs ==
  Fine(SntpTime)
<1> DEFINE s == SntpTime
<1>1. /\ s[1] = Clear /\ s[2] = Drain /\ s[3] = Send("+SYSTIMESTAMP") /\ s[4] = Wait("+SYSTIMESTAMP")
      /\ s[5] = Parse /\ s[6] = OrElse(End, Wait("OK"))
  BY DEF SntpTime
<1>2. Len(s) = 6 /\ DOMAIN s = 1 .. 6
  BY DEF SntpTime
<1> HIDE DEF s
<1>3. "+SYSTIMESTAMP" \notin Special
  BY DEF Special, Lasting, Foreign, Unsolicited, Refusing, Prompting
<1>4. Is(s[1], "error", Fail, Fail, Keep) BY <1>1, StepsAre
<1>5. Is(s[2], "drain", Fail, Fail, Keep) BY <1>1, StepsAre
<1>6. Is(s[3], "send", Fail, Fail, Keep) /\ s[3].what = "+SYSTIMESTAMP" BY <1>1, StepsAre
<1>7. Is(s[4], "wait", Fail, Fail, Keep) /\ s[4].what = "+SYSTIMESTAMP" BY <1>1, StepsAre
<1>8. Is(s[5], "parse", Fail, Fail, Keep) BY <1>1, StepsAre
<1>9. Is(s[6], "wait", Fail, End, Keep) /\ s[6].what = "OK" BY <1>1, VariantsAre
<1>10. /\ s[1].do = "error" /\ s[2].do = "drain" /\ s[3].do = "send" /\ s[4].do = "wait"
       /\ s[5].do = "parse" /\ s[6].do = "wait" /\ ~s[1].list /\ ~s[2].list /\ ~s[3].list /\ ~s[4].list
       /\ ~s[5].list /\ ~s[6].list /\ s[4].orElse = Fail /\ s[6].orElse = End
  BY <1>4, <1>5, <1>6, <1>7, <1>8, <1>9 DEF Is, IsItem, Fields
<1>11. /\ Target(s, 1) = 2 /\ Target(s, 2) = 3 /\ Target(s, 3) = 4 /\ Target(s, 4) = 5 /\ Target(s, 5) = 6
       /\ Target(s, 6) = End
  BY <1>2, <1>4, <1>5, <1>6, <1>7, <1>8, <1>9 DEF Target, Is, IsItem, Fields, Fail, End
<1>12. /\ Unused(s, Target(s, 1)) /\ Unused(s, Target(s, 2)) /\ Does(s, Target(s, 3), "wait")
       /\ Unused(s, Target(s, 5)) /\ Does(s, Target(s, 5), "wait") /\ Unused(s, Target(s, 6))
       /\ Unused(s, Fail) /\ Unused(s, End)
  BY <1>2, <1>10, <1>11 DEF Unused, Does, Users, End, Fail
<1>13. s[Target(s, 3)].what = "+SYSTIMESTAMP" /\ s[Target(s, 3)].orElse = Fail
  BY <1>11, <1>10, <1>7
<1>14. Reason(Keep)
  BY DEF Reason, Keep
<1>15. Whole(s, 1) /\ Explains(s, 1) BY <1>4, <1>12, ErrorStep
<1>16. Whole(s, 2) /\ Explains(s, 2) BY <1>5, <1>12, DrainStep
<1>17. Whole(s, 3) /\ Explains(s, 3) BY <1>6, <1>12, <1>13, <1>3, SendPlain
<1>18. s[5].what # ">" /\ Does(s, 5, "parse") BY <1>2, <1>8, <1>10 DEF Does, Is, IsItem, Fields
<1>19. Inside(s, 5) BY <1>18, <1>12, InsideIs
<1>20. Inside(s, Target(s, 4)) BY <1>19, <1>11
<1>21. Whole(s, 4) /\ Explains(s, 4) BY <1>7, <1>12, <1>14, <1>20, <1>10, <1>3, InnerWait
<1>22. s[6].what # ">" /\ Does(s, 6, "wait") BY <1>2, <1>9, <1>10 DEF Does, Is, IsItem, Fields
<1>23. Inside(s, 6) BY <1>22, <1>12, InsideIs
<1>24. Inside(s, Target(s, 5)) BY <1>23, <1>11
<1>25. Whole(s, 5) /\ Explains(s, 5) BY <1>8, <1>12, <1>24, ParseStep
<1>26. Whole(s, 6) /\ Explains(s, 6) BY <1>9, <1>12, <1>14, LastWait
<1>27. 1 .. 6 = {1, 2, 3, 4, 5, 6} OBVIOUS
<1>28. Regular(s)
  BY <1>2, <1>27, <1>15, <1>16, <1>17, <1>21, <1>25, <1>26, <1>10 DEF Regular, Whole, End
<1>29. Explaining(s)
  BY <1>2, <1>27, <1>15, <1>16, <1>17, <1>21, <1>25, <1>26 DEF Explaining
<1>30. OwnText(s)
  BY <1>2, <1>27, <1>15, <1>16, <1>17, <1>21, <1>25, <1>26 DEF OwnText, Whole
<1>31. Reporting(s)
  BY <1>2, <1>27, <1>15, <1>16, <1>17, <1>21, <1>25, <1>26 DEF Reporting, Whole
<1>32. Classic(s) BY <1>2, <1>27, <1>10, <1>6 DEF Classic
<1> QED BY <1>28, <1>29, <1>30, <1>31, <1>32 DEF s, Fine

LEMMA ServerBeginIs ==
  Fine(ServerBegin)
<1> DEFINE s == ServerBegin
<1>1. /\ s[1] = Clear /\ s[2] = Drain /\ s[3] = Send("CIPSERVERMAXCONN=") /\ s[4] = Wait("OK")
      /\ s[5] = Send("CIPSERVER=1") /\ s[6] = Wait("OK") /\ s[7] = Send("CIPSTO=") /\ s[8] = Wait("OK")
  BY DEF ServerBegin
<1>2. Len(s) = 8 /\ DOMAIN s = 1 .. 8
  BY DEF ServerBegin
<1> HIDE DEF s
<1>3. "CIPSERVER=1" \notin Special /\ "CIPSERVERMAXCONN=" \notin Special /\ "CIPSTO=" \notin Special
  BY DEF Special, Lasting, Foreign, Unsolicited, Refusing, Prompting
<1>4. Is(s[1], "error", Fail, Fail, Keep) BY <1>1, StepsAre
<1>5. Is(s[2], "drain", Fail, Fail, Keep) BY <1>1, StepsAre
<1>6. Is(s[3], "send", Fail, Fail, Keep) /\ s[3].what = "CIPSERVERMAXCONN=" BY <1>1, StepsAre
<1>7. Is(s[4], "wait", Fail, Fail, Keep) /\ s[4].what = "OK" BY <1>1, StepsAre
<1>8. Is(s[5], "send", Fail, Fail, Keep) /\ s[5].what = "CIPSERVER=1" BY <1>1, StepsAre
<1>9. Is(s[6], "wait", Fail, Fail, Keep) /\ s[6].what = "OK" BY <1>1, StepsAre
<1>10. Is(s[7], "send", Fail, Fail, Keep) /\ s[7].what = "CIPSTO=" BY <1>1, StepsAre
<1>11. Is(s[8], "wait", Fail, Fail, Keep) /\ s[8].what = "OK" BY <1>1, StepsAre
<1>12. /\ s[1].do = "error" /\ s[2].do = "drain" /\ s[3].do = "send" /\ s[4].do = "wait"
       /\ s[5].do = "send" /\ s[6].do = "wait" /\ s[7].do = "send" /\ s[8].do = "wait" /\ ~s[1].list
       /\ ~s[2].list /\ ~s[3].list /\ ~s[4].list /\ ~s[5].list /\ ~s[6].list /\ ~s[7].list /\ ~s[8].list
       /\ s[4].orElse = Fail /\ s[6].orElse = Fail /\ s[8].orElse = Fail
  BY <1>4, <1>5, <1>6, <1>7, <1>8, <1>9, <1>10, <1>11 DEF Is, IsItem, Fields
<1>13. /\ Target(s, 1) = 2 /\ Target(s, 2) = 3 /\ Target(s, 3) = 4 /\ Target(s, 4) = 5 /\ Target(s, 5) = 6
       /\ Target(s, 6) = 7 /\ Target(s, 7) = 8 /\ Target(s, 8) = End
  BY <1>2, <1>4, <1>5, <1>6, <1>7, <1>8, <1>9, <1>10, <1>11 DEF Target, Is, IsItem, Fields, Fail, End
<1>14. /\ Unused(s, Target(s, 1)) /\ Unused(s, Target(s, 2)) /\ Does(s, Target(s, 3), "wait")
       /\ Unused(s, Target(s, 4)) /\ Does(s, Target(s, 5), "wait") /\ Unused(s, Target(s, 6))
       /\ Does(s, Target(s, 7), "wait") /\ Unused(s, Target(s, 8)) /\ Unused(s, Fail)
  BY <1>2, <1>12, <1>13 DEF Unused, Does, Users, End, Fail
<1>15. /\ s[Target(s, 3)].what = "OK" /\ s[Target(s, 3)].orElse = Fail /\ s[Target(s, 5)].what = "OK"
       /\ s[Target(s, 5)].orElse = Fail /\ s[Target(s, 7)].what = "OK" /\ s[Target(s, 7)].orElse = Fail
  BY <1>13, <1>12, <1>7, <1>9, <1>11
<1>16. Reason(Keep)
  BY DEF Reason, Keep
<1>17. Whole(s, 1) /\ Explains(s, 1) BY <1>4, <1>14, ErrorStep
<1>18. Whole(s, 2) /\ Explains(s, 2) BY <1>5, <1>14, DrainStep
<1>19. Whole(s, 3) /\ Explains(s, 3) BY <1>6, <1>14, <1>15, <1>3, SendPlain
<1>20. Whole(s, 4) /\ Explains(s, 4) BY <1>7, <1>14, <1>16, LastWait
<1>21. Whole(s, 5) /\ Explains(s, 5) BY <1>8, <1>14, <1>15, <1>3, SendPlain
<1>22. Whole(s, 6) /\ Explains(s, 6) BY <1>9, <1>14, <1>16, LastWait
<1>23. Whole(s, 7) /\ Explains(s, 7) BY <1>10, <1>14, <1>15, <1>3, SendPlain
<1>24. Whole(s, 8) /\ Explains(s, 8) BY <1>11, <1>14, <1>16, LastWait
<1>25. 1 .. 8 = {1, 2, 3, 4, 5, 6, 7, 8} OBVIOUS
<1>26. Regular(s)
  BY <1>2, <1>25, <1>17, <1>18, <1>19, <1>20, <1>21, <1>22, <1>23, <1>24, <1>12 DEF Regular, Whole, End
<1>27. Explaining(s)
  BY <1>2, <1>25, <1>17, <1>18, <1>19, <1>20, <1>21, <1>22, <1>23, <1>24 DEF Explaining
<1>28. OwnText(s)
  BY <1>2, <1>25, <1>17, <1>18, <1>19, <1>20, <1>21, <1>22, <1>23, <1>24 DEF OwnText, Whole
<1>29. Reporting(s)
  BY <1>2, <1>25, <1>17, <1>18, <1>19, <1>20, <1>21, <1>22, <1>23, <1>24 DEF Reporting, Whole
<1>30. Classic(s) BY <1>2, <1>25, <1>12, <1>6, <1>8, <1>10 DEF Classic
<1> QED BY <1>26, <1>27, <1>28, <1>29, <1>30 DEF s, Fine

LEMMA SendStreamIs ==
  Fine(SendStream)
<1> DEFINE s == SendStream
           received == "Recv "
           result == "SEND "
           sent == "SEND OK"
<1>1. /\ s[1] = Clear /\ s[2] = Drain /\ s[3] = Require("LINK_NOT_ACTIVE") /\ s[4] = Branch(End)
      /\ s[5] = Send("CIPSEND=") /\ s[6] = WithError("SEND", Wait(">")) /\ s[7] = Send("payload")
      /\ s[8] = Wait(received) /\ s[9] = Parse /\ s[10] = WithError("SEND", Wait(result))
      /\ s[11] = WithError("SEND", Then(4, Verify(sent)))
  BY DEF SendStream
<1>2. Len(s) = 11 /\ DOMAIN s = 1 .. 11
  BY DEF SendStream
<1>3. received # ">" /\ result # ">" /\ sent # ">" OBVIOUS
<1> HIDE DEF s, received, result, sent
<1>4. "payload" \notin Special
  BY DEF Special, Lasting, Foreign, Unsolicited, Refusing, Prompting
<1>5. Is(s[1], "error", Fail, Fail, Keep) BY <1>1, StepsAre
<1>6. Is(s[2], "drain", Fail, Fail, Keep) BY <1>1, StepsAre
<1>7. Is(s[3], "require", Fail, Fail, "LINK_NOT_ACTIVE") BY <1>1, StepsAre
<1>8. Is(s[4], "branch", Fail, End, Keep) BY <1>1, StepsAre
<1>9. Is(s[5], "send", Fail, Fail, Keep) /\ s[5].what = "CIPSEND=" BY <1>1, StepsAre
<1>10. Is(s[6], "wait", Fail, Fail, "SEND") /\ s[6].what = ">" BY <1>1, VariantsAre
<1>11. Is(s[7], "send", Fail, Fail, Keep) /\ s[7].what = "payload" BY <1>1, StepsAre
<1>12. Is(s[8], "wait", Fail, Fail, Keep) /\ s[8].what = received BY <1>1, <1>3, StepsAre
<1>13. Is(s[9], "parse", Fail, Fail, Keep) BY <1>1, StepsAre
<1>14. Is(s[10], "wait", Fail, Fail, "SEND") /\ s[10].what = result BY <1>1, <1>3, VariantsAre
<1>15. Is(s[11], "verify", 4, Fail, "SEND") /\ s[11].what = sent BY <1>1, <1>3, VariantsAre
<1>16. s[8].what = "Recv " BY <1>12 DEF received
<1>17. s[10].what = "SEND " BY <1>14 DEF result
<1>18. s[11].what = "SEND OK" BY <1>15 DEF sent
<1>19. /\ s[1].do = "error" /\ s[2].do = "drain" /\ s[3].do = "require" /\ s[4].do = "branch"
       /\ s[5].do = "send" /\ s[6].do = "wait" /\ s[7].do = "send" /\ s[8].do = "wait"
       /\ s[9].do = "parse" /\ s[10].do = "wait" /\ s[11].do = "verify" /\ ~s[1].list /\ ~s[2].list
       /\ ~s[3].list /\ ~s[4].list /\ ~s[5].list /\ ~s[6].list /\ ~s[7].list /\ ~s[8].list /\ ~s[9].list
       /\ ~s[10].list /\ ~s[11].list /\ s[6].orElse = Fail /\ s[8].orElse = Fail /\ s[10].orElse = Fail
       /\ s[11].orElse = Fail
  BY <1>5, <1>6, <1>7, <1>8, <1>9, <1>10, <1>11, <1>12, <1>13, <1>14, <1>15 DEF Is, IsItem, Fields
<1>20. /\ Target(s, 1) = 2 /\ Target(s, 2) = 3 /\ Target(s, 3) = 4 /\ Target(s, 4) = 5 /\ Target(s, 5) = 6
       /\ Target(s, 6) = 7 /\ Target(s, 7) = 8 /\ Target(s, 8) = 9 /\ Target(s, 9) = 10
       /\ Target(s, 10) = 11 /\ Target(s, 11) = 4
  BY <1>2, <1>5, <1>6, <1>7, <1>8, <1>9, <1>10, <1>11, <1>12, <1>13, <1>14, <1>15 DEF Target, Is, IsItem,
     Fields, Fail, End
<1>21. /\ Unused(s, Target(s, 1)) /\ Unused(s, Target(s, 2)) /\ Unused(s, Target(s, 3))
       /\ Unused(s, Target(s, 4)) /\ ~IsStep(s, Target(s, 4), {"wait", "branch"})
       /\ Does(s, Target(s, 5), "wait") /\ Unused(s, Target(s, 6)) /\ Does(s, Target(s, 7), "wait")
       /\ Does(s, Target(s, 8), "parse") /\ Unused(s, Target(s, 9)) /\ Does(s, Target(s, 9), "wait")
       /\ Unused(s, Target(s, 10)) /\ Does(s, Target(s, 10), "verify") /\ Unused(s, Target(s, 11))
       /\ Unused(s, Fail) /\ Unused(s, End)
  BY <1>2, <1>19, <1>20 DEF Unused, Does, Users, End, Fail, IsStep
<1>22. /\ s[Target(s, 5)].what = ">" /\ s[Target(s, 5)].orElse = Fail /\ s[Target(s, 7)].what = received
       /\ s[Target(s, 7)].orElse = Fail /\ s[Target(s, 10)].orElse = Fail
  BY <1>20, <1>19, <1>10, <1>12
<1>23. s[Target(s, 7)].what = "Recv " BY <1>22 DEF received
<1>24. /\ Given("LINK_NOT_ACTIVE") /\ End # Fail /\ "CIPSEND=" \notin Lasting \cup {"+BLECONN"}
       /\ "CIPSEND=" \in Prompting /\ Reason("SEND") /\ Reason(Keep) /\ Given("SEND")
  BY DEF Reason, Given, Keep, Lasting, Prompting, Fail, End
<1>25. Whole(s, 1) /\ Explains(s, 1) BY <1>5, <1>21, ErrorStep
<1>26. Whole(s, 2) /\ Explains(s, 2) BY <1>6, <1>21, DrainStep
<1>27. Whole(s, 3) /\ Explains(s, 3) BY <1>7, <1>21, <1>24, RequireStep
<1>28. Whole(s, 4) /\ Explains(s, 4) BY <1>8, <1>21, <1>24, BranchStep
<1>29. Whole(s, 5) /\ Explains(s, 5) BY <1>9, <1>21, <1>22, <1>24, SendStep
<1>30. Whole(s, 6) /\ Explains(s, 6) BY <1>10, <1>21, <1>24, LastWait
<1>31. Whole(s, 7) /\ Explains(s, 7) BY <1>11, <1>21, <1>22, <1>23, <1>4, SendPlain
<1>32. s[9].what # ">" /\ Does(s, 9, "parse") BY <1>2, <1>13, <1>19 DEF Does, Is, IsItem, Fields
<1>33. Inside(s, 9) BY <1>32, <1>21, InsideIs
<1>34. Inside(s, Target(s, 8)) BY <1>33, <1>20
<1>35. /\ s[9].do = "parse" /\ IsStep(s, Target(s, 9), {"wait"}) /\ s[Target(s, 9)].what = result
       /\ s[Target(s, 9)].orElse = Fail
  BY <1>2, <1>19, <1>20, <1>14 DEF IsStep
<1>36. Doomed(s, 9) BY <1>35 DEF Doomed, result
<1>37. Doomed(s, Target(s, 8)) BY <1>36, <1>20
<1>38. Whole(s, 8) /\ Explains(s, 8) BY <1>12, <1>21, <1>16, <1>24, <1>34, <1>37, RecvWait
<1>39. s[10].what # ">" /\ Does(s, 10, "wait") BY <1>2, <1>14, <1>19, <1>3 DEF Does, Is, IsItem, Fields
<1>40. Inside(s, 10) BY <1>39, <1>21, InsideIs
<1>41. Inside(s, Target(s, 9)) BY <1>40, <1>20
<1>42. Whole(s, 9) /\ Explains(s, 9) BY <1>13, <1>21, <1>41, ParseStep
<1>43. Whole(s, 10) /\ Explains(s, 10) BY <1>14, <1>21, <1>17, <1>24, <1>22, ResultWait
<1>44. Whole(s, 11) /\ Explains(s, 11) BY <1>15, <1>21, <1>18, <1>24, VerifyStep
<1>45. 1 .. 11 = {1, 2, 3, 4, 5, 6, 7, 8, 9, 10, 11} OBVIOUS
<1>46. Regular(s)
  BY <1>2, <1>45, <1>25, <1>26, <1>27, <1>28, <1>29, <1>30, <1>31, <1>38, <1>42, <1>43, <1>44,
     <1>19 DEF Regular, Whole, End
<1>47. Explaining(s)
  BY <1>2, <1>45, <1>25, <1>26, <1>27, <1>28, <1>29, <1>30, <1>31, <1>38, <1>42, <1>43, <1>44 DEF Explaining
<1>48. OwnText(s)
  BY <1>2, <1>45, <1>25, <1>26, <1>27, <1>28, <1>29, <1>30, <1>31, <1>38, <1>42, <1>43, <1>44 DEF OwnText,
     Whole
<1>49. Reporting(s)
  BY <1>2, <1>45, <1>25, <1>26, <1>27, <1>28, <1>29, <1>30, <1>31, <1>38, <1>42, <1>43, <1>44 DEF Reporting,
     Whole
<1>50. Classic(s) BY <1>2, <1>45, <1>19, <1>9, <1>11 DEF Classic
<1> QED BY <1>46, <1>47, <1>48, <1>49, <1>50 DEF s, Fine

LEMMA SendCallbackIs ==
  Fine(SendCallback)
<1> DEFINE s == SendCallback
           received == "Recv "
           result == "SEND "
           sent == "SEND OK"
<1>1. /\ s[1] = Clear /\ s[2] = Drain /\ s[3] = Require("LINK_NOT_ACTIVE") /\ s[4] = Send("CIPSENDEX=")
      /\ s[5] = Wait(">") /\ s[6] = Send("payload") /\ s[7] = Wait(received) /\ s[8] = Parse
      /\ s[9] = Wait(result) /\ s[10] = WithError("SEND", Verify(sent))
  BY DEF SendCallback
<1>2. Len(s) = 10 /\ DOMAIN s = 1 .. 10
  BY DEF SendCallback
<1>3. received # ">" /\ result # ">" /\ sent # ">" OBVIOUS
<1> HIDE DEF s, received, result, sent
<1>4. "payload" \notin Special
  BY DEF Special, Lasting, Foreign, Unsolicited, Refusing, Prompting
<1>5. Is(s[1], "error", Fail, Fail, Keep) BY <1>1, StepsAre
<1>6. Is(s[2], "drain", Fail, Fail, Keep) BY <1>1, StepsAre
<1>7. Is(s[3], "require", Fail, Fail, "LINK_NOT_ACTIVE") BY <1>1, StepsAre
<1>8. Is(s[4], "send", Fail, Fail, Keep) /\ s[4].what = "CIPSENDEX=" BY <1>1, StepsAre
<1>9. Is(s[5], "wait", Fail, Fail, Keep) /\ s[5].what = ">" BY <1>1, StepsAre
<1>10. Is(s[6], "send", Fail, Fail, Keep) /\ s[6].what = "payload" BY <1>1, StepsAre
<1>11. Is(s[7], "wait", Fail, Fail, Keep) /\ s[7].what = received BY <1>1, <1>3, StepsAre
<1>12. Is(s[8], "parse", Fail, Fail, Keep) BY <1>1, StepsAre
<1>13. Is(s[9], "wait", Fail, Fail, Keep) /\ s[9].what = result BY <1>1, <1>3, StepsAre
<1>14. Is(s[10], "verify", Fail, Fail, "SEND") /\ s[10].what = sent BY <1>1, <1>3, VariantsAre
<1>15. s[7].what = "Recv " BY <1>11 DEF received
<1>16. s[9].what = "SEND " BY <1>13 DEF result
<1>17. s[10].what = "SEND OK" BY <1>14 DEF sent
<1>18. /\ s[1].do = "error" /\ s[2].do = "drain" /\ s[3].do = "require" /\ s[4].do = "send"
       /\ s[5].do = "wait" /\ s[6].do = "send" /\ s[7].do = "wait" /\ s[8].do = "parse"
       /\ s[9].do = "wait" /\ s[10].do = "verify" /\ ~s[1].list /\ ~s[2].list /\ ~s[3].list /\ ~s[4].list
       /\ ~s[5].list /\ ~s[6].list /\ ~s[7].list /\ ~s[8].list /\ ~s[9].list /\ ~s[10].list
       /\ s[5].orElse = Fail /\ s[7].orElse = Fail /\ s[9].orElse = Fail /\ s[10].orElse = Fail
  BY <1>5, <1>6, <1>7, <1>8, <1>9, <1>10, <1>11, <1>12, <1>13, <1>14 DEF Is, IsItem, Fields
<1>19. /\ Target(s, 1) = 2 /\ Target(s, 2) = 3 /\ Target(s, 3) = 4 /\ Target(s, 4) = 5 /\ Target(s, 5) = 6
       /\ Target(s, 6) = 7 /\ Target(s, 7) = 8 /\ Target(s, 8) = 9 /\ Target(s, 9) = 10
       /\ Target(s, 10) = End
  BY <1>2, <1>5, <1>6, <1>7, <1>8, <1>9, <1>10, <1>11, <1>12, <1>13, <1>14 DEF Target, Is, IsItem, Fields,
     Fail, End
<1>20. /\ Unused(s, Target(s, 1)) /\ Unused(s, Target(s, 2)) /\ Unused(s, Target(s, 3))
       /\ Does(s, Target(s, 4), "wait") /\ Unused(s, Target(s, 5)) /\ Does(s, Target(s, 6), "wait")
       /\ Does(s, Target(s, 7), "parse") /\ Unused(s, Target(s, 8)) /\ Does(s, Target(s, 8), "wait")
       /\ Unused(s, Target(s, 9)) /\ Does(s, Target(s, 9), "verify") /\ Unused(s, Target(s, 10))
       /\ Unused(s, Fail)
  BY <1>2, <1>18, <1>19 DEF Unused, Does, Users, End, Fail
<1>21. /\ s[Target(s, 4)].what = ">" /\ s[Target(s, 4)].orElse = Fail /\ s[Target(s, 6)].what = received
       /\ s[Target(s, 6)].orElse = Fail /\ s[Target(s, 9)].orElse = Fail
  BY <1>19, <1>18, <1>9, <1>11
<1>22. s[Target(s, 6)].what = "Recv " BY <1>21 DEF received
<1>23. /\ Given("LINK_NOT_ACTIVE") /\ "CIPSENDEX=" \notin Lasting \cup {"+BLECONN"}
       /\ "CIPSENDEX=" \in Prompting /\ Reason(Keep) /\ Given("SEND")
  BY DEF Reason, Given, Keep, Lasting, Prompting
<1>24. Whole(s, 1) /\ Explains(s, 1) BY <1>5, <1>20, ErrorStep
<1>25. Whole(s, 2) /\ Explains(s, 2) BY <1>6, <1>20, DrainStep
<1>26. Whole(s, 3) /\ Explains(s, 3) BY <1>7, <1>20, <1>23, RequireStep
<1>27. Whole(s, 4) /\ Explains(s, 4) BY <1>8, <1>20, <1>21, <1>23, SendStep
<1>28. Whole(s, 5) /\ Explains(s, 5) BY <1>9, <1>20, <1>23, LastWait
<1>29. Whole(s, 6) /\ Explains(s, 6) BY <1>10, <1>20, <1>21, <1>22, <1>4, SendPlain
<1>30. s[8].what # ">" /\ Does(s, 8, "parse") BY <1>2, <1>12, <1>18 DEF Does, Is, IsItem, Fields
<1>31. Inside(s, 8) BY <1>30, <1>20, InsideIs
<1>32. Inside(s, Target(s, 7)) BY <1>31, <1>19
<1>33. /\ s[8].do = "parse" /\ IsStep(s, Target(s, 8), {"wait"}) /\ s[Target(s, 8)].what = result
       /\ s[Target(s, 8)].orElse = Fail
  BY <1>2, <1>18, <1>19, <1>13 DEF IsStep
<1>34. Doomed(s, 8) BY <1>33 DEF Doomed, result
<1>35. Doomed(s, Target(s, 7)) BY <1>34, <1>19
<1>36. Whole(s, 7) /\ Explains(s, 7) BY <1>11, <1>20, <1>15, <1>23, <1>32, <1>35, RecvWait
<1>37. s[9].what # ">" /\ Does(s, 9, "wait") BY <1>2, <1>13, <1>18, <1>3 DEF Does, Is, IsItem, Fields
<1>38. Inside(s, 9) BY <1>37, <1>20, InsideIs
<1>39. Inside(s, Target(s, 8)) BY <1>38, <1>19
<1>40. Whole(s, 8) /\ Explains(s, 8) BY <1>12, <1>20, <1>39, ParseStep
<1>41. Whole(s, 9) /\ Explains(s, 9) BY <1>13, <1>20, <1>16, <1>23, <1>21, ResultWait
<1>42. Whole(s, 10) /\ Explains(s, 10) BY <1>14, <1>20, <1>17, <1>23, VerifyStep
<1>43. 1 .. 10 = {1, 2, 3, 4, 5, 6, 7, 8, 9, 10} OBVIOUS
<1>44. Regular(s)
  BY <1>2, <1>43, <1>24, <1>25, <1>26, <1>27, <1>28, <1>29, <1>36, <1>40, <1>41, <1>42, <1>18 DEF Regular,
     Whole, End
<1>45. Explaining(s)
  BY <1>2, <1>43, <1>24, <1>25, <1>26, <1>27, <1>28, <1>29, <1>36, <1>40, <1>41, <1>42 DEF Explaining
<1>46. OwnText(s)
  BY <1>2, <1>43, <1>24, <1>25, <1>26, <1>27, <1>28, <1>29, <1>36, <1>40, <1>41, <1>42 DEF OwnText, Whole
<1>47. Reporting(s)
  BY <1>2, <1>43, <1>24, <1>25, <1>26, <1>27, <1>28, <1>29, <1>36, <1>40, <1>41, <1>42 DEF Reporting, Whole
<1>48. Classic(s) BY <1>2, <1>43, <1>18, <1>8, <1>10 DEF Classic
<1> QED BY <1>44, <1>45, <1>46, <1>47, <1>48 DEF s, Fine

LEMMA ListAPIs ==
  Regular(ListAP) /\ OwnText(ListAP) /\ Classic(ListAP)
<1> DEFINE s == ListAP
<1>1. /\ s[1] = Clear /\ s[2] = Drain /\ s[3] = Require("NOT_INITIALIZED") /\ s[4] = Branch(7)
      /\ s[5] = Send("CWMODE=") /\ s[6] = Wait("OK") /\ s[7] = Clear /\ s[8] = Drain
      /\ s[9] = Send("CWLAPOPT=") /\ s[10] = Wait("OK") /\ s[11] = Send("+CWLAP")
      /\ s[12] = OrElse(End, WaitItem("+CWLAP")) /\ s[13] = Parse /\ s[14] = Branch(16)
      /\ s[15] = OrElse(End, Then(13, WaitItem("+CWLAP"))) /\ s[16] = OrElse(End, Wait("OK"))
  BY DEF ListAP
<1>2. Len(s) = 16 /\ DOMAIN s = 1 .. 16
  BY DEF ListAP
<1> HIDE DEF s
<1>3. "+CWLAP" \notin Special /\ "CWLAPOPT=" \notin Special /\ "CWMODE=" \notin Special
  BY DEF Special, Lasting, Foreign, Unsolicited, Refusing, Prompting
<1>4. Is(s[1], "error", Fail, Fail, Keep) BY <1>1, StepsAre
<1>5. Is(s[2], "drain", Fail, Fail, Keep) BY <1>1, StepsAre
<1>6. Is(s[3], "require", Fail, Fail, "NOT_INITIALIZED") BY <1>1, StepsAre
<1>7. Is(s[4], "branch", Fail, 7, Keep) BY <1>1, StepsAre
<1>8. Is(s[5], "send", Fail, Fail, Keep) /\ s[5].what = "CWMODE=" BY <1>1, StepsAre
<1>9. Is(s[6], "wait", Fail, Fail, Keep) /\ s[6].what = "OK" BY <1>1, StepsAre
<1>10. Is(s[7], "error", Fail, Fail, Keep) BY <1>1, StepsAre
<1>11. Is(s[8], "drain", Fail, Fail, Keep) BY <1>1, StepsAre
<1>12. Is(s[9], "send", Fail, Fail, Keep) /\ s[9].what = "CWLAPOPT=" BY <1>1, StepsAre
<1>13. Is(s[10], "wait", Fail, Fail, Keep) /\ s[10].what = "OK" BY <1>1, StepsAre
<1>14. Is(s[11], "send", Fail, Fail, Keep) /\ s[11].what = "+CWLAP" BY <1>1, StepsAre
<1>15. IsItem(s[12], Fail, End) /\ s[12].what = "+CWLAP" BY <1>1, VariantsAre
<1>16. Is(s[13], "parse", Fail, Fail, Keep) BY <1>1, StepsAre
<1>17. Is(s[14], "branch", Fail, 16, Keep) BY <1>1, StepsAre
<1>18. IsItem(s[15], 13, End) /\ s[15].what = "+CWLAP" BY <1>1, VariantsAre
<1>19. Is(s[16], "wait", Fail, End, Keep) /\ s[16].what = "OK" BY <1>1, VariantsAre
<1>20. /\ s[1].do = "error" /\ s[2].do = "drain" /\ s[3].do = "require" /\ s[4].do = "branch"
       /\ s[5].do = "send" /\ s[6].do = "wait" /\ s[7].do = "error" /\ s[8].do = "drain"
       /\ s[9].do = "send" /\ s[10].do = "wait" /\ s[11].do = "send" /\ s[12].do = "wait"
       /\ s[13].do = "parse" /\ s[14].do = "branch" /\ s[15].do = "wait" /\ s[16].do = "wait"
       /\ ~s[1].list /\ ~s[2].list /\ ~s[3].list /\ ~s[4].list /\ ~s[5].list /\ ~s[6].list /\ ~s[7].list
       /\ ~s[8].list /\ ~s[9].list /\ ~s[10].list /\ ~s[11].list /\ ~s[13].list /\ ~s[14].list
       /\ ~s[16].list /\ s[6].orElse = Fail /\ s[10].orElse = Fail /\ s[12].orElse = End
       /\ s[15].orElse = End /\ s[16].orElse = End
  BY <1>4, <1>5, <1>6, <1>7, <1>8, <1>9, <1>10, <1>11, <1>12, <1>13, <1>14, <1>15, <1>16, <1>17, <1>18,
     <1>19 DEF Is, IsItem, Fields
<1>21. /\ Target(s, 1) = 2 /\ Target(s, 2) = 3 /\ Target(s, 3) = 4 /\ Target(s, 4) = 5 /\ Target(s, 5) = 6
       /\ Target(s, 6) = 7 /\ Target(s, 7) = 8 /\ Target(s, 8) = 9 /\ Target(s, 9) = 10
       /\ Target(s, 10) = 11 /\ Target(s, 11) = 12 /\ Target(s, 12) = 13 /\ Target(s, 13) = 14
       /\ Target(s, 14) = 15 /\ Target(s, 15) = 13 /\ Target(s, 16) = End
  BY <1>2, <1>4, <1>5, <1>6, <1>7, <1>8, <1>9, <1>10, <1>11, <1>12, <1>13, <1>14, <1>15, <1>16, <1>17,
     <1>18, <1>19 DEF Target, Is, IsItem, Fields, Fail, End
<1>22. /\ Unused(s, Target(s, 1)) /\ Unused(s, Target(s, 2)) /\ Unused(s, Target(s, 3))
       /\ Unused(s, Target(s, 4)) /\ Unused(s, 7) /\ ~IsStep(s, Target(s, 4), {"wait", "branch"})
       /\ Does(s, Target(s, 5), "wait") /\ Unused(s, Target(s, 6)) /\ Unused(s, Target(s, 7))
       /\ Unused(s, Target(s, 8)) /\ Does(s, Target(s, 9), "wait") /\ Unused(s, Target(s, 10))
       /\ Does(s, Target(s, 11), "wait") /\ Unused(s, Target(s, 13)) /\ Does(s, Target(s, 13), "branch")
       /\ Unused(s, Target(s, 14)) /\ Unused(s, 16) /\ Does(s, Target(s, 14), "wait")
       /\ Unused(s, Target(s, 16)) /\ Unused(s, Fail) /\ Unused(s, End)
  BY <1>2, <1>20, <1>21 DEF Unused, Does, Users, End, Fail, IsStep
<1>23. /\ s[Target(s, 5)].what = "OK" /\ s[Target(s, 5)].orElse = Fail /\ s[Target(s, 9)].what = "OK"
       /\ s[Target(s, 9)].orElse = Fail /\ s[Target(s, 11)].what = "+CWLAP"
  BY <1>21, <1>20, <1>9, <1>13, <1>15
<1>24. Given("NOT_INITIALIZED") /\ 7 # Fail /\ Reason(Keep) /\ 16 # Fail
  BY DEF Reason, Given, Keep, Fail, End
<1>25. Whole(s, 1) BY <1>4, <1>22, ErrorStep
<1>26. Whole(s, 2) BY <1>5, <1>22, DrainStep
<1>27. Whole(s, 3) BY <1>6, <1>22, <1>24, RequireStep
<1>28. Whole(s, 4) BY <1>7, <1>22, <1>24, BranchStep
<1>29. Whole(s, 5) BY <1>8, <1>22, <1>23, <1>3, SendPlain
<1>30. Whole(s, 6) BY <1>9, <1>22, <1>24, LastWait
<1>31. Whole(s, 7) BY <1>10, <1>22, ErrorStep
<1>32. Whole(s, 8) BY <1>11, <1>22, DrainStep
<1>33. Whole(s, 9) BY <1>12, <1>22, <1>23, <1>3, SendPlain
<1>34. Whole(s, 10) BY <1>13, <1>22, <1>24, LastWait
<1>35. Fits(s, 11) /\ Owns(s, 11) BY <1>14, <1>22, <1>23, <1>3, SendPlain
<1>36. s[13].what # ">" /\ Does(s, 13, "parse") BY <1>2, <1>16, <1>20 DEF Does, Is, IsItem, Fields
<1>37. Inside(s, 13) BY <1>36, <1>22, InsideIs
<1>38. Inside(s, Target(s, 12)) BY <1>37, <1>21
<1>39. Whole(s, 12) BY <1>15, <1>22, <1>24, <1>38, <1>20, <1>3, InnerWait
<1>40. s[14].what # ">" /\ Does(s, 14, "branch") BY <1>2, <1>17, <1>20 DEF Does, Is, IsItem, Fields
<1>41. Inside(s, 14) BY <1>40, <1>22, InsideIs
<1>42. Inside(s, Target(s, 13)) BY <1>41, <1>21
<1>43. Whole(s, 13) BY <1>16, <1>22, <1>42, ParseStep
<1>44. s[15].what # ">" /\ Does(s, 15, "wait") BY <1>2, <1>18, <1>20 DEF Does, Is, IsItem, Fields
<1>45. Inside(s, 15) BY <1>44, <1>22, InsideIs
<1>46. Inside(s, Target(s, 14)) BY <1>45, <1>21
<1>47. s[16].what # ">" /\ Does(s, 16, "wait") BY <1>2, <1>19, <1>20 DEF Does, Is, IsItem, Fields
<1>48. Inside(s, 16) BY <1>47, <1>22, InsideIs
<1>49. Whole(s, 14) BY <1>17, <1>22, <1>24, <1>46, <1>48, BranchInside
<1>50. Inside(s, Target(s, 15)) BY <1>37, <1>21
<1>51. Whole(s, 15) BY <1>18, <1>22, <1>24, <1>50, <1>20, <1>3, InnerWait
<1>52. Whole(s, 16) BY <1>19, <1>22, <1>24, LastWait
<1>53. 1 .. 16 = {1, 2, 3, 4, 5, 6, 7, 8, 9, 10, 11, 12, 13, 14, 15, 16} OBVIOUS
<1>54. Regular(s)
  BY <1>2, <1>53, <1>25, <1>26, <1>27, <1>28, <1>29, <1>30, <1>31, <1>32, <1>33, <1>34, <1>35, <1>39, <1>43,
     <1>49, <1>51, <1>52, <1>20 DEF Regular, Whole, End
<1>55. OwnText(s)
  BY <1>2, <1>53, <1>25, <1>26, <1>27, <1>28, <1>29, <1>30, <1>31, <1>32, <1>33, <1>34, <1>35, <1>39, <1>43,
     <1>49, <1>51, <1>52 DEF OwnText, Whole
<1>56. Classic(s) BY <1>2, <1>53, <1>20, <1>8, <1>12, <1>14 DEF Classic
<1> QED BY <1>54, <1>55, <1>56 DEF s

LEMMA RecvDataWithInfoIs ==
  Regular(RecvDataWithInfo) /\ OwnText(RecvDataWithInfo) /\ Classic(RecvDataWithInfo)
<1> DEFINE s == RecvDataWithInfo
<1>1. /\ s[1] = Clear /\ s[2] = Drain /\ s[3] = Require("LINK_NOT_ACTIVE") /\ s[4] = Require(Keep)
      /\ s[5] = Branch(7) /\ s[6] = Error("UDP_LARGE") /\ s[7] = Clear /\ s[8] = Drain
      /\ s[9] = Send("CIPDINFO=1") /\ s[10] = Wait("OK") /\ s[11] = Send("+CIPRECVDATA")
      /\ s[12] = WithError("RECEIVE", OrElse(16, Wait("+CIPRECVDATA")))
      /\ s[13] = WithError("RECEIVE", OrElse(20, Data)) /\ s[14] = Parse
      /\ s[15] = OrElse(16, Wait("OK")) /\ s[16] = Clear /\ s[17] = Drain /\ s[18] = Send("CIPDINFO=0")
      /\ s[19] = Then(End, OrElse(End, Wait("OK"))) /\ s[20] = Clear /\ s[21] = Drain
      /\ s[22] = Send("CIPDINFO=0") /\ s[23] = OrElse(24, Wait("OK")) /\ s[24] = ReturnZero
  BY DEF RecvDataWithInfo
<1>2. Len(s) = 24 /\ DOMAIN s = 1 .. 24
  BY DEF RecvDataWithInfo
<1> HIDE DEF s
<1>3. "+CIPRECVDATA" \notin Special /\ "CIPDINFO=0" \notin Special /\ "CIPDINFO=1" \notin Special
  BY DEF Special, Lasting, Foreign, Unsolicited, Refusing, Prompting
<1>4. Is(s[1], "error", Fail, Fail, Keep) BY <1>1, StepsAre
<1>5. Is(s[2], "drain", Fail, Fail, Keep) BY <1>1, StepsAre
<1>6. Is(s[3], "require", Fail, Fail, "LINK_NOT_ACTIVE") BY <1>1, StepsAre
<1>7. Is(s[4], "require", Fail, Fail, Keep) BY <1>1, StepsAre
<1>8. Is(s[5], "branch", Fail, 7, Keep) BY <1>1, StepsAre
<1>9. Is(s[6], "error", Fail, Fail, Keep) BY <1>1, StepsAre
<1>10. Is(s[7], "error", Fail, Fail, Keep) BY <1>1, StepsAre
<1>11. Is(s[8], "drain", Fail, Fail, Keep) BY <1>1, StepsAre
<1>12. Is(s[9], "send", Fail, Fail, Keep) /\ s[9].what = "CIPDINFO=1" BY <1>1, StepsAre
<1>13. Is(s[10], "wait", Fail, Fail, Keep) /\ s[10].what = "OK" BY <1>1, StepsAre
<1>14. Is(s[11], "send", Fail, Fail, Keep) /\ s[11].what = "+CIPRECVDATA" BY <1>1, StepsAre
<1>15. Is(s[12], "wait", Fail, 16, "RECEIVE") /\ s[12].what = "+CIPRECVDATA" BY <1>1, VariantsAre
<1>16. Is(s[13], "data", Fail, 20, "RECEIVE") BY <1>1, VariantsAre
<1>17. Is(s[14], "parse", Fail, Fail, Keep) BY <1>1, StepsAre
<1>18. Is(s[15], "wait", Fail, 16, Keep) /\ s[15].what = "OK" BY <1>1, VariantsAre
<1>19. Is(s[16], "error", Fail, Fail, Keep) BY <1>1, StepsAre
<1>20. Is(s[17], "drain", Fail, Fail, Keep) BY <1>1, StepsAre
<1>21. Is(s[18], "send", Fail, Fail, Keep) /\ s[18].what = "CIPDINFO=0" BY <1>1, StepsAre
<1>22. Is(s[19], "wait", End, End, Keep) /\ s[19].what = "OK" BY <1>1, VariantsAre
<1>23. Is(s[20], "error", Fail, Fail, Keep) BY <1>1, StepsAre
<1>24. Is(s[21], "drain", Fail, Fail, Keep) BY <1>1, StepsAre
<1>25. Is(s[22], "send", Fail, Fail, Keep) /\ s[22].what = "CIPDINFO=0" BY <1>1, StepsAre
<1>26. Is(s[23], "wait", Fail, 24, Keep) /\ s[23].what = "OK" BY <1>1, VariantsAre
<1>27. Is(s[24], "require", Fail, Fail, Keep) BY <1>1, StepsAre
<1>28. /\ s[1].do = "error" /\ s[2].do = "drain" /\ s[3].do = "require" /\ s[4].do = "require"
       /\ s[5].do = "branch" /\ s[6].do = "error" /\ s[7].do = "error" /\ s[8].do = "drain"
       /\ s[9].do = "send" /\ s[10].do = "wait" /\ s[11].do = "send" /\ s[12].do = "wait"
       /\ s[13].do = "data" /\ s[14].do = "parse" /\ s[15].do = "wait" /\ s[16].do = "error"
       /\ s[17].do = "drain" /\ s[18].do = "send" /\ s[19].do = "wait" /\ s[20].do = "error"
       /\ s[21].do = "drain" /\ s[22].do = "send" /\ s[23].do = "wait" /\ s[24].do = "require"
       /\ ~s[1].list /\ ~s[2].list /\ ~s[3].list /\ ~s[4].list /\ ~s[5].list /\ ~s[6].list /\ ~s[7].list
       /\ ~s[8].list /\ ~s[9].list /\ ~s[10].list /\ ~s[11].list /\ ~s[12].list /\ ~s[13].list
       /\ ~s[14].list /\ ~s[15].list /\ ~s[16].list /\ ~s[17].list /\ ~s[18].list /\ ~s[19].list
       /\ ~s[20].list /\ ~s[21].list /\ ~s[22].list /\ ~s[23].list /\ ~s[24].list /\ s[10].orElse = Fail
       /\ s[12].orElse = 16 /\ s[15].orElse = 16 /\ s[19].orElse = End /\ s[23].orElse = 24
  BY <1>4, <1>5, <1>6, <1>7, <1>8, <1>9, <1>10, <1>11, <1>12, <1>13, <1>14, <1>15, <1>16, <1>17, <1>18,
     <1>19, <1>20, <1>21, <1>22, <1>23, <1>24, <1>25, <1>26, <1>27 DEF Is, IsItem, Fields
<1>29. /\ Target(s, 1) = 2 /\ Target(s, 2) = 3 /\ Target(s, 3) = 4 /\ Target(s, 4) = 5 /\ Target(s, 5) = 6
       /\ Target(s, 6) = 7 /\ Target(s, 7) = 8 /\ Target(s, 8) = 9 /\ Target(s, 9) = 10
       /\ Target(s, 10) = 11 /\ Target(s, 11) = 12 /\ Target(s, 12) = 13 /\ Target(s, 13) = 14
       /\ Target(s, 14) = 15 /\ Target(s, 15) = 16 /\ Target(s, 16) = 17 /\ Target(s, 17) = 18
       /\ Target(s, 18) = 19 /\ Target(s, 19) = End /\ Target(s, 20) = 21 /\ Target(s, 21) = 22
       /\ Target(s, 22) = 23 /\ Target(s, 23) = 24 /\ Target(s, 24) = End
  BY <1>2, <1>4, <1>5, <1>6, <1>7, <1>8, <1>9, <1>10, <1>11, <1>12, <1>13, <1>14, <1>15, <1>16, <1>17,
     <1>18, <1>19, <1>20, <1>21, <1>22, <1>23, <1>24, <1>25, <1>26, <1>27 DEF Target, Is, IsItem, Fields,
     Fail, End
<1>30. /\ Unused(s, Target(s, 1)) /\ Unused(s, Target(s, 2)) /\ Unused(s, Target(s, 3))
       /\ Unused(s, Target(s, 4)) /\ Unused(s, Target(s, 5)) /\ Unused(s, 7)
       /\ ~IsStep(s, Target(s, 5), {"wait", "branch"}) /\ Unused(s, Target(s, 6))
       /\ Unused(s, Target(s, 7)) /\ Unused(s, Target(s, 8)) /\ Does(s, Target(s, 9), "wait")
       /\ Unused(s, Target(s, 10)) /\ Does(s, Target(s, 11), "wait") /\ Unused(s, 16) /\ Unused(s, 20)
       /\ Unused(s, Target(s, 14)) /\ Does(s, Target(s, 14), "wait") /\ Unused(s, Target(s, 15))
       /\ Unused(s, Target(s, 16)) /\ Unused(s, Target(s, 17)) /\ Does(s, Target(s, 18), "wait")
       /\ Unused(s, Target(s, 19)) /\ Unused(s, Target(s, 20)) /\ Unused(s, Target(s, 21))
       /\ Does(s, Target(s, 22), "wait") /\ Unused(s, Target(s, 23)) /\ Unused(s, 24)
       /\ Unused(s, Target(s, 24)) /\ Unused(s, Fail) /\ Unused(s, End)
  BY <1>2, <1>28, <1>29 DEF Unused, Does, Users, End, Fail, IsStep
<1>31. /\ s[Target(s, 9)].what = "OK" /\ s[Target(s, 9)].orElse = Fail
       /\ s[Target(s, 11)].what = "+CIPRECVDATA" /\ s[Target(s, 18)].what = "OK"
       /\ s[Target(s, 22)].what = "OK"
  BY <1>29, <1>28, <1>13, <1>15, <1>22, <1>26
<1>32. Given("LINK_NOT_ACTIVE") /\ 7 # Fail /\ Reason(Keep) /\ Reason("RECEIVE")
  BY DEF Reason, Given, Keep, Fail, End
<1>33. Whole(s, 1) BY <1>4, <1>30, ErrorStep
<1>34. Whole(s, 2) BY <1>5, <1>30, DrainStep
<1>35. Whole(s, 3) BY <1>6, <1>30, <1>32, RequireStep
<1>36. Whole(s, 4) BY <1>7, <1>30, RequireStep
<1>37. Whole(s, 5) BY <1>8, <1>30, <1>32, BranchStep
<1>38. Whole(s, 6) BY <1>9, <1>30, ErrorStep
<1>39. Whole(s, 7) BY <1>10, <1>30, ErrorStep
<1>40. Whole(s, 8) BY <1>11, <1>30, DrainStep
<1>41. Whole(s, 9) BY <1>12, <1>30, <1>31, <1>3, SendPlain
<1>42. Whole(s, 10) BY <1>13, <1>30, <1>32, LastWait
<1>43. Fits(s, 11) /\ Owns(s, 11) BY <1>14, <1>30, <1>31, <1>3, SendPlain
<1>44. s[13].what # ">" /\ Does(s, 13, "data") BY <1>2, <1>16, <1>28 DEF Does, Is, IsItem, Fields
<1>45. Inside(s, 13) BY <1>44, <1>30, InsideIs
<1>46. Inside(s, Target(s, 12)) BY <1>45, <1>29
<1>47. Whole(s, 12) BY <1>15, <1>30, <1>32, <1>46, <1>28, <1>3, InnerWait
<1>48. s[14].what # ">" /\ Does(s, 14, "parse") BY <1>2, <1>17, <1>28 DEF Does, Is, IsItem, Fields
<1>49. Inside(s, 14) BY <1>48, <1>30, InsideIs
<1>50. Inside(s, Target(s, 13)) BY <1>49, <1>29
<1>51. Whole(s, 13) BY <1>16, <1>30, <1>50, DataStep
<1>52. s[15].what # ">" /\ Does(s, 15, "wait") BY <1>2, <1>18, <1>28 DEF Does, Is, IsItem, Fields
<1>53. Inside(s, 15) BY <1>52, <1>30, InsideIs
<1>54. Inside(s, Target(s, 14)) BY <1>53, <1>29
<1>55. Whole(s, 14) BY <1>17, <1>30, <1>54, ParseStep
<1>56. Whole(s, 15) BY <1>18, <1>30, <1>32, LastWait
<1>57. Whole(s, 16) BY <1>19, <1>30, ErrorStep
<1>58. Whole(s, 17) BY <1>20, <1>30, DrainStep
<1>59. Fits(s, 18) /\ Owns(s, 18) BY <1>21, <1>30, <1>31, <1>3, SendPlain
<1>60. Whole(s, 19) BY <1>22, <1>30, <1>32, LastWait
<1>61. Whole(s, 20) BY <1>23, <1>30, ErrorStep
<1>62. Whole(s, 21) BY <1>24, <1>30, DrainStep
<1>63. Fits(s, 22) /\ Owns(s, 22) BY <1>25, <1>30, <1>31, <1>3, SendPlain
<1>64. Whole(s, 23) BY <1>26, <1>30, <1>32, LastWait
<1>65. Whole(s, 24) BY <1>27, <1>30, RequireStep
<1>66. 1 .. 24 = {1, 2, 3, 4, 5, 6, 7, 8, 9, 10, 11, 12, 13, 14, 15, 16, 17, 18, 19, 20, 21, 22, 23, 24} OBVIOUS
<1>67. Regular(s)
  BY <1>2, <1>66, <1>33, <1>34, <1>35, <1>36, <1>37, <1>38, <1>39, <1>40, <1>41, <1>42, <1>43, <1>47, <1>51,
     <1>55, <1>56, <1>57, <1>58, <1>59, <1>60, <1>61, <1>62, <1>63, <1>64, <1>65, <1>28 DEF Regular, Whole,
     End
<1>68. OwnText(s)
  BY <1>2, <1>66, <1>33, <1>34, <1>35, <1>36, <1>37, <1>38, <1>39, <1>40, <1>41, <1>42, <1>43, <1>47, <1>51,
     <1>55, <1>56, <1>57, <1>58, <1>59, <1>60, <1>61, <1>62, <1>63, <1>64, <1>65 DEF OwnText, Whole
<1>69. Classic(s) BY <1>2, <1>66, <1>28, <1>12, <1>14, <1>21, <1>25 DEF Classic
<1> QED BY <1>67, <1>68, <1>69 DEF s

LEMMA BleConnectIs ==
  Regular(BleConnect) /\ OwnText(BleConnect)
<1> DEFINE s == BleConnect
<1>1. /\ s[1] = Clear /\ s[2] = Drain /\ s[3] = Send("BLECONN=") /\ s[4] = OrElse(6, Then(5, Wait("OK")))
      /\ s[5] = OrElse(End, Then(End, Wait("OK"))) /\ s[6] = OrElse(7, Wait("OK")) /\ s[7] = ReturnZero
  BY DEF BleConnect
<1>2. Len(s) = 7 /\ DOMAIN s = 1 .. 7
  BY DEF BleConnect
<1> HIDE DEF s
<1>3. Is(s[1], "error", Fail, Fail, Keep) BY <1>1, StepsAre
<1>4. Is(s[2], "drain", Fail, Fail, Keep) BY <1>1, StepsAre
<1>5. Is(s[3], "send", Fail, Fail, Keep) /\ s[3].what = "BLECONN=" BY <1>1, StepsAre
<1>6. Is(s[4], "wait", 5, 6, Keep) /\ s[4].what = "OK" BY <1>1, VariantsAre
<1>7. Is(s[5], "wait", End, End, Keep) /\ s[5].what = "OK" BY <1>1, VariantsAre
<1>8. Is(s[6], "wait", Fail, 7, Keep) /\ s[6].what = "OK" BY <1>1, VariantsAre
<1>9. Is(s[7], "require", Fail, Fail, Keep) BY <1>1, StepsAre
<1>10. /\ s[1].do = "error" /\ s[2].do = "drain" /\ s[3].do = "send" /\ s[4].do = "wait"
       /\ s[5].do = "wait" /\ s[6].do = "wait" /\ s[7].do = "require" /\ ~s[1].list /\ ~s[2].list
       /\ ~s[3].list /\ ~s[4].list /\ ~s[5].list /\ ~s[6].list /\ ~s[7].list /\ s[4].orElse = 6
       /\ s[5].orElse = End /\ s[6].orElse = 7
  BY <1>3, <1>4, <1>5, <1>6, <1>7, <1>8, <1>9 DEF Is, IsItem, Fields
<1>11. /\ Target(s, 1) = 2 /\ Target(s, 2) = 3 /\ Target(s, 3) = 4 /\ Target(s, 4) = 5
       /\ Target(s, 5) = End /\ Target(s, 6) = 7 /\ Target(s, 7) = End
  BY <1>2, <1>3, <1>4, <1>5, <1>6, <1>7, <1>8, <1>9 DEF Target, Is, IsItem, Fields, Fail, End
<1>12. /\ Unused(s, Target(s, 1)) /\ Unused(s, Target(s, 2)) /\ Does(s, Target(s, 3), "wait")
       /\ Unused(s, Target(s, 4)) /\ Unused(s, 6) /\ Unused(s, Target(s, 5)) /\ Unused(s, Target(s, 6))
       /\ Unused(s, 7) /\ Unused(s, Target(s, 7)) /\ Unused(s, Fail) /\ Unused(s, End)
  BY <1>2, <1>10, <1>11 DEF Unused, Does, Users, End, Fail
<1>13. s[Target(s, 3)].what = "OK"
  BY <1>11, <1>10, <1>6
<1>14. "BLECONN=" \notin Lasting \cup {"+BLECONN"} /\ "BLECONN=" \notin Prompting /\ Reason(Keep)
  BY DEF Reason, Keep, Lasting, Prompting
<1>15. Whole(s, 1) BY <1>3, <1>12, ErrorStep
<1>16. Whole(s, 2) BY <1>4, <1>12, DrainStep
<1>17. Fits(s, 3) /\ Owns(s, 3) BY <1>5, <1>12, <1>13, <1>14, SendStep
<1>18. Whole(s, 4) BY <1>6, <1>12, <1>14, LastWait
<1>19. Whole(s, 5) BY <1>7, <1>12, <1>14, LastWait
<1>20. Whole(s, 6) BY <1>8, <1>12, <1>14, LastWait
<1>21. Whole(s, 7) BY <1>9, <1>12, RequireStep
<1>22. 1 .. 7 = {1, 2, 3, 4, 5, 6, 7} OBVIOUS
<1>23. Regular(s)
  BY <1>2, <1>22, <1>15, <1>16, <1>17, <1>18, <1>19, <1>20, <1>21, <1>10 DEF Regular, Whole, End
<1>24. OwnText(s)
  BY <1>2, <1>22, <1>15, <1>16, <1>17, <1>18, <1>19, <1>20, <1>21 DEF OwnText, Whole
<1> QED BY <1>23, <1>24 DEF s

\* The calls that send one command
LEMMA SettingScripts ==
  /\ Fine(SetDNS) /\ Fine(EthSetMac) /\ Fine(EthStaticIp) /\ Fine(EthEnableDHCP) /\ Fine(SetEthHostname)
  /\ Fine(MDNS) /\ Fine(SntpCfg) /\ Fine(Ping) /\ Fine(SleepMode) /\ Fine(BleInit)
  /\ Fine(SetPublicBdAddr) /\ Fine(SetName) /\ Fine(SetScanParams) /\ Fine(StartScan)
  /\ Fine(SetAdvertisementParams) /\ Fine(SetAdvData) /\ Fine(StartAdvertisingEx)
  /\ Fine(UpdateConnParams) /\ Fine(UpdateMtuSize) /\ Fine(DiscoverCGATTServices)
  /\ Fine(DiscoverCGATTServicesCharacteristics) /\ Fine(DiscoverCGATTIncludedServices)
<1>1. /\ "CIPDNS=" \notin Special /\ "CIPETHMAC=" \notin Special /\ "CIPETH=" \notin Special
      /\ "CWDHCP=" \notin Special /\ "CEHOSTNAME=" \notin Special /\ "MDNS=" \notin Special
      /\ "CIPSNTPCFG=" \notin Special /\ "PING=" \notin Special /\ "SLEEP=" \notin Special
      /\ "BLEINIT=" \notin Special /\ "BLEADDR=" \notin Special /\ "BLENAME=" \notin Special
      /\ "BLESCANPARAM=" \notin Special /\ "BLESCAN=" \notin Special /\ "BLEADVPARAM=" \notin Special
      /\ "BLEADVDATA=" \notin Special /\ "BLEADVDATAEX=" \notin Special /\ "BLECONNPARAM=" \notin Special
      /\ "BLECFGMTU=" \notin Special /\ "BLEGATTCPRIMSRV=" \notin Special
      /\ "BLEGATTCCHAR=" \notin Special /\ "BLEGATTCINCLSRV=" \notin Special
  BY DEF Special, Lasting, Foreign, Unsolicited, Refusing, Prompting
<1>2. Fine(SetDNS) BY <1>1, SettingIs DEF SetDNS
<1>3. Fine(EthSetMac) BY <1>1, SettingIs DEF EthSetMac
<1>4. Fine(EthStaticIp) BY <1>1, SettingIs DEF EthStaticIp
<1>5. Fine(EthEnableDHCP) BY <1>1, SettingIs DEF EthEnableDHCP
<1>6. Fine(SetEthHostname) BY <1>1, SettingIs DEF SetEthHostname
<1>7. Fine(MDNS) BY <1>1, SettingIs DEF MDNS
<1>8. Fine(SntpCfg) BY <1>1, SettingIs DEF SntpCfg
<1>9. Fine(Ping) BY <1>1, SettingIs DEF Ping
<1>10. Fine(SleepMode) BY <1>1, SettingIs DEF SleepMode
<1>11. Fine(BleInit) BY <1>1, SettingIs DEF BleInit
<1>12. Fine(SetPublicBdAddr) BY <1>1, SettingIs DEF SetPublicBdAddr
<1>13. Fine(SetName) BY <1>1, SettingIs DEF SetName
<1>14. Fine(SetScanParams) BY <1>1, SettingIs DEF SetScanParams
<1>15. Fine(StartScan) BY <1>1, SettingIs DEF StartScan
<1>16. Fine(SetAdvertisementParams) BY <1>1, SettingIs DEF SetAdvertisementParams
<1>17. Fine(SetAdvData) BY <1>1, SettingIs DEF SetAdvData
<1>18. Fine(StartAdvertisingEx) BY <1>1, SettingIs DEF StartAdvertisingEx
<1>19. Fine(UpdateConnParams) BY <1>1, SettingIs DEF UpdateConnParams
<1>20. Fine(UpdateMtuSize) BY <1>1, SettingIs DEF UpdateMtuSize
<1>21. Fine(DiscoverCGATTServices) BY <1>1, SettingIs DEF DiscoverCGATTServices
<1>22. Fine(DiscoverCGATTServicesCharacteristics)
  BY <1>1, SettingIs DEF DiscoverCGATTServicesCharacteristics
<1>23. Fine(DiscoverCGATTIncludedServices) BY <1>1, SettingIs DEF DiscoverCGATTIncludedServices
<1> QED
  BY <1>2, <1>3, <1>4, <1>5, <1>6, <1>7, <1>8, <1>9, <1>10, <1>11, <1>12, <1>13, <1>14, <1>15, <1>16, <1>17,
     <1>18, <1>19, <1>20, <1>21, <1>22, <1>23

\* The queries
LEMMA QueryScripts ==
  /\ Fine(FirmwareVersion) /\ Fine(StaMacQuery) /\ Fine(DnsQueryAT2) /\ Fine(SoftApMacQuery)
  /\ Fine(HostnameQuery) /\ Fine(DhcpStateQuery) /\ Fine(EthMacQuery) /\ Fine(EthHostnameQuery)
  /\ Fine(Resolve)
<1>1. /\ "AT version:" \notin Special /\ "+CIPSTAMAC" \notin Special /\ "+CIPDNS" \notin Special
      /\ "+CIPAPMAC" \notin Special /\ "+CWHOSTNAME" \notin Special /\ "+CWDHCP" \notin Special
      /\ "+CIPETHMAC" \notin Special /\ "+CEHOSTNAME" \notin Special /\ "+CIPDOMAIN" \notin Special
  BY DEF Special, Lasting, Foreign, Unsolicited, Refusing, Prompting
<1>2. Fine(FirmwareVersion) BY <1>1, QueryIs DEF FirmwareVersion
<1>3. Fine(StaMacQuery) BY <1>1, QueryIs DEF StaMacQuery
<1>4. Fine(DnsQueryAT2) BY <1>1, QueryIs DEF DnsQueryAT2
<1>5. Fine(SoftApMacQuery) BY <1>1, QueryIs DEF SoftApMacQuery
<1>6. Fine(HostnameQuery) BY <1>1, QueryIs DEF HostnameQuery
<1>7. Fine(DhcpStateQuery) BY <1>1, QueryIs DEF DhcpStateQuery
<1>8. Fine(EthMacQuery) BY <1>1, QueryIs DEF EthMacQuery
<1>9. Fine(EthHostnameQuery) BY <1>1, QueryIs DEF EthHostnameQuery
<1>10. Fine(Resolve) BY <1>1, QueryIs DEF Resolve
<1> QED BY <1>2, <1>3, <1>4, <1>5, <1>6, <1>7, <1>8, <1>9, <1>10

\* The queries answered by three lines
LEMMA ThreeLinesScripts ==
  Fine(StaIpQuery) /\ Fine(SoftApIpQuery) /\ Fine(EthIpQuery)
<1>1. "+CIPSTA" \notin Special /\ "+CIPAP" \notin Special /\ "+CIPETH" \notin Special
  BY DEF Special, Lasting, Foreign, Unsolicited, Refusing, Prompting
<1>2. Fine(StaIpQuery) BY <1>1, ThreeLinesIs DEF StaIpQuery
<1>3. Fine(SoftApIpQuery) BY <1>1, ThreeLinesIs DEF SoftApIpQuery
<1>4. Fine(EthIpQuery) BY <1>1, ThreeLinesIs DEF EthIpQuery
<1> QED BY <1>2, <1>3, <1>4

\* The calls that call maintain() twice
LEMMA MaintainTwiceScripts ==
  Fine(ServerEnd) /\ Fine(DeepSleep) /\ Fine(StartAdvertising) /\ Fine(StopAdvertising)
<1>1. /\ "CIPSERVER=0" \notin Special /\ "GSLP=0" \notin Special /\ "BLEADVSTART" \notin Special
      /\ "BLEADVSTOP" \notin Special
  BY DEF Special, Lasting, Foreign, Unsolicited, Refusing, Prompting
<1>2. Fine(ServerEnd) BY <1>1, MaintainTwiceIs DEF ServerEnd
<1>3. Fine(DeepSleep) BY <1>1, MaintainTwiceIs DEF DeepSleep
<1>4. Fine(StartAdvertising) BY <1>1, MaintainTwiceIs DEF StartAdvertising
<1>5. Fine(StopAdvertising) BY <1>1, MaintainTwiceIs DEF StopAdvertising
<1> QED BY <1>2, <1>3, <1>4, <1>5

\* The modes off, and the addresses that BLE asks for
LEMMA OtherScripts ==
  /\ \A s \in {ApQuery, SoftApQuery} : Regular(s) /\ OwnText(s) /\ Reporting(s) /\ Classic(s)
  /\ \A s \in {GetPublicBdAddr, GetName, GetMtuSize} : Regular(s) /\ Explaining(s) /\ Reporting(s) /\ Classic(s)
  /\ Fine(EthStatus) /\ Fine(Process)
<1>1. /\ "+CWJAP" \notin Special /\ "+CWSAP" \notin Special
      /\ "+BLEADDR:" \notin Special /\ "+BLENAME:" \notin Special /\ "+BLECFGMTU:" \notin Special
  BY DEF Special, Lasting, Foreign, Unsolicited, Refusing, Prompting
<1>2. Regular(ApQuery) /\ OwnText(ApQuery) /\ Reporting(ApQuery) /\ Classic(ApQuery)
  BY <1>1, QueryIfOnIs DEF ApQuery
<1>3. Regular(SoftApQuery) /\ OwnText(SoftApQuery) /\ Reporting(SoftApQuery) /\ Classic(SoftApQuery)
  BY <1>1, QueryIfOnIs DEF SoftApQuery
<1>4. Regular(GetPublicBdAddr) /\ Explaining(GetPublicBdAddr) /\ Reporting(GetPublicBdAddr) /\ Classic(GetPublicBdAddr)
  BY <1>1, GetterIs DEF GetPublicBdAddr
<1>5. Regular(GetName) /\ Explaining(GetName) /\ Reporting(GetName) /\ Classic(GetName)
  BY <1>1, GetterIs DEF GetName
<1>6. Regular(GetMtuSize) /\ Explaining(GetMtuSize) /\ Reporting(GetMtuSize) /\ Classic(GetMtuSize)
  BY <1>1, GetterIs DEF GetMtuSize
<1>7. Fine(EthStatus) /\ Fine(Process) BY MaintainIs DEF EthStatus, Process
<1> QED BY <1>2, <1>3, <1>4, <1>5, <1>6, <1>7

\* The calls that keep less than all of it
Odd == Getters \cup Unexplained \cup {"bleConnect"}

LEMMA FineScripts == \A o \in DOMAIN Scripts \ Odd : Fine(Scripts[o])
<1>1. DOMAIN Scripts = {"firmwareVersion", "staStatus", "ethStatus", "setDNS", "staMacQuery",
                        "staIpQuery", "dnsQueryAT1", "dnsQueryAT2", "listAP", "apQuery", "softApQuery",
                        "softApMacQuery", "softApIpQuery", "hostnameQuery", "dhcpStateQuery",
                        "ethSetMac", "ethStaticIp", "ethEnableDHCP", "ethMacQuery", "ethIpQuery",
                        "setEthHostname", "ethHostnameQuery", "serverBegin", "serverEnd", "mDNS",
                        "resolve", "sntpCfg", "sntpTime", "ping", "sleepMode", "deepSleep",
                        "recvDataWithInfo", "sendStream", "sendCallback", "bleInit", "setPublicBdAddr",
                        "getPublicBdAddr", "setName", "getName", "setScanParams", "startScan",
                        "setAdvertisementParams", "setAdvData", "startAdvertising", "stopAdvertising",
                        "startAdvertisingEx", "process", "bleConnect", "updateConnParams",
                        "updateMtuSize", "getMtuSize", "discoverCGATTServices",
                        "discoverCGATTServicesCharacteristics", "discoverCGATTIncludedServices"}
  BY DEF Scripts
<1>2. /\ Scripts["firmwareVersion"] = FirmwareVersion /\ Scripts["staStatus"] = StaStatus
      /\ Scripts["ethStatus"] = EthStatus /\ Scripts["setDNS"] = SetDNS
      /\ Scripts["staMacQuery"] = StaMacQuery /\ Scripts["staIpQuery"] = StaIpQuery
      /\ Scripts["dnsQueryAT2"] = DnsQueryAT2 /\ Scripts["softApMacQuery"] = SoftApMacQuery
      /\ Scripts["softApIpQuery"] = SoftApIpQuery /\ Scripts["hostnameQuery"] = HostnameQuery
      /\ Scripts["dhcpStateQuery"] = DhcpStateQuery /\ Scripts["ethSetMac"] = EthSetMac
      /\ Scripts["ethStaticIp"] = EthStaticIp /\ Scripts["ethEnableDHCP"] = EthEnableDHCP
      /\ Scripts["ethMacQuery"] = EthMacQuery /\ Scripts["ethIpQuery"] = EthIpQuery
      /\ Scripts["setEthHostname"] = SetEthHostname /\ Scripts["ethHostnameQuery"] = EthHostnameQuery
      /\ Scripts["serverBegin"] = ServerBegin /\ Scripts["serverEnd"] = ServerEnd
      /\ Scripts["mDNS"] = MDNS /\ Scripts["resolve"] = Resolve /\ Scripts["sntpCfg"] = SntpCfg
      /\ Scripts["sntpTime"] = SntpTime /\ Scripts["ping"] = Ping /\ Scripts["sleepMode"] = SleepMode
      /\ Scripts["deepSleep"] = DeepSleep /\ Scripts["sendStream"] = SendStream
      /\ Scripts["sendCallback"] = SendCallback /\ Scripts["bleInit"] = BleInit
      /\ Scripts["setPublicBdAddr"] = SetPublicBdAddr /\ Scripts["setName"] = SetName
      /\ Scripts["setScanParams"] = SetScanParams /\ Scripts["startScan"] = StartScan
      /\ Scripts["setAdvertisementParams"] = SetAdvertisementParams /\ Scripts["setAdvData"] = SetAdvData
      /\ Scripts["startAdvertising"] = StartAdvertising /\ Scripts["stopAdvertising"] = StopAdvertising
      /\ Scripts["startAdvertisingEx"] = StartAdvertisingEx /\ Scripts["process"] = Process
      /\ Scripts["updateConnParams"] = UpdateConnParams /\ Scripts["updateMtuSize"] = UpdateMtuSize
      /\ Scripts["discoverCGATTServices"] = DiscoverCGATTServices
      /\ Scripts["discoverCGATTServicesCharacteristics"] = DiscoverCGATTServicesCharacteristics
      /\ Scripts["discoverCGATTIncludedServices"] = DiscoverCGATTIncludedServices
  BY DEF Scripts
<1>3. \A o \in DOMAIN Scripts \ Odd : Fine(Scripts[o])
  BY <1>1, <1>2, SettingScripts, QueryScripts, ThreeLinesScripts, MaintainTwiceScripts, OtherScripts,
     StaStatusIs, ServerBeginIs, SntpTimeIs, SendStreamIs, SendCallbackIs DEF Odd, Getters, Unexplained
<1> QED BY <1>3

LEMMA ScriptFacts ==
  ASSUME NEW o \in DOMAIN Scripts
  PROVE  /\ Regular(Scripts[o])
         /\ o \notin Unexplained \cup {"bleConnect"} => Explaining(Scripts[o])
         /\ o \notin Getters => OwnText(Scripts[o])
         /\ o \notin Careless \cup {"bleConnect"} => Reporting(Scripts[o])
         /\ \A n \in 1 .. Len(Scripts[o]) : Scripts[o][n].do = "send" /\ Scripts[o][n].what = "BLECONN=" => o = "bleConnect"
         /\ o # "none"
<1>1. o # "none" BY DEF Scripts
<1>2. CASE o \notin Odd BY <1>1, <1>2, FineScripts DEF Fine, Classic, Odd
<1>3. CASE o \in Getters
  <2>1. /\ Scripts["getPublicBdAddr"] = GetPublicBdAddr /\ Scripts["getName"] = GetName
        /\ Scripts["getMtuSize"] = GetMtuSize
    BY DEF Scripts
  <2>2. Regular(Scripts[o]) /\ Explaining(Scripts[o]) /\ Reporting(Scripts[o]) /\ Classic(Scripts[o])
    BY <1>3, <2>1, OtherScripts DEF Getters
  <2> QED BY <1>1, <1>3, <2>2 DEF Classic
<1>4. CASE o \in {"apQuery", "softApQuery", "dnsQueryAT1"}
  <2>1. /\ Scripts["apQuery"] = ApQuery /\ Scripts["softApQuery"] = SoftApQuery
        /\ Scripts["dnsQueryAT1"] = DnsQueryAT1
    BY DEF Scripts
  <2>2. Regular(Scripts[o]) /\ OwnText(Scripts[o]) /\ Reporting(Scripts[o]) /\ Classic(Scripts[o])
    BY <1>4, <2>1, OtherScripts, DnsQueryAT1Is
  <2> QED BY <1>1, <1>4, <2>2 DEF Classic, Unexplained
<1>5. CASE o \in Careless
  <2>1. Scripts["listAP"] = ListAP /\ Scripts["recvDataWithInfo"] = RecvDataWithInfo BY DEF Scripts
  <2>2. Regular(Scripts[o]) /\ OwnText(Scripts[o]) /\ Classic(Scripts[o])
    BY <1>5, <2>1, ListAPIs, RecvDataWithInfoIs DEF Careless
  <2> QED BY <1>1, <1>5, <2>2 DEF Classic, Unexplained, Careless
<1>6. CASE o = "bleConnect"
  <2>1. Scripts["bleConnect"] = BleConnect BY DEF Scripts
  <2> QED BY <1>1, <1>6, <2>1, BleConnectIs
<1> QED BY <1>2, <1>3, <1>4, <1>5, <1>6 DEF Odd, Unexplained, Careless

\* The two lines that answer BLECONN, in either order, and a failure.
LEMMA BleConnectFacts ==
  LET s == Scripts["bleConnect"]
  IN  /\ Len(s) = 7 /\ "bleConnect" \in DOMAIN Scripts
      /\ s[1].do = "error" /\ s[2].do = "drain" /\ s[3].do = "send" /\ s[3].what = "BLECONN="
      /\ \A n \in {4, 5, 6} : s[n].do = "wait" /\ s[n].what = "OK" /\ ~s[n].list /\ s[n].error = Keep
      /\ s[7].do = "require" /\ s[7].what = "never" /\ s[7].error = Keep
      /\ Target(s, 1) = 2 /\ Target(s, 2) = 3 /\ Target(s, 3) = 4 /\ Target(s, 4) = 5 /\ Target(s, 5) = End /\ Target(s, 6) = 7
      /\ Target(s, 7) = End
      /\ s[4].orElse = 6 /\ s[5].orElse = End /\ s[6].orElse = 7 /\ s[7].orElse = Fail
<1> DEFINE s == BleConnect
<1>1. /\ s[1] = Clear /\ s[2] = Drain /\ s[3] = Send("BLECONN=") /\ s[4] = OrElse(6, Then(5, Wait("OK")))
      /\ s[5] = OrElse(End, Then(End, Wait("OK"))) /\ s[6] = OrElse(7, Wait("OK")) /\ s[7] = ReturnZero
  BY DEF BleConnect
<1>2. Len(s) = 7 BY DEF BleConnect
<1> HIDE DEF s
<1>3. Is(s[1], "error", Fail, Fail, Keep) /\ Is(s[2], "drain", Fail, Fail, Keep) BY <1>1, StepsAre
<1>4. Is(s[3], "send", Fail, Fail, Keep) /\ s[3].what = "BLECONN=" BY <1>1, StepsAre
<1>5. Is(s[4], "wait", 5, 6, Keep) /\ s[4].what = "OK" BY <1>1, VariantsAre
<1>6. Is(s[5], "wait", End, End, Keep) /\ s[5].what = "OK" BY <1>1, VariantsAre
<1>7. Is(s[6], "wait", Fail, 7, Keep) /\ s[6].what = "OK" BY <1>1, VariantsAre
<1>8. Is(s[7], "require", Fail, Fail, Keep) BY <1>1, StepsAre
<1>9. s[7].what = "never" BY <1>1 DEF ReturnZero, Step
<1>10. /\ Target(s, 1) = 2 /\ Target(s, 2) = 3 /\ Target(s, 3) = 4 /\ Target(s, 4) = 5 /\ Target(s, 5) = End
       /\ Target(s, 6) = 7 /\ Target(s, 7) = End
  BY <1>2, <1>3, <1>4, <1>5, <1>6, <1>7, <1>8 DEF Target, Is, Fields, Fail, End
<1>11. /\ s[1].do = "error" /\ s[2].do = "drain" /\ s[3].do = "send" /\ s[7].do = "require" /\ s[7].error = Keep
       /\ \A n \in {4, 5, 6} : s[n].do = "wait" /\ s[n].what = "OK" /\ ~s[n].list /\ s[n].error = Keep
       /\ s[4].orElse = 6 /\ s[5].orElse = End /\ s[6].orElse = 7 /\ s[7].orElse = Fail
  BY <1>3, <1>4, <1>5, <1>6, <1>7, <1>8 DEF Is, Fields
<1>12. Scripts["bleConnect"] = s /\ "bleConnect" \in DOMAIN Scripts BY DEF Scripts, s
<1> QED BY <1>2, <1>4, <1>9, <1>10, <1>11, <1>12

----------------------------------------------------------------------------
(* Answers. *)

\* The lines that come before the OK of an answer
Inner == Texts \ (Lasting \cup {"+BLECONN"})

LEMMA TimesIs ==
  ASSUME NEW S, NEW x \in S, NEW n \in Nat
  PROVE  Times(n, x) \in Seq(S)
BY DEF Times

LEMMA ItemsAreInner ==
  ASSUME NEW c, NEW r \in Items(c)
  PROVE  r \in Seq(Inner)
<1>1. /\ {"+CIPSTA", "+CIPAP", "+CIPETH"} \subseteq Inner
      /\ "+CIPDNS_CUR" \in Inner /\ "+CWLAP" \in Inner /\ "+CWJAP" \in Inner /\ "No AP" \in Inner
      /\ "STATUS" \in Inner /\ "+CIPSTATUS" \in Inner /\ "+BLEGATT" \in Inner
  BY DEF Inner, Texts, Lasting
<1>2. Queries \subseteq Inner BY Zenon DEF Inner, Texts, Lasting, Queries
<1>3. /\ <<>> \in Seq(Inner)
      /\ \A x \in Inner : <<x>> \in Seq(Inner)
      /\ \A x, y \in Inner : <<x, y>> \in Seq(Inner)
  OBVIOUS
<1>4. \A x \in Inner : /\ Times(3, x) \in Seq(Inner)
                      /\ \A n \in 1 .. 2 : Times(n, x) \in Seq(Inner)
  <2>1. 3 \in Nat /\ 1 .. 2 \subseteq Nat OBVIOUS
  <2> QED BY <2>1, TimesIs, Zenon
<1>5. \/ c \in {"+CIPSTA", "+CIPAP", "+CIPETH"} /\ r = Times(3, c)
      \/ r \in {Times(n, "+CIPDNS_CUR") : n \in 1 .. 2}
      \/ r \in {Times(n, "+CWLAP") : n \in 0 .. 2}
      \/ r \in {<<"+CWJAP">>, <<"No AP">>}
      \/ r \in {<<"STATUS">>, <<"STATUS", "+CIPSTATUS">>}
      \/ c \in Queries /\ r = <<c>>
      \/ r \in {Times(n, "+BLEGATT") : n \in 0 .. 2}
      \/ r = <<>>
  BY Zenon DEF Items
<1>6. CASE c \in {"+CIPSTA", "+CIPAP", "+CIPETH"} /\ r = Times(3, c) BY <1>1, <1>4, <1>6, Zenon
<1>7. CASE r \in {Times(n, "+CIPDNS_CUR") : n \in 1 .. 2} BY <1>1, <1>4, <1>7, Zenon
<1>8. CASE r \in {Times(n, "+CWLAP") : n \in 0 .. 2} 
  <2>1. PICK n \in 0 .. 2 : r = Times(n, "+CWLAP") BY <1>8
  <2>2. n \in Nat BY <2>1
  <2> QED BY <1>1, <2>1, <2>2, TimesIs, Zenon
<1>9. CASE r \in {Times(n, "+BLEGATT") : n \in 0 .. 2} 
  <2>1. PICK n \in 0 .. 2 : r = Times(n, "+BLEGATT") BY <1>9
  <2>2. n \in Nat BY <2>1
  <2> QED BY <1>1, <2>1, <2>2, TimesIs, Zenon
<1>10. CASE r \in {<<"+CWJAP">>, <<"No AP">>} BY <1>1, <1>3, <1>10, Zenon
<1>11. CASE r \in {<<"STATUS">>, <<"STATUS", "+CIPSTATUS">>} BY <1>1, <1>3, <1>11, Zenon
<1>12. CASE c \in Queries /\ r = <<c>> BY <1>2, <1>3, <1>12, Zenon
<1>13. CASE r = <<>> BY <1>3, <1>13, Zenon
<1> QED BY <1>5, <1>6, <1>7, <1>8, <1>9, <1>10, <1>11, <1>12, <1>13, Zenon

\* An answer of one line, of two, and of items and an OK
LEMMA OneLine ==
  ASSUME NEW x \in Texts, NEW a, a = <<x>>
  PROVE  a \in Seq(Texts) /\ (\A i, j \in DOMAIN a : ~(i < j)) /\ (\A i \in DOMAIN a : a[i] = x)
OBVIOUS

LEMMA TwoLines ==
  ASSUME NEW x \in Texts, NEW y \in Texts, NEW a, a = <<x, y>>
  PROVE  /\ a \in Seq(Texts) /\ a[Len(a)] = y
         /\ \A i, j \in DOMAIN a : i < j => a[i] = x /\ a[j] = y
         /\ \A i \in DOMAIN a : a[i] \in {x, y}
OBVIOUS

LEMMA ItemsAndLast ==
  ASSUME NEW r \in Seq(Inner), NEW x \in Texts, NEW a, a = Append(r, x)
  PROVE  /\ a \in Seq(Texts) /\ a[Len(a)] = x
         /\ \A i, j \in DOMAIN a : i < j => a[i] \in Inner
         /\ \A i \in DOMAIN a : a[i] \in Inner \cup {x}
<1>1. Inner \subseteq Texts BY DEF Inner
<1>2. r \in Seq(Texts) /\ Len(r) \in Nat /\ DOMAIN r = 1 .. Len(r) /\ \A i \in 1 .. Len(r) : r[i] \in Inner
  BY <1>1, LenProperties, ElementOfSeq
<1>3. a \in Seq(Texts) /\ Len(a) = Len(r) + 1 /\ (\A i \in 1 .. Len(r) : a[i] = r[i]) /\ a[Len(r) + 1] = x
  BY <1>2, AppendProperties
<1>4. DOMAIN a = 1 .. Len(r) + 1 BY <1>3, LenProperties
<1>5. \A i \in DOMAIN a : (i \in 1 .. Len(r) /\ a[i] \in Inner) \/ (i = Len(r) + 1 /\ a[i] = x)
  BY <1>2, <1>3, <1>4
<1>6. \A i, j \in DOMAIN a : i < j => i \in 1 .. Len(r) BY <1>2, <1>4
<1>7. \A i, j \in DOMAIN a : i < j => a[i] \in Inner BY <1>2, <1>3, <1>6
<1> QED BY <1>3, <1>5, <1>7

\* An answer is in order, and a refusal is nothing but one.
LEMMA AnswerFacts ==
  ASSUME NEW c, c \notin Lasting \cup {"+BLECONN"}, NEW a \in AnswersTo(c)
  PROVE  /\ a \in Seq(Texts)
         /\ \A i, j \in DOMAIN a : i < j =>
              IF c = "BLECONN=" THEN {a[i], a[j]} = {"OK", "+BLECONN"}
              ELSE IF c \in Prompting THEN a[i] = "OK" /\ a[j] = ">" ELSE a[i] \notin Lasting
         /\ \A i \in DOMAIN a : a[i] = "+BLECONN" => c = "BLECONN="
         /\ Refusal(a) => \A i \in DOMAIN a : a[i] \in Refusing
<1>1. \A x, y \in Texts : a = <<x, y>> =>
        /\ a \in Seq(Texts) /\ a[Len(a)] = y /\ (\A i, j \in DOMAIN a : i < j => a[i] = x /\ a[j] = y)
        /\ \A i \in DOMAIN a : a[i] \in {x, y}
  BY TwoLines
<1>2. /\ "OK" \in Texts /\ "ERROR" \in Texts /\ ">" \in Texts /\ "Recv " \in Texts /\ "+BLECONN" \in Texts
      /\ "SEND OK" \in Texts /\ "SEND FAIL" \in Texts
  BY Zenon DEF Texts
<1>3. CASE a = <<"ERROR">>
  <2>1. a \in Seq(Texts) /\ (\A i, j \in DOMAIN a : ~(i < j)) /\ \A i \in DOMAIN a : a[i] = "ERROR"
    BY <1>2, <1>3, OneLine
  <2> QED BY <2>1, Zenon DEF Refusing
<1>4. CASE c \in Prompting /\ a = <<"OK", ">">>
  <2>. DEFINE x == "OK"
             y == ">"
  <2>. x \in Texts /\ y \in Texts /\ a = <<x, y>> BY <1>2, <1>4
  <2>. HIDE DEF x, y
  <2>1. /\ a \in Seq(Texts) /\ a[Len(a)] = y /\ (\A i, j \in DOMAIN a : i < j => a[i] = x /\ a[j] = y)
        /\ \A i \in DOMAIN a : a[i] \in {x, y}
    BY TwoLines
  <2>2. /\ a \in Seq(Texts) /\ a[Len(a)] = ">" /\ (\A i, j \in DOMAIN a : i < j => a[i] = "OK" /\ a[j] = ">")
        /\ \A i \in DOMAIN a : a[i] \in {"OK", ">"}
    BY <2>1 DEF x, y
  <2>3. ~Refusal(a) /\ \A i \in DOMAIN a : a[i] # "+BLECONN" BY <2>2, Zenon DEF Refusal
  <2>4. c # "BLECONN=" BY <1>4, Zenon DEF Prompting
  <2> QED BY <1>4, <2>2, <2>3, <2>4, Zenon
<1>5. CASE c = "payload" /\ a \in {<<"Recv ", "SEND OK">>, <<"Recv ", "SEND FAIL">>}
  <2>1. c \notin Prompting /\ c # "BLECONN=" BY <1>5, Zenon DEF Prompting
  <2>2. PICK y \in {"SEND OK", "SEND FAIL"} : a = <<"Recv ", y>> BY <1>5, Zenon
  <2>3. y \in Texts BY <1>2, <2>2, Zenon
  <2>4. /\ a \in Seq(Texts) /\ a[Len(a)] = y /\ (\A i, j \in DOMAIN a : i < j => a[i] = "Recv " /\ a[j] = y)
        /\ \A i \in DOMAIN a : a[i] \in {"Recv ", y}
    <3> DEFINE x == "Recv "
    <3>1. x \in Texts /\ a = <<x, y>> BY <1>2, <2>2, Zenon
    <3> HIDE DEF x
    <3>2. /\ a \in Seq(Texts) /\ a[Len(a)] = y /\ (\A i, j \in DOMAIN a : i < j => a[i] = x /\ a[j] = y)
          /\ \A i \in DOMAIN a : a[i] \in {x, y}
      BY <1>1, <2>3, <3>1, Zenon
    <3> QED BY <3>2, Zenon DEF x
  <2>5. "Recv " \notin Lasting /\ "Recv " \in Refusing /\ "Recv " # "+BLECONN"
    BY Zenon DEF Lasting, Refusing
  <2>6. y # "+BLECONN" /\ (y \in {"ERROR", "SEND FAIL"} => y \in Refusing) BY <2>2, Zenon DEF Refusing
  <2>7. \A i \in DOMAIN a : a[i] # "+BLECONN" BY <2>4, <2>5, <2>6, Zenon
  <2>8. Refusal(a) => \A i \in DOMAIN a : a[i] \in Refusing BY <2>4, <2>5, <2>6, Zenon DEF Refusal
  <2> QED BY <2>1, <2>4, <2>5, <2>7, <2>8, Zenon
<1>6. CASE c = "BLECONN=" /\ a \in {<<"OK", "+BLECONN">>, <<"+BLECONN", "OK">>}
  <2>1. PICK x \in {"OK", "+BLECONN"}, y \in {"OK", "+BLECONN"} : x # y /\ a = <<x, y>> BY <1>6, Zenon
  <2>2. x \in Texts /\ y \in Texts BY <1>2, <2>1, Zenon
  <2>3. /\ a \in Seq(Texts) /\ a[Len(a)] = y /\ (\A i, j \in DOMAIN a : i < j => a[i] = x /\ a[j] = y)
    <3>1. a = <<x, y>> BY <2>1
    <3> QED BY <2>2, <3>1, TwoLines
  <2>4. ~Refusal(a) BY <2>1, <2>3, Zenon DEF Refusal
  <2>5. {x, y} = {"OK", "+BLECONN"} BY <2>1
  <2> QED BY <1>6, <2>3, <2>4, <2>5, Zenon
<1>7. CASE c \notin Prompting /\ c # "BLECONN=" /\ \E r \in Items(c) : a = Append(r, "OK")
  <2>1. PICK r \in Seq(Inner) : a = Append(r, "OK") BY <1>7, ItemsAreInner, Zenon
  <2>2. Inner \subseteq Texts /\ \A x \in Inner : x \notin Lasting /\ x # "+BLECONN" BY DEF Inner
  <2> DEFINE x == "OK"
  <2>3. x \in Texts /\ a = Append(r, x) BY <1>2, <2>1
  <2> HIDE DEF x
  <2>4. /\ a \in Seq(Texts) /\ a[Len(a)] = x /\ (\A i, j \in DOMAIN a : i < j => a[i] \in Inner)
        /\ \A i \in DOMAIN a : a[i] \in Inner \cup {x}
    BY <2>3, ItemsAndLast
  <2>5. /\ a \in Seq(Texts) /\ a[Len(a)] = "OK" /\ (\A i, j \in DOMAIN a : i < j => a[i] \in Inner)
        /\ \A i \in DOMAIN a : a[i] \in Inner \cup {"OK"}
    BY <2>4 DEF x
  <2>6. ~Refusal(a) BY <2>5, Zenon DEF Refusal
  <2>7. \A i \in DOMAIN a : a[i] # "+BLECONN" BY <2>2, <2>5, Zenon
  <2> QED BY <1>7, <2>2, <2>5, <2>6, <2>7, Zenon
<1>8. \/ c \in Prompting /\ a \in {<<"OK", ">">>, <<"ERROR">>}
      \/ c = "payload" /\ a \in {<<"Recv ", "SEND OK">>, <<"Recv ", "SEND FAIL">>}
      \/ c = "BLECONN=" /\ a \in {<<"OK", "+BLECONN">>, <<"+BLECONN", "OK">>, <<"ERROR">>}
      \/ /\ c \notin Prompting /\ c # "BLECONN="
         /\ a \in {Append(r, "OK") : r \in Items(c)} \cup {<<"ERROR">>}
  BY Zenon DEF AnswersTo, Prompting
<1> QED BY <1>3, <1>4, <1>5, <1>6, <1>7, <1>8, Zenon

----------------------------------------------------------------------------

----------------------------------------------------------------------------
(* The invariant.  All but the types and what a call has returned holds as   *)
(* long as no wait was given up with an answer under way.                   *)

Types ==
  /\ op \in Ops \cup {"none"}
  /\ at \in (IF op = "none" THEN {0} ELSE 1 .. Len(Scripts[op]))
  /\ timeout \in 0 .. TIMEOUT_COUNT /\ ignored \in 0 .. IGNORED_LIMIT
  /\ buffer \in AllLines
  /\ uart \in Seq(AllLines) /\ Len(uart) <= MaxUart /\ todo \in Seq(AllLines)
  /\ refused \in BOOLEAN /\ leftBehind \in BOOLEAN

\* Line a may be there before line b at step n of call o.
May(o, n, a, b) ==
  IF o = "bleConnect" THEN n = 4 /\ {a, b} = {"OK", "+BLECONN"}
  ELSE IF Scripts[o][n].what = ">" THEN a = "OK" /\ b = ">"
  ELSE a \notin Lasting

\* The answers on the wire u, t while call o is at step n; r: one was a refusal.
Wired(o, n, u, t, r) ==
  IF n \in 1 .. Len(Scripts[o])
    THEN /\ ~Open(Scripts[o], n) => NothingOn(u, t)
         /\ \A l : OnWire(l, u, t) => l.from # "earlier"
         /\ \A l : OnWire(l, u, t) /\ l.from = "command" /\ l.t = "+BLECONN" => o = "bleConnect"
         /\ \A k, l : Precedes(k, l, u, t) /\ k.from = "command" /\ l.from = "command" => May(o, n, k.t, l.t)
         /\ r /\ o \notin Careless => \A l : OnWire(l, u, t) /\ l.from = "command" => l.t \in Refusing
    ELSE NothingOn(u, t)

\* Where call o may be after a refusal, and what is in the buffer b there.
Lost(o, n) == IF o = "bleConnect" THEN n \in {4, 6, 7} ELSE Doomed(Scripts[o], n)

Placed(o, n, b, r) ==
  IF n \in 1 .. Len(Scripts[o])
    THEN /\ o \notin Getters /\ Scripts[o][n].do \in Users => b.from = "command"
         /\ r /\ o \notin Careless => Lost(o, n) /\ (Scripts[o][n].do = "verify" => b.t # "SEND OK")
    ELSE r /\ o \notin Careless => n = Fail

Here == Wired(op, at, uart, todo, refused) /\ Placed(op, at, buffer, refused)

Inv ==
  /\ Types
  /\ ~leftBehind => IF op = "none" THEN NothingOn(uart, todo) ELSE Here
  /\ op = "bleConnect" /\ at \in {6, 7} => lastErrorCode # "NO_ERROR"
  /\ op # "none" => last = NoCall
  /\ FailureExplained /\ RefusalReported

\* An arrival at step n is all that Goto(n) needs.
Arrives(n) ==
  /\ leftBehind' \/ (Wired(op, n, uart', todo', refused') /\ Placed(op, n, buffer', refused'))
  /\ n = Fail => op \in Unexplained \/ lastErrorCode' # "NO_ERROR"
  /\ op = "bleConnect" /\ n \in {6, 7} => lastErrorCode' # "NO_ERROR"

TypesOfRest ==
  /\ buffer \in AllLines
  /\ uart \in Seq(AllLines) /\ Len(uart) <= MaxUart /\ todo \in Seq(AllLines)
  /\ refused \in BOOLEAN /\ leftBehind \in BOOLEAN

LEMMA GotoArrives ==
  ASSUME Inv, op # "none", NEW n, Goto(n), Arrives(n), TypesOfRest'
  PROVE  Inv'
<1>1. op \in Ops /\ op \in DOMAIN Scripts /\ op # "none" BY OpsAssumption DEF Inv, Types
<1>2. timeout' \in 0 .. TIMEOUT_COUNT /\ ignored' \in 0 .. IGNORED_LIMIT BY LimitsAssumption DEF Goto
<1>3. CASE n \in 1 .. Len(Scripts[op])
  <2>1. op' = op /\ at' = n /\ last' = last BY <1>3 DEF Goto
  <2>2. Types' BY <1>1, <1>2, <1>3, <2>1 DEF Types, TypesOfRest
  <2>3. ~leftBehind' => Here' BY <2>1 DEF Here, Arrives
  <2>4. FailureExplained' BY <2>1 DEF Inv, FailureExplained
  <2>5. op' = "bleConnect" /\ at' \in {6, 7} => lastErrorCode' # "NO_ERROR" BY <2>1 DEF Arrives
  <2>6. RefusalReported' BY <2>1 DEF Inv, RefusalReported, NoCall
  <2> QED BY <1>1, <2>1, <2>2, <2>3, <2>4, <2>5, <2>6 DEF Inv
<1>4. CASE n \notin 1 .. Len(Scripts[op])
  <2>1. /\ op' = "none" /\ at' = 0
        /\ last' = [op |-> op, ok |-> n # Fail, error |-> lastErrorCode', refused |-> refused']
    BY <1>4 DEF Goto
  <2>2. Types' BY <1>2, <2>1 DEF Types, TypesOfRest
  <2>3. ~leftBehind' => NothingOn(uart', todo') BY <1>4 DEF Arrives, Wired
  <2>4. FailureExplained' BY <2>1 DEF FailureExplained, Arrives
  <2>5. RefusalReported' BY <1>4, <2>1 DEF RefusalReported, Arrives, Placed, Careless
  <2> QED BY <2>1, <2>2, <2>3, <2>4, <2>5 DEF Inv
<1> QED BY <1>3, <1>4

----------------------------------------------------------------------------
(* How the wire and the place go along with the steps.  *)

LEMMA EmptyIsWired ==
  ASSUME NEW o, NEW n, NEW u, NEW t, NEW r, NothingOn(u, t)
  PROVE  Wired(o, n, u, t, r)
<1>1. \A l : OnWire(l, u, t) => l.from # "command" /\ l.from # "earlier" BY DEF NothingOn
<1>2. \A k, l : Precedes(k, l, u, t) => k.from # "command" BY <1>1 DEF Precedes, OnWire
<1> QED BY <1>1, <1>2 DEF Wired

LEMMA NoNewsKeepsNothing ==
  ASSUME NEW u, NEW t, NEW v, NEW s, NoNews(u, t, v, s), NothingOn(u, t)
  PROVE  NothingOn(v, s)
BY DEF NoNews, NothingOn

\* No news at the same step, or at a step inside the same answer
LEMMA WiredStays ==
  ASSUME NEW o, NEW n, NEW u, NEW t, NEW v, NEW s, NEW r, NoNews(u, t, v, s), Wired(o, n, u, t, r)
  PROVE  Wired(o, n, v, s, r)
<1>1. CASE n \notin 1 .. Len(Scripts[o]) BY <1>1, NoNewsKeepsNothing DEF Wired
<1>2. CASE n \in 1 .. Len(Scripts[o])
  <2>1. ~Open(Scripts[o], n) => NothingOn(v, s) BY <1>2, NoNewsKeepsNothing DEF Wired
  <2>2. \A l : OnWire(l, v, s) => l.from # "earlier" BY <1>2 DEF Wired, NoNews
  <2>3. \A l : OnWire(l, v, s) /\ l.from = "command" => OnWire(l, u, t) BY DEF NoNews
  <2>4. \A k, l : Precedes(k, l, v, s) /\ k.from = "command" /\ l.from = "command" => Precedes(k, l, u, t)
    BY DEF NoNews
  <2> QED BY <1>2, <2>1, <2>2, <2>3, <2>4 DEF Wired
<1> QED BY <1>1, <1>2

LEMMA WiredInside ==
  ASSUME NEW o, NEW n, NEW m, NEW u, NEW t, NEW r, Wired(o, n, u, t, r),
         n \in 1 .. Len(Scripts[o]), Scripts[o][n].what # ">", Inside(Scripts[o], m), o # "bleConnect"
  PROVE  Wired(o, m, u, t, r)
<1>1. \A a, b : May(o, n, a, b) => May(o, m, a, b) BY DEF May, Inside
<1> QED BY <1>1 DEF Wired, Inside

\* The last line of an answer is read.
LEMMA LastLine ==
  ASSUME NEW o, NEW n, NEW u \in Seq(AllLines), NEW t \in Seq(AllLines), NEW r, Wired(o, n, u, t, r),
         n \in 1 .. Len(Scripts[o]), u # <<>>, Head(u).from = "command",
         IF o = "bleConnect" THEN n # 4 \/ Head(u).t \notin {"OK", "+BLECONN"}
         ELSE Head(u).t \in Lasting /\ (Scripts[o][n].what = ">" => Head(u).t # "OK")
  PROVE  NothingOn(Tail(u), t)
<1>1. SUFFICES ASSUME NEW l, OnWire(l, Tail(u), t), l.from \in {"command", "earlier"} PROVE FALSE
  BY DEF NothingOn
<1>2. OnWire(l, u, t) /\ Precedes(Head(u), l, u, t) BY <1>1, ReadFirst
<1>3. l.from = "command" BY <1>1, <1>2 DEF Wired
<1>4. May(o, n, Head(u).t, l.t) BY <1>2, <1>3 DEF Wired
<1>5. CASE o = "bleConnect" BY <1>4, <1>5 DEF May
<1>6. CASE o # "bleConnect" BY <1>4, <1>6 DEF May
<1> QED BY <1>5, <1>6

\* An answer to the latest command is read, or something else is.
LEMMA ReadingFacts ==
  ASSUME Inv, op # "none", ~leftBehind, uart # <<>>
  PROVE  /\ op \in DOMAIN Scripts /\ at \in 1 .. Len(Scripts[op])
         /\ Wired(op, at, uart, todo, refused) /\ Placed(op, at, buffer, refused)
         /\ OnWire(NextLine, uart, todo) /\ NextLine \in AllLines /\ NextLine.from # "earlier"
         /\ NextLine.from \in {"probe", "nobody"} => NextLine.t \in Foreign
         /\ NextLine.from \in {"command", "probe", "nobody"}
         /\ NoNews(uart, todo, Tail(uart), todo)
         /\ Wired(op, at, Tail(uart), todo, refused)
<1>1. op \in DOMAIN Scripts /\ at \in 1 .. Len(Scripts[op]) /\ Here BY OpsAssumption DEF Inv, Types
<1>2. uart \in Seq(AllLines) /\ todo \in Seq(AllLines) BY DEF Inv, Types
<1>3. OnWire(NextLine, uart, todo) /\ NoNews(uart, todo, Tail(uart), todo) BY <1>2, ReadFirst DEF NextLine
<1>4. NextLine \in AllLines BY <1>2, SeqFacts DEF NextLine
<1>5. NextLine.from # "earlier" BY <1>1, <1>3 DEF Here, Wired
<1>6. /\ NextLine.from \in {"probe", "nobody"} => NextLine.t \in Foreign
      /\ NextLine.from \in {"command", "probe", "nobody"}
  BY <1>4, <1>5 DEF AllLines, Foreign, Sources
<1>7. Wired(op, at, Tail(uart), todo, refused) BY <1>1, <1>3, WiredStays DEF Here
<1> QED BY <1>1, <1>3, <1>4, <1>5, <1>6, <1>7 DEF Here

\* What a wait takes for its answer is one, and neither a late one nor nobody's.
LEMMA MatchIsAnswer ==
  ASSUME NEW l \in AllLines, l.from # "earlier", NEW what, what \notin Foreign, StartsWith(l.t, what)
  PROVE  /\ l.from = "command"
         /\ l.t = what \/ l.t \in {"SEND OK", "SEND FAIL"} \/ l.t \notin Lasting \cup Refusing \cup {"+BLECONN"}
         /\ l.t \in {"SEND OK", "SEND FAIL"} => what = l.t \/ what = "SEND "
         /\ what \in {"OK", ">"} => l.t = what
         /\ what = "SEND " => l.t \in {"SEND OK", "SEND FAIL"}
<1>1. l.t = what \/ <<l.t, what>> \in {<<"+CIPSTAMAC", "+CIPSTA">>, <<"+CIPSTATUS", "+CIPSTA">>, <<"+CIPAPMAC", "+CIPAP">>,
                        <<"+CIPETHMAC", "+CIPETH">>, <<"+CIPDNS_CUR", "+CIPDNS">>,
                        <<"SEND OK", "SEND ">>, <<"SEND FAIL", "SEND ">>}
  BY DEF StartsWith
<1>2. l.t \in Texts /\ l.from \in Sources BY DEF AllLines
<1>3. l.from \in {"probe", "nobody"} => l.t \in Foreign BY DEF AllLines, Foreign
<1>4. l.from = "command"
  <2>1. l.t \notin Foreign BY <1>1 DEF Foreign, Unsolicited
  <2> QED BY <1>2, <1>3, <2>1 DEF Sources
<1>5. what = "SEND " => l.t \in {"SEND OK", "SEND FAIL"}
  <2>1. "SEND " \notin Texts BY DEF Texts, Queries, Unsolicited
  <2> QED BY <1>1, <1>2, <2>1
<1> QED BY <1>1, <1>4, <1>5 DEF Lasting, Refusing

\* One of the two lines that answer BLECONN is read: the other is left.
LEMMA OneOfTwo ==
  ASSUME NEW u \in Seq(AllLines), NEW t \in Seq(AllLines), NEW r, Wired("bleConnect", 4, u, t, r),
         u # <<>>, Head(u).from = "command"
  PROVE  Wired("bleConnect", 5, Tail(u), t, r)
<1>1. {4, 5} \subseteq 1 .. Len(Scripts["bleConnect"]) /\ Open(Scripts["bleConnect"], 5)
  BY BleConnectFacts DEF Open
<1>2. Wired("bleConnect", 4, Tail(u), t, r) BY WiredStays, ReadFirst
<1>3. ASSUME NEW k, NEW l, Precedes(k, l, Tail(u), t), k.from = "command", l.from = "command" PROVE FALSE
  <2>1. OnWire(k, Tail(u), t) /\ OnWire(l, Tail(u), t) BY <1>3 DEF Precedes, OnWire
  <2>2. /\ Precedes(Head(u), k, u, t) /\ Precedes(Head(u), l, u, t) /\ Precedes(k, l, u, t)
    BY <1>3, <2>1, ReadFirst
  <2>3. May("bleConnect", 4, Head(u).t, k.t) /\ May("bleConnect", 4, Head(u).t, l.t) /\ May("bleConnect", 4, k.t, l.t)
    BY <1>1, <1>3, <2>2 DEF Wired
  <2>4. \A a, b : May("bleConnect", 4, a, b) => (a = "OK" /\ b = "+BLECONN") \/ (a = "+BLECONN" /\ b = "OK")
    BY DEF May
  <2> QED BY <2>3, <2>4
<1> QED BY <1>1, <1>2, <1>3 DEF Wired

LEMMA PlacedOrElse ==
  ASSUME NEW o \in DOMAIN Scripts, NEW n \in 1 .. Len(Scripts[o]), NEW b, NEW c, NEW r, Placed(o, n, b, r),
         Scripts[o][n].do \in {"wait", "verify", "require", "branch", "data"}
  PROVE  Placed(o, Scripts[o][n].orElse, c, r)
<1> DEFINE s == Scripts[o]
           m == s[n].orElse
<1>1. m \in 1 .. Len(s) /\ o \notin Getters => s[m].do \notin Users
  <2>1. o \notin Getters => Owns(s, n) BY ScriptFacts DEF OwnText
  <2> QED BY <2>1 DEF Owns, IsStep
<1>2. CASE o = "bleConnect"
  <2>1. r => n \in {4, 6, 7} BY <1>2 DEF Placed, Lost, Careless
  <2>2. r => m \in {6, 7} \/ m = Fail BY <1>2, <2>1, BleConnectFacts
  <2>3. m \in {6, 7} => s[m].do # "verify" BY <1>2, BleConnectFacts
  <2>4. 0 \notin 1 .. Len(s) /\ {6, 7} \subseteq 1 .. Len(s) BY <1>2, BleConnectFacts
  <2>5. CASE ~r BY <1>1, <2>5 DEF Placed
  <2>6. CASE r BY <1>1, <1>2, <2>2, <2>3, <2>4, <2>6 DEF Placed, Lost, Fail
  <2> QED BY <2>5, <2>6
<1>3. CASE o # "bleConnect"
  <2>1. r /\ o \notin Careless => m = Fail BY <1>3 DEF Placed, Lost, Doomed
  <2>2. 0 \notin 1 .. Len(s) BY ScriptFacts DEF Regular
  <2> QED BY <1>1, <2>1, <2>2 DEF Placed, Fail
<1> QED BY <1>2, <1>3

\* There is no refusal at these steps.
LEMMA PlacedQuiet ==
  ASSUME NEW o \in DOMAIN Scripts, NEW n \in 1 .. Len(Scripts[o]), NEW b, NEW c, NEW r, Placed(o, n, b, r),
         Scripts[o][n].do \in {"error", "drain", "require", "branch"},
         Scripts[o][n].do = "require" => Scripts[o][n].what # "never"
  PROVE  Placed(o, Target(Scripts[o], n), c, r)
<1>1. ~(r /\ o \notin Careless)
  <2>1. CASE o = "bleConnect" BY <2>1, BleConnectFacts DEF Placed, Lost, Careless
  <2>2. CASE o # "bleConnect" BY <2>2 DEF Placed, Lost, Doomed
  <2> QED BY <2>1, <2>2
<1>2. o \notin Getters => Owns(Scripts[o], n) BY ScriptFacts DEF OwnText
<1> QED BY <1>1, <1>2 DEF Placed, Owns, IsStep

LEMMA PlacedParse ==
  ASSUME NEW o \in DOMAIN Scripts, NEW n \in 1 .. Len(Scripts[o]), NEW b, NEW r, Placed(o, n, b, r),
         Scripts[o][n].do = "parse"
  PROVE  Placed(o, Target(Scripts[o], n), b, r)
<1> DEFINE m == Target(Scripts[o], n)
<1>1. o \notin Getters => Owns(Scripts[o], n) BY ScriptFacts DEF OwnText
<1>2. ASSUME r, o \notin Careless
      PROVE  m \in 1 .. Len(Scripts[o]) /\ Lost(o, m) /\ Scripts[o][m].do = "wait"
  <2>1. o # "bleConnect" BY <1>2, BleConnectFacts DEF Placed, Lost
  <2> QED BY <1>2, <2>1 DEF Placed, Lost, Doomed, IsStep
<1> QED BY <1>1, <1>2 DEF Placed, Owns, IsStep

LEMMA PlacedData ==
  ASSUME NEW o \in DOMAIN Scripts, NEW n \in 1 .. Len(Scripts[o]), NEW b, NEW r, Placed(o, n, b, r),
         Scripts[o][n].do = "data"
  PROVE  Placed(o, Target(Scripts[o], n), b, r)
<1>1. ~(r /\ o \notin Careless)
  <2>1. CASE o = "bleConnect" BY <2>1, BleConnectFacts DEF Placed, Lost, Careless
  <2>2. CASE o # "bleConnect" BY <2>2 DEF Placed, Lost, Doomed
  <2> QED BY <2>1, <2>2
<1> QED BY <1>1 DEF Placed, Users

\* A refused command is waited for where there is no way to success.
LEMMA PlacedSend ==
  ASSUME NEW o \in DOMAIN Scripts, NEW n \in 1 .. Len(Scripts[o]), NEW b, NEW r, NEW c, NEW q, Placed(o, n, b, r),
         Scripts[o][n].do = "send"
  PROVE  Placed(o, Target(Scripts[o], n), c, q) /\ ~(r /\ o \notin Careless)
<1> DEFINE m == Target(Scripts[o], n)
<1>1. ~(r /\ o \notin Careless)
  <2>1. CASE o = "bleConnect" BY <2>1, BleConnectFacts DEF Placed, Lost, Careless
  <2>2. CASE o # "bleConnect" BY <2>2 DEF Placed, Lost, Doomed
  <2> QED BY <2>1, <2>2
<1>2. Fits(Scripts[o], n) BY ScriptFacts DEF Regular
<1>3. m \in 1 .. Len(Scripts[o]) /\ Scripts[o][m].do = "wait" BY <1>2 DEF Fits, IsStep
<1>4. o \notin Careless => Lost(o, m)
  <2>1. CASE o = "bleConnect"
    <3>1. n = 3 BY <2>1, BleConnectFacts
    <3> QED BY <2>1, <3>1, BleConnectFacts DEF Lost
  <2>2. CASE o # "bleConnect" /\ o \notin Careless
    <3>1. Reports(Scripts[o], n) BY <2>2, ScriptFacts DEF Reporting
    <3> QED BY <2>2, <3>1 DEF Reports, Lost
  <2> QED BY <2>1, <2>2
<1> QED BY <1>1, <1>3, <1>4 DEF Placed, Users

\* SEND FAIL is not taken for SEND OK.
LEMMA PlacedVerified ==
  ASSUME NEW o \in DOMAIN Scripts, NEW n \in 1 .. Len(Scripts[o]), NEW b, NEW r, Placed(o, n, b, r),
         Scripts[o][n].do = "verify", b.t = Scripts[o][n].what
  PROVE  Placed(o, Target(Scripts[o], n), b, r)
<1>1. ~(r /\ o \notin Careless)
  <2>1. CASE o = "bleConnect" BY <2>1, BleConnectFacts DEF Placed, Lost, Careless
  <2>2. CASE o # "bleConnect" /\ o \notin Careless
    <3>1. Reports(Scripts[o], n) BY <2>2, ScriptFacts DEF Reporting
    <3> QED BY <2>2, <3>1 DEF Reports, Placed
  <2> QED BY <2>1, <2>2
<1>2. o \notin Getters => Owns(Scripts[o], n) BY ScriptFacts DEF OwnText
<1> QED BY <1>1, <1>2 DEF Placed, Owns, IsStep

\* The line l is what the call waits for.
LEMMA PlacedMatched ==
  ASSUME NEW o \in DOMAIN Scripts, NEW n \in 1 .. Len(Scripts[o]), NEW b, NEW r, Placed(o, n, b, r),
         Scripts[o][n].do = "wait", NEW l \in AllLines, l.from # "earlier", StartsWith(l.t, Scripts[o][n].what),
         r /\ o \notin Careless => l.t \in Refusing
  PROVE  Placed(o, Target(Scripts[o], n), IF l.t \in {"OK", "ERROR", ">"} THEN b ELSE l, r)
<1> DEFINE s == Scripts[o]
           m == Target(s, n)
           c == IF l.t \in {"OK", "ERROR", ">"} THEN b ELSE l
<1>1. s[n].what \notin Foreign \cup {"SEND FAIL"}
  <2>1. Fits(s, n) BY ScriptFacts DEF Regular
  <2> QED BY <2>1 DEF Fits
<1>2. /\ l.from = "command"
      /\ l.t = s[n].what \/ l.t \in {"SEND OK", "SEND FAIL"} \/ l.t \notin Lasting \cup Refusing \cup {"+BLECONN"}
      /\ l.t \in {"SEND OK", "SEND FAIL"} => s[n].what = l.t \/ s[n].what = "SEND "
      /\ s[n].what \in {"OK", ">"} => l.t = s[n].what
  BY <1>1, MatchIsAnswer
<1>3. ASSUME m \in 1 .. Len(s), o \notin Getters, s[m].do \in Users PROVE c.from = "command"
  <2>1. Owns(s, n) BY <1>3, ScriptFacts DEF OwnText
  <2>2. s[n].what \notin Lasting BY <1>3, <2>1 DEF Owns, IsStep
  <2>3. l.t \notin {"OK", "ERROR", ">"} BY <1>2, <2>2 DEF Lasting
  <2> QED BY <1>2, <2>3
<1>4. ASSUME r, o \notin Careless
      PROVE  m \in 1 .. Len(s) /\ Lost(o, m) /\ (s[m].do = "verify" => c.t # "SEND OK")
  <2>1. o # "bleConnect"
    <3>1. SUFFICES ASSUME o = "bleConnect" PROVE FALSE OBVIOUS
    <3>2. s[n].what = "OK" BY <1>4, <3>1, BleConnectFacts DEF Placed, Lost
    <3> QED BY <1>2, <1>4, <3>2 DEF Refusing
  <2>2. Reports(s, n) BY <1>4, <2>1, ScriptFacts DEF Reporting
  <2>3. l.t \in {"ERROR", "Recv ", "SEND FAIL"} BY <1>4 DEF Refusing
  <2>4. CASE s[n].what = "Recv " BY <2>1, <2>2, <2>4 DEF Reports, IsStep, Lost
  <2>5. CASE l.t = "SEND FAIL" /\ s[n].what = "SEND " BY <2>1, <2>2, <2>5 DEF Reports, IsStep, Lost
  <2> QED BY <1>1, <1>2, <2>3, <2>4, <2>5 DEF Foreign, Refusing
<1> QED BY <1>3, <1>4 DEF Placed

----------------------------------------------------------------------------
(* The three ways a step ends: on to the next one, to orElse, and not yet.  *)

LEMMA InACall ==
  ASSUME Inv, op # "none"
  PROVE  /\ op \in DOMAIN Scripts /\ at \in 1 .. Len(Scripts[op]) /\ TypesOfRest
         /\ Regular(Scripts[op]) /\ Fits(Scripts[op], at)
         /\ ~leftBehind => Wired(op, at, uart, todo, refused) /\ Placed(op, at, buffer, refused)
<1>1. op \in DOMAIN Scripts /\ at \in 1 .. Len(Scripts[op]) /\ TypesOfRest
  BY OpsAssumption DEF Inv, Types, TypesOfRest
<1>2. Regular(Scripts[op]) /\ Fits(Scripts[op], at) BY <1>1, ScriptFacts DEF Regular
<1> QED BY <1>1, <1>2 DEF Inv, Here

LEMMA ProceedKeeps ==
  ASSUME Inv, op # "none", Proceed, TypesOfRest',
         leftBehind' \/ (/\ Wired(op, Target(Scripts[op], at), uart', todo', refused')
                         /\ Placed(op, Target(Scripts[op], at), buffer', refused')),
         Current.do = "wait" => lastErrorCode' = lastErrorCode
  PROVE  Inv'
<1> DEFINE m == Target(Scripts[op], at)
<1>1. Goto(m) BY DEF Proceed, Target, Current
<1>2. at \in 1 .. Len(Scripts[op]) /\ Len(Scripts[op]) \in 1 .. End - 1 BY InACall DEF Regular
<1>3. m # Fail BY <1>2 DEF Target, Fail, End
<1>4. ASSUME op = "bleConnect", m \in {6, 7} PROVE lastErrorCode' # "NO_ERROR"
  <2>1. at = 6 BY <1>2, <1>4, BleConnectFacts DEF End
  <2>2. Current.do = "wait" BY <1>4, <2>1, BleConnectFacts DEF Current
  <2> QED BY <1>4, <2>1, <2>2 DEF Inv
<1> QED BY <1>1, <1>3, <1>4, GotoArrives DEF Arrives

LEMMA OtherwiseKeeps ==
  ASSUME Inv, op # "none", NEW code, Otherwise(code), TypesOfRest', refused' = refused, leftBehind => leftBehind',
         leftBehind' \/ Wired(op, Current.orElse, uart', todo', refused'),
         Current.do \in {"wait", "verify", "require", "branch", "data"},
         \/ code \in {"AT_NOT_RESPONDIG", "AT_ERROR", "NO_AP"}
         \/ code = lastErrorCode /\ Current.do # "wait"
  PROVE  Inv'
<1> DEFINE s == Scripts[op]
           m == s[at].orElse
<1>1. op \in DOMAIN Scripts /\ at \in 1 .. Len(s) BY InACall
<1>2. Goto(m) /\ lastErrorCode' = (IF s[at].error = Keep THEN code ELSE s[at].error)
  BY DEF Otherwise, Current
<1>3. leftBehind' \/ (Wired(op, m, uart', todo', refused') /\ Placed(op, m, buffer', refused'))
  <2>1. ASSUME ~leftBehind' PROVE Placed(op, m, buffer', refused)
    <3>1. Placed(op, at, buffer, refused) BY <2>1, InACall
    <3> QED BY <1>1, <3>1, PlacedOrElse DEF Current
  <2> QED BY <2>1 DEF Current
<1>4. ASSUME op = "bleConnect", m \in {6, 7} \/ m = Fail PROVE lastErrorCode' # "NO_ERROR"
  <2>1. at \in {4, 6, 7} /\ s[at].error = Keep /\ (at = 7 => s[at].do = "require") /\ (at \in {4, 6} => s[at].do = "wait")
    BY <1>1, <1>4, BleConnectFacts DEF Current, End, Fail
  <2>2. CASE at = 7
    <3>1. lastErrorCode # "NO_ERROR" BY <1>4, <2>2 DEF Inv
    <3> QED BY <1>2, <2>1, <3>1
  <2>3. CASE at \in {4, 6} BY <1>2, <2>1, <2>3 DEF Current
  <2> QED BY <2>1, <2>2, <2>3
<1>5. ASSUME op # "bleConnect", op \notin Unexplained, m = Fail PROVE lastErrorCode' # "NO_ERROR"
  <2>1. Explains(s, at) BY <1>1, <1>5, ScriptFacts DEF Explaining
  <2> QED BY <1>2, <1>5, <2>1 DEF Explains, Current
<1> QED BY <1>2, <1>3, <1>4, <1>5, GotoArrives DEF Arrives

LEMMA StayingKeeps ==
  ASSUME Inv, Waiting, Same, refused' = refused, leftBehind' = leftBehind, lastErrorCode' = lastErrorCode,
         timeout' \in 0 .. TIMEOUT_COUNT, ignored' \in 0 .. IGNORED_LIMIT, TypesOfRest',
         ~leftBehind => Wired(op, at, uart', todo', refused)
  PROVE  Inv'
<1>1. op # "none" /\ Scripts[op][at].do \in {"wait", "drain"} BY DEF Waiting, Doing, Current
<1>2. Types' BY DEF Inv, Types, TypesOfRest, Same
<1>3. ASSUME ~leftBehind PROVE Placed(op, at, buffer', refused)
  <2>1. Placed(op, at, buffer, refused) BY <1>1, <1>3, InACall
  <2> QED BY <1>1, <2>1 DEF Placed, Users
<1>4. op' = op /\ at' = at /\ last' = last BY DEF Same
<1>5. ~leftBehind' => Here' BY <1>3, <1>4 DEF Here
<1>6. FailureExplained' /\ RefusalReported' BY <1>4 DEF Inv, FailureExplained, RefusalReported
<1> QED BY <1>1, <1>2, <1>4, <1>5, <1>6 DEF Inv

\* Nothing under way: nothing is owed.
LEMMA OwedIsOnWire ==
  ASSUME NEW u, NEW t
  PROVE  ~Owed(u) /\ ~Owed(t) <=> NothingOn(u, t)
BY DEF Owed, NothingOn, OnWire

LEMMA GivingUp ==
  ASSUME GivesUp, leftBehind \in BOOLEAN
  PROVE  leftBehind' \in BOOLEAN /\ (leftBehind => leftBehind') /\ (leftBehind' \/ NothingOn(uart', todo'))
BY OwedIsOnWire DEF GivesUp, AnythingOwed

LEMMA LinesFacts ==
  ASSUME NEW a \in Seq(Texts)
  PROVE  Lines(a) \in Seq(AllLines)
<1>1. Len(a) \in Nat /\ DOMAIN a = 1 .. Len(a) /\ \A i \in 1 .. Len(a) : a[i] \in Texts
  BY LenProperties, ElementOfSeq
<1>2. Lines(a) = [i \in 1 .. Len(a) |-> Line(a[i], "command")] BY <1>1 DEF Lines
<1>3. \A i \in 1 .. Len(a) : Line(a[i], "command") \in AllLines BY <1>1 DEF Line, AllLines, Sources
<1> QED BY <1>1, <1>2, <1>3

LEMMA UnaskedLines ==
  /\ Nothing \in AllLines
  /\ Line("ERROR", "probe") \in AllLines /\ Line("ERROR", "probe").from = "probe"
  /\ Line("busy p...", "nobody") \in AllLines /\ Line("busy p...", "nobody").from = "nobody"
  /\ \A t \in Unsolicited : Line(t, "nobody") \in AllLines /\ Line(t, "nobody").from = "nobody"
BY DEF Nothing, Line, AllLines, Texts, Sources, Unsolicited

LEMMA DropsIsNoNews ==
  ASSUME NEW u \in Seq(AllLines), NEW t \in Seq(AllLines), Drops(t)
  PROVE  todo' \in Seq(AllLines) /\ NoNews(u, t, u, todo')
<1>1. CASE todo' = <<Line("busy p...", "nobody")>> \o t BY <1>1, UnaskedIsNoNews, UnaskedLines
<1>2. CASE todo' = t BY <1>2 DEF NoNews
<1> QED BY <1>1, <1>2 DEF Drops

LEMMA BleConnectSteps ==
  \A n \in 1 .. Len(Scripts["bleConnect"]) :
     /\ Scripts["bleConnect"][n].do \notin {"parse", "data", "branch", "verify"}
     /\ Scripts["bleConnect"][n].do = "wait" =>
          n \in {4, 5, 6} /\ Scripts["bleConnect"][n].what = "OK" /\ ~Scripts["bleConnect"][n].list
<1>1. 1 .. 7 = {1, 2, 3, 4, 5, 6, 7} OBVIOUS
<1> QED BY <1>1, BleConnectFacts

----------------------------------------------------------------------------
(* The steps of a call that do not read lines.  *)

LEMMA InitInv == Init => Inv
<1> SUFFICES ASSUME Init PROVE Inv OBVIOUS
<1>1. Types
  <2>1. uart \in Seq(AllLines) /\ todo \in Seq(AllLines) /\ Len(uart) <= MaxUart
    BY BoundsAssumption DEF Init
  <2>2. timeout \in 0 .. TIMEOUT_COUNT /\ ignored \in 0 .. IGNORED_LIMIT BY LimitsAssumption DEF Init
  <2>3. op \in Ops \cup {"none"} /\ at \in (IF op = "none" THEN {0} ELSE 1 .. Len(Scripts[op])) BY DEF Init
  <2>4. buffer \in AllLines BY UnaskedLines DEF Init
  <2> QED BY <2>1, <2>2, <2>3, <2>4 DEF Init, Types
<1>2. NothingOn(uart, todo) BY DEF Init, NothingOn, OnWire
<1> QED BY <1>1, <1>2 DEF Init, Inv, FailureExplained, RefusalReported, NoCall

LEMMA BeginKeeps ==
  ASSUME Inv, NEW o \in Ops, Begin(o)
  PROVE  Inv'
<1>1. /\ op = "none" /\ op' = o /\ at' = 1 /\ refused' = FALSE /\ last' = NoCall
      /\ UNCHANGED <<timeout, ignored, buffer, lastErrorCode, uart, todo, leftBehind>>
  BY DEF Begin, counters, wire
<1>2. o \in DOMAIN Scripts /\ o # "none" /\ Regular(Scripts[o]) BY OpsAssumption, ScriptFacts
<1>3. 1 \in 1 .. Len(Scripts[o]) /\ Scripts[o][1].do = "error" BY <1>2 DEF Regular
<1>4. Types' BY <1>1, <1>2, <1>3 DEF Inv, Types
<1>5. ASSUME ~leftBehind' PROVE Here'
  <2>1. Wired(o, 1, uart, todo, FALSE) BY <1>1, <1>5, EmptyIsWired DEF Inv
  <2>2. Placed(o, 1, buffer, FALSE) BY <1>3 DEF Placed, Users
  <2> QED BY <1>1, <2>1, <2>2 DEF Here
<1> QED BY <1>1, <1>2, <1>4, <1>5 DEF Inv, FailureExplained, RefusalReported, NoCall

LEMMA SetErrorKeeps ==
  ASSUME Inv, SetError
  PROVE  Inv'
<1>1. /\ op # "none" /\ Scripts[op][at].do = "error" /\ Proceed
      /\ UNCHANGED <<refused, buffer, uart, todo, leftBehind>>
  BY DEF SetError, Doing, Current, wire
<1>2. TypesOfRest' BY <1>1, InACall DEF TypesOfRest
<1>3. ASSUME ~leftBehind
      PROVE  /\ Wired(op, Target(Scripts[op], at), uart, todo, refused)
             /\ Placed(op, Target(Scripts[op], at), buffer, refused)
  <2>1. NothingOn(uart, todo) BY <1>1, <1>3, InACall DEF Wired, Open
  <2> QED BY <1>1, <1>3, <2>1, InACall, EmptyIsWired, PlacedQuiet
<1> QED BY <1>1, <1>2, <1>3, ProceedKeeps DEF Current

\* A new command finds nothing under way; what comes then answers it.
LEMMA SendCommandKeeps ==
  ASSUME Inv, SendCommand
  PROVE  Inv'
<1> DEFINE s == Scripts[op]
           c == s[at].what
           m == Target(s, at)
           pending == Aged(Latest(todo))
<1>1. /\ op # "none" /\ s[at].do = "send" /\ Proceed /\ uart' = Aged(uart)
      /\ buffer' = [buffer EXCEPT !.from = IF @ = "command" THEN "earlier" ELSE @]
      /\ UNCHANGED <<lastErrorCode, leftBehind>>
  BY DEF SendCommand, Doing, Current
<1>2. /\ op \in DOMAIN Scripts /\ at \in 1 .. Len(s) /\ TypesOfRest /\ Fits(s, at)
  BY <1>1, InACall
<1>3. m \in 1 .. Len(s) /\ s[m].do = "wait" /\ c \notin Lasting \cup {"+BLECONN"} /\ (s[m].what = ">" <=> c \in Prompting)
  BY <1>1, <1>2 DEF Fits, IsStep
<1>4. /\ Aged(uart) \in Seq(AllLines) /\ pending \in Seq(AllLines)
      /\ NothingOn(uart, todo) => NothingOn(Aged(uart), pending)
  BY <1>2, AgedWire DEF TypesOfRest
<1>5. buffer' \in AllLines BY <1>1, <1>2 DEF TypesOfRest, AllLines, Sources
<1>6. Len(uart') <= MaxUart
  <2>1. Len(Aged(uart)) = Len(uart) BY <1>2, <1>4, AgedFacts, LenProperties DEF TypesOfRest
  <2> QED BY <1>1, <1>2, <2>1 DEF TypesOfRest
<1>7. ~leftBehind => NothingOn(uart, todo) BY <1>1, InACall DEF Wired, Open
<1>8. ~leftBehind => /\ \A q : Placed(op, m, buffer', q)
                     /\ ~(refused /\ op \notin Careless)
  BY <1>1, InACall, PlacedSend
<1>9. ASSUME NEW answer \in AnswersTo(c), Answers(Lines(answer), pending), refused' = (refused \/ Refusal(answer))
      PROVE  /\ todo' \in Seq(AllLines) /\ refused' \in BOOLEAN
             /\ ~leftBehind => Wired(op, m, uart', todo', refused')
  <2>1. todo' = pending \o Lines(answer) BY <1>9 DEF Answers
  <2>2. /\ answer \in Seq(Texts)
        /\ \A i, j \in DOMAIN answer : i < j =>
             IF c = "BLECONN=" THEN {answer[i], answer[j]} = {"OK", "+BLECONN"}
             ELSE IF c \in Prompting THEN answer[i] = "OK" /\ answer[j] = ">" ELSE answer[i] \notin Lasting
        /\ \A i \in DOMAIN answer : answer[i] = "+BLECONN" => c = "BLECONN="
        /\ Refusal(answer) => \A i \in DOMAIN answer : answer[i] \in Refusing
    BY <1>3, AnswerFacts
  <2>3. todo' \in Seq(AllLines) BY <1>4, <2>1, <2>2, LinesFacts, ConcatProperties
  <2>4. refused' \in BOOLEAN BY <1>2, <1>9 DEF Refusal, TypesOfRest
  <2>5. c = "BLECONN=" => op = "bleConnect" BY <1>1, <1>2, ScriptFacts
  <2>6. ASSUME op = "bleConnect" PROVE m = 4 /\ c = "BLECONN="
    <3>1. at = 3 BY <1>1, <1>2, <2>6, BleConnectFacts
    <3> QED BY <2>6, <3>1, BleConnectFacts
  <2>7. ASSUME ~leftBehind PROVE Wired(op, m, uart', todo', refused')
    <3>1. NothingOn(uart', pending) BY <1>1, <1>4, <1>7, <2>7
    <3>2. /\ \A l : OnWire(l, uart', todo') => l.from # "earlier"
          /\ \A l : OnWire(l, uart', todo') /\ l.from = "command" => \E i \in DOMAIN answer : l.t = answer[i]
          /\ \A k, l : Precedes(k, l, uart', todo') /\ k.from = "command" /\ l.from = "command" =>
                         \E i, j \in DOMAIN answer : i < j /\ k.t = answer[i] /\ l.t = answer[j]
      BY <1>1, <1>4, <2>1, <2>2, <3>1, AnswerOnWire
    <3>3. Open(s, m) BY <1>3 DEF Open
    <3>4. \A l : OnWire(l, uart', todo') /\ l.from = "command" /\ l.t = "+BLECONN" => op = "bleConnect"
      BY <2>2, <2>5, <3>2
    <3>5. ASSUME NEW k, NEW l, Precedes(k, l, uart', todo'), k.from = "command", l.from = "command"
          PROVE  May(op, m, k.t, l.t)
      <4>1. PICK i \in DOMAIN answer, j \in DOMAIN answer : i < j /\ k.t = answer[i] /\ l.t = answer[j]
        BY <3>2, <3>5
      <4>2. IF c = "BLECONN=" THEN {k.t, l.t} = {"OK", "+BLECONN"}
            ELSE IF c \in Prompting THEN k.t = "OK" /\ l.t = ">" ELSE k.t \notin Lasting
        BY <2>2, <4>1
      <4> QED BY <1>3, <2>5, <2>6, <4>2 DEF May
    <3>6. refused' /\ op \notin Careless => \A l : OnWire(l, uart', todo') /\ l.from = "command" => l.t \in Refusing
      BY <1>8, <1>9, <2>2, <2>7, <3>2
    <3> QED BY <1>3, <3>2, <3>3, <3>4, <3>5, <3>6 DEF Wired
  <2> QED BY <2>3, <2>4, <2>7
<1>10. ASSUME Drops(pending), refused' = TRUE
       PROVE  /\ todo' \in Seq(AllLines) /\ refused' \in BOOLEAN
              /\ ~leftBehind => Wired(op, m, uart', todo', refused')
  <2>1. todo' \in Seq(AllLines) /\ NoNews(uart', pending, uart', todo')
    BY <1>1, <1>4, <1>10, DropsIsNoNews
  <2>2. ~leftBehind => NothingOn(uart', todo') BY <1>1, <1>4, <1>7, <2>1, NoNewsKeepsNothing
  <2> QED BY <1>10, <2>1, <2>2, EmptyIsWired
<1>11. /\ todo' \in Seq(AllLines) /\ refused' \in BOOLEAN
       /\ ~leftBehind => Wired(op, m, uart', todo', refused')
  BY <1>9, <1>10 DEF SendCommand, Current
<1>12. TypesOfRest' BY <1>1, <1>2, <1>4, <1>5, <1>6, <1>11 DEF TypesOfRest
<1> QED BY <1>1, <1>8, <1>11, <1>12, ProceedKeeps DEF Current

LEMMA UseTextKeeps ==
  ASSUME Inv, UseText
  PROVE  Inv'
<1>1. /\ op # "none" /\ Scripts[op][at].do = "parse" /\ Proceed
      /\ UNCHANGED <<refused, buffer, lastErrorCode, uart, todo, leftBehind>>
  BY DEF UseText, Doing, Current, wire
<1>2. TypesOfRest' BY <1>1, InACall DEF TypesOfRest
<1>3. ASSUME ~leftBehind
      PROVE  /\ Wired(op, Target(Scripts[op], at), uart, todo, refused)
             /\ Placed(op, Target(Scripts[op], at), buffer, refused)
  <2>1. Placed(op, Target(Scripts[op], at), buffer, refused) BY <1>1, <1>3, InACall, PlacedParse
  <2>2. CASE Open(Scripts[op], at)
    <3>1. Inside(Scripts[op], Target(Scripts[op], at)) /\ Scripts[op][at].what # ">"
      BY <1>1, <2>2, InACall DEF Fits
    <3>2. op # "bleConnect" BY <1>1, InACall, BleConnectSteps
    <3> QED BY <1>1, <1>3, <2>1, <3>1, <3>2, InACall, WiredInside
  <2>3. CASE ~Open(Scripts[op], at)
    <3>1. NothingOn(uart, todo) BY <1>1, <1>3, <2>3, InACall DEF Wired
    <3> QED BY <2>1, <3>1, EmptyIsWired
  <2> QED BY <2>2, <2>3
<1> QED BY <1>1, <1>2, <1>3, ProceedKeeps DEF Current

LEMMA CompareTextKeeps ==
  ASSUME Inv, CompareText
  PROVE  Inv'
<1>1. /\ op # "none" /\ Scripts[op][at].do = "verify"
      /\ UNCHANGED <<refused, buffer, uart, todo, leftBehind>>
      /\ \/ buffer.t = Scripts[op][at].what /\ lastErrorCode' = lastErrorCode /\ Proceed
         \/ Otherwise(lastErrorCode)
  BY DEF CompareText, Doing, Current, wire
<1>2. TypesOfRest' BY <1>1, InACall DEF TypesOfRest
<1>3. ~leftBehind => \A m : Wired(op, m, uart, todo, refused)
  BY <1>1, InACall, EmptyIsWired DEF Wired, Open
<1>4. CASE buffer.t = Scripts[op][at].what /\ lastErrorCode' = lastErrorCode /\ Proceed
  <2>1. ~leftBehind => Placed(op, Target(Scripts[op], at), buffer, refused)
    BY <1>1, <1>4, InACall, PlacedVerified
  <2> QED BY <1>1, <1>2, <1>3, <1>4, <2>1, ProceedKeeps
<1>5. CASE Otherwise(lastErrorCode) BY <1>1, <1>2, <1>3, <1>5, OtherwiseKeeps DEF Current
<1> QED BY <1>1, <1>4, <1>5

LEMMA DecideKeeps ==
  ASSUME Inv, Decide
  PROVE  Inv'
<1> DEFINE s == Scripts[op]
<1>1. /\ op # "none" /\ s[at].do \in {"require", "branch"}
      /\ UNCHANGED <<refused, buffer, uart, todo, leftBehind>>
      /\ \/ s[at].what # "never" /\ lastErrorCode' = lastErrorCode /\ Proceed
         \/ Otherwise(lastErrorCode)
  BY DEF Decide, Doing, Current, wire
<1>2. TypesOfRest' BY <1>1, InACall DEF TypesOfRest
<1>3. ASSUME ~leftBehind, NEW m, m = Target(s, at) \/ m = s[at].orElse PROVE Wired(op, m, uart, todo, refused)
  <2>1. CASE Open(s, at)
    <3>1. s[at].do = "branch" BY <1>1, <2>1 DEF Open
    <3>2. Inside(s, m) /\ s[at].what # ">" BY <1>1, <1>3, <2>1, <3>1, InACall DEF Fits
    <3>3. op # "bleConnect" BY <1>1, <3>1, InACall, BleConnectSteps
    <3> QED BY <1>1, <1>3, <3>2, <3>3, InACall, WiredInside
  <2>2. CASE ~Open(s, at)
    <3>1. NothingOn(uart, todo) BY <1>1, <1>3, <2>2, InACall DEF Wired
    <3> QED BY <3>1, EmptyIsWired
  <2> QED BY <2>1, <2>2
<1>4. CASE s[at].what # "never" /\ lastErrorCode' = lastErrorCode /\ Proceed
  <2>1. ~leftBehind => Placed(op, Target(s, at), buffer, refused) BY <1>1, <1>4, InACall, PlacedQuiet
  <2> QED BY <1>1, <1>2, <1>3, <1>4, <2>1, ProceedKeeps
<1>5. CASE Otherwise(lastErrorCode) BY <1>1, <1>2, <1>3, <1>5, OtherwiseKeeps DEF Current
<1> QED BY <1>1, <1>4, <1>5

LEMMA ReadDataKeeps ==
  ASSUME Inv, ReadData
  PROVE  Inv'
<1> DEFINE s == Scripts[op]
<1>1. /\ op # "none" /\ s[at].do = "data" /\ UNCHANGED <<refused, buffer, uart, todo>>
      /\ \/ UNCHANGED <<lastErrorCode, leftBehind>> /\ Proceed
         \/ Otherwise(lastErrorCode) /\ GivesUp
  BY DEF ReadData, Doing, Current, wire
<1>2. CASE UNCHANGED <<lastErrorCode, leftBehind>> /\ Proceed
  <2>1. TypesOfRest' BY <1>1, <1>2, InACall DEF TypesOfRest
  <2>2. ~leftBehind => Placed(op, Target(s, at), buffer, refused) BY <1>1, InACall, PlacedData
  <2>3. ASSUME ~leftBehind PROVE Wired(op, Target(s, at), uart, todo, refused)
    <3>1. Open(s, at) /\ s[at].what # ">" BY <1>1, InACall DEF Open, Fits
    <3>2. Inside(s, Target(s, at)) BY <1>1, <3>1, InACall DEF Fits
    <3>3. op # "bleConnect" BY <1>1, InACall, BleConnectSteps
    <3> QED BY <1>1, <2>3, <3>1, <3>2, <3>3, InACall, WiredInside
  <2> QED BY <1>1, <1>2, <2>1, <2>2, <2>3, ProceedKeeps
<1>3. CASE Otherwise(lastErrorCode) /\ GivesUp
  <2>1. TypesOfRest' /\ (leftBehind => leftBehind') /\ (leftBehind' \/ NothingOn(uart', todo'))
    BY <1>1, <1>3, InACall, GivingUp DEF TypesOfRest
  <2> QED BY <1>1, <1>3, <2>1, EmptyIsWired, OtherwiseKeeps DEF Current
<1> QED BY <1>1, <1>2, <1>3

----------------------------------------------------------------------------
(* The steps of readRX, and of the firmware.  *)

LEMMA DrainedKeeps ==
  ASSUME Inv, Drained
  PROVE  Inv'
<1>1. /\ op # "none" /\ Scripts[op][at].do = "drain" /\ Proceed
      /\ UNCHANGED <<refused, buffer, lastErrorCode, uart, todo, leftBehind>>
  BY DEF Drained, Silence, Waiting, Draining, Doing, Current, wire
<1>2. TypesOfRest' BY <1>1, InACall DEF TypesOfRest
<1>3. ASSUME ~leftBehind
      PROVE  /\ Wired(op, Target(Scripts[op], at), uart, todo, refused)
             /\ Placed(op, Target(Scripts[op], at), buffer, refused)
  <2>1. NothingOn(uart, todo) BY <1>1, <1>3, InACall DEF Wired, Open
  <2> QED BY <1>1, <1>3, <2>1, InACall, EmptyIsWired, PlacedQuiet
<1> QED BY <1>1, <1>2, <1>3, ProceedKeeps

LEMMA ProbeKeeps ==
  ASSUME Inv, Probe
  PROVE  Inv'
<1>1. /\ op # "none" /\ Waiting /\ Same /\ refused' = refused /\ timeout < TIMEOUT_COUNT /\ timeout' = timeout + 1
      /\ Answers(<<Line("ERROR", "probe")>>, todo) \/ Drops(todo)
      /\ UNCHANGED <<ignored, buffer, lastErrorCode, uart, leftBehind>>
  BY DEF Probe, Silence, Waiting, Doing, Same, call
<1>2. todo' \in Seq(AllLines) /\ NoNews(uart, todo, uart, todo')
  <2>1. CASE Answers(<<Line("ERROR", "probe")>>, todo)
    BY <1>1, <2>1, InACall, UnaskedIsNoNews, UnaskedLines DEF Answers, TypesOfRest
  <2>2. CASE Drops(todo) BY <1>1, <2>2, InACall, DropsIsNoNews DEF TypesOfRest
  <2> QED BY <1>1, <2>1, <2>2
<1>3. TypesOfRest' BY <1>1, <1>2, InACall DEF TypesOfRest
<1>4. timeout' \in 0 .. TIMEOUT_COUNT /\ ignored' \in 0 .. IGNORED_LIMIT
  BY <1>1, LimitsAssumption DEF Inv, Types
<1>5. ~leftBehind => Wired(op, at, uart', todo', refused) BY <1>1, <1>2, InACall, WiredStays
<1> QED BY <1>1, <1>3, <1>4, <1>5, StayingKeeps

LEMMA NotRespondingKeeps ==
  ASSUME Inv, NotResponding
  PROVE  Inv'
<1>1. /\ op # "none" /\ Scripts[op][at].do = "wait" /\ Otherwise("AT_NOT_RESPONDIG") /\ GivesUp
      /\ UNCHANGED <<refused, buffer, uart, todo>>
  BY DEF NotResponding, Silence, Waiting, Draining, Doing, Current, wire
<1>2. TypesOfRest' /\ (leftBehind => leftBehind') /\ (leftBehind' \/ NothingOn(uart', todo'))
  BY <1>1, InACall, GivingUp DEF TypesOfRest
<1> QED BY <1>1, <1>2, EmptyIsWired, OtherwiseKeeps DEF Current

LEMMA FirmwareKeeps ==
  ASSUME Inv, Firmware
  PROVE  Inv'
<1>1. /\ op # "none" /\ Waiting /\ Same /\ refused' = refused
      /\ SendsLine \/ LineLost \/ \E t \in Unsolicited : SaysUnasked(t)
      /\ UNCHANGED <<timeout, ignored, buffer, lastErrorCode, leftBehind>>
  BY DEF Firmware, Waiting, Doing, Same, call, counters
<1>2. uart \in Seq(AllLines) /\ todo \in Seq(AllLines) /\ Len(uart) <= MaxUart /\ MaxUart \in Nat /\ Len(uart) \in Nat
  BY <1>1, InACall, BoundsAssumption, LenProperties DEF TypesOfRest
<1>3. uart' \in Seq(AllLines) /\ Len(uart') <= MaxUart /\ todo' \in Seq(AllLines) /\ NoNews(uart, todo, uart', todo')
  <2>1. CASE SendsLine
    <3>1. Head(todo) \in AllLines /\ Tail(todo) \in Seq(AllLines) BY <1>2, <2>1, SeqFacts DEF SendsLine
    <3> QED BY <1>2, <2>1, <3>1, SendingIsNoNews, AppendProperties DEF SendsLine
  <2>2. CASE LineLost BY <1>2, <2>2, SeqFacts, LossIsNoNews DEF LineLost
  <2>3. ASSUME NEW t \in Unsolicited, SaysUnasked(t)
        PROVE  uart' \in Seq(AllLines) /\ Len(uart') <= MaxUart /\ todo' \in Seq(AllLines) /\ NoNews(uart, todo, uart', todo')
    <3>1. Line(t, "nobody") \in AllLines /\ Line(t, "nobody").from = "nobody" BY UnaskedLines
    <3>2. uart' = Append(uart, Line(t, "nobody")) /\ Len(uart) < MaxUart /\ todo' = todo
      BY <2>3 DEF SaysUnasked
    <3>3. NoNews(uart, todo, uart', todo') /\ uart' \in Seq(AllLines) BY <1>2, <3>1, <3>2, UnaskedIsNoNews
    <3>4. Len(uart') = Len(uart) + 1 BY <1>2, <3>1, <3>2, AppendProperties
    <3> QED BY <1>2, <3>2, <3>3, <3>4
  <2> QED BY <1>1, <2>1, <2>2, <2>3
<1>4. TypesOfRest' BY <1>1, <1>3, InACall DEF TypesOfRest
<1>5. timeout' \in 0 .. TIMEOUT_COUNT /\ ignored' \in 0 .. IGNORED_LIMIT BY <1>1 DEF Inv, Types
<1>6. ~leftBehind => Wired(op, at, uart', todo', refused) BY <1>1, <1>3, InACall, WiredStays
<1> QED BY <1>1, <1>4, <1>5, <1>6, StayingKeeps

\* A line is taken from the serial buffer.
LEMMA ReceiveFacts ==
  ASSUME Inv, Reading, Receive
  PROVE  /\ op # "none" /\ uart # <<>> /\ uart' = Tail(uart) /\ todo' = todo /\ refused' = refused
         /\ uart' \in Seq(AllLines) /\ Len(uart') <= MaxUart /\ todo' \in Seq(AllLines)
         /\ buffer' \in AllLines /\ refused' \in BOOLEAN
         /\ buffer' = IF NextLine.t \in {"OK", "ERROR", ">"} THEN buffer
                      ELSE IF NextLine.from = "command" THEN NextLine ELSE Nothing
         /\ Scripts[op][at].do \in {"wait", "drain"}
<1>1. /\ op # "none" /\ uart # <<>> /\ uart' = Tail(uart) /\ todo' = todo /\ refused' = refused
      /\ buffer' = IF NextLine.t \in {"OK", "ERROR", ">"} THEN buffer
                   ELSE IF NextLine.from = "command" THEN NextLine ELSE Nothing
      /\ Scripts[op][at].do \in {"wait", "drain"}
  BY DEF Receive, Reading, Waiting, Doing, Current
<1>2. /\ uart \in Seq(AllLines) /\ Len(uart) <= MaxUart /\ todo \in Seq(AllLines) /\ MaxUart \in Nat
      /\ buffer \in AllLines /\ refused \in BOOLEAN
  BY <1>1, InACall, BoundsAssumption DEF TypesOfRest
<1>3. /\ Tail(uart) \in Seq(AllLines) /\ Len(Tail(uart)) = Len(uart) - 1 /\ Len(uart) \in Nat \ {0}
      /\ NextLine \in AllLines
  BY <1>1, <1>2, SeqFacts DEF NextLine
<1>4. buffer' \in AllLines BY <1>1, <1>2, <1>3, UnaskedLines
<1>5. Len(uart') <= MaxUart BY <1>1, <1>2, <1>3
<1> QED BY <1>1, <1>2, <1>3, <1>4, <1>5

\* While draining there is nothing to be read but what nobody asked for.
LEMMA DrainingFacts ==
  ASSUME Inv, Reading, Receive, Draining, ~leftBehind
  PROVE  /\ NothingOn(uart', todo')
         /\ \A b : Placed(op, Target(Scripts[op], at), b, refused')
<1>1. /\ op # "none" /\ uart # <<>> /\ uart' = Tail(uart) /\ todo' = todo /\ refused' = refused
      /\ Scripts[op][at].do = "drain"
  BY ReceiveFacts DEF Draining, Current
<1>2. NothingOn(uart, todo) BY <1>1, InACall DEF Wired, Open
<1>3. NoNews(uart, todo, uart', todo') BY <1>1, ReadingFacts
<1> QED BY <1>1, <1>2, <1>3, NoNewsKeepsNothing, InACall, PlacedQuiet

\* Only +BLECONN answers a command and is claimed by the BLE callback.
LEMMA RxClaimedKeeps ==
  ASSUME Inv, RxClaimed
  PROVE  Inv'
<1> DEFINE s == Scripts[op]
           m == Target(s, at)
<1>1. /\ Reading /\ Receive /\ Proceed /\ lastErrorCode' = lastErrorCode
      /\ IF Draining \/ NextLine.t = "+BLECONN" THEN leftBehind' = leftBehind ELSE leftBehind' = TRUE
  BY DEF RxClaimed, Claimed
<1>2. TypesOfRest' /\ op # "none" BY <1>1, ReceiveFacts, InACall DEF TypesOfRest
<1>3. ASSUME ~leftBehind' PROVE Wired(op, m, uart', todo', refused') /\ Placed(op, m, buffer', refused')
  <2>1. ~leftBehind BY <1>1, <1>3
  <2>2. CASE Draining BY <1>1, <2>1, <2>2, DrainingFacts, EmptyIsWired
  <2>3. CASE ~Draining
    <3>1. NextLine.t = "+BLECONN" BY <1>1, <1>3, <2>3
    <3>2. /\ uart # <<>> /\ uart' = Tail(uart) /\ todo' = todo /\ refused' = refused /\ s[at].do = "wait"
          /\ uart \in Seq(AllLines) /\ todo \in Seq(AllLines)
      BY <1>1, <1>2, <2>3, ReceiveFacts, InACall DEF Draining, Current, TypesOfRest
    <3>3. NextLine.from = "command"
      <4>1. "+BLECONN" \notin Foreign BY DEF Foreign, Unsolicited
      <4> QED BY <1>2, <2>1, <3>1, <3>2, <4>1, ReadingFacts
    <3>4. op = "bleConnect" /\ at \in {4, 5, 6} /\ s[at].what = "OK"
      <4>1. op = "bleConnect" BY <1>2, <2>1, <3>1, <3>2, <3>3, ReadingFacts DEF Wired
      <4> QED BY <1>2, <3>2, <4>1, InACall, BleConnectSteps
    <3>5. ~refused
      <4>1. refused => NextLine.t \in Refusing
        BY <1>2, <2>1, <3>2, <3>3, <3>4, ReadingFacts DEF Wired, Careless
      <4> QED BY <3>1, <4>1 DEF Refusing
    <3>6. Placed(op, m, buffer', refused')
      <4>1. Owns(s, at) BY <1>2, <3>4, InACall, ScriptFacts DEF OwnText, Getters
      <4>2. m \in 1 .. Len(s) => s[m].do \notin Users BY <3>2, <3>4, <4>1 DEF Owns, IsStep, Lasting
      <4> QED BY <3>2, <3>5, <4>2 DEF Placed
    <3>7. CASE at = 4
      <4>1. Wired("bleConnect", 4, uart, todo, refused) BY <1>2, <2>1, <3>4, <3>7, InACall
      <4>2. m = 5 BY <3>4, <3>7, BleConnectFacts
      <4>3. Wired("bleConnect", 5, Tail(uart), todo, refused) BY <3>2, <3>3, <4>1, OneOfTwo DEF NextLine
      <4> QED BY <3>2, <3>4, <3>6, <4>2, <4>3
    <3>8. CASE at # 4
      <4>1. NothingOn(uart', todo') BY <1>2, <2>1, <3>2, <3>3, <3>4, <3>8, InACall, LastLine DEF NextLine
      <4> QED BY <3>6, <4>1, EmptyIsWired
    <3> QED BY <3>7, <3>8
  <2> QED BY <2>2, <2>3
<1> QED BY <1>1, <1>2, <1>3, ProceedKeeps

\* The line that is waited for: the last of its answer, or the answer goes on.
LEMMA RxMatchedKeeps ==
  ASSUME Inv, RxMatched
  PROVE  Inv'
<1> DEFINE s == Scripts[op]
           m == Target(s, at)
<1>1. /\ Reading /\ Receive /\ Proceed /\ ~Claimed /\ ~Draining /\ StartsWith(NextLine.t, s[at].what)
      /\ lastErrorCode' = lastErrorCode /\ leftBehind' = leftBehind
  BY DEF RxMatched, Matched, Current
<1>2. TypesOfRest' /\ op # "none" BY <1>1, ReceiveFacts, InACall DEF TypesOfRest
<1>3. ASSUME ~leftBehind PROVE Wired(op, m, uart', todo', refused') /\ Placed(op, m, buffer', refused')
  <2>1. /\ uart # <<>> /\ uart' = Tail(uart) /\ todo' = todo /\ refused' = refused /\ s[at].do = "wait"
        /\ uart \in Seq(AllLines) /\ todo \in Seq(AllLines)
        /\ buffer' = IF NextLine.t \in {"OK", "ERROR", ">"} THEN buffer
                     ELSE IF NextLine.from = "command" THEN NextLine ELSE Nothing
    BY <1>1, <1>2, ReceiveFacts, InACall DEF Draining, Current, TypesOfRest
  <2>2. /\ op \in DOMAIN Scripts /\ at \in 1 .. Len(s) /\ Wired(op, at, uart, todo, refused) /\ Placed(op, at, buffer, refused)
        /\ OnWire(NextLine, uart, todo) /\ NextLine \in AllLines /\ NextLine.from # "earlier"
        /\ Wired(op, at, Tail(uart), todo, refused)
    BY <1>2, <1>3, <2>1, ReadingFacts
  <2>3. /\ s[at].what \notin Foreign
        /\ s[at].what \notin {"OK", "SEND ", ">"} => Inside(s, m)
    BY <1>2, <2>1, InACall DEF Fits
  <2>4. /\ NextLine.from = "command"
        /\ s[at].what \in {"OK", ">"} => NextLine.t = s[at].what
        /\ s[at].what = "SEND " => NextLine.t \in {"SEND OK", "SEND FAIL"}
    BY <1>1, <2>2, <2>3, MatchIsAnswer
  <2>5. refused /\ op \notin Careless => NextLine.t \in Refusing BY <2>2, <2>4 DEF Wired
  <2>6. Placed(op, m, buffer', refused')
    <3>1. buffer' = IF NextLine.t \in {"OK", "ERROR", ">"} THEN buffer ELSE NextLine BY <2>1, <2>4
    <3> QED BY <1>1, <2>1, <2>2, <2>5, <3>1, PlacedMatched
  <2>7. op = "bleConnect" => at \in {4, 5, 6} /\ s[at].what = "OK" BY <2>1, <2>2, BleConnectSteps
  <2>8. CASE s[at].what \notin {"OK", "SEND ", ">"}
    <3>1. op # "bleConnect" BY <2>7, <2>8
    <3> QED BY <2>1, <2>2, <2>3, <2>6, <2>8, <3>1, WiredInside
  <2>9. CASE op = "bleConnect" /\ at = 4
    <3>1. m = 5 BY <2>9, BleConnectFacts
    <3>2. Wired("bleConnect", 5, Tail(uart), todo, refused) BY <2>1, <2>2, <2>4, <2>9, OneOfTwo DEF NextLine
    <3> QED BY <2>1, <2>6, <2>9, <3>1, <3>2
  <2>10. CASE s[at].what \in {"OK", "SEND ", ">"} /\ ~(op = "bleConnect" /\ at = 4)
    <3>1. NextLine.t \in Lasting /\ (s[at].what = ">" => NextLine.t # "OK") BY <2>4, <2>10 DEF Lasting
    <3>2. NothingOn(uart', todo') BY <2>1, <2>2, <2>4, <2>10, <3>1, LastLine DEF NextLine
    <3> QED BY <2>6, <3>2, EmptyIsWired
  <2> QED BY <2>8, <2>9, <2>10
<1> QED BY <1>1, <1>2, <1>3, ProceedKeeps

\* An ERROR that answers the command is all of its answer.
LEMMA RxErrorKeeps ==
  ASSUME Inv, RxError
  PROVE  Inv'
<1> DEFINE s == Scripts[op]
<1>1. /\ Reading /\ Receive /\ NextLine.t = "ERROR"
      /\ IF Draining
           THEN timeout' = 0 /\ Same /\ UNCHANGED <<ignored, lastErrorCode, leftBehind>>
           ELSE /\ Otherwise("AT_ERROR")
                /\ IF NextLine.from = "command" THEN UNCHANGED leftBehind ELSE GivesUp
  BY DEF RxError, Refused
<1>2. /\ op # "none" /\ uart # <<>> /\ uart' = Tail(uart) /\ todo' = todo /\ refused' = refused
      /\ uart \in Seq(AllLines) /\ todo \in Seq(AllLines) /\ leftBehind \in BOOLEAN
  BY <1>1, ReceiveFacts, InACall DEF TypesOfRest
<1>3. CASE Draining
  <2>1. TypesOfRest' BY <1>1, <1>2, <1>3, ReceiveFacts, InACall DEF TypesOfRest
  <2>2. timeout' \in 0 .. TIMEOUT_COUNT /\ ignored' \in 0 .. IGNORED_LIMIT
    BY <1>1, <1>3, LimitsAssumption DEF Inv, Types
  <2>3. ~leftBehind => Wired(op, at, uart', todo', refused) BY <1>2, ReadingFacts
  <2>4. Waiting BY <1>1 DEF Reading
  <2> QED BY <1>1, <1>2, <1>3, <2>1, <2>2, <2>3, <2>4, StayingKeeps
<1>4. CASE ~Draining
  <2>1. s[at].do = "wait" BY <1>1, <1>4, ReceiveFacts DEF Draining, Current
  <2>2. CASE NextLine.from = "command"
    <3>1. leftBehind' = leftBehind BY <1>1, <1>4, <2>2
    <3>2. TypesOfRest' BY <1>1, <1>2, <3>1, ReceiveFacts DEF TypesOfRest
    <3>3. ~leftBehind => NothingOn(uart', todo')
      <4>1. NextLine.t \in Lasting /\ NextLine.t \notin {"OK", "+BLECONN"} BY <1>1 DEF Lasting
      <4> QED BY <1>2, <2>2, <4>1, InACall, LastLine DEF NextLine
    <3> QED BY <1>1, <1>2, <1>4, <2>1, <3>1, <3>2, <3>3, EmptyIsWired, OtherwiseKeeps DEF Current
  <2>3. CASE NextLine.from # "command"
    <3>1. GivesUp BY <1>1, <1>4, <2>3
    <3>2. leftBehind' \in BOOLEAN /\ (leftBehind => leftBehind') /\ (leftBehind' \/ NothingOn(uart', todo'))
      BY <1>2, <3>1, GivingUp
    <3>3. TypesOfRest' BY <1>1, <3>2, ReceiveFacts DEF TypesOfRest
    <3> QED BY <1>1, <1>2, <1>4, <2>1, <3>2, <3>3, EmptyIsWired, OtherwiseKeeps DEF Current
  <2> QED BY <2>2, <2>3
<1> QED BY <1>3, <1>4

\* A wait, or a drain, that gives up.
LEMMA EndsWithKeeps ==
  ASSUME Inv, Reading, Receive, NEW code \in {"AT_NOT_RESPONDIG", "NO_AP"}, EndsWith(code), GivesUp
  PROVE  Inv'
<1>1. op # "none" /\ refused' = refused /\ leftBehind \in BOOLEAN BY ReceiveFacts, InACall DEF TypesOfRest
<1>2. leftBehind' \in BOOLEAN /\ (leftBehind => leftBehind') /\ (leftBehind' \/ NothingOn(uart', todo'))
  BY <1>1, GivingUp
<1>3. TypesOfRest' BY <1>2, ReceiveFacts DEF TypesOfRest
<1>4. CASE Draining
  <2>1. ~leftBehind => Placed(op, Target(Scripts[op], at), buffer', refused') BY <1>4, DrainingFacts
  <2>2. Proceed /\ Current.do # "wait" BY <1>4 DEF EndsWith, Draining
  <2> QED BY <1>1, <1>2, <1>3, <2>1, <2>2, EmptyIsWired, ProceedKeeps
<1>5. CASE ~Draining
  <2>1. Otherwise(code) /\ Current.do = "wait" BY <1>5, ReceiveFacts DEF EndsWith, Draining, Current
  <2> QED BY <1>1, <1>2, <1>3, <2>1, EmptyIsWired, OtherwiseKeeps
<1> QED BY <1>4, <1>5

LEMMA RxNoAPKeeps ==
  ASSUME Inv, RxNoAP
  PROVE  Inv'
BY EndsWithKeeps DEF RxNoAP, NoAP

\* A list ends with the OK of its command.
LEMMA RxListEndsKeeps ==
  ASSUME Inv, RxListEnds
  PROVE  Inv'
<1> DEFINE s == Scripts[op]
           m == s[at].orElse
<1>1. /\ Reading /\ Receive /\ s[at].list /\ NextLine.t = "OK" /\ Goto(m)
      /\ UNCHANGED <<lastErrorCode, leftBehind>>
  BY DEF RxListEnds, ListEnds, Current
<1>2. /\ op # "none" /\ uart # <<>> /\ uart' = Tail(uart) /\ todo' = todo /\ refused' = refused
      /\ uart \in Seq(AllLines) /\ todo \in Seq(AllLines) /\ TypesOfRest' /\ s[at].do \in {"wait", "drain"}
      /\ op \in DOMAIN Scripts /\ at \in 1 .. Len(s) /\ Fits(s, at)
  BY <1>1, ReceiveFacts, InACall DEF TypesOfRest
<1>3. s[at].do = "wait" /\ s[at].what # ">" BY <1>1, <1>2 DEF Fits
<1>4. op # "bleConnect" BY <1>1, <1>2, <1>3, BleConnectSteps
<1>5. ~leftBehind => NothingOn(uart', todo')
  <2>1. "OK" \in Lasting /\ "OK" \notin Foreign BY DEF Lasting, Foreign, Unsolicited
  <2> QED BY <1>1, <1>2, <1>3, <1>4, <2>1, ReadingFacts, LastLine DEF NextLine
<1>6. ~leftBehind => Placed(op, m, buffer', refused') BY <1>2, <1>3, InACall, PlacedOrElse
<1>7. op \in Unexplained
  <2>1. op \notin Unexplained => Explains(s, at) BY <1>2, <1>4, ScriptFacts DEF Explaining
  <2> QED BY <1>1, <2>1 DEF Explains
<1> QED BY <1>1, <1>2, <1>4, <1>5, <1>6, <1>7, EmptyIsWired, GotoArrives DEF Arrives

LEMMA RxProcessedKeeps ==
  ASSUME Inv, RxProcessed
  PROVE  Inv'
<1>1. /\ Reading /\ Receive /\ Waiting /\ Same /\ timeout' = 0
      /\ UNCHANGED <<ignored, lastErrorCode, leftBehind>>
  BY DEF RxProcessed, Processed, Reading
<1>2. TypesOfRest' /\ op # "none" /\ refused' = refused /\ uart # <<>> /\ uart' = Tail(uart) /\ todo' = todo
  BY <1>1, ReceiveFacts, InACall DEF TypesOfRest
<1>3. timeout' \in 0 .. TIMEOUT_COUNT /\ ignored' \in 0 .. IGNORED_LIMIT
  BY <1>1, LimitsAssumption DEF Inv, Types
<1>4. ~leftBehind => Wired(op, at, uart', todo', refused) BY <1>2, ReadingFacts
<1> QED BY <1>1, <1>2, <1>3, <1>4, StayingKeeps

LEMMA RxIgnoredKeeps ==
  ASSUME Inv, RxIgnored
  PROVE  Inv'
<1>1. CASE ignored + 1 > IGNORED_LIMIT BY <1>1, EndsWithKeeps DEF RxIgnored, Unexpected
<1>2. CASE ~(ignored + 1 > IGNORED_LIMIT)
  <2>1. /\ Reading /\ Receive /\ Waiting /\ Same /\ timeout' = 0 /\ ignored' = ignored + 1
        /\ UNCHANGED <<lastErrorCode, leftBehind>>
    BY <1>2 DEF RxIgnored, Unexpected, Reading
  <2>2. TypesOfRest' /\ op # "none" /\ refused' = refused /\ uart # <<>> /\ uart' = Tail(uart) /\ todo' = todo
    BY <2>1, ReceiveFacts, InACall DEF TypesOfRest
  <2>3. timeout' \in 0 .. TIMEOUT_COUNT /\ ignored' \in 0 .. IGNORED_LIMIT
    BY <1>2, <2>1, LimitsAssumption DEF Inv, Types
  <2>4. ~leftBehind => Wired(op, at, uart', todo', refused) BY <2>2, ReadingFacts
  <2> QED BY <2>1, <2>2, <2>3, <2>4, StayingKeeps
<1> QED BY <1>1, <1>2

----------------------------------------------------------------------------
\* The invariant is inductive.
LEMMA InvNext ==
  ASSUME Inv, [Next]_vars
  PROVE  Inv'
<1>1. CASE Host
  <2>1. CASE SetError BY <2>1, SetErrorKeeps
  <2>2. CASE SendCommand BY <2>2, SendCommandKeeps
  <2>3. CASE UseText BY <2>3, UseTextKeeps
  <2>4. CASE CompareText BY <2>4, CompareTextKeeps
  <2>5. CASE Decide BY <2>5, DecideKeeps
  <2>6. CASE ReadData BY <2>6, ReadDataKeeps
  <2>7. CASE ReadRX
    BY <2>7, DrainedKeeps, ProbeKeeps, NotRespondingKeeps, RxClaimedKeeps, RxMatchedKeeps, RxErrorKeeps,
       RxNoAPKeeps, RxListEndsKeeps, RxProcessedKeeps, RxIgnoredKeeps DEF ReadRX
  <2> QED BY <1>1, <2>1, <2>2, <2>3, <2>4, <2>5, <2>6, <2>7 DEF Host
<1>2. CASE Firmware BY <1>2, FirmwareKeeps
<1>3. ASSUME NEW o \in Ops, Begin(o) PROVE Inv' BY <1>3, BeginKeeps
<1>4. CASE UNCHANGED vars
  <2>1. UNCHANGED <<op, at, refused, last, timeout, ignored, buffer, lastErrorCode, uart, todo, leftBehind>>
    BY <1>4 DEF vars, call, counters, wire
  <2> QED BY <2>1 DEF Inv, Types, Here, FailureExplained, RefusalReported
<1> QED BY <1>1, <1>2, <1>3, <1>4 DEF Next

LEMMA InvAlways == Spec => []Inv
BY InitInv, InvNext, PTL DEF Spec

(* The types, and the limits that readRX puts on '?' and on ignored lines.  *)
THEOREM TypeCorrect == Spec => []TypeOK
<1>1. Inv => TypeOK
  <2> SUFFICES ASSUME Inv PROVE TypeOK OBVIOUS
  <2>1. op # "none" => DOMAIN Scripts[op] = 1 .. Len(Scripts[op]) BY InACall DEF Regular
  <2> QED BY <2>1 DEF Inv, Types, TypeOK, AllLines
<1> QED BY <1>1, InvAlways, PTL

(* A call takes all it has asked for (EspAtDrv.cpp, sendCommand and readRX): *)
(* no line that answers a command is left when it returns or sends the next. *)
THEOREM NothingIsOwed == Spec => []NothingOwed
<1>1. Inv => NothingOwed
  <2> SUFFICES ASSUME Inv, ~leftBehind, op = "none" \/ Doing({"send"}) PROVE ~AnythingOwed
    BY DEF NothingOwed
  <2>1. CASE op = "none" BY <2>1, OwedIsOnWire DEF Inv, AnythingOwed
  <2>2. CASE op # "none"
    <3>1. Scripts[op][at].do = "send" BY <2>2 DEF Doing, Current
    <3>2. NothingOn(uart, todo) BY <2>2, <3>1, InACall DEF Wired, Open
    <3> QED BY <3>2, OwedIsOnWire DEF AnythingOwed
  <2> QED BY <2>1, <2>2
<1> QED BY <1>1, InvAlways, PTL

(* All waits share one buffer: the text a call uses is the answer to its own *)
(* latest command.                                                          *)
THEOREM OwnAnswerParsed == Spec => []ParsesOwnAnswer
<1>1. Inv => ParsesOwnAnswer
  <2> SUFFICES ASSUME Inv, Doing({"parse"}), ~leftBehind, op \notin Getters PROVE buffer.from = "command"
    BY DEF ParsesOwnAnswer
  <2>1. op # "none" /\ Scripts[op][at].do = "parse" BY DEF Doing, Current
  <2> QED BY <2>1, InACall DEF Placed, Users
<1> QED BY <1>1, InvAlways, PTL

(* A call that fails says why in lastErrorCode.                             *)
THEOREM FailuresExplained == Spec => []FailureExplained
<1>1. Inv => FailureExplained BY DEF Inv
<1> QED BY <1>1, InvAlways, PTL

(* A call of which the firmware refused a command does not return success,  *)
(* as long as no wait was given up with an answer under way.                *)
THEOREM RefusalsReported == Spec => []RefusalReported
<1>1. Inv => RefusalReported BY DEF Inv
<1> QED BY <1>1, InvAlways, PTL
=============================================================================
