----------------------------- MODULE BleProofs -----------------------------
(***************************************************************************)
(* The connection table of Ble.tla: its types, that its pointers are alive, *)
(* where memory may be misused, and that it follows the firmware.           *)
(***************************************************************************)
EXTENDS Ble, SequenceTheorems, FiniteSetTheorems, TLAPS

Texts == {"none", "+BLECONN", "+BLEDISCONN", "+BLESCAN", "rest of a result", "claimed", "+BLECFGMTU",
          "+BLESETPHY", "+BLENAME", "OK", "ERROR", "set", "connect", "mtu?", "name?", "discover",
          "cut service", "rest of a service", "+BLEADDR", "addr?"}
Peers == Addresses \cup {Unset}

(* Lines about a slot name one; a peer that leaves has no address, and a    *)
(* scan result has one to three rows.                                       *)
Lines ==
  {l \in [t : Texts, i : Nat, address : Peers] :
     /\ l.t \in {"+BLECONN", "+BLEDISCONN", "+BLECFGMTU", "connect"} => l.i \in Indexes
     /\ l.t = "+BLEDISCONN" => l.address = Unset
     /\ l.t = "+BLESCAN" => l.i \in 1 .. 3}

Firmwares == [link : [Indexes -> Peers], command : Lines]

About(l, i) == AboutSlot(l) /\ l.i = i
NoneAbout(ls, i) == \A n \in DOMAIN ls : ~About(ls[n], i)

\* The last line about a slot that is still to be read says what the firmware has there.
LastSays(ls, link) ==
  \A i \in Indexes, n \in DOMAIN ls :
    About(ls[n], i) /\ (\A m \in DOMAIN ls : m > n => ~About(ls[m], i)) => ls[n].address = link[i]

----------------------------------------------------------------------------
(* Lines that are said and read. *)

\* Concatenation: its length and its elements
LEMMA Concat ==
  ASSUME NEW s \in Seq(Lines), NEW t \in Seq(Lines)
  PROVE  /\ s \o t \in Seq(Lines) /\ Len(s) \in Nat /\ Len(t) \in Nat
         /\ Len(s \o t) = Len(s) + Len(t) /\ DOMAIN (s \o t) = 1 .. Len(s) + Len(t)
         /\ DOMAIN s = 1 .. Len(s) /\ DOMAIN t = 1 .. Len(t)
         /\ \A n \in DOMAIN s : (s \o t)[n] = s[n]
         /\ \A n \in DOMAIN t : (s \o t)[Len(s) + n] = t[n]
<1>1. /\ s \o t \in Seq(Lines) /\ Len(s) \in Nat /\ Len(t) \in Nat /\ Len(s \o t) = Len(s) + Len(t)
  BY ConcatProperties, LenProperties
<1>2. DOMAIN s = 1 .. Len(s) /\ DOMAIN t = 1 .. Len(t) /\ DOMAIN (s \o t) = 1 .. Len(s) + Len(t)
  BY <1>1, LenProperties
<1>3. \A n \in 1 .. Len(s) + Len(t) : (s \o t)[n] = IF n <= Len(s) THEN s[n] ELSE t[n - Len(s)]
  BY <1>1, ConcatProperties
<1>4. \A n \in DOMAIN s : (s \o t)[n] = s[n] BY <1>1, <1>2, <1>3
<1>5. ASSUME NEW n \in DOMAIN t PROVE (s \o t)[Len(s) + n] = t[n]
  <2>1. n \in Nat /\ n >= 1 /\ n <= Len(t) BY <1>1, <1>2
  <2>2. /\ Len(s) + n \in 1 .. Len(s) + Len(t) /\ ~(Len(s) + n <= Len(s)) /\ Len(s) + n - Len(s) = n
    BY <1>1, <2>1
  <2> QED BY <1>3, <2>2
<1> QED BY <1>1, <1>2, <1>4, <1>5

\* Lines about no slot change nothing.
LEMMA SaidNothing ==
  ASSUME NEW s \in Seq(Lines), NEW t \in Seq(Lines), NEW link,
         LastSays(s, link), \A n \in DOMAIN t : ~AboutSlot(t[n])
  PROVE  LastSays(s \o t, link) /\ \A i : NoneAbout(s \o t, i) => NoneAbout(s, i)
<1>1. \A i : \A n \in DOMAIN (s \o t) : About((s \o t)[n], i) => n \in DOMAIN s
  <2> SUFFICES ASSUME NEW n \in DOMAIN (s \o t), NEW i, About((s \o t)[n], i), n \notin DOMAIN s PROVE FALSE
    OBVIOUS
  <2>1. n - Len(s) \in DOMAIN t /\ n = Len(s) + (n - Len(s)) BY Concat
  <2>2. (s \o t)[n] = t[n - Len(s)] BY <2>1, Concat
  <2> QED BY <2>1, <2>2 DEF About
<1>2. \A n \in DOMAIN s : n \in DOMAIN (s \o t) /\ (s \o t)[n] = s[n] BY Concat
<1>3. LastSays(s \o t, link) BY <1>1, <1>2 DEF LastSays
<1>4. \A i : NoneAbout(s \o t, i) => NoneAbout(s, i) BY <1>2 DEF NoneAbout
<1> QED BY <1>3, <1>4

\* A line about a slot says what has changed there.
LEMMA SaidOne ==
  ASSUME NEW s \in Seq(Lines), NEW x \in Lines, NEW link \in [Indexes -> Peers],
         LastSays(s, link), AboutSlot(x)
  PROVE  /\ LastSays(s \o <<x>>, [link EXCEPT ![x.i] = x.address])
         /\ \A i \in Indexes : NoneAbout(s \o <<x>>, i) =>
              NoneAbout(s, i) /\ [link EXCEPT ![x.i] = x.address][i] = link[i]
<1> DEFINE new == [link EXCEPT ![x.i] = x.address]
<1>1. x.i \in Indexes /\ x.address = new[x.i] /\ \A i \in Indexes : i # x.i => new[i] = link[i]
  BY DEF Lines, AboutSlot
<1> HIDE DEF new
<1>2. <<x>> \in Seq(Lines) /\ Len(<<x>>) = 1 /\ <<x>>[1] = x /\ 1 \in DOMAIN <<x>> BY SMT
<1>3. Len(s) \in Nat /\ DOMAIN s = 1 .. Len(s) /\ DOMAIN (s \o <<x>>) = 1 .. Len(s) + 1 BY <1>2, Concat
<1>4. \A n \in DOMAIN s : n \in DOMAIN (s \o <<x>>) /\ (s \o <<x>>)[n] = s[n] BY <1>2, Concat
<1>5. (s \o <<x>>)[Len(s) + 1] = x /\ Len(s) + 1 \in DOMAIN (s \o <<x>>) BY <1>2, <1>3, Concat
<1>6. \A n \in DOMAIN (s \o <<x>>) : n \in DOMAIN s \/ n = Len(s) + 1 BY <1>3
<1>7. LastSays(s \o <<x>>, new)
  <2> SUFFICES ASSUME NEW i \in Indexes, NEW n \in DOMAIN (s \o <<x>>), About((s \o <<x>>)[n], i),
                      \A m \in DOMAIN (s \o <<x>>) : m > n => ~About((s \o <<x>>)[m], i)
               PROVE  (s \o <<x>>)[n].address = new[i]
    BY DEF LastSays
  <2>1. CASE n = Len(s) + 1 BY <1>1, <1>5, <2>1 DEF About
  <2>2. CASE n \in DOMAIN s
    <3>1. Len(s) + 1 > n BY <1>3, <2>2
    <3>2. ~About(x, i) BY <1>5, <3>1
    <3>3. new[i] = link[i] BY <1>1, <3>2 DEF About
    <3>4. \A m \in DOMAIN s : m > n => ~About(s[m], i) BY <1>4
    <3> QED BY <1>4, <2>2, <3>3, <3>4 DEF LastSays
  <2> QED BY <1>6, <2>1, <2>2
<1>8. \A i \in Indexes : NoneAbout(s \o <<x>>, i) => NoneAbout(s, i) /\ new[i] = link[i]
  <2>1. \A i : NoneAbout(s \o <<x>>, i) => NoneAbout(s, i) BY <1>4 DEF NoneAbout
  <2>2. \A i \in Indexes : NoneAbout(s \o <<x>>, i) => ~About(x, i) BY <1>5 DEF NoneAbout
  <2> QED BY <1>1, <2>1, <2>2 DEF About
<1> QED BY <1>7, <1>8 DEF new

\* The first line is read.
LEMMA ReadOne ==
  ASSUME NEW s \in Seq(Lines), s # <<>>, NEW link, LastSays(s, link)
  PROVE  /\ Head(s) \in Lines /\ Tail(s) \in Seq(Lines) /\ Len(Tail(s)) <= Len(s)
         /\ LastSays(Tail(s), link)
         /\ \A i \in Indexes : NoneAbout(Tail(s), i) =>
              NoneAbout(s, i) \/ (About(Head(s), i) /\ Head(s).address = link[i])
<1>1. /\ Len(s) \in Nat \ {0} /\ DOMAIN s = 1 .. Len(s) /\ Head(s) = s[1] /\ Head(s) \in Lines
      /\ Tail(s) \in Seq(Lines) /\ Len(Tail(s)) = Len(s) - 1
      /\ \A n \in 1 .. Len(Tail(s)) : Tail(s)[n] = s[n + 1]
  BY HeadTailProperties, LenProperties, EmptySeq
<1>2. DOMAIN Tail(s) = 1 .. Len(s) - 1 BY <1>1, LenProperties
<1>3. \A n \in DOMAIN Tail(s) : n \in Int /\ n + 1 \in DOMAIN s /\ Tail(s)[n] = s[n + 1] BY <1>1, <1>2
<1>4. \A m \in DOMAIN s : m \in Int /\ (m = 1 \/ m - 1 \in DOMAIN Tail(s)) /\ (m - 1) + 1 = m BY <1>1, <1>2
<1>5. LastSays(Tail(s), link)
  <2> SUFFICES ASSUME NEW i \in Indexes, NEW n \in DOMAIN Tail(s), About(Tail(s)[n], i),
                      \A m \in DOMAIN Tail(s) : m > n => ~About(Tail(s)[m], i)
               PROVE  Tail(s)[n].address = link[i]
    BY DEF LastSays
  <2>1. n + 1 \in DOMAIN s /\ Tail(s)[n] = s[n + 1] BY <1>3
  <2>2. ASSUME NEW m \in DOMAIN s, m > n + 1 PROVE ~About(s[m], i)
    <3>1. m # 1 /\ m - 1 > n BY <1>1, <1>2, <2>2
    <3>2. m - 1 \in DOMAIN Tail(s) /\ Tail(s)[m - 1] = s[m] BY <1>3, <1>4, <3>1
    <3> QED BY <3>1, <3>2
  <2> QED BY <2>1, <2>2 DEF LastSays
<1>6. ASSUME NEW i \in Indexes, NoneAbout(Tail(s), i), ~NoneAbout(s, i)
      PROVE  About(Head(s), i) /\ Head(s).address = link[i]
  <2>1. ASSUME NEW m \in DOMAIN s, m # 1 PROVE ~About(s[m], i)
    <3>1. m - 1 \in DOMAIN Tail(s) /\ Tail(s)[m - 1] = s[m] BY <1>3, <1>4, <2>1
    <3> QED BY <1>6, <3>1 DEF NoneAbout
  <2>2. 1 \in DOMAIN s /\ About(s[1], i) BY <1>1, <1>6, <2>1 DEF NoneAbout
  <2>3. \A m \in DOMAIN s : m > 1 => ~About(s[m], i) BY <2>1
  <2> QED BY <1>1, <2>2, <2>3 DEF LastSays
<1> QED BY <1>1, <1>5, <1>6

----------------------------------------------------------------------------
(* The table. *)

TableOK ==
  /\ DOMAIN heap \subseteq Objects /\ \A o \in DOMAIN heap : heap[o].conn_index \in Indexes
  /\ bleConnections \in [Indexes -> Objects \cup {NULL}]
  /\ SlotsLive

\* A new object is none that a slot has, and only its slot changes.
LEMMA Allocation ==
  ASSUME TableOK, NEW i \in Indexes, NEW object, object.conn_index \in Indexes, Allocates(i, object)
  PROVE  /\ TableOK' /\ Remote(i)' = object.remote_address
         /\ \A j \in Indexes : j # i => Remote(j)' = Remote(j)
<1> DEFINE known == DOMAIN heap \cap ({bleConnections[j] : j \in Indexes \ {i}} \cup held)
           o == CHOOSE x \in Objects : x \notin known /\ (i + 1 \notin known => x = i + 1)
<1>1. o \in Objects /\ o \notin known
  <2>1. i + 1 \in Objects BY ConnectionsAssumption, ObjectsAssumption DEF Indexes
  <2>2. Objects \ known # {} BY DEF Allocates
  <2>3. \E x \in Objects : x \notin known /\ (i + 1 \notin known => x = i + 1) BY <2>1, <2>2
  <2> QED BY <2>3
<1>2. o # NULL BY <1>1, ObjectsAssumption DEF NULL
<1>3. /\ heap' = [x \in known \cup {o} |-> IF x = o THEN object ELSE heap[x]]
      /\ bleConnections' = [bleConnections EXCEPT ![i] = o]
  BY DEF Allocates
<1> HIDE DEF o
<1>4. /\ bleConnections'[i] = o /\ o \in DOMAIN heap' /\ heap'[o] = object
      /\ \A j \in Indexes : j # i => bleConnections'[j] = bleConnections[j]
  BY <1>3 DEF TableOK
<1>5. ASSUME NEW j \in Indexes, j # i, bleConnections[j] # NULL
      PROVE  /\ bleConnections[j] \in known /\ bleConnections[j] # o
             /\ bleConnections[j] \in DOMAIN heap' /\ heap'[bleConnections[j]] = heap[bleConnections[j]]
  <2>1. bleConnections[j] \in DOMAIN heap BY <1>5 DEF TableOK, SlotsLive, Dangling
  <2>2. bleConnections[j] \in known BY <1>5, <2>1
  <2>3. bleConnections[j] # o BY <1>1, <2>2
  <2> QED BY <1>3, <2>2, <2>3
<1>6. DOMAIN heap' \subseteq Objects /\ \A x \in DOMAIN heap' : heap'[x].conn_index \in Indexes
  BY <1>1, <1>3 DEF TableOK
<1>7. bleConnections' \in [Indexes -> Objects \cup {NULL}] BY <1>1, <1>3 DEF TableOK
<1>8. SlotsLive'
  <2>1. \A j \in Indexes : ~Dangling(j)'
    BY <1>4, <1>5 DEF Dangling
  <2>2. ASSUME NEW j \in Indexes, NEW k \in Indexes, bleConnections'[j] = bleConnections'[k],
               bleConnections'[j] # NULL
        PROVE  j = k
    <3>1. CASE j = i BY <1>4, <1>5, <2>2, <3>1
    <3>2. CASE k = i BY <1>4, <1>5, <2>2, <3>2
    <3>3. CASE j # i /\ k # i BY <1>4, <2>2, <3>3 DEF TableOK, SlotsLive
    <3> QED BY <3>1, <3>2, <3>3
  <2> QED BY <2>1, <2>2 DEF SlotsLive
<1>9. Remote(i)' = object.remote_address BY <1>2, <1>4 DEF Remote
<1>10. \A j \in Indexes : j # i => Remote(j)' = Remote(j) BY <1>4, <1>5 DEF Remote
<1> QED BY <1>6, <1>7, <1>8, <1>9, <1>10 DEF TableOK

\* +BLEDISCONN empties its slot; the objects of the others stay alive.
LEMMA Disconnection ==
  ASSUME TableOK, NEW l, l.i \in Indexes, Disconnected(l)
  PROVE  /\ TableOK' /\ Remote(l.i)' = Unset
         /\ \A j \in Indexes : j # l.i => Remote(j)' = Remote(j)
<1> DEFINE gone == bleConnections[l.i]
<1>1. /\ heap' = [x \in DOMAIN heap \ {gone} |-> heap[x]]
      /\ bleConnections' = [bleConnections EXCEPT ![l.i] = NULL]
  BY DEF Disconnected, Without
<1>2. /\ bleConnections'[l.i] = NULL
      /\ \A j \in Indexes : j # l.i => bleConnections'[j] = bleConnections[j]
  BY <1>1 DEF TableOK
<1>3. ASSUME NEW j \in Indexes, j # l.i, bleConnections[j] # NULL
      PROVE  /\ bleConnections[j] \in DOMAIN heap'
             /\ heap'[bleConnections[j]] = heap[bleConnections[j]]
  <2>1. bleConnections[j] \in DOMAIN heap BY <1>3 DEF TableOK, SlotsLive, Dangling
  <2>2. bleConnections[j] # gone BY <1>3 DEF TableOK, SlotsLive
  <2> QED BY <1>1, <2>1, <2>2
<1>4. DOMAIN heap' \subseteq Objects /\ \A x \in DOMAIN heap' : heap'[x].conn_index \in Indexes
  BY <1>1 DEF TableOK
<1>5. bleConnections' \in [Indexes -> Objects \cup {NULL}] BY <1>1 DEF TableOK
<1>6. SlotsLive'
  <2>1. \A j \in Indexes : ~Dangling(j)' BY <1>2, <1>3 DEF Dangling
  <2>2. ASSUME NEW j \in Indexes, NEW k \in Indexes, bleConnections'[j] = bleConnections'[k],
               bleConnections'[j] # NULL
        PROVE  j = k
    <3>1. j # l.i /\ k # l.i BY <1>2, <2>2
    <3> QED BY <1>2, <2>2, <3>1 DEF TableOK, SlotsLive
  <2> QED BY <2>1, <2>2 DEF SlotsLive
<1>7. Remote(l.i)' = Unset BY <1>2 DEF Remote
<1>8. \A j \in Indexes : j # l.i => Remote(j)' = Remote(j) BY <1>2, <1>3 DEF Remote
<1> QED BY <1>4, <1>5, <1>6, <1>7, <1>8 DEF TableOK

\* The callback does to the table what the line says, and nothing else.
LEMMA CallbackTable ==
  ASSUME TableOK, NEW l \in Lines, Callback(l)
  PROVE  /\ TableOK' /\ scanline' \in 0 .. 3
         /\ \A i \in Indexes : Remote(i)' = IF About(l, i) THEN l.address ELSE Remote(i)
<1>1. scanline' \in 0 .. 3 BY DEF Callback, Lines
<1>2. CASE l.t = "+BLECONN" /\ Connected(l)
  <2>1. l.i \in Indexes BY <1>2 DEF Lines
  <2>2. Allocates(l.i, Object(l.i, l.address)) /\ Object(l.i, l.address).conn_index \in Indexes
        /\ Object(l.i, l.address).remote_address = l.address
    BY <1>2, <2>1 DEF Connected, Object
  <2>3. /\ TableOK' /\ Remote(l.i)' = l.address
        /\ \A j \in Indexes : j # l.i => Remote(j)' = Remote(j)
    BY <2>1, <2>2, Allocation
  <2> QED BY <1>1, <1>2, <2>3 DEF About, AboutSlot
<1>3. CASE l.t = "+BLEDISCONN" /\ Disconnected(l)
  <2>1. l.i \in Indexes /\ l.address = Unset BY <1>3 DEF Lines
  <2>2. /\ TableOK' /\ Remote(l.i)' = Unset
        /\ \A j \in Indexes : j # l.i => Remote(j)' = Remote(j)
    BY <1>3, <2>1, Disconnection
  <2> QED BY <1>1, <1>3, <2>1, <2>2 DEF About, AboutSlot
<1>4. CASE ~AboutSlot(l) /\ UNCHANGED table
  <2>1. TableOK' BY <1>4 DEF TableOK, SlotsLive, Dangling, table
  <2>2. \A i \in Indexes : Remote(i)' = Remote(i) BY <1>4 DEF Remote, table
  <2> QED BY <1>1, <1>4, <2>1, <2>2 DEF About
<1> QED BY <1>2, <1>3, <1>4 DEF Callback

----------------------------------------------------------------------------
(* The firmware. *)

Follows == intact => \A i \in Indexes : NoneAbout(lines, i) => Remote(i) = fw.link[i]

(* The invariant: what is still to be read says what the table lacks.       *)
BInv ==
  /\ TypeOK /\ SlotsLive /\ OnlyKnownFaults
  /\ lines \in Seq(Lines) /\ fw \in Firmwares
  /\ LastSays(lines, fw.link) /\ Follows

Spoken ==
  /\ lines' \in Seq(Lines) /\ Len(lines') <= MaxLines + 1 /\ fw' \in Firmwares
  /\ LastSays(lines', fw'.link)
  /\ \A i \in Indexes : NoneAbout(lines', i) => NoneAbout(lines, i) /\ fw'.link[i] = fw.link[i]

\* The firmware says something that is not about a slot.
LEMMA SpeaksOfNothing ==
  ASSUME BInv, NEW new \in Seq(Lines), \A n \in DOMAIN new : ~AboutSlot(new[n]),
         lines' = lines \o new, Len(lines') <= MaxLines + 1, fw' \in Firmwares, fw'.link = fw.link
  PROVE  Spoken
<1>1. lines \in Seq(Lines) /\ LastSays(lines, fw.link) BY DEF BInv
<1>2. lines' \in Seq(Lines) BY <1>1, Concat
<1>3. LastSays(lines \o new, fw.link) /\ \A i : NoneAbout(lines \o new, i) => NoneAbout(lines, i)
  BY <1>1, SaidNothing
<1> QED BY <1>2, <1>3 DEF Spoken

\* The firmware's connections change and it says so, then or before something else.
LEMMA SpeaksOfOne ==
  ASSUME BInv, NEW x \in Lines, AboutSlot(x), NEW y \in Lines, ~AboutSlot(y), fw' \in Firmwares,
         fw'.link = [fw.link EXCEPT ![x.i] = x.address], Len(lines') <= MaxLines + 1,
         \/ lines' = lines \o <<x>>
         \/ lines' = lines \o <<x, y>>
         \/ lines' = lines \o <<y, x>>
  PROVE  Spoken
<1>1. lines \in Seq(Lines) /\ LastSays(lines, fw.link) /\ fw \in Firmwares BY DEF BInv
<1> DEFINE new == [fw.link EXCEPT ![x.i] = x.address]
<1>2. <<x>> \in Seq(Lines) /\ <<y>> \in Seq(Lines) BY SMT
<1>3. /\ lines \o <<x, y>> = (lines \o <<x>>) \o <<y>>
      /\ lines \o <<y, x>> = (lines \o <<y>>) \o <<x>>
  <2>1. <<x, y>> = <<x>> \o <<y>> /\ <<y, x>> = <<y>> \o <<x>> BY SMT
  <2>2. /\ (lines \o <<x>>) \o <<y>> = lines \o (<<x>> \o <<y>>)
        /\ (lines \o <<y>>) \o <<x>> = lines \o (<<y>> \o <<x>>)
    BY <1>1, <1>2, ConcatAssociative
  <2> QED BY <2>1, <2>2
<1>4. fw.link \in [Indexes -> Peers] /\ fw'.link = new BY <1>1 DEF Firmwares
<1>5. \A n \in DOMAIN <<y>> : ~AboutSlot(<<y>>[n]) BY SMT
<1>6. CASE lines' = lines \o <<x>>
  <2>1. lines' \in Seq(Lines) BY <1>1, <1>2, <1>6, Concat
  <2> QED BY <1>1, <1>4, <1>6, <2>1, SaidOne DEF Spoken
<1>7. CASE lines' = lines \o <<x, y>>
  <2>1. lines \o <<x>> \in Seq(Lines) BY <1>1, <1>2, Concat
  <2>2. /\ LastSays(lines \o <<x>>, new)
        /\ \A i \in Indexes : NoneAbout(lines \o <<x>>, i) => NoneAbout(lines, i) /\ new[i] = fw.link[i]
    BY <1>1, <1>4, SaidOne
  <2>3. /\ LastSays(lines', new)
        /\ \A i : NoneAbout(lines', i) => NoneAbout(lines \o <<x>>, i)
    BY <1>1, <1>2, <1>3, <1>5, <1>7, <2>1, <2>2, SaidNothing
  <2>4. lines' \in Seq(Lines) BY <1>1, <1>2, <1>3, <1>7, <2>1, Concat
  <2> QED BY <2>2, <2>3, <2>4 DEF Spoken
<1>8. CASE lines' = lines \o <<y, x>>
  <2>1. lines \o <<y>> \in Seq(Lines) BY <1>1, <1>2, Concat
  <2>2. /\ LastSays(lines \o <<y>>, fw.link)
        /\ \A i : NoneAbout(lines \o <<y>>, i) => NoneAbout(lines, i)
    BY <1>1, <1>2, <1>5, SaidNothing
  <2>3. /\ LastSays(lines', new)
        /\ \A i \in Indexes : NoneAbout(lines', i) => NoneAbout(lines \o <<y>>, i) /\ new[i] = fw.link[i]
    BY <1>1, <1>3, <1>4, <1>8, <2>1, <2>2, SaidOne
  <2>4. lines' \in Seq(Lines) BY <1>1, <1>2, <1>3, <1>8, <2>1, Concat
  <2> QED BY <2>2, <2>3, <2>4 DEF Spoken
<1> QED BY <1>6, <1>7, <1>8

\* Lines as the actions write them
LEMMA Sayable ==
  /\ \A t \in Texts : t \notin {"+BLECONN", "+BLEDISCONN", "+BLECFGMTU", "connect", "+BLESCAN"} =>
       Answer(t) \in Lines /\ ~AboutSlot(Answer(t))
  /\ \A i \in Indexes, a \in Peers :
       /\ Line("+BLECONN", i, a) \in Lines /\ AboutSlot(Line("+BLECONN", i, a))
       /\ Line("connect", i, a) \in Lines
  /\ \A i \in Indexes :
       /\ Line("+BLEDISCONN", i, Unset) \in Lines /\ AboutSlot(Line("+BLEDISCONN", i, Unset))
       /\ Line("+BLECFGMTU", i, Unset) \in Lines /\ ~AboutSlot(Line("+BLECFGMTU", i, Unset))
  /\ \A a \in Peers : Line("+BLESETPHY", 0, a) \in Lines /\ ~AboutSlot(Line("+BLESETPHY", 0, a))
  /\ \A rows \in 1 .. 3 : Line("+BLESCAN", rows, Unset) \in Lines /\ ~AboutSlot(Line("+BLESCAN", rows, Unset))
<1> USE DEF Peers, Answer, Line, AboutSlot
<1>1. \A i \in Indexes : i \in Nat BY ConnectionsAssumption DEF Indexes
<1>2. ASSUME NEW t \in Texts, t \notin {"+BLECONN", "+BLEDISCONN", "+BLECFGMTU", "connect", "+BLESCAN"}
      PROVE  Answer(t) \in Lines /\ ~AboutSlot(Answer(t))
  BY <1>2 DEF Lines
<1>3. \A i \in Indexes, a \in Peers :
        /\ Line("+BLECONN", i, a) \in Lines /\ AboutSlot(Line("+BLECONN", i, a))
        /\ Line("connect", i, a) \in Lines
  BY <1>1 DEF Lines, Texts
<1>4. \A i \in Indexes :
        /\ Line("+BLEDISCONN", i, Unset) \in Lines /\ AboutSlot(Line("+BLEDISCONN", i, Unset))
        /\ Line("+BLECFGMTU", i, Unset) \in Lines /\ ~AboutSlot(Line("+BLECFGMTU", i, Unset))
  BY <1>1 DEF Lines, Texts
<1>5. \A a \in Peers : Line("+BLESETPHY", 0, a) \in Lines /\ ~AboutSlot(Line("+BLESETPHY", 0, a))
  BY DEF Lines, Texts
<1>6. \A rows \in 1 .. 3 :
        Line("+BLESCAN", rows, Unset) \in Lines /\ ~AboutSlot(Line("+BLESCAN", rows, Unset))
  BY DEF Lines, Texts
<1> HIDE DEF Peers, Answer, Line, AboutSlot
<1> QED BY <1>2, <1>3, <1>4, <1>5, <1>6

Quiet(ls) == ls \in Seq(Lines) /\ \A n \in DOMAIN ls : ~AboutSlot(ls[n])

\* Two lines are one after the other.
LEMMA Pair ==
  ASSUME NEW x \in Lines, NEW y \in Lines
  PROVE  <<x>> \o <<y>> = <<x, y>>
<1>1. <<x>> \in Seq(Lines) /\ <<y>> \in Seq(Lines) /\ Len(<<x>>) = 1 /\ Len(<<y>>) = 1 BY SMT
<1>2. <<x, y>> \in Seq(Lines) /\ Len(<<x, y>>) = 2 /\ <<x, y>>[1] = x /\ <<x, y>>[2] = y BY SMT
<1>3. <<x>> \o <<y>> \in Seq(Lines) /\ Len(<<x>> \o <<y>>) = 2 BY <1>1, ConcatProperties
<1>4. /\ \A n \in 1 .. 2 : (<<x>> \o <<y>>)[n] = IF n <= 1 THEN <<x>>[n] ELSE <<y>>[n - 1]
      /\ <<x>>[1] = x /\ <<y>>[1] = y
  BY <1>1, ConcatProperties
<1>5. \A n \in 1 .. 2 : (<<x>> \o <<y>>)[n] = <<x, y>>[n] BY <1>2, <1>4
<1> QED BY <1>2, <1>3, <1>5, SeqEqual

\* Sequences of lines about no slot
LEMMA QuietLines ==
  /\ \A l \in Lines : ~AboutSlot(l) => Quiet(<<l>>)
  /\ \A k \in Nat, l \in Lines : ~AboutSlot(l) => Quiet([n \in 1 .. k |-> l])
  /\ \A s, t : Quiet(s) /\ Quiet(t) => Quiet(s \o t)
<1>1. \A l \in Lines : ~AboutSlot(l) => Quiet(<<l>>) BY SMT DEF Quiet
<1>2. ASSUME NEW k \in Nat, NEW l \in Lines, ~AboutSlot(l) PROVE Quiet([n \in 1 .. k |-> l])
  BY <1>2 DEF Quiet
<1>3. ASSUME NEW s, NEW t, Quiet(s), Quiet(t) PROVE Quiet(s \o t)
  <2>1. s \in Seq(Lines) /\ t \in Seq(Lines) BY <1>3 DEF Quiet
  <2>2. s \o t \in Seq(Lines) BY <2>1, Concat
  <2>3. ASSUME NEW n \in DOMAIN (s \o t) PROVE ~AboutSlot((s \o t)[n])
    <3>1. CASE n \in DOMAIN s BY <1>3, <2>1, <3>1, Concat DEF Quiet
    <3>2. CASE n \notin DOMAIN s
      <4>1. n - Len(s) \in DOMAIN t /\ n = Len(s) + (n - Len(s)) BY <2>1, <2>3, <3>2, Concat
      <4>2. (s \o t)[n] = t[n - Len(s)] BY <2>1, <4>1, Concat
      <4> QED BY <1>3, <4>1, <4>2 DEF Quiet
    <3> QED BY <3>1, <3>2
  <2> QED BY <2>2, <2>3 DEF Quiet
<1> QED BY <1>1, <1>2, <1>3

\* What a discovery says is quiet.
LEMMA ServicesQuiet == \A s \in Services : Quiet(s)
<1>1. /\ Answer("claimed") \in Lines /\ ~AboutSlot(Answer("claimed"))
      /\ Answer("cut service") \in Lines /\ ~AboutSlot(Answer("cut service"))
      /\ Answer("rest of a service") \in Lines /\ ~AboutSlot(Answer("rest of a service"))
  BY Sayable DEF Texts
<1>2. Quiet(<<>>)
  <2>1. DOMAIN <<>> = {} /\ <<>> \in Seq(Lines) BY EmptySeq
  <2> QED BY <2>1 DEF Quiet
<1>3. Quiet(<<Answer("claimed")>>) BY <1>1, QuietLines
<1>4. Quiet(<<Answer("cut service"), Answer("rest of a service")>>)
  <2>1. Quiet(<<Answer("cut service")>> \o <<Answer("rest of a service")>>) BY <1>1, QuietLines
  <2>2. <<Answer("cut service")>> \o <<Answer("rest of a service")>>
        = <<Answer("cut service"), Answer("rest of a service")>>
    BY <1>1, Pair
  <2> QED BY <2>1, <2>2
<1> QED BY <1>2, <1>3, <1>4 DEF Services

\* A command that ends leaves the connections.
LEMMA IdleAgain ==
  ASSUME fw \in Firmwares
  PROVE  /\ [fw EXCEPT !.command = Answer("none")] \in Firmwares
         /\ [fw EXCEPT !.command = Answer("none")].link = fw.link
BY Sayable DEF Firmwares, Texts

\* A peer leaves, or connects, and the firmware says so.
LEMMA LeaverSpeaks ==
  ASSUME BInv, NEW i \in Indexes, PeerLeaves(i)
  PROVE  Spoken
<1> DEFINE x == Line("+BLEDISCONN", i, Unset)
<1>1. fw \in Firmwares /\ MaxLines \in Nat BY BoundsAssumption DEF BInv
<1>2. Answer("OK") \in Lines /\ ~AboutSlot(Answer("OK")) BY Sayable DEF Texts
<1>3. x \in Lines /\ AboutSlot(x) /\ x.i = i /\ x.address = Unset BY Sayable DEF Line
<1>4. fw' = [fw EXCEPT !.link[i] = Unset] /\ lines' = lines \o <<x>> /\ Len(lines') <= MaxLines
  BY DEF PeerLeaves, Says
<1>5. fw' \in Firmwares /\ fw'.link = [fw.link EXCEPT ![i] = Unset] BY <1>1, <1>4 DEF Firmwares, Peers
<1>6. Len(lines') \in Nat BY <1>3, <1>4, Concat DEF BInv
<1>7. Len(lines') <= MaxLines + 1 BY <1>1, <1>4, <1>6
<1> HIDE DEF x
<1> QED BY <1>2, <1>3, <1>4, <1>5, <1>7, SpeaksOfOne

\* The same for a peer that connects
LEMMA ConnecterSpeaks ==
  ASSUME BInv, NEW i \in Indexes, NEW a \in Addresses, PeerConnects(i, a)
  PROVE  Spoken
<1> DEFINE x == Line("+BLECONN", i, a)
<1>1. fw \in Firmwares /\ MaxLines \in Nat BY BoundsAssumption DEF BInv
<1>2. Answer("OK") \in Lines /\ ~AboutSlot(Answer("OK")) BY Sayable DEF Texts
<1>3. x \in Lines /\ AboutSlot(x) /\ x.i = i /\ x.address = a BY Sayable DEF Line, Peers
<1>4. fw' = [fw EXCEPT !.link[i] = a] /\ lines' = lines \o <<x>> /\ Len(lines') <= MaxLines
  BY DEF PeerConnects, Says
<1>5. fw' \in Firmwares /\ fw'.link = [fw.link EXCEPT ![i] = a] BY <1>1, <1>4 DEF Firmwares, Peers
<1>6. Len(lines') \in Nat BY <1>3, <1>4, Concat DEF BInv
<1>7. Len(lines') <= MaxLines + 1 BY <1>1, <1>4, <1>6
<1> HIDE DEF x
<1> QED BY <1>2, <1>3, <1>4, <1>5, <1>7, SpeaksOfOne

\* The steps that say something quiet, in the form in which the actions have it
LEMMA SpeaksQuietly ==
  ASSUME BInv, NEW new, Quiet(new), Says(new), fw' \in Firmwares, fw'.link = fw.link
  PROVE  Spoken
<1>1. new \in Seq(Lines) /\ lines' = lines \o new /\ Len(lines') <= MaxLines BY DEF Quiet, Says
<1>2. Len(lines') \in Nat BY <1>1, Concat DEF BInv
<1>3. Len(lines') <= MaxLines + 1 BY <1>1, <1>2, BoundsAssumption
<1> QED BY <1>1, <1>3, SpeaksOfNothing DEF Quiet

\* A scan result is quiet, however many rows it has.
LEMMA ScanSpeaks ==
  ASSUME BInv, NEW rows \in 1 .. 3, ScanResult(rows)
  PROVE  Spoken
<1> DEFINE first == <<Line("+BLESCAN", rows, Unset)>>
           rest == [n \in 1 .. rows - 1 |-> Answer("rest of a result")]
<1>1. Quiet(first) BY Sayable, QuietLines
<1>2. Quiet(rest)
  <2>1. rows - 1 \in Nat BY SMT
  <2>2. Answer("rest of a result") \in Lines /\ ~AboutSlot(Answer("rest of a result")) BY Sayable DEF Texts
  <2> QED BY <2>1, <2>2, QuietLines
<1>3. Len(first) = 1 /\ Len(rest) = rows - 1 BY SMT
<1>4. lines' = (lines \o first) \o rest /\ Len(lines) + rows <= MaxLines + 1 /\ fw' = fw
  BY DEF ScanResult
<1> HIDE DEF first, rest
<1>5. lines \in Seq(Lines) /\ fw \in Firmwares BY DEF BInv
<1>6. first \in Seq(Lines) /\ rest \in Seq(Lines) /\ Quiet(first \o rest) BY <1>1, <1>2, QuietLines DEF Quiet
<1>7. lines' = lines \o (first \o rest) BY <1>4, <1>5, <1>6, ConcatAssociative
<1>8. first \o rest \in Seq(Lines) /\ Len(first \o rest) = rows
  <2>1. first \o rest \in Seq(Lines) /\ Len(first \o rest) = Len(first) + Len(rest) BY <1>6, Concat
  <2>2. 1 + (rows - 1) = rows BY SMT
  <2> QED BY <1>3, <2>1, <2>2
<1>9. Len(lines') <= MaxLines + 1 BY <1>4, <1>5, <1>7, <1>8, Concat
<1> QED BY <1>4, <1>5, <1>6, <1>7, <1>8, <1>9, SpeaksOfNothing DEF Quiet

\* Other news is quiet.
LEMMA TellsSpeaks ==
  ASSUME BInv, Tells
  PROVE  Spoken
<1>1. fw \in Firmwares /\ fw' = fw BY DEF BInv, Tells
<1>2. \A i \in Indexes : fw.link[i] \in Peers BY <1>1 DEF Firmwares
<1>3. CASE Says(<<Answer("claimed")>>)
  <2>1. Quiet(<<Answer("claimed")>>) BY Sayable, QuietLines DEF Texts
  <2> QED BY <1>1, <1>3, <2>1, SpeaksQuietly
<1>4. CASE \E i \in Indexes : Says(<<Line("+BLECFGMTU", i, Unset)>>)
  <2>1. PICK i \in Indexes : Says(<<Line("+BLECFGMTU", i, Unset)>>) BY <1>4
  <2>2. Quiet(<<Line("+BLECFGMTU", i, Unset)>>) BY Sayable, QuietLines
  <2> QED BY <1>1, <2>1, <2>2, SpeaksQuietly
<1>5. CASE \E i \in Indexes : Says(<<Line("+BLESETPHY", 0, fw.link[i])>>)
  <2>1. PICK i \in Indexes : Says(<<Line("+BLESETPHY", 0, fw.link[i])>>) BY <1>5
  <2>2. Quiet(<<Line("+BLESETPHY", 0, fw.link[i])>>) BY <1>2, Sayable, QuietLines
  <2> QED BY <1>1, <2>1, <2>2, SpeaksQuietly
<1> QED BY <1>3, <1>4, <1>5 DEF Tells

\* A command that is executed says its effect, before or after OK, or nothing about a slot.
LEMMA ExecutesSpeaks ==
  ASSUME BInv, Executes
  PROVE  Spoken
<1> DEFINE c == fw.command
           idle == [fw EXCEPT !.command = Answer("none")]
<1>1. fw \in Firmwares /\ c \in Lines /\ idle \in Firmwares /\ idle.link = fw.link
  BY IdleAgain DEF BInv, Firmwares
<1>2. /\ Answer("OK") \in Lines /\ ~AboutSlot(Answer("OK"))
      /\ Quiet(<<Answer("ERROR")>>) /\ Quiet(<<Answer("OK")>>)
  BY Sayable, QuietLines DEF Texts
<1>3. ASSUME NEW new, Quiet(new), Says(new), fw' = idle PROVE Spoken
  BY <1>1, <1>3, SpeaksQuietly
<1>4. ASSUME c.t = "connect", fw' = [idle EXCEPT !.link[c.i] = c.address],
             \/ Says(<<Line("+BLECONN", c.i, c.address), Answer("OK")>>)
             \/ Says(<<Answer("OK"), Line("+BLECONN", c.i, c.address)>>)
      PROVE  Spoken
  <2> DEFINE x == Line("+BLECONN", c.i, c.address)
  <2>1. c.i \in Indexes /\ c.address \in Peers BY <1>1, <1>4 DEF Lines
  <2>2. x \in Lines /\ AboutSlot(x) BY <2>1, Sayable
  <2>3. x.i = c.i /\ x.address = c.address BY DEF Line
  <2>4. fw' \in Firmwares /\ fw'.link = [fw.link EXCEPT ![c.i] = c.address]
    BY <1>1, <1>4, <2>1 DEF Firmwares
  <2> HIDE DEF x
  <2>5. (lines' = lines \o <<x, Answer("OK")>> \/ lines' = lines \o <<Answer("OK"), x>>) /\ Len(lines') <= MaxLines
    BY <1>4 DEF Says, x
  <2>6. Len(lines') <= MaxLines + 1
    <3>1. <<x, Answer("OK")>> \in Seq(Lines) /\ <<Answer("OK"), x>> \in Seq(Lines) BY <1>2, <2>2
    <3>2. Len(lines') \in Nat BY <2>5, <3>1, Concat DEF BInv
    <3> QED BY <2>5, <3>2, BoundsAssumption
  <2> QED BY <1>2, <2>2, <2>3, <2>4, <2>5, <2>6, SpeaksOfOne
<1>5. ASSUME NEW i \in Indexes PROVE Quiet(<<Line("+BLECFGMTU", i, Unset), Answer("OK")>>)
  <2>1. Line("+BLECFGMTU", i, Unset) \in Lines /\ ~AboutSlot(Line("+BLECFGMTU", i, Unset)) BY Sayable
  <2>2. Quiet(<<Line("+BLECFGMTU", i, Unset)>> \o <<Answer("OK")>>) BY <1>2, <2>1, QuietLines
  <2>3. <<Line("+BLECFGMTU", i, Unset)>> \o <<Answer("OK")>> = <<Line("+BLECFGMTU", i, Unset), Answer("OK")>> BY <1>2, <2>1, Pair
  <2> QED BY <2>2, <2>3
<1>6. ASSUME NEW t \in {"+BLENAME", "+BLEADDR"} PROVE Quiet(<<Answer(t), Answer("OK")>>)
  <2>1. Answer(t) \in Lines /\ ~AboutSlot(Answer(t)) BY Sayable DEF Texts
  <2>2. Quiet(<<Answer(t)>> \o <<Answer("OK")>>) BY <1>2, <2>1, QuietLines
  <2>3. <<Answer(t)>> \o <<Answer("OK")>> = <<Answer(t), Answer("OK")>> BY <1>2, <2>1, Pair
  <2> QED BY <2>2, <2>3
<1>7. ASSUME NEW services \in Services, lines' = lines \o services \o <<Answer("OK")>>,
             Len(lines') <= MaxLines + 1, fw' = idle
      PROVE  Spoken
  <2>1. Quiet(services \o <<Answer("OK")>>) BY <1>2, ServicesQuiet, QuietLines
  <2>2. lines \in Seq(Lines) /\ services \in Seq(Lines) /\ <<Answer("OK")>> \in Seq(Lines)
    BY <1>2, ServicesQuiet DEF Quiet, BInv
  <2>3. lines' = lines \o (services \o <<Answer("OK")>>) BY <1>7, <2>2, ConcatAssociative
  <2> QED BY <1>1, <1>7, <2>1, <2>3, SpeaksOfNothing DEF Quiet
<1>8. \/ Says(<<Answer("ERROR")>>) /\ fw' = idle
      \/ /\ c.t = "connect" /\ fw' = [idle EXCEPT !.link[c.i] = c.address]
         /\ \/ Says(<<Line("+BLECONN", c.i, c.address), Answer("OK")>>)
            \/ Says(<<Answer("OK"), Line("+BLECONN", c.i, c.address)>>)
      \/ \E i \in Indexes : Says(<<Line("+BLECFGMTU", i, Unset), Answer("OK")>>) /\ fw' = idle
      \/ \E t \in {"+BLENAME", "+BLEADDR"} : Says(<<Answer(t), Answer("OK")>>) /\ fw' = idle
      \/ \E services \in Services :
           /\ lines' = lines \o services \o <<Answer("OK")>> /\ Len(lines') <= MaxLines + 1
           /\ fw' = idle
      \/ Says(<<Answer("OK")>>) /\ fw' = idle
  BY DEF Executes
<1> HIDE DEF c, idle
<1> QED BY <1>2, <1>3, <1>4, <1>5, <1>6, <1>7, <1>8

\* What the firmware says makes up for what it does.
LEMMA SpokenKeeps ==
  ASSUME BInv, Spoken, UNCHANGED <<bleConnections, heap, scanline, intact, fault>>
  PROVE  BInv'
<1>1. TypeOK' BY DEF BInv, TypeOK, Spoken
<1>2. SlotsLive' /\ OnlyKnownFaults' BY DEF BInv, SlotsLive, Dangling, OnlyKnownFaults
<1>3. \A i \in Indexes : Remote(i)' = Remote(i) BY DEF Remote
<1>4. Follows' BY <1>3 DEF BInv, Follows, Spoken
<1> QED BY <1>1, <1>2, <1>4 DEF BInv, Spoken

\* The firmware's steps, and lines that are lost: after the loss of a line about a slot nothing is promised.
LEMMA FirmwareKeeps ==
  ASSUME BInv, Firmware
  PROVE  BInv'
<1>1. UNCHANGED <<bleConnections, heap, scanline, fault>> BY DEF Firmware, table
<1>2. CASE LineLost /\ UNCHANGED fw
  <2>1. lines \in Seq(Lines) /\ lines # <<>> /\ LastSays(lines, fw.link) /\ lines' = Tail(lines) /\ fw' = fw
    BY <1>2 DEF LineLost, BInv
  <2>2. /\ Tail(lines) \in Seq(Lines) /\ Len(Tail(lines)) <= Len(lines) /\ LastSays(Tail(lines), fw.link)
        /\ \A i \in Indexes : NoneAbout(Tail(lines), i) => NoneAbout(lines, i) \/ About(Head(lines), i)
    BY <2>1, ReadOne
  <2>3. Len(lines) \in Nat /\ Len(Tail(lines)) \in Nat BY <2>1, <2>2, LenProperties
  <2>4. TypeOK' BY <1>1, <2>1, <2>2, <2>3, BoundsAssumption DEF BInv, TypeOK
  <2>5. SlotsLive' /\ OnlyKnownFaults' BY <1>1 DEF BInv, SlotsLive, Dangling, OnlyKnownFaults
  <2>6. intact' => intact /\ ~AboutSlot(Head(lines)) BY <1>2 DEF LineLost
  <2>7. \A i \in Indexes : Remote(i)' = Remote(i) BY <1>1 DEF Remote
  <2>8. Follows' BY <2>1, <2>2, <2>6, <2>7 DEF BInv, Follows, About
  <2> QED BY <2>1, <2>2, <2>4, <2>5, <2>8 DEF BInv
<1>3. ASSUME ~(LineLost /\ UNCHANGED fw) PROVE BInv'
  <2>1. intact' = intact BY <1>3 DEF Firmware
  <2>2. \/ \E i \in Indexes : PeerLeaves(i) \/ \E a \in Addresses : PeerConnects(i, a)
        \/ \E rows \in 1 .. 3 : ScanResult(rows)
        \/ Tells \/ Executes
    BY <1>3 DEF Firmware
  <2>3. ASSUME NEW i \in Indexes, PeerLeaves(i) PROVE Spoken BY <2>3, LeaverSpeaks
  <2>4. ASSUME NEW i \in Indexes, NEW a \in Addresses, PeerConnects(i, a) PROVE Spoken
    BY <2>4, ConnecterSpeaks
  <2>5. ASSUME NEW rows \in 1 .. 3, ScanResult(rows) PROVE Spoken BY <2>5, ScanSpeaks
  <2>6. Spoken BY <2>2, <2>3, <2>4, <2>5, TellsSpeaks, ExecutesSpeaks
  <2> QED BY <1>1, <2>1, <2>6, SpokenKeeps
<1> QED BY <1>2, <1>3

----------------------------------------------------------------------------
(* The manager. *)

BTable ==
  /\ TypeOK /\ SlotsLive
  /\ lines \in Seq(Lines) /\ fw \in Firmwares
  /\ LastSays(lines, fw.link) /\ Follows

\* The table takes over what the line that is read says.
LEMMA ReadKeeps ==
  ASSUME BInv, Reads, Callback(Head(lines)), intact' = intact, fw' \in Firmwares, fw'.link = fw.link
  PROVE  Head(lines) \in Lines /\ BTable'
<1>1. lines \in Seq(Lines) /\ lines # <<>> /\ LastSays(lines, fw.link) /\ lines' = Tail(lines)
  BY DEF BInv, Reads
<1>2. /\ Head(lines) \in Lines
      /\ Tail(lines) \in Seq(Lines) /\ Len(Tail(lines)) <= Len(lines) /\ LastSays(Tail(lines), fw.link)
      /\ \A i \in Indexes : NoneAbout(Tail(lines), i) =>
           NoneAbout(lines, i) \/ (About(Head(lines), i) /\ Head(lines).address = fw.link[i])
  BY <1>1, ReadOne
<1>3. TableOK BY DEF BInv, TypeOK, TableOK
<1>4. /\ TableOK' /\ scanline' \in 0 .. 3
      /\ \A i \in Indexes :
           Remote(i)' = IF About(Head(lines), i) THEN Head(lines).address ELSE Remote(i)
  BY <1>2, <1>3, CallbackTable
<1>5. Len(lines) \in Nat /\ Len(Tail(lines)) \in Nat BY <1>1, <1>2, LenProperties
<1>6. Len(lines') <= MaxLines + 1 BY <1>1, <1>2, <1>5, BoundsAssumption DEF BInv, TypeOK
<1>7. TypeOK' /\ SlotsLive' BY <1>4, <1>6 DEF TypeOK, TableOK
<1>8. Follows'
  <2> SUFFICES ASSUME intact', NEW i \in Indexes, NoneAbout(lines', i) PROVE Remote(i)' = fw'.link[i]
    BY DEF Follows
  <2>1. CASE About(Head(lines), i)
    <3>1. Head(lines).address = fw.link[i]
      <4>1. ~NoneAbout(lines, i) BY <1>1, <2>1, HeadTailProperties, EmptySeq, LenProperties DEF NoneAbout
      <4> QED BY <1>1, <1>2, <4>1
    <3> QED BY <1>4, <2>1, <3>1
  <2>2. CASE ~About(Head(lines), i)
    <3>1. NoneAbout(lines, i) BY <1>1, <1>2, <2>2
    <3>2. Remote(i) = fw.link[i] BY <3>1 DEF BInv, Follows
    <3> QED BY <1>4, <2>2, <3>2
  <2> QED BY <2>1, <2>2
<1> QED BY <1>1, <1>2, <1>7, <1>8 DEF BTable

\* The slots that a line names are used if they are not empty; the search may meet an empty one.
LEMMA ReadFaults ==
  ASSUME BInv, NEW l \in Lines, Callback(l), fault' \in Faults(l)
  PROVE  OnlyKnownFaults'
<1>1. CallbackFault(l) \in {"none", "+BLESETPHY"}
  <2>1. l.t \in {"+BLECFGMTU", "+BLEDISCONN"} => ~Dangling(l.i) BY DEF BInv, SlotsLive, Lines
  <2> QED BY <2>1 DEF CallbackFault
<1>2. JoinFaults(l) \cup CutFaults(l) \subseteq {"none", "+BLESCAN", "+BLEGATT"}
  BY DEF JoinFaults, CutFaults
<1>3. ASSUME CallbackFault(l) = "+BLESETPHY"
      PROVE  UNCHANGED bleConnections /\ \E i \in Indexes : bleConnections[i] = NULL
  <2>1. l.t = "+BLESETPHY" /\ SearchFails(l.address) BY <1>3 DEF CallbackFault
  <2>2. PICK i \in Indexes : bleConnections[i] \notin DOMAIN heap BY <2>1 DEF SearchFails
  <2>3. bleConnections[i] = NULL BY <2>2 DEF BInv, SlotsLive, Dangling
  <2> QED BY <2>1, <2>3 DEF Callback, table
<1> QED BY <1>1, <1>2, <1>3 DEF Faults, OnlyKnownFaults

\* At its end a call fails as mtu(), getDeviceName() and getPublicBdAddr() do, or not at all.
LEMMA EndFaults ==
  ASSUME NEW ok, NEW index, fault' \in FaultsAtEnd(ok, index)
  PROVE  OnlyKnownFaults'
BY DEF FaultsAtEnd, OnlyKnownFaults

\* A command that is sent leaves the connections.
LEMMA Sends ==
  ASSUME fw \in Firmwares, NEW c \in Lines, SendCommand(c)
  PROVE  fw' \in Firmwares /\ fw'.link = fw.link
BY DEF SendCommand, Firmwares

\* So does a call that goes on or ends.
LEMMA ContinuesLink ==
  ASSUME fw \in Firmwares, NEW index, Continues(index)
  PROVE  fw' \in Firmwares /\ fw'.link = fw.link
<1>1. Answer("set") \in Lines BY Sayable DEF Texts
<1> QED BY <1>1, Sends DEF Continues

\* A line that is read between the calls
LEMMA PollKeeps ==
  ASSUME BInv, Poll
  PROVE  BInv'
<1>1. BTable' /\ Head(lines) \in Lines BY ReadKeeps DEF Poll, BInv
<1>2. OnlyKnownFaults' BY <1>1, ReadFaults DEF Poll
<1> QED BY <1>1, <1>2 DEF BTable, BInv

\* A line that is read in a call, whether it ends the wait or not
LEMMA WaitKeeps ==
  ASSUME BInv, Wait
  PROVE  BInv'
<1> DEFINE l == Head(lines)
           ok == l.t # "ERROR" \/ Claims(l)
<1>1. Reads /\ Callback(l) /\ intact' = intact BY DEF Wait
<1>2. \/ fault' \in Faults(l) /\ UNCHANGED fw
      \/ "none" \in Faults(l) /\ UNCHANGED fw /\ UNCHANGED fault
      \/ Continues(Named(l)) /\ fault' \in FaultsAtEnd(ok, Named(l))
  BY DEF Wait, Stays
<1>3. fw' \in Firmwares /\ fw'.link = fw.link BY <1>2, ContinuesLink DEF BInv
<1>4. BTable' /\ l \in Lines BY <1>1, <1>3, ReadKeeps
<1>5. fault = "none" BY <1>1 DEF Reads
<1> HIDE DEF l, ok
<1>6. OnlyKnownFaults' BY <1>1, <1>2, <1>4, <1>5, ReadFaults, EndFaults
<1> QED BY <1>4, <1>6 DEF BTable, BInv

\* What neither reads nor changes a slot
LEMMA SameTableKeeps ==
  ASSUME BInv, UNCHANGED <<bleConnections, heap, scanline, lines, intact>>,
         fw' \in Firmwares, fw'.link = fw.link
  PROVE  BTable'
<1>1. TypeOK' /\ SlotsLive' BY DEF BInv, TypeOK, SlotsLive, Dangling
<1>2. \A i \in Indexes : Remote(i)' = Remote(i) BY DEF Remote
<1>3. Follows' BY <1>2 DEF BInv, Follows
<1> QED BY <1>1, <1>3 DEF BTable, BInv

\* A call that is not answered
LEMMA SilenceKeeps ==
  ASSUME BInv, Silence
  PROVE  BInv'
<1>1. fw' \in Firmwares /\ fw'.link = fw.link BY ContinuesLink DEF Silence, BInv
<1>2. BTable' BY <1>1, SameTableKeeps DEF Silence, table, scan
<1>3. OnlyKnownFaults' BY EndFaults DEF Silence
<1> QED BY <1>2, <1>3 DEF BTable, BInv

\* A call that begins sends its command.
LEMMA EnterKeeps ==
  ASSUME BInv, NEW name, NEW c \in Lines, Enter(name, c), UNCHANGED table
  PROVE  BInv'
<1>1. fw' \in Firmwares /\ fw'.link = fw.link BY Sends DEF Enter, BInv
<1>2. BTable' BY <1>1, SameTableKeeps DEF Enter, table, scan
<1>3. OnlyKnownFaults' BY DEF Enter, BInv, OnlyKnownFaults, table
<1> QED BY <1>2, <1>3 DEF BTable, BInv

\* A call that uses the object in a slot finds it, or the slot is empty.
LEMMA SlotUseKeeps ==
  ASSUME BInv, NEW i \in Indexes, UpdateConnection(i) \/ SetMtu(i)
  PROVE  BInv'
<1>1. Answer("set") \in Lines BY Sayable DEF Texts
<1>2. CASE Simple BY <1>1, <1>2, EnterKeeps DEF Simple
<1>3. ASSUME NEW name \in {"updateConnection", "mtu(i, size)"},
             bleConnections[i] \notin DOMAIN heap, Misuses(name)
      PROVE  BInv'
  <2>1. UNCHANGED <<bleConnections, heap, scanline, lines, fw, intact>> /\ fault' = name
    BY <1>3 DEF Misuses, table, scan
  <2>2. fw \in Firmwares BY DEF BInv
  <2>3. BTable' BY <2>1, <2>2, SameTableKeeps
  <2>4. bleConnections[i] = NULL BY <1>3 DEF BInv, SlotsLive, Dangling
  <2>5. OnlyKnownFaults' BY <2>1, <2>4 DEF OnlyKnownFaults
  <2> QED BY <2>3, <2>5 DEF BTable, BInv
<1> QED BY <1>2, <1>3 DEF UpdateConnection, SetMtu

\* The object that bleConnect makes has no address yet, as the empty slot had none.
LEMMA BleConnectKeeps ==
  ASSUME BInv, NEW i \in Indexes, NEW a \in Addresses, BleConnect(i, a)
  PROVE  BInv'
<1> DEFINE c == Line("connect", i, a)
<1>1. c \in Lines /\ Enter("bleConnect", c) BY Sayable DEF BleConnect, Peers
<1>2. CASE UNCHANGED table BY <1>1, <1>2, EnterKeeps
<1>3. CASE bleConnections[i] = NULL /\ Allocates(i, Object(0, Unset))
  <2>1. Object(0, Unset).conn_index \in Indexes /\ Object(0, Unset).remote_address = Unset
    BY ConnectionsAssumption DEF Object, Indexes
  <2>2. TableOK BY DEF BInv, TypeOK, TableOK
  <2>3. /\ TableOK' /\ Remote(i)' = Unset
        /\ \A j \in Indexes : j # i => Remote(j)' = Remote(j)
    BY <1>3, <2>1, <2>2, Allocation
  <2>4. Remote(i) = Unset BY <1>3 DEF Remote
  <2>5. fw' \in Firmwares /\ fw'.link = fw.link BY <1>1, Sends DEF Enter, BInv
  <2>6. UNCHANGED <<scanline, lines, intact, fault>> /\ fault = "none" BY <1>1 DEF Enter, scan, Idle
  <2>7. TypeOK' /\ SlotsLive' BY <2>3, <2>6 DEF BInv, TypeOK, TableOK
  <2>8. Follows' BY <2>3, <2>4, <2>5, <2>6 DEF BInv, Follows
  <2>9. OnlyKnownFaults' BY <2>6 DEF OnlyKnownFaults
  <2> QED BY <2>5, <2>6, <2>7, <2>8, <2>9 DEF BInv
<1> QED BY <1>2, <1>3 DEF BleConnect

----------------------------------------------------------------------------
(* Scan results: those that wait in the lines, and the one that waits for   *)
(* its second row.                                                          *)

Scans(ls) == {n \in DOMAIN ls : ls[n].t = "+BLESCAN"}
Waiting(n) == IF n = 0 THEN 0 ELSE 1

LEMMA ScansFinite ==
  ASSUME NEW s \in Seq(Lines)
  PROVE  IsFiniteSet(Scans(s)) /\ Cardinality(Scans(s)) \in Nat
<1>1. Len(s) \in Nat /\ DOMAIN s = 1 .. Len(s) BY LenProperties
<1>2. IsFiniteSet(DOMAIN s) BY <1>1, FS_Interval
<1> QED BY <1>2, FS_Subset, FS_CardinalityType DEF Scans

\* What is said adds its scan results.
LEMMA ScansSaid ==
  ASSUME NEW s \in Seq(Lines), NEW t \in Seq(Lines)
  PROVE  /\ s \o t \in Seq(Lines)
         /\ Cardinality(Scans(s \o t)) = Cardinality(Scans(s)) + Cardinality(Scans(t))
<1> DEFINE moved == {Len(s) + n : n \in Scans(t)}
           move == [n \in Scans(t) |-> Len(s) + n]
<1>1. /\ s \o t \in Seq(Lines) /\ Len(s) \in Nat /\ Len(t) \in Nat
      /\ DOMAIN (s \o t) = 1 .. Len(s) + Len(t) /\ DOMAIN s = 1 .. Len(s) /\ DOMAIN t = 1 .. Len(t)
      /\ \A n \in DOMAIN s : (s \o t)[n] = s[n]
      /\ \A n \in DOMAIN t : (s \o t)[Len(s) + n] = t[n]
  BY Concat
<1>2. /\ IsFiniteSet(Scans(s)) /\ Cardinality(Scans(s)) \in Nat
      /\ IsFiniteSet(Scans(t)) /\ Cardinality(Scans(t)) \in Nat
  BY ScansFinite
<1>3. Scans(s) \subseteq 1 .. Len(s) /\ Scans(t) \subseteq 1 .. Len(t) BY <1>1 DEF Scans
<1>4. Scans(s \o t) = Scans(s) \cup moved
  <2>1. ASSUME NEW n \in Scans(s) PROVE n \in Scans(s \o t)
    BY <1>1, <2>1 DEF Scans
  <2>2. ASSUME NEW n \in Scans(t) PROVE Len(s) + n \in Scans(s \o t)
    BY <1>1, <2>2 DEF Scans
  <2>3. ASSUME NEW n \in Scans(s \o t) PROVE n \in Scans(s) \cup moved
    <3>1. n \in 1 .. Len(s) + Len(t) /\ (s \o t)[n].t = "+BLESCAN" BY <1>1, <2>3 DEF Scans
    <3>2. CASE n \in DOMAIN s BY <1>1, <3>1, <3>2 DEF Scans
    <3>3. CASE n \notin DOMAIN s
      <4>1. n - Len(s) \in DOMAIN t /\ n = Len(s) + (n - Len(s)) BY <1>1, <3>1, <3>3
      <4>2. n - Len(s) \in Scans(t) BY <1>1, <3>1, <4>1 DEF Scans
      <4> QED BY <4>1, <4>2
    <3> QED BY <3>2, <3>3
  <2> QED BY <2>1, <2>2, <2>3
<1>5. Scans(s) \cap moved = {} BY <1>1, <1>3
<1>6. move \in Bijection(Scans(t), moved)
  <2>1. move \in [Scans(t) -> moved] OBVIOUS
  <2>2. \A m, n \in Scans(t) : move[m] = move[n] => m = n BY <1>1, <1>3
  <2>3. \A k \in moved : \E n \in Scans(t) : move[n] = k OBVIOUS
  <2> QED BY <2>1, <2>2, <2>3 DEF Bijection, Injection, IsInjective, Surjection
<1>7. IsFiniteSet(moved) /\ Cardinality(moved) = Cardinality(Scans(t))
  <2>1. ExistsBijection(Scans(t), moved) BY <1>6 DEF ExistsBijection
  <2> QED BY <1>2, <2>1, FS_Bijection
<1>8. Cardinality(Scans(s) \cap moved) = 0 BY <1>5, FS_EmptySet
<1>9. Cardinality(Scans(s \o t)) = Cardinality(Scans(s)) + Cardinality(moved) - 0
  BY <1>2, <1>4, <1>7, <1>8, FS_Union
<1> QED BY <1>1, <1>2, <1>7, <1>9

\* One line is a scan result or none.
LEMMA ScansOne ==
  ASSUME NEW x \in Lines
  PROVE  /\ <<x>> \in Seq(Lines)
         /\ Cardinality(Scans(<<x>>)) = IF x.t = "+BLESCAN" THEN 1 ELSE 0
<1>1. <<x>> \in Seq(Lines) /\ DOMAIN <<x>> = {1} /\ <<x>>[1] = x BY SMT
<1>2. Scans(<<x>>) = IF x.t = "+BLESCAN" THEN {1} ELSE {} BY <1>1 DEF Scans
<1> QED BY <1>1, <1>2, FS_EmptySet, FS_Singleton

\* The line that is read was one of them or not.
LEMMA ScansRead ==
  ASSUME NEW s \in Seq(Lines), s # <<>>
  PROVE  /\ Head(s) \in Lines /\ Tail(s) \in Seq(Lines)
         /\ Cardinality(Scans(s)) =
              (IF Head(s).t = "+BLESCAN" THEN 1 ELSE 0) + Cardinality(Scans(Tail(s)))
<1>1. Head(s) \in Lines /\ Tail(s) \in Seq(Lines) BY HeadTailProperties
<1>2. s = <<Head(s)>> \o Tail(s) BY HeadTailProperties, <1>1
<1>3. /\ <<Head(s)>> \in Seq(Lines)
      /\ Cardinality(Scans(<<Head(s)>>)) = IF Head(s).t = "+BLESCAN" THEN 1 ELSE 0
  BY <1>1, ScansOne
<1>4. Cardinality(Scans(<<Head(s)>> \o Tail(s))) =
        Cardinality(Scans(<<Head(s)>>)) + Cardinality(Scans(Tail(s)))
  BY <1>1, <1>3, ScansSaid
<1> QED BY <1>1, <1>2, <1>3, <1>4

\* The lines of all other actions are no scan results.
Silent(ls) == ls \in Seq(Lines) /\ Cardinality(Scans(ls)) = 0

LEMMA SilentLines ==
  /\ \A l \in Lines : l.t # "+BLESCAN" => Silent(<<l>>)
  /\ \A l, m \in Lines : l.t # "+BLESCAN" /\ m.t # "+BLESCAN" => Silent(<<l, m>>)
  /\ \A k \in Nat, l \in Lines : l.t # "+BLESCAN" => Silent([n \in 1 .. k |-> l])
  /\ \A s, t : Silent(s) /\ Silent(t) => Silent(s \o t)
<1>1. ASSUME NEW l \in Lines, l.t # "+BLESCAN" PROVE Silent(<<l>>) BY <1>1, ScansOne DEF Silent
<1>2. ASSUME NEW s, NEW t, Silent(s), Silent(t) PROVE Silent(s \o t)
  BY <1>2, ScansSaid DEF Silent
<1>3. ASSUME NEW l \in Lines, NEW m \in Lines, l.t # "+BLESCAN", m.t # "+BLESCAN"
      PROVE  Silent(<<l, m>>)
  BY <1>1, <1>2, <1>3, Pair
<1>4. ASSUME NEW k \in Nat, NEW l \in Lines, l.t # "+BLESCAN" PROVE Silent([n \in 1 .. k |-> l])
  <2> DEFINE ls == [n \in 1 .. k |-> l]
  <2>1. ls \in Seq(Lines) /\ Scans(ls) = {} BY <1>4 DEF Scans
  <2> HIDE DEF ls
  <2>2. Silent(ls) BY <2>1, FS_EmptySet DEF Silent
  <2> QED BY <2>2 DEF ls
<1> QED BY <1>1, <1>2, <1>3, <1>4

\* Lines as the actions write them
LEMMA NoScanResult ==
  /\ \A t \in Texts : t \notin {"+BLECONN", "+BLEDISCONN", "+BLECFGMTU", "connect", "+BLESCAN"} =>
       Answer(t) \in Lines /\ Answer(t).t # "+BLESCAN"
  /\ \A i \in Indexes, a \in Peers :
       Line("+BLECONN", i, a) \in Lines /\ Line("+BLECONN", i, a).t # "+BLESCAN"
  /\ \A i \in Indexes :
       /\ Line("+BLEDISCONN", i, Unset) \in Lines /\ Line("+BLEDISCONN", i, Unset).t # "+BLESCAN"
       /\ Line("+BLECFGMTU", i, Unset) \in Lines /\ Line("+BLECFGMTU", i, Unset).t # "+BLESCAN"
  /\ \A a \in Peers : Line("+BLESETPHY", 0, a) \in Lines /\ Line("+BLESETPHY", 0, a).t # "+BLESCAN"
BY Sayable DEF Line, Answer

LEMMA ServicesSilent == \A s \in Services : Silent(s)
<1>1. /\ Answer("claimed") \in Lines /\ Answer("claimed").t # "+BLESCAN"
      /\ Answer("cut service") \in Lines /\ Answer("cut service").t # "+BLESCAN"
      /\ Answer("rest of a service") \in Lines /\ Answer("rest of a service").t # "+BLESCAN"
  BY NoScanResult DEF Texts
<1>2. Silent(<<>>)
  <2>1. <<>> \in Seq(Lines) /\ Scans(<<>>) = {} BY EmptySeq DEF Scans
  <2> QED BY <2>1, FS_EmptySet DEF Silent
<1>3. Silent(<<Answer("claimed")>>) /\ Silent(<<Answer("cut service"), Answer("rest of a service")>>)
  BY <1>1, SilentLines
<1> QED BY <1>2, <1>3 DEF Services

\* What the firmware does besides scanning and losing lines, it says silently.
LEMMA SaysSilently ==
  ASSUME BInv,
         \/ \E i \in Indexes : PeerLeaves(i) \/ \E a \in Addresses : PeerConnects(i, a)
         \/ Tells \/ Executes
  PROVE  owed' = owed /\ \E new : Silent(new) /\ lines' = lines \o new
<1>1. fw \in Firmwares /\ \A i \in Indexes : fw.link[i] \in Peers BY DEF BInv, Firmwares
<1>2. /\ Answer("OK") \in Lines /\ Answer("OK").t # "+BLESCAN"
      /\ Answer("ERROR") \in Lines /\ Answer("ERROR").t # "+BLESCAN"
      /\ Answer("claimed") \in Lines /\ Answer("claimed").t # "+BLESCAN"
      /\ Answer("+BLENAME") \in Lines /\ Answer("+BLENAME").t # "+BLESCAN"
      /\ Answer("+BLEADDR") \in Lines /\ Answer("+BLEADDR").t # "+BLESCAN"
  BY NoScanResult DEF Texts
<1>3. CASE \E i \in Indexes : PeerLeaves(i) \/ \E a \in Addresses : PeerConnects(i, a)
  <2>1. PICK i \in Indexes : PeerLeaves(i) \/ \E a \in Addresses : PeerConnects(i, a) BY <1>3
  <2>2. CASE PeerLeaves(i)
    BY <2>2, NoScanResult, SilentLines DEF PeerLeaves, Says
  <2>3. CASE \E a \in Addresses : PeerConnects(i, a)
    BY <2>3, NoScanResult, SilentLines DEF PeerConnects, Says, Peers
  <2> QED BY <2>1, <2>2, <2>3
<1>4. CASE Tells
  <2>1. CASE Says(<<Answer("claimed")>>)
    BY <1>2, <1>4, <2>1, SilentLines DEF Tells, Says
  <2>2. ASSUME NEW i \in Indexes, Says(<<Line("+BLECFGMTU", i, Unset)>>)
        PROVE  \E new : Silent(new) /\ lines' = lines \o new
    BY <2>2, NoScanResult, SilentLines DEF Says
  <2>3. ASSUME NEW i \in Indexes, Says(<<Line("+BLESETPHY", 0, fw.link[i])>>)
        PROVE  \E new : Silent(new) /\ lines' = lines \o new
    BY <1>1, <2>3, NoScanResult, SilentLines DEF Says
  <2> QED BY <1>4, <2>1, <2>2, <2>3 DEF Tells
<1>5. CASE Executes
  <2> DEFINE c == fw.command
  <2>1. c \in Lines BY <1>1 DEF Firmwares
  <2>2. \/ Says(<<Answer("ERROR")>>)
        \/ c.t = "connect" /\ \/ Says(<<Line("+BLECONN", c.i, c.address), Answer("OK")>>)
                              \/ Says(<<Answer("OK"), Line("+BLECONN", c.i, c.address)>>)
        \/ \E i \in Indexes : Says(<<Line("+BLECFGMTU", i, Unset), Answer("OK")>>)
        \/ Says(<<Answer("+BLENAME"), Answer("OK")>>) \/ Says(<<Answer("+BLEADDR"), Answer("OK")>>)
        \/ \E services \in Services : lines' = lines \o services \o <<Answer("OK")>>
        \/ Says(<<Answer("OK")>>)
    BY <1>5 DEF Executes
  <2>3. ASSUME NEW new, Silent(new), Says(new) PROVE \E n : Silent(n) /\ lines' = lines \o n
    BY <2>3 DEF Says
  <2>4. ASSUME c.t = "connect"
        PROVE  /\ Silent(<<Line("+BLECONN", c.i, c.address), Answer("OK")>>)
               /\ Silent(<<Answer("OK"), Line("+BLECONN", c.i, c.address)>>)
    <3>1. c.i \in Indexes /\ c.address \in Peers BY <2>1, <2>4 DEF Lines
    <3> QED BY <1>2, <3>1, NoScanResult, SilentLines
  <2>5. ASSUME NEW i \in Indexes PROVE Silent(<<Line("+BLECFGMTU", i, Unset), Answer("OK")>>)
    BY <1>2, NoScanResult, SilentLines
  <2>6. /\ Silent(<<Answer("+BLENAME"), Answer("OK")>>) /\ Silent(<<Answer("+BLEADDR"), Answer("OK")>>)
        /\ Silent(<<Answer("OK")>>) /\ Silent(<<Answer("ERROR")>>)
    BY <1>2, SilentLines
  <2>7. ASSUME NEW services \in Services, lines' = lines \o services \o <<Answer("OK")>>
        PROVE  \E new : Silent(new) /\ lines' = lines \o new
    <3>1. Silent(services \o <<Answer("OK")>>) BY <2>6, ServicesSilent, SilentLines
    <3>2. lines \in Seq(Lines) /\ services \in Seq(Lines) /\ <<Answer("OK")>> \in Seq(Lines)
      BY <2>6, ServicesSilent DEF Silent, BInv
    <3>3. lines' = lines \o (services \o <<Answer("OK")>>) BY <2>7, <3>2, ConcatAssociative
    <3> QED BY <3>1, <3>3
  <2>8. owed' = owed BY <1>5 DEF Executes
  <2> HIDE DEF c
  <2> QED BY <2>2, <2>3, <2>4, <2>5, <2>6, <2>7, <2>8
<1> QED BY <1>3, <1>4, <1>5

Owed == owed = Cardinality(Scans(lines)) + Waiting(scanline)

LEMMA FirmwareOwes ==
  ASSUME BInv, Owed, Firmware
  PROVE  Owed'
<1>1. scanline' = scanline /\ lines \in Seq(Lines) BY DEF Firmware, BInv
<1>2. Cardinality(Scans(lines)) \in Nat /\ Waiting(scanline) \in Nat BY <1>1, ScansFinite DEF Waiting
<1>3. CASE LineLost
  <2>1. /\ lines # <<>> /\ lines' = Tail(lines)
        /\ owed' = IF Head(lines).t = "+BLESCAN" THEN owed - 1 ELSE owed
    BY <1>3 DEF LineLost
  <2>2. /\ Tail(lines) \in Seq(Lines)
        /\ Cardinality(Scans(lines)) =
             (IF Head(lines).t = "+BLESCAN" THEN 1 ELSE 0) + Cardinality(Scans(Tail(lines)))
    BY <1>1, <2>1, ScansRead
  <2>3. Cardinality(Scans(Tail(lines))) \in Nat BY <2>2, ScansFinite
  <2> QED BY <1>1, <1>2, <2>1, <2>2, <2>3 DEF Owed
<1>4. ASSUME NEW rows \in 1 .. 3, ScanResult(rows) PROVE Owed'
  <2> DEFINE x == Line("+BLESCAN", rows, Unset)
             rest == [n \in 1 .. rows - 1 |-> Answer("rest of a result")]
  <2>1. x \in Lines /\ x.t = "+BLESCAN" BY Sayable DEF Line
  <2>2. Silent(rest)
    <3>1. rows - 1 \in Nat BY SMT
    <3>2. Answer("rest of a result") \in Lines /\ Answer("rest of a result").t # "+BLESCAN"
      BY NoScanResult DEF Texts
    <3> QED BY <3>1, <3>2, SilentLines
  <2>3. lines' = (lines \o <<x>>) \o rest /\ owed' = owed + 1 BY <1>4 DEF ScanResult
  <2> HIDE DEF x, rest
  <2>4. lines \o <<x>> \in Seq(Lines) /\ Cardinality(Scans(lines \o <<x>>)) = Cardinality(Scans(lines)) + 1
    BY <1>1, <2>1, ScansOne, ScansSaid
  <2>5. Cardinality(Scans(lines')) = Cardinality(Scans(lines)) + 1
    <3>1. rest \in Seq(Lines) /\ Cardinality(Scans(rest)) = 0 BY <2>2 DEF Silent
    <3>2. Cardinality(Scans((lines \o <<x>>) \o rest)) =
            Cardinality(Scans(lines \o <<x>>)) + Cardinality(Scans(rest))
      BY <2>4, <3>1, ScansSaid
    <3> QED BY <1>2, <2>3, <2>4, <3>1, <3>2
  <2> QED BY <1>1, <1>2, <2>3, <2>5 DEF Owed
<1>5. CASE \/ \E i \in Indexes : PeerLeaves(i) \/ \E a \in Addresses : PeerConnects(i, a)
           \/ Tells \/ Executes
  <2>1. owed' = owed /\ \E new : Silent(new) /\ lines' = lines \o new BY <1>5, SaysSilently
  <2>2. PICK new : Silent(new) /\ lines' = lines \o new BY <2>1
  <2>3. Cardinality(Scans(lines')) = Cardinality(Scans(lines))
    BY <1>1, <1>2, <2>2, ScansSaid DEF Silent
  <2> QED BY <1>1, <2>1, <2>3 DEF Owed
<1> QED BY <1>3, <1>4, <1>5 DEF Firmware

\* A line that is read gives the waiting result to the sketch, and may be the next one.
LEMMA CallbackOwes ==
  ASSUME BInv, Owed, Reads, Callback(Head(lines))
  PROVE  Owed'
<1> DEFINE l == Head(lines)
<1>1. lines \in Seq(Lines) /\ lines # <<>> /\ lines' = Tail(lines) BY DEF BInv, Reads
<1>2. /\ l \in Lines /\ Tail(lines) \in Seq(Lines)
      /\ Cardinality(Scans(lines)) =
           (IF l.t = "+BLESCAN" THEN 1 ELSE 0) + Cardinality(Scans(Tail(lines)))
  BY <1>1, ScansRead
<1>3. Cardinality(Scans(Tail(lines))) \in Nat BY <1>2, ScansFinite
<1>4. /\ owed' = IF scanline # 0 THEN owed - 1 ELSE owed
      /\ scanline' = IF l.t = "+BLESCAN" THEN l.i ELSE 0
  BY DEF Callback
<1>5. l.t = "+BLESCAN" => l.i # 0 BY <1>2 DEF Lines
<1> HIDE DEF l
<1> QED BY <1>1, <1>2, <1>3, <1>4, <1>5 DEF Owed, Waiting

LEMMA NextOwes == BInv /\ Owed /\ [Next]_vars => Owed'
<1> SUFFICES ASSUME BInv, Owed, [Next]_vars PROVE Owed'
  OBVIOUS
<1>1. CASE UNCHANGED <<lines, scan>> BY <1>1 DEF Owed, scan
<1>2. CASE Firmware BY <1>2, FirmwareOwes
<1>3. CASE Reads /\ Callback(Head(lines)) BY <1>3, CallbackOwes
<1>4. UNCHANGED vars => UNCHANGED <<lines, scan>> BY DEF vars
<1>5. Poll \/ Wait => Reads /\ Callback(Head(lines)) BY DEF Poll, Wait
<1>6. Manager => Poll \/ Wait \/ UNCHANGED <<lines, scan>>
  BY DEF Manager, BleConnect, DiscoverGATTServices, Simple, StartScan, StartAdvertising, Mtu,
         GetDeviceName, GetPublicBdAddr, UpdateConnection, SetMtu, Misuses, Enter, Silence
<1> QED BY <1>1, <1>2, <1>3, <1>4, <1>5, <1>6 DEF Next

----------------------------------------------------------------------------
(* The theorems. *)

\* The three facts of the induction: the first states, every step, and so always
LEMMA InitHolds == Init => BInv
<1> SUFFICES ASSUME Init PROVE BInv
  OBVIOUS
<1>1. NULL \in Objects \cup {NULL} /\ DOMAIN heap = {} /\ Len(lines) = 0 /\ lines \in Seq(Lines)
  BY DEF Init
<1>2. TypeOK BY <1>1, BoundsAssumption DEF Init, TypeOK
<1>3. SlotsLive /\ OnlyKnownFaults BY DEF Init, SlotsLive, Dangling, OnlyKnownFaults
<1>4. Answer("none") \in Lines BY Sayable DEF Texts
<1>5. fw \in Firmwares BY <1>4 DEF Init, Firmwares, Peers
<1>6. DOMAIN lines = {} BY <1>1 DEF Init
<1>7. LastSays(lines, fw.link) BY <1>6 DEF LastSays
<1>8. Follows BY DEF Init, Follows, Remote
<1> QED BY <1>1, <1>2, <1>3, <1>5, <1>7, <1>8 DEF BInv

LEMMA NextKeeps == BInv /\ [Next]_vars => BInv'
<1> SUFFICES ASSUME BInv, [Next]_vars PROVE BInv'
  OBVIOUS
<1>1. CASE UNCHANGED vars
  BY <1>1, SameTableKeeps DEF vars, table, scan, BTable, BInv, OnlyKnownFaults
<1>2. CASE Firmware BY <1>2, FirmwareKeeps
<1>3. ASSUME NEW i \in Indexes, NEW a \in Addresses, BleConnect(i, a) PROVE BInv'
  BY <1>3, BleConnectKeeps
<1>4. CASE \/ Simple \/ StartScan \/ StartAdvertising \/ Mtu \/ GetDeviceName \/ GetPublicBdAddr
           \/ DiscoverGATTServices
  <2>1. /\ Answer("set") \in Lines /\ Answer("mtu?") \in Lines /\ Answer("name?") \in Lines
        /\ Answer("discover") \in Lines /\ Answer("addr?") \in Lines
    BY Sayable DEF Texts
  <2> QED BY <1>4, <2>1, EnterKeeps
    DEF Simple, StartScan, StartAdvertising, Mtu, GetDeviceName, GetPublicBdAddr, DiscoverGATTServices
<1>5. CASE Poll BY <1>5, PollKeeps
<1>6. CASE Wait BY <1>6, WaitKeeps
<1>7. CASE Silence BY <1>7, SilenceKeeps
<1>8. ASSUME NEW i \in Indexes, UpdateConnection(i) \/ SetMtu(i) PROVE BInv'
  BY <1>8, SlotUseKeeps
<1> QED BY <1>1, <1>2, <1>3, <1>4, <1>5, <1>6, <1>7, <1>8 DEF Next, Manager

LEMMA AlwaysBInv == Spec => []BInv
BY InitHolds, NextKeeps, PTL DEF Spec

(* The slots have objects or NULL, the objects an index of a slot, and the  *)
(* lines not yet read stay within their bound (BLE.cpp:42).                 *)
THEOREM BleTypeCorrect == Spec => []TypeOK
<1>1. BInv => TypeOK BY DEF BInv
<1> QED BY <1>1, AlwaysBInv, PTL

(* No pointer of the table dangles, and no object is in two slots, whatever *)
(* order connections, failures and lost lines come in (BLE.cpp:111-235).    *)
THEOREM SlotsAlwaysLive == Spec => []SlotsLive
<1>1. BInv => SlotsLive BY DEF BInv
<1> QED BY <1>1, AlwaysBInv, PTL

(* Where the callback and the calls use a slot or a string: an empty slot   *)
(* is used by +BLESETPHY, updateConnection() and the two mtu(), a string    *)
(* that is NULL by mtu(), getDeviceName() and getPublicBdAddr(), text that  *)
(* is missing by joined rows and by cut lines about GATT services; nothing  *)
(* else is, +BLECFGMTU and +BLEDISCONN never (BLE.cpp:52-363, 427-442,      *)
(* 603-650).                                                                *)
THEOREM FaultsKnown == Spec => []OnlyKnownFaults
<1>1. BInv => OnlyKnownFaults BY DEF BInv
<1> QED BY <1>1, AlwaysBInv, PTL

(* When all lines about a slot have been read and none was lost, the slot   *)
(* has the peer that the firmware has, whichever call read them             *)
(* (BLE.cpp:111-131, 212-235; EspAtDrv.cpp:1981).                           *)
THEOREM TableAlwaysFollows == Spec => []TableFollowsFirmware
<1>1. BInv => TableFollowsFirmware
  <2> SUFFICES ASSUME BInv, intact, NEW i \in Indexes, Settled(i) PROVE Remote(i) = fw.link[i]
    BY DEF TableFollowsFirmware
  <2>1. NoneAbout(lines, i) BY DEF Settled, Pending, NoneAbout, About, AboutSlot
  <2> QED BY <2>1 DEF BInv, Follows
<1> QED BY <1>1, AlwaysBInv, PTL

(* Every scan result that was not lost is given to the sketch exactly once, *)
(* although its second row is whatever line comes next, and that line ends  *)
(* the wait of a call or is itself a scan result (BLE.cpp:56-109).           *)
THEOREM ScanResultsAlwaysOwed == Spec => []ScanResultsOwed
<1>1. Init => Owed
  <2> SUFFICES ASSUME Init PROVE Owed
    OBVIOUS
  <2>1. Scans(lines) = {} /\ owed = 0 /\ scanline = 0 BY DEF Init, Scans
  <2>2. Cardinality(Scans(lines)) = 0 BY <2>1, FS_EmptySet
  <2> QED BY <2>1, <2>2 DEF Owed, Waiting
<1>2. Owed => ScanResultsOwed
  <2>1. Pending({"+BLESCAN"}) = Scans(lines) BY DEF Pending, Scans
  <2> QED BY <2>1 DEF Owed, ScanResultsOwed, Waiting
<1> QED BY <1>1, <1>2, NextOwes, AlwaysBInv, PTL DEF Spec
=============================================================================
