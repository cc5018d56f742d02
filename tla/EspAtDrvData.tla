---------------------------- MODULE EspAtDrvData ----------------------------
(***************************************************************************)
(* linkInfo's count of the data that wait on a link is the firmware's, as    *)
(* soon as all is read: the proof of AvailableExact.                        *)
(*                                                                          *)
(* As in EspAtDrvProofs, the invariant speaks of positions in the line.  Some  *)
(* lines set the count of a link, the answer to CIPRECVDATA lessens it:     *)
(* Told(a, i, l) says that one who has read up to line i and counts a will   *)
(* count right when the line is read to its end.  It holds of a count of 0  *)
(* where a line starts a connection, of a list where it stands, and of the  *)
(* driver's own count at position 0.                                        *)
(***************************************************************************)
EXTENDS EspAtDrvProofs

(* An event about data of link l; a line that sets the count of l, which an  *)
(* event about a datagram that AT1 pushes does not; what it sets; a line    *)
(* that lessens it.                                                         *)
Arrives(m, l) == m.t = "IPD" /\ m.link = l
Sets(m, l) == m.t = "+CIPRECVLEN" \/ (Arrives(m, l) /\ ~(AT1 /\ l \in endpoint))
Count(m, l) == IF m.t = "IPD" THEN m.len ELSE m.lens[l]
Reads(m, l) == m.t = "+CIPRECVDATA" /\ call.h.link = l

(* Line i left n, and nothing behind it sets the count.                      *)
After(n, i, l) ==
  /\ \A k \in Wire : k > i /\ Reads(uart[k], l) => n = unread[l] + uart[k].len
  /\ (\A k \in Wire : k > i => ~Reads(uart[k], l)) => n = unread[l]
LastSet(j, l) == Sets(uart[j], l) /\ \A k \in Wire : k > j => ~Sets(uart[k], l)
Told(a, i, l) ==
  /\ \A j \in Wire : j > i /\ LastSet(j, l) => After(Count(uart[j], l), j, l)
  /\ (\A j \in Wire : j > i => ~Sets(uart[j], l)) => After(a, i, l)

(* checkLinks() has adopted connections whose data are still to be asked for. *)
Refreshing == pc = "drainSync" \/ (pc = "len" /\ request.cmd # "none")

(* The entry of link l stands for the connection that the firmware has.      *)
Settled(l) == IsConnected(l) /\ ~IsClosing(l) /\ ~Starting(l) /\ open[l] = conn[l]

EntryTells(l) ==
  Settled(l) => /\ Refreshing \/ Told(available[l], 0, l)
                /\ AT1 => (IsUdpListener(l) <=> l \in endpoint)

DataView == reliable => \A l \in Links : EntryTells(l)

ConnectTells ==
  reliable => \A l \in Links, i \in Wire :
    Opens(uart[i], l) /\ uart[i].conn = open[l] => Told(0, i, l)

ListTells ==
  reliable => \A i \in Wire : uart[i].t = "+CIPRECVLEN" =>
    \A l \in Links : uart[i].conns[l] = open[l] /\ open[l] # NoConn =>
      Told(uart[i].lens[l], i, l)

RefusalTells ==
  reliable /\ pc = "recv" =>
    \A i \in Wire : uart[i].t = "ERROR" => Told(0, i, call.h.link)

(* The answer to connect(): its link has no data yet, and listens if it was   *)
(* opened to.                                                               *)
StartTells ==
  pc = "start" => \A i \in Wire : uart[i].t = "OK" =>
    LET l == call.link IN
    /\ available[l] = 0
    /\ \A j \in Wire : j < i => ~Arrives(uart[j], l)
    /\ reliable /\ uart[i].conn = open[l] =>
         Told(0, i, l) /\ (l \in endpoint <=> call.kind = "UDP")

(* Before: if the firmware has no data on the link, nobody told of any.      *)
StartClear ==
  pc = "start" /\ request.cmd = "CIPSTART" =>
    LET l == call.link IN
    /\ request.kind = call.kind
    /\ unread[l] = 0 /\ l \notin endpoint =>
         available[l] = 0 /\ \A j \in Wire : ~Arrives(uart[j], l)

StartUnmarked == \A l \in Links : Starting(l) => ~IsUdpListener(l)

(* When connect() reads its answer the link is connected, whatever was read   *)
(* in between.                                                              *)
StartSeen ==
  pc = "start" => \A i \in Wire : uart[i].t = "OK" =>
    LET l == call.link IN
    \/ IsConnected(l) /\ \A k \in Wire : k < i => ~Ends(uart[k], l)
    \/ \E j \in Wire : /\ j < i /\ Opens(uart[j], l)
                       /\ \A k \in Wire : j < k /\ k < i => ~Ends(uart[k], l)

(* The answers about data come to the waits for them.                        *)
Awaited ==
  \A i \in Wire :
    /\ uart[i].t = "+CIPRECVDATA" =>
         pc = "recv" /\ \A j \in Wire : uart[j].t = "+CIPRECVDATA" => j = i
    /\ uart[i].t = "+CIPRECVLEN" => pc = "len"

(* What the firmware listens on is open, in its lists and in linkInfo.       *)
EndpointsOpen == \A l \in endpoint : open[l] # NoConn
EndpointsListed ==
  \A l \in endpoint : /\ \A i \in Wire : uart[i].t = "STATUS" => uart[i].conns[l] # NoConn
                      /\ Listing => call.list[l] # NoConn
EndpointsKnown ==
  AT1 /\ reliable => \A l \in endpoint :
    \/ Starting(l) /\ \E i \in Wire : uart[i].t = "OK" /\ uart[i].conn = open[l]
    \/ IsConnected(l) /\ conn[l] = open[l] /\ IsUdpListener(l) /\ ~Starting(l)

(* recvData() asks for something. *)
Sized ==
  /\ call.op = "recvData" => call.size > 0
  /\ request.cmd = "CIPRECVDATA" => request.size > 0

DataTells == DataView /\ ConnectTells /\ ListTells /\ RefusalTells
StartInv == StartTells /\ StartClear /\ StartUnmarked /\ StartSeen
EndpointInv == EndpointsOpen /\ EndpointsListed /\ EndpointsKnown
DataInv == DataTells /\ StartInv /\ EndpointInv /\ Awaited /\ Sized

----------------------------------------------------------------------------
(* The lines move up when one is read. *)

SameReads == call'.h.link = call.h.link \/ \A i \in Wire' : uart'[i].t # "+CIPRECVDATA"

LEMMA LinesMoved ==
  ASSUME TypeInv, Heard, UNCHANGED build, SameReads, NEW l, NEW j \in Wire'
  PROVE  /\ Sets(uart[j], l)' <=> Sets(uart[j + 1], l)
         /\ Reads(uart[j], l)' <=> Reads(uart[j + 1], l)
         /\ Arrives(uart[j], l)' <=> Arrives(uart[j + 1], l)
         /\ Count(uart[j], l)' = Count(uart[j + 1], l)
         /\ uart'[j] = uart[j + 1]
  <1>1. uart'[j] = uart[j + 1] /\ endpoint' = endpoint /\ AT1' = AT1
    BY HeardWire DEF Heard, AT1
  <1>2. Arrives(uart[j], l)' <=> Arrives(uart[j + 1], l)
    BY <1>1 DEF Arrives
  <1> QED BY <1>1, <1>2 DEF Sets, Reads, Count, SameReads

LEMMA AfterMoved ==
  ASSUME TypeInv, Heard, UNCHANGED <<build, unread>>, SameReads, NEW l, NEW i \in Nat,
         NEW n, After(n, i + 1, l)
  PROVE  After(n, i, l)'
  <1>1. /\ \A j \in Wire' : j \in Nat /\ j + 1 \in Wire
        /\ \A j \in Wire : j \in Nat /\ (j # 1 => j - 1 \in Wire')
    BY HeardWire, WireFacts
  <1>2. ASSUME NEW k \in Wire', k > i, Reads(uart[k], l)'
        PROVE  n = unread'[l] + uart'[k].len
    <2>1. k + 1 \in Wire /\ k + 1 > i + 1 /\ Reads(uart[k + 1], l) /\ uart'[k] = uart[k + 1]
      BY <1>1, <1>2, LinesMoved
    <2> QED BY <2>1 DEF After
  <1>3. ASSUME \A k \in Wire' : k > i => ~Reads(uart[k], l)'
        PROVE  n = unread'[l]
    <2>1. ASSUME NEW k \in Wire, k > i + 1 PROVE ~Reads(uart[k], l)
      <3>1. k - 1 \in Wire' /\ k - 1 > i /\ (k - 1) + 1 = k
        BY <1>1, <2>1
      <3> QED BY <1>3, <3>1, LinesMoved
    <2> QED BY <2>1 DEF After
  <1> QED BY <1>2, <1>3 DEF After

LEMMA ToldMoved ==
  ASSUME TypeInv, Heard, UNCHANGED <<build, unread>>, SameReads, NEW l, NEW i \in Nat,
         NEW a, Told(a, i + 1, l)
  PROVE  Told(a, i, l)'
  <1>1. /\ \A j \in Wire' : j \in Nat /\ j + 1 \in Wire
        /\ \A j \in Wire : j \in Nat /\ (j # 1 => j - 1 \in Wire')
    BY HeardWire, WireFacts
  <1>2. ASSUME NEW j \in Wire', j > i, LastSet(j, l)'
        PROVE  After(Count(uart[j], l), j, l)'
    <2>1. j + 1 \in Wire /\ j + 1 > i + 1
      BY <1>1, <1>2
    <2>2. j + 1 \in Wire /\ j + 1 > i + 1 /\ Sets(uart[j + 1], l)
      BY <1>2, <2>1, LinesMoved DEF LastSet
    <2>3. ASSUME NEW k \in Wire, k > j + 1 PROVE ~Sets(uart[k], l)
      <3>1. k - 1 \in Wire' /\ k - 1 > j /\ (k - 1) + 1 = k
        BY <1>1, <2>3
      <3> QED BY <1>2, <3>1, LinesMoved DEF LastSet
    <2>4. After(Count(uart[j + 1], l), j + 1, l)
      BY <2>2, <2>3 DEF Told, LastSet
    <2>5. PICK n : n = Count(uart[j + 1], l)
      OBVIOUS
    <2>6. After(n, j, l)'
      BY <1>1, <2>4, <2>5, AfterMoved
    <2>7. Count(uart[j], l)' = n
      BY <2>5, LinesMoved
    <2> QED BY <2>6, <2>7 DEF After
  <1>3. ASSUME \A j \in Wire' : j > i => ~Sets(uart[j], l)'
        PROVE  After(a, i, l)'
    <2>1. ASSUME NEW k \in Wire, k > i + 1 PROVE ~Sets(uart[k], l)
      <3>1. k - 1 \in Wire' /\ k - 1 > i /\ (k - 1) + 1 = k
        BY <1>1, <2>1
      <3> QED BY <1>3, <3>1, LinesMoved
    <2>2. After(a, i + 1, l)
      BY <2>1 DEF Told
    <2> QED BY <2>2, AfterMoved
  <1> QED BY <1>2, <1>3 DEF Told

LEMMA ToldStill ==
  ASSUME Still, UNCHANGED build, SameReads, NEW l, NEW i, NEW a, Told(a, i, l)
  PROVE  Told(a, i, l)'
  <1>1. UNCHANGED <<uart, unread, endpoint>> /\ Wire' = Wire /\ AT1' = AT1
    BY DEF Still, Wire, AT1
  <1>2. \A j \in Wire : /\ Sets(uart[j], l)' <=> Sets(uart[j], l)
                        /\ Reads(uart[j], l)' <=> Reads(uart[j], l)
                        /\ Count(uart[j], l)' = Count(uart[j], l)
    BY <1>1 DEF Sets, Arrives, Reads, Count, SameReads
  <1>3. \A n, j : After(n, j, l) => After(n, j, l)'
    BY <1>1, <1>2 DEF After
  <1>4. ASSUME NEW j \in Wire', j > i, LastSet(j, l)'
        PROVE  After(Count(uart[j], l), j, l)'
    <2>1. LastSet(j, l)
      BY <1>1, <1>2, <1>4 DEF LastSet
    <2>2. PICK n : n = Count(uart[j], l)
      OBVIOUS
    <2>3. After(n, j, l)'
      BY <1>1, <1>3, <1>4, <2>1, <2>2 DEF Told
    <2>4. Count(uart[j], l)' = n
      BY <1>1, <1>2, <2>2
    <2> QED BY <2>3, <2>4 DEF After
  <1>5. (\A j \in Wire' : j > i => ~Sets(uart[j], l)') => After(a, i, l)'
    BY <1>1, <1>2, <1>3 DEF Told
  <1> QED BY <1>4, <1>5 DEF Told

(* The count that line 1 leaves. *)
LEMMA ToldNext ==
  ASSUME TypeInv, uart # <<>>, NEW l \in Links, NEW a, Told(a, 0, l)
  PROVE  /\ Sets(uart[1], l) => Told(Count(uart[1], l), 1, l)
         /\ ~Sets(uart[1], l) /\ ~Reads(uart[1], l) => Told(a, 1, l)
         /\ ~Sets(uart[1], l) /\ Reads(uart[1], l) /\ Awaited => Told(Remaining(a, uart[1].len), 1, l)
  <1>1. 1 \in Wire /\ \A j \in Wire : j \in Nat /\ j > 0 /\ (j # 1 <=> j > 1)
    BY WireFacts
  <1>2. \A j \in Wire : j > 1 /\ LastSet(j, l) => After(Count(uart[j], l), j, l)
    BY <1>1 DEF Told
  <1>3. ASSUME Sets(uart[1], l), \A j \in Wire : j > 1 => ~Sets(uart[j], l)
        PROVE  After(Count(uart[1], l), 1, l)
    BY <1>1, <1>3 DEF Told, LastSet
  <1>4. ASSUME ~Sets(uart[1], l), \A j \in Wire : j > 1 => ~Sets(uart[j], l)
        PROVE  After(a, 0, l)
    BY <1>1, <1>4 DEF Told
  <1>5. ASSUME After(a, 0, l), ~Reads(uart[1], l)
        PROVE  After(a, 1, l)
    BY <1>1, <1>5 DEF After
  <1>6. ASSUME After(a, 0, l), Reads(uart[1], l), Awaited
        PROVE  After(Remaining(a, uart[1].len), 1, l)
    <2>1. \A k \in Wire : k > 1 => ~Reads(uart[k], l)
      BY <1>1, <1>6 DEF Awaited, Reads
    <2>2. a = unread[l] + uart[1].len
      BY <1>1, <1>6 DEF After
    <2>3. uart[1].len \in Nat
      <3>1. uart[1] \in Messages /\ uart[1].t = "+CIPRECVDATA"
        BY <1>1, <1>6, WireFacts DEF Reads
      <3> QED BY <3>1, MessageFields, BoundsAssumption
    <2>4. CASE unread[l] \in Nat
      BY <2>1, <2>2, <2>3, <2>4 DEF Remaining, After
    <2>5. unread[l] \in Nat
      BY TypeInvParts, BoundsAssumption DEF FwTypeOK
    <2> QED BY <2>4, <2>5
  <1> QED BY <1>2, <1>3, <1>4, <1>5, <1>6 DEF Told

----------------------------------------------------------------------------
(* The firmware adds lines. *)

Grows ==
  /\ \A i \in Wire : i \in Nat /\ i > 0 /\ i \in Wire' /\ uart'[i] = uart[i]
  /\ \A i \in Wire' : i \in Nat /\ i > 0 /\ (i \in Wire <=> i <= Len(uart))
  /\ Len(uart) \in Nat
NewLine(i) == i \in Wire' /\ i \notin Wire

SameEnds(l) == l \in endpoint' <=> l \in endpoint

QuietFor(l) ==
  /\ unread'[l] = unread[l] /\ SameEnds(l)
  /\ \A i : NewLine(i) => ~Sets(uart[i], l)' /\ ~Reads(uart[i], l)'

SetsFor(l) ==
  /\ SameEnds(l)
  /\ \E i : /\ NewLine(i) /\ Sets(uart[i], l)' /\ Count(uart[i], l)' = unread'[l]
            /\ \A j \in Wire' : j > i => ~Sets(uart[j], l)'
  /\ \A i : NewLine(i) => ~Reads(uart[i], l)'

ReadsFor(l) ==
  /\ SameEnds(l) /\ \A i \in Wire : uart[i].t # "+CIPRECVDATA"
  /\ \E i : /\ NewLine(i) /\ Reads(uart[i], l)' /\ unread[l] = unread'[l] + uart'[i].len
            /\ \A j : NewLine(j) /\ Reads(uart[j], l)' => j = i
  /\ \A i : NewLine(i) => ~Sets(uart[i], l)'

(* A line that sets the count makes up for what was counted before. *)
LEMMA ToldSet ==
  ASSUME Grows, NEW l, SetsFor(l), NEW i \in Nat, i <= Len(uart), NEW a
  PROVE  Told(a, i, l)'
  <1>1. /\ \A j \in Wire : j \in Nat /\ j \in Wire' /\ uart'[j] = uart[j]
        /\ \A j \in Wire' : j \in Nat /\ (j \in Wire \/ (NewLine(j) /\ j > Len(uart)))
        /\ \A j \in Wire : j <= Len(uart)
    BY DEF Grows, NewLine
  <1>2. PICK p : /\ NewLine(p) /\ Sets(uart[p], l)' /\ Count(uart[p], l)' = unread'[l]
                 /\ \A j \in Wire' : j > p => ~Sets(uart[j], l)'
    BY DEF SetsFor
  <1>3. p \in Wire' /\ p \in Nat /\ p > i
    BY <1>1, <1>2 DEF NewLine
  <1>4. ASSUME NEW k \in Wire', k > p PROVE ~Reads(uart[k], l)'
    <2>1. NewLine(k)
      BY <1>1, <1>2, <1>3, <1>4 DEF NewLine
    <2> QED BY <2>1 DEF SetsFor
  <1>5. After(Count(uart[p], l), p, l)'
    BY <1>2, <1>4 DEF After
  <1>6. \A j \in Wire' : LastSet(j, l)' => j = p
    <2> SUFFICES ASSUME NEW j \in Wire', LastSet(j, l)' PROVE j = p
      OBVIOUS
    <2>1. j \in Nat /\ ~(j > p) /\ ~(p > j)
      BY <1>1, <1>2, <1>3 DEF LastSet
    <2> QED BY <1>3, <2>1
  <1> QED BY <1>2, <1>3, <1>5, <1>6 DEF Told

LEMMA ToldGrown ==
  ASSUME Grows, UNCHANGED <<call, build>>, NEW l, QuietFor(l) \/ SetsFor(l) \/ ReadsFor(l),
         NEW i \in Nat, i <= Len(uart), NEW a, Told(a, i, l)
  PROVE  Told(a, i, l)'
  <1>1. /\ SameEnds(l) /\ AT1' = AT1 /\ call' = call
        /\ \A j \in Wire : j \in Nat /\ j \in Wire' /\ uart'[j] = uart[j]
        /\ \A j \in Wire' : j \in Nat /\ (j \in Wire \/ (NewLine(j) /\ j > Len(uart)))
        /\ \A j \in Wire : j <= Len(uart)
    BY DEF QuietFor, SetsFor, ReadsFor, Grows, NewLine, AT1
  <1>2. \A j \in Wire : /\ Sets(uart[j], l)' <=> Sets(uart[j], l)
                        /\ Reads(uart[j], l)' <=> Reads(uart[j], l)
                        /\ Count(uart[j], l)' = Count(uart[j], l)
    BY <1>1 DEF Sets, Arrives, Reads, Count, SameEnds
  <1>3. CASE QuietFor(l) \/ ReadsFor(l)
    <2>1. \A j \in Wire' : Sets(uart[j], l)' => j \in Wire
      BY <1>1, <1>3 DEF QuietFor, ReadsFor
    <2>2. ASSUME NEW n, NEW j \in Nat, After(n, j, l), j <= Len(uart)
          PROVE  After(n, j, l)'
      <3>1. CASE QuietFor(l)
        <4>1. \A k \in Wire' : Reads(uart[k], l)' => k \in Wire
          BY <1>1, <3>1 DEF QuietFor
        <4> QED BY <1>1, <1>2, <2>2, <3>1, <4>1 DEF After, QuietFor
      <3>2. CASE ReadsFor(l)
        <4>1. PICK p : /\ NewLine(p) /\ Reads(uart[p], l)' /\ unread[l] = unread'[l] + uart'[p].len
                       /\ \A k : NewLine(k) /\ Reads(uart[k], l)' => k = p
          BY <3>2 DEF ReadsFor
        <4>2. \A k \in Wire' : Reads(uart[k], l)' => k = p
          BY <1>1, <1>2, <3>2, <4>1 DEF ReadsFor, Reads
        <4>3. n = unread[l]
          BY <2>2, <3>2 DEF After, ReadsFor, Reads
        <4>4. p \in Wire' /\ p > j
          BY <1>1, <2>2, <4>1 DEF NewLine
        <4> QED BY <4>1, <4>2, <4>3, <4>4 DEF After
      <3> QED BY <1>3, <3>1, <3>2
    <2>3. ASSUME NEW j \in Wire', j > i, LastSet(j, l)'
          PROVE  After(Count(uart[j], l), j, l)'
      <3>1. j \in Wire
        BY <2>1, <2>3 DEF LastSet
      <3>2. LastSet(j, l)
        BY <1>1, <1>2, <2>3, <3>1 DEF LastSet
      <3>3. PICK n : n = Count(uart[j], l)
        OBVIOUS
      <3>4. After(n, j, l)
        BY <2>3, <3>1, <3>2, <3>3 DEF Told
      <3>5. After(n, j, l)'
        BY <1>1, <2>2, <3>1, <3>4
      <3>6. Count(uart[j], l)' = n
        BY <1>2, <3>1, <3>3
      <3> QED BY <3>5, <3>6 DEF After
    <2>4. ASSUME \A j \in Wire' : j > i => ~Sets(uart[j], l)'
          PROVE  After(a, i, l)'
      <3>1. After(a, i, l)
        BY <1>1, <1>2, <2>4 DEF Told
      <3> QED BY <2>2, <3>1
    <2> QED BY <2>3, <2>4 DEF Told
  <1>4. CASE SetsFor(l)
    BY <1>4, ToldSet
  <1> QED BY <1>3, <1>4

(* A line behind which the count does not change. *)
LEMMA ToldNew ==
  ASSUME NEW l, NEW i, NEW a, a = unread'[l],
         \A j \in Wire' : j > i => ~Sets(uart[j], l)' /\ ~Reads(uart[j], l)'
  PROVE  Told(a, i, l)'
  BY DEF Told, LastSet, After

----------------------------------------------------------------------------
(* What the firmware says about data. *)

Behind(i, l) == \A j \in Wire' : j > i => ~Sets(uart[j], l)' /\ ~Reads(uart[j], l)'

StartNews(i) ==
  LET l == call.link IN
  /\ request.cmd = "CIPSTART" /\ Behind(i, l)
  /\ unread[l] = 0 /\ unread'[l] = 0
  /\ l \notin endpoint /\ (l \in endpoint' <=> request.kind = "UDP")
  /\ \A j : NewLine(j) => ~Arrives(uart'[j], l)
  /\ \E j : /\ NewLine(j) /\ j < i /\ Opens(uart'[j], l)
            /\ \A k \in Wire' : j < k => ~Ends(uart'[k], l)

LineNews(i) ==
  /\ \A l \in Links :
       /\ Opens(uart'[i], l) => unread'[l] = 0 /\ Behind(i, l)
       /\ Arrives(uart'[i], l) => unread'[l] # 0 \/ l \in endpoint'
  /\ uart'[i].t = "+CIPRECVLEN" =>
       /\ pc = "len" /\ request.cmd # "none"
       /\ uart'[i].lens = unread' /\ \A l \in Links : Behind(i, l)
  /\ uart'[i].t = "ERROR" /\ pc = "recv" =>
       unread'[call.h.link] = 0 /\ Behind(i, call.h.link)
  /\ uart'[i].t = "OK" /\ pc = "start" => StartNews(i)
  /\ uart'[i].t = "+CIPRECVDATA" =>
       /\ pc = "recv" /\ request.cmd # "none"
       /\ \A j : NewLine(j) /\ uart'[j].t = "+CIPRECVDATA" => j = i

(* The link starts or ends at the host's command. *)
Retaken(l) == open'[l] # open[l] /\ request.cmd # "none" /\ pc \in {"start", "close"}

EndpointNews ==
  \A l \in endpoint' :
    \/ l \in endpoint /\ open'[l] = open[l]
    \/ /\ Starting(l) /\ request.cmd # "none" /\ open'[l] # NoConn
       /\ \E i : NewLine(i) /\ uart'[i].t = "OK" /\ uart'[i].conn = open'[l]

News ==
  /\ Grows /\ (reliable' => reliable)
  /\ request' = request \/ request'.cmd = "none"
  /\ request' = request =>
       \A l \in Links : unread'[l] = 0 /\ l \notin endpoint' => unread[l] = 0 /\ l \notin endpoint
  /\ reliable' => \A l \in Links : QuietFor(l) \/ SetsFor(l) \/ ReadsFor(l) \/ Retaken(l)
  /\ pc = "len" /\ request.cmd # "none" /\ request'.cmd = "none" => \A l \in Links : SetsFor(l)
  /\ \A i : NewLine(i) => LineNews(i)
  /\ EndpointNews

LEMMA LinesAdded ==
  ASSUME TypeInv, NEW msgs \in Seq(Messages), uart' = uart \o msgs
  PROVE  /\ Grows
         /\ \A i : NewLine(i) <=> i \in Len(uart) + 1 .. Len(uart) + Len(msgs)
         /\ \A i : NewLine(i) => i - Len(uart) \in DOMAIN msgs /\ uart'[i] = msgs[i - Len(uart)]
  <1>1. Wire = 1 .. Len(uart) /\ Len(uart) \in Nat /\ Len(msgs) \in Nat
    BY WireFacts
  <1>2. /\ Wire' = 1 .. Len(uart) + Len(msgs) /\ DOMAIN msgs = 1 .. Len(msgs)
        /\ \A i \in Wire : i \in Wire' /\ uart'[i] = uart[i]
        /\ \A i \in Wire' : i \in Wire \/ (i - Len(uart) \in DOMAIN msgs /\ uart'[i] = msgs[i - Len(uart)])
    BY GrownWire
  <1>3. Grows
    BY <1>1, <1>2 DEF Grows
  <1>4. \A i : NewLine(i) <=> i \in Len(uart) + 1 .. Len(uart) + Len(msgs)
    BY <1>1, <1>2 DEF NewLine
  <1> QED BY <1>2, <1>3, <1>4 DEF NewLine

(* A line is added, or one and then another. *)
AddsOne(m) ==
  LET n == Len(uart) IN
  Grows /\ (\A i : NewLine(i) <=> i = n + 1) /\ uart'[n + 1] = m
AddsTwo(m, m2) ==
  LET n == Len(uart) IN
  /\ Grows /\ (\A i : NewLine(i) <=> i = n + 1 \/ i = n + 2)
  /\ uart'[n + 1] = m /\ uart'[n + 2] = m2

LEMMA AnswerAdds ==
  ASSUME TypeInv, NEW m \in Messages, NEW n \in Messages
  PROVE  /\ Answer(<<m>>) => AddsOne(m)
         /\ Answer(<<m, n>>) => AddsTwo(m, n)
  <1>1. Len(uart) \in Nat /\ uart \in Seq(Messages)
    BY WireFacts
  <1>2. ASSUME Answer(<<m>>) PROVE AddsOne(m)
    <2> DEFINE msgs == <<m>>
    <2>1. msgs \in Seq(Messages) /\ Len(msgs) = 1 /\ msgs[1] = m
      OBVIOUS
    <2>2. uart' = uart \o msgs
      BY <1>2 DEF Answer
    <2> HIDE DEF msgs
    <2>3. \A i : NewLine(i) <=> i \in Len(uart) + 1 .. Len(uart) + 1
      BY <2>1, <2>2, LinesAdded
    <2>4. \A i : NewLine(i) <=> i = Len(uart) + 1
      BY <1>1, <2>3
    <2>5. uart'[Len(uart) + 1] = msgs[(Len(uart) + 1) - Len(uart)]
      BY <2>1, <2>2, <2>4, LinesAdded
    <2>6. (Len(uart) + 1) - Len(uart) = 1
      BY <1>1
    <2>7. Grows
      BY <2>1, <2>2, LinesAdded
    <2> QED BY <2>1, <2>4, <2>5, <2>6, <2>7 DEF AddsOne
  <1>3. ASSUME Answer(<<m, n>>) PROVE AddsTwo(m, n)
    <2> DEFINE msgs == <<m, n>>
    <2>1. msgs \in Seq(Messages) /\ Len(msgs) = 2 /\ msgs[1] = m /\ msgs[2] = n
      OBVIOUS
    <2>2. uart' = uart \o msgs
      BY <1>3 DEF Answer
    <2> HIDE DEF msgs
    <2>3. \A i : NewLine(i) <=> i \in Len(uart) + 1 .. Len(uart) + 2
      BY <2>1, <2>2, LinesAdded
    <2>4. \A i : NewLine(i) <=> i = Len(uart) + 1 \/ i = Len(uart) + 2
      BY <1>1, <2>3
    <2>5. /\ uart'[Len(uart) + 1] = msgs[(Len(uart) + 1) - Len(uart)]
          /\ uart'[Len(uart) + 2] = msgs[(Len(uart) + 2) - Len(uart)]
      BY <2>1, <2>2, <2>4, LinesAdded
    <2>6. (Len(uart) + 1) - Len(uart) = 1 /\ (Len(uart) + 2) - Len(uart) = 2
      BY <1>1
    <2>7. Grows
      BY <2>1, <2>2, LinesAdded
    <2> QED BY <2>1, <2>4, <2>5, <2>6, <2>7 DEF AddsTwo
  <1> QED BY <1>2, <1>3

LEMMA NotifyAdds ==
  ASSUME TypeInv, NEW m \in Messages, Notify(m)
  PROVE  \/ AddsOne(m) /\ reliable' = reliable
         \/ Grows /\ (\A i : ~NewLine(i)) /\ ~reliable'
  <1>1. Len(uart) \in Nat /\ uart \in Seq(Messages) /\ Wire = 1 .. Len(uart)
    BY WireFacts
  <1>2. CASE uart' = Append(uart, m) /\ UNCHANGED ghosts
    <2> DEFINE msgs == <<m>>
    <2>1. msgs \in Seq(Messages) /\ Len(msgs) = 1 /\ msgs[1] = m
      OBVIOUS
    <2>2. uart' = uart \o msgs
      BY <1>1, <1>2
    <2> HIDE DEF msgs
    <2>3. \A i : NewLine(i) <=> i \in Len(uart) + 1 .. Len(uart) + 1
      BY <2>1, <2>2, LinesAdded
    <2>4. \A i : NewLine(i) <=> i = Len(uart) + 1
      BY <1>1, <2>3
    <2>5. uart'[Len(uart) + 1] = msgs[(Len(uart) + 1) - Len(uart)]
      BY <2>1, <2>2, <2>4, LinesAdded
    <2>6. (Len(uart) + 1) - Len(uart) = 1
      BY <1>1
    <2>7. Grows
      BY <2>1, <2>2, LinesAdded
    <2> QED BY <1>2, <2>1, <2>4, <2>5, <2>6, <2>7 DEF AddsOne, ghosts
  <1>3. CASE Lose /\ UNCHANGED uart
    BY <1>1, <1>3 DEF Lose, Grows, NewLine, Wire
  <1> QED BY <1>2, <1>3 DEF Notify

(* Where the added lines are. *)
LEMMA AddedOne ==
  ASSUME NEW m, AddsOne(m), NEW n, n = Len(uart) + 1
  PROVE  /\ \A i : NewLine(i) => i = n /\ uart'[i] = m
         /\ n \in Wire' /\ \A l : Behind(n, l)
  <1>1. Len(uart) \in Nat /\ \A j \in Wire' : j \in Nat /\ (j \in Wire <=> j <= Len(uart))
    BY DEF AddsOne, Grows
  <1>2. \A j \in Wire' : ~(j > n)
    BY <1>1 DEF AddsOne, NewLine
  <1> QED BY <1>2 DEF AddsOne, Behind, NewLine

LEMMA AddedTwo ==
  ASSUME NEW m, NEW m2, AddsTwo(m, m2), NEW n, n = Len(uart) + 1
  PROVE  /\ Grows /\ \A i : NewLine(i) <=> i = n \/ i = n + 1
         /\ uart'[n] = m /\ uart'[n + 1] = m2
         /\ \A i : NewLine(i) => (i = n /\ uart'[i] = m) \/ (i = n + 1 /\ uart'[i] = m2)
         /\ n \in Wire' /\ n + 1 \in Wire' /\ n # n + 1
         /\ \A j \in Wire' : j > n => j = n + 1
         /\ \A l : Behind(n + 1, l)
  <1>1. Len(uart) \in Nat /\ \A j \in Wire' : j \in Nat /\ (j \in Wire <=> j <= Len(uart))
    BY DEF AddsTwo, Grows
  <1>2. n + 1 = Len(uart) + 2
    BY <1>1
  <1>3. \A j \in Wire' : j > n => j = n + 1
    BY <1>1, <1>2 DEF AddsTwo, NewLine
  <1>4. \A j \in Wire' : ~(j > n + 1)
    BY <1>1, <1>2, <1>3
  <1> QED BY <1>1, <1>2, <1>3, <1>4 DEF AddsTwo, Behind, NewLine

(* Lines that tell nothing about data, with no change to the links. *)
PlainLine(m) ==
  /\ m.t \notin {"CONNECT", "IPD", "+CIPRECVLEN", "+CIPRECVDATA"}
  /\ m.t = "ERROR" => pc # "recv"
  /\ m.t = "OK" => pc # "start"

LEMMA PlainNews ==
  ASSUME Grows, \A i : NewLine(i) => PlainLine(uart'[i]), UNCHANGED <<endpoint, unread>>,
         \A l \in endpoint : open'[l] = open[l], reliable' => reliable,
         request' = request \/ (request'.cmd = "none" /\ pc # "len")
  PROVE  News
  <1>1. \A i : NewLine(i) => LineNews(i)
    BY DEF PlainLine, LineNews, Opens, Arrives
  <1>2. \A l \in Links : QuietFor(l)
    BY DEF PlainLine, QuietFor, SameEnds, Sets, Reads, Arrives
  <1>3. EndpointNews
    BY DEF EndpointNews
  <1> QED BY <1>1, <1>2, <1>3 DEF News

LEMMA NetworkNews ==
  ASSUME TypeInv, EndpointsOpen, Network, build' = build
  PROVE  News
  <1>1. FwTypeOK /\ lastConn \in Conns
    BY TypeInvParts DEF FwTypeOK
  <1>2. PICK l \in Links : PeerConnects(l) \/ DataArrives(l) \/ PeerCloses(l)
    BY DEF Network
  <1>3. /\ open[l] \in Conns /\ unread[l] \in 0 .. MaxData /\ 1 \in 0 .. MaxData
        /\ endpoint \subseteq Links /\ unread[l] \in Nat
    BY <1>1, BoundsAssumption DEF FwTypeOK
  <1>4. CASE PeerConnects(l)
    <2> DEFINE m == Event("CONNECT", l, lastConn + 1, 0)
    <2>1. lastConn + 1 \in Conns
      BY <1>1, <1>4, BoundsAssumption DEF PeerConnects, Conns
    <2>2. m \in Messages /\ m.t = "CONNECT" /\ m.link = l
      BY <2>1, MessagesMade, ConstantFacts DEF EventTypes, Event
    <2>3. /\ Notify(m) /\ open[l] = NoConn /\ unread[l] = 0
          /\ UNCHANGED <<endpoint, unread, request>>
          /\ open' = [open EXCEPT ![l] = lastConn + 1]
      BY <1>4 DEF PeerConnects
    <2> HIDE DEF m
    <2>4. \A k \in endpoint : open'[k] = open[k]
      BY <1>1, <1>3, <2>3 DEF EndpointsOpen, FwTypeOK
    <2>5. CASE Grows /\ (\A i : ~NewLine(i)) /\ ~reliable'
      BY <2>3, <2>4, <2>5, PlainNews
    <2>6. CASE AddsOne(m) /\ reliable' = reliable
      <3>1. PICK n : n = Len(uart) + 1
        OBVIOUS
      <3>2. (\A i : NewLine(i) => i = n /\ uart'[i] = m) /\ \A k : Behind(n, k)
        BY <2>6, <3>1, AddedOne
      <3>3. \A i : NewLine(i) => LineNews(i)
        BY <2>2, <2>3, <3>2 DEF LineNews, Opens, Arrives
      <3>4. \A k \in Links : QuietFor(k)
        BY <2>2, <2>3, <3>2 DEF QuietFor, SameEnds, Sets, Reads, Arrives
      <3> QED BY <2>3, <2>4, <2>6, <3>3, <3>4 DEF News, EndpointNews, AddsOne
    <2> QED BY <2>2, <2>3, <2>5, <2>6, NotifyAdds
  <1>5. CASE DataArrives(l)
    <2>1. UNCHANGED <<open, endpoint, request>> /\ AT1' = AT1
      BY <1>5 DEF DataArrives, AT1
    <2>2. ASSUME NEW n \in 0 .. MaxData, Notify(Event("IPD", l, open[l], n)),
                 \A k \in Links \ {l} : unread'[k] = unread[k],
                 \/ AT1 /\ l \in endpoint /\ unread'[l] = unread[l]
                 \/ ~(AT1 /\ l \in endpoint) /\ unread'[l] = n /\ n # 0
          PROVE  News
      <3> DEFINE m == Event("IPD", l, open[l], n)
      <3>1. m \in Messages /\ m.t = "IPD" /\ m.link = l /\ m.len = n
        BY <1>3, MessagesMade DEF EventTypes, Event
      <3>2. Notify(m)
        BY <2>2
      <3> HIDE DEF m
      <3>3. EndpointNews
        BY <2>1 DEF EndpointNews
      <3>4. \A k \in Links : unread'[k] = 0 /\ k \notin endpoint' => unread[k] = 0 /\ k \notin endpoint
        BY <2>1, <2>2
      <3>5. CASE Grows /\ (\A i : ~NewLine(i)) /\ ~reliable'
        BY <2>1, <3>3, <3>4, <3>5 DEF News
      <3>6. CASE AddsOne(m) /\ reliable' = reliable
        <4>1. PICK p : p = Len(uart) + 1
          OBVIOUS
        <4>2. (\A i : NewLine(i) => i = p /\ uart'[i] = m) /\ NewLine(p) /\ \A k : Behind(p, k)
          BY <3>6, <4>1, AddedOne DEF AddsOne
        <4>3. \A i : NewLine(i) => LineNews(i)
          BY <2>1, <2>2, <3>1, <4>2 DEF LineNews, Opens, Arrives
        <4>4. ASSUME NEW k \in Links PROVE QuietFor(k) \/ SetsFor(k)
          <5>1. CASE k # l \/ (AT1 /\ l \in endpoint)
            BY <2>1, <2>2, <3>1, <4>2, <5>1 DEF QuietFor, SameEnds, Sets, Reads, Arrives
          <5>2. CASE k = l /\ ~(AT1 /\ l \in endpoint)
            <6>1. Sets(uart[p], l)' /\ Count(uart[p], l)' = unread'[l]
              BY <2>1, <2>2, <3>1, <4>2, <5>2 DEF Sets, Arrives, Count
            <6>2. \A j \in Wire' : j > p => ~Sets(uart[j], l)'
              BY <4>2 DEF Behind
            <6>3. \A i : NewLine(i) => ~Reads(uart[i], l)'
              BY <3>1, <4>2 DEF Reads
            <6> QED BY <2>1, <4>2, <5>2, <6>1, <6>2, <6>3 DEF SetsFor, SameEnds
          <5> QED BY <5>1, <5>2
        <4> QED BY <2>1, <3>3, <3>4, <3>6, <4>3, <4>4 DEF News, AddsOne
      <3> QED BY <3>1, <3>2, <3>5, <3>6, NotifyAdds
    <2>3. CASE AT1 /\ l \in endpoint
      <3>1. Notify(Event("IPD", l, open[l], 1)) /\ unread' = unread
        BY <1>5, <2>3 DEF DataArrives
      <3> QED BY <1>3, <2>2, <2>3, <3>1
    <2>4. CASE ~(AT1 /\ l \in endpoint)
      <3>1. /\ Notify(Event("IPD", l, open[l], unread[l] + 1)) /\ unread[l] < MaxData
            /\ unread' = [unread EXCEPT ![l] = @ + 1]
        BY <1>5, <2>4 DEF DataArrives
      <3>2. unread[l] + 1 \in 0 .. MaxData /\ unread[l] + 1 # 0
        BY <1>3, <3>1, BoundsAssumption
      <3>3. unread'[l] = unread[l] + 1 /\ \A k \in Links \ {l} : unread'[k] = unread[k]
        BY <1>1, <3>1 DEF FwTypeOK
      <3> QED BY <2>2, <2>4, <3>1, <3>2, <3>3
    <2> QED BY <2>3, <2>4
  <1>6. CASE PeerCloses(l)
    <2> DEFINE m == Event("CLOSED", l, open[l], 0)
    <2>1. m \in Messages /\ m.t = "CLOSED"
      BY <1>3, MessagesMade, ConstantFacts DEF EventTypes, Event
    <2>2. /\ Notify(m) /\ l \notin endpoint /\ UNCHANGED <<endpoint, unread, request>>
          /\ open' = [open EXCEPT ![l] = NoConn]
      BY <1>6 DEF PeerCloses
    <2> HIDE DEF m
    <2>3. \A k \in endpoint : open'[k] = open[k]
      BY <1>1, <1>3, <2>2 DEF FwTypeOK
    <2>4. Grows /\ (\A i : NewLine(i) => uart'[i] = m) /\ (reliable' => reliable)
      BY <2>1, <2>2, NotifyAdds, AddedOne DEF AddsOne
    <2>5. PlainLine(m)
      BY <2>1 DEF PlainLine
    <2> QED BY <2>2, <2>3, <2>4, <2>5, PlainNews
  <1> QED BY <1>2, <1>4, <1>5, <1>6

LEMMA ExecuteNews ==
  ASSUME TypeInv, EndpointsOpen, Asked, Unanswered, Sized, Execute, UNCHANGED <<build, call>>
  PROVE  News
  <1>1. FwTypeOK /\ CallOK /\ lastConn \in Conns /\ endpoint \subseteq Links
    BY TypeInvParts DEF FwTypeOK
  <1>2. request.cmd # "none"
    BY DEF Execute, ExecStart, ExecClose, ExecRecvData, ExecSend, ExecPayload, ExecStatus,
         ExecRecvLen, ExecOther, ExecReset, Executing
  <1>3. \A msgs : Answer(msgs) => request'.cmd = "none"
    BY DEF Answer, NoRequest, Command
  <1>4. UNCHANGED ghosts => reliable' = reliable
    BY DEF ghosts
  <1>5. ASSUME NEW m \in Messages, NEW n \in Messages, Answer(<<m>>) \/ Answer(<<m, n>>),
               PlainLine(m), Answer(<<m>>) \/ PlainLine(n),
               UNCHANGED <<endpoint, unread>>, \A l \in endpoint : open'[l] = open[l],
               reliable' => reliable, pc # "len"
        PROVE  News
    <2>1. \/ AddsOne(m)
          \/ AddsTwo(m, n) /\ PlainLine(n)
      BY <1>5, AnswerAdds
    <2>2. Grows /\ \A i : NewLine(i) => PlainLine(uart'[i])
      BY <1>5, <2>1, AddedOne, AddedTwo DEF AddsOne, AddsTwo
    <2> QED BY <1>3, <1>5, <2>2, PlainNews
  <1>6. ASSUME NEW m \in Messages, Answer(<<m>>), PlainLine(m), UNCHANGED <<endpoint, unread>>,
                \A l \in endpoint : open'[l] = open[l], reliable' => reliable, pc # "len"
         PROVE  News
    <2>1. Grows /\ \A i : NewLine(i) => PlainLine(uart'[i])
      BY <1>6, AnswerAdds, AddedOne DEF AddsOne
    <2> QED BY <1>3, <1>6, <2>1, PlainNews
  <1>7. CASE ExecStart
    <2> DEFINE l == request.link
               c == lastConn + 1
    <2>1. l \in Links /\ open[l] \in Conns /\ request.cmd = "CIPSTART" /\ unread' = unread
      BY <1>1, <1>7 DEF FwTypeOK, CallOK, ExecStart, Executing
    <2>2. pc = "start" /\ l = call.link /\ reliable' = reliable
      BY <1>4, <1>7, <2>1 DEF Asked, ExecStart
    <2>3. CASE /\ Answer(<<Event("CONNECT", l, c, 0), Started(c)>>)
               /\ open[l] = NoConn /\ unread[l] = 0 /\ lastConn < MaxConn
               /\ open' = [open EXCEPT ![l] = c]
               /\ endpoint' = IF request.kind = "UDP" THEN endpoint \cup {l} ELSE endpoint
      <3> DEFINE m == Event("CONNECT", l, c, 0)
                 n == Started(c)
      <3>1. c \in Conns /\ c # NoConn
        BY <1>1, <2>3, BoundsAssumption DEF Conns, NoConn
      <3>2. m \in Messages /\ m.t = "CONNECT" /\ m.link = l /\ m.conn = c
        BY <2>1, <3>1, MessagesMade, ConstantFacts DEF EventTypes, Event
      <3>3. n \in Messages /\ n.t = "OK" /\ n.conn = c
        BY <3>1, MessagesMade, AnswerLines
      <3>4. Answer(<<m, n>>)
        BY <2>3
      <3>5. open'[l] = c /\ \A k \in Links \ {l} : open'[k] = open[k]
        BY <1>1, <2>1, <2>3 DEF FwTypeOK
      <3> HIDE DEF m, n
      <3>6. PICK p : p = Len(uart) + 1
        OBVIOUS
      <3>7. /\ Grows /\ (\A i : NewLine(i) <=> i = p \/ i = p + 1)
            /\ \A i : NewLine(i) => (i = p /\ uart'[i] = m) \/ (i = p + 1 /\ uart'[i] = n)
            /\ uart'[p] = m /\ uart'[p + 1] = n /\ (\A j \in Wire' : j > p => j = p + 1) /\ \A k : Behind(p + 1, k)
        <4>1. AddsTwo(m, n)
          BY <3>2, <3>3, <3>4, AnswerAdds
        <4> QED BY <3>6, <4>1, AddedTwo
      <3>8. \A k : Behind(p, k)
        BY <3>2, <3>3, <3>7 DEF Behind, Sets, Reads, Arrives, NewLine
      <3>9. l \notin endpoint /\ (l \in endpoint' <=> request.kind = "UDP")
        BY <2>3 DEF EndpointsOpen
      <3>10. \A i : NewLine(i) => LineNews(i)
        <4>1. ASSUME NEW i, NewLine(i), uart'[i] = m, i = p PROVE LineNews(i)
          BY <2>1, <2>3, <3>2, <3>8, <4>1 DEF LineNews, Opens, Arrives
        <4>2. ASSUME NEW i, NewLine(i), uart'[i] = n, i = p + 1 PROVE LineNews(i)
          <5>1. \A j : NewLine(j) => ~Arrives(uart'[j], l)
            BY <3>2, <3>3, <3>7 DEF Arrives
          <5>2. \E j : /\ NewLine(j) /\ j < i /\ Opens(uart'[j], l)
                       /\ \A k \in Wire' : j < k => ~Ends(uart'[k], l)
            <6>1. NewLine(p) /\ p < i /\ Opens(uart'[p], l)
              BY <3>2, <3>6, <3>7, <4>2, WireFacts DEF Opens
            <6>2. \A k \in Wire' : p < k => ~Ends(uart'[k], l)
              BY <3>3, <3>7 DEF Ends
            <6> QED BY <6>1, <6>2
          <5>3. StartNews(i)
            BY <2>1, <2>2, <2>3, <3>7, <3>9, <4>2, <5>1, <5>2 DEF StartNews
          <5> QED BY <3>3, <4>2, <5>3 DEF LineNews, Opens, Arrives
        <4> QED BY <3>7, <4>1, <4>2
      <3>11. \A k \in Links : QuietFor(k) \/ Retaken(k)
        <4>1. Retaken(l)
          BY <1>2, <2>2, <2>3, <3>1, <3>5 DEF Retaken
        <4>2. ASSUME NEW k \in Links, k # l PROVE QuietFor(k)
          BY <2>1, <2>3, <3>2, <3>3, <3>7, <4>2 DEF QuietFor, SameEnds, Sets, Reads, Arrives
        <4> QED BY <4>1, <4>2
      <3>12. EndpointNews
        <4>1. \E i : NewLine(i) /\ uart'[i].t = "OK" /\ uart'[i].conn = open'[l]
          <5>1. NewLine(p + 1) /\ uart'[p + 1] = n
            BY <3>7
          <5> QED BY <3>3, <3>5, <5>1
        <4>2. ASSUME NEW k \in endpoint', k # l PROVE k \in endpoint /\ open'[k] = open[k]
          BY <1>1, <2>3, <3>5, <4>2
        <4> QED BY <1>2, <2>2, <3>1, <3>5, <4>1, <4>2 DEF EndpointNews, Starting
      <3> QED BY <1>2, <1>3, <2>2, <3>4, <3>7, <3>10, <3>11, <3>12 DEF News
    <2>4. CASE Answer(<<Event("CLOSED", l, NoConn, 0), ERROR>>) /\ UNCHANGED <<open, endpoint>>
      <3> DEFINE m == Event("CLOSED", l, NoConn, 0)
      <3>1. m \in Messages /\ m.t = "CLOSED" /\ ERROR \in Messages
        BY <2>1, MessagesMade, ConstantFacts DEF EventTypes, Event
      <3>2. Answer(<<m, ERROR>>)
        BY <2>4
      <3> HIDE DEF m
      <3>3. PlainLine(m) /\ PlainLine(ERROR)
        BY <2>2, <3>1, AnswerLines DEF PlainLine
      <3> QED BY <1>5, <2>1, <2>2, <2>4, <3>1, <3>2, <3>3
    <2>5. CASE Answer(<<ERROR>>) /\ UNCHANGED <<open, endpoint>>
      <3>1. PlainLine(ERROR)
        BY <2>2, AnswerLines DEF PlainLine
      <3> QED BY <1>5, <2>1, <2>2, <2>5, <3>1, MessagesMade
    <2> QED BY <1>7, <2>3, <2>4, <2>5 DEF ExecStart
  <1>8. CASE ExecClose
    <2> DEFINE l == request.link
    <2>1. l \in Links /\ open[l] \in Conns /\ request.cmd = "CIPCLOSE"
      BY <1>1, <1>8 DEF FwTypeOK, CallOK, ExecClose, Executing
    <2>2. pc = "close"
      BY <2>1 DEF Asked
    <2>3. PlainLine(OK) /\ PlainLine(ERROR) /\ PlainLine(UNLINK)
      BY <2>2, AnswerLines DEF PlainLine
    <2>4. CASE open[l] = NoConn
      BY <1>4, <1>8, <1>6, <2>2, <2>3, <2>4, MessagesMade DEF ExecClose
    <2>5. CASE open[l] # NoConn
      <3>1. /\ open' = [open EXCEPT ![l] = NoConn] /\ endpoint' = endpoint \ {l}
            /\ unread' = [unread EXCEPT ![l] = 0]
        BY <1>8, <2>5 DEF ExecClose
      <3>2. /\ \A k \in Links : k # l => open'[k] = open[k] /\ unread'[k] = unread[k] /\ SameEnds(k)
            /\ open'[l] = NoConn
        BY <1>1, <2>1, <3>1 DEF FwTypeOK, SameEnds
      <3>3. EndpointNews
        BY <1>1, <3>1, <3>2 DEF EndpointNews
      <3>4. Retaken(l)
        BY <1>2, <2>2, <2>5, <3>2 DEF Retaken
      <3>5. ASSUME Grows, reliable' => reliable, request'.cmd = "none",
                   \A i : NewLine(i) => PlainLine(uart'[i])
            PROVE  News
        <4>1. \A i : NewLine(i) => LineNews(i)
          BY <3>5 DEF PlainLine, LineNews, Opens, Arrives
        <4>2. \A k \in Links : k # l => QuietFor(k)
          BY <3>2, <3>5 DEF PlainLine, QuietFor, Sets, Reads, Arrives
        <4> QED BY <1>2, <2>2, <3>3, <3>4, <3>5, <4>1, <4>2 DEF News
      <3>6. CASE Answer(<<Event("CLOSED", l, open[l], 0), OK>>) /\ UNCHANGED ghosts
        <4> DEFINE m == Event("CLOSED", l, open[l], 0)
        <4>1. m \in Messages /\ m.t = "CLOSED" /\ OK \in Messages
          BY <2>1, MessagesMade, ConstantFacts DEF EventTypes, Event
        <4>2. Answer(<<m, OK>>)
          BY <3>6
        <4> HIDE DEF m
        <4>3. PlainLine(m)
          BY <4>1 DEF PlainLine
        <4>4. Grows /\ \A i : NewLine(i) => PlainLine(uart'[i])
          <5>1. AddsTwo(m, OK)
            BY <4>1, <4>2, AnswerAdds
          <5> QED BY <2>3, <4>3, <5>1, AddedTwo
        <4> QED BY <1>3, <1>4, <3>5, <3>6, <4>2, <4>4
      <3>7. CASE Answer(<<OK>>) /\ Lose
        <4>1. Grows /\ \A i : NewLine(i) => PlainLine(uart'[i])
          BY <2>3, <3>7, MessagesMade, AnswerAdds, AddedOne DEF AddsOne
        <4> QED BY <1>3, <3>5, <3>7, <4>1 DEF Lose
      <3> QED BY <1>8, <2>5, <3>6, <3>7 DEF ExecClose
    <2> QED BY <2>4, <2>5
  <1>9. CASE ExecRecvData
    <2>1. PICK l : l = request.link
      OBVIOUS
    <2> DEFINE n == IF request.size < unread[l] THEN request.size ELSE unread[l]
    <2>2. /\ pc = "recv" /\ l = call.h.link /\ l \in Links /\ UNCHANGED <<open, endpoint>>
          /\ reliable' = reliable
      BY <1>1, <1>4, <1>9, <2>1 DEF ExecRecvData, Executing, Asked, CallOK
    <2>3. request.size \in Nat /\ request.size # 0 /\ unread[l] \in Nat /\ unread[l] \in 0 .. MaxData
      BY <1>1, <1>9, <2>2, BoundsAssumption DEF FwTypeOK, Requests, Sized, ExecRecvData, Executing
    <2>4. n \in 0 .. MaxData /\ n \in Nat /\ (n = 0 => unread[l] = 0)
      BY <2>3, BoundsAssumption
    <2>5. unread' = [unread EXCEPT ![l] = @ - n]
      BY <1>9, <2>1 DEF ExecRecvData
    <2>6. unread'[l] = unread[l] - n /\ \A k \in Links : k # l => unread'[k] = unread[k]
      BY <1>1, <2>2, <2>5 DEF FwTypeOK
    <2>7. EndpointNews
      BY <2>2 DEF EndpointNews
    <2>8. Answer(IF n = 0 THEN <<ERROR>> ELSE <<CIPRECVDATA(n), OK>>)
      BY <1>9, <2>1 DEF ExecRecvData
    <2> HIDE DEF n
    <2>9. PICK p : p = Len(uart) + 1
      OBVIOUS
    <2>10. CASE n = 0 /\ Answer(<<ERROR>>)
      <3>1. (\A i : NewLine(i) => i = p /\ uart'[i] = ERROR) /\ Grows /\ \A k : Behind(p, k)
        BY <2>9, <2>10, MessagesMade, AnswerAdds, AddedOne DEF AddsOne
      <3>2. unread'[l] = unread[l] /\ unread[l] = 0
        BY <2>3, <2>4, <2>6, <2>10
      <3>3. \A i : NewLine(i) => LineNews(i)
        BY <2>2, <3>1, <3>2, AnswerLines DEF LineNews, Opens, Arrives
      <3>4. \A k \in Links : QuietFor(k)
        BY <2>2, <2>6, <3>1, <3>2, AnswerLines DEF QuietFor, SameEnds, Sets, Reads, Arrives
      <3> QED BY <1>2, <1>3, <2>2, <2>7, <2>10, <3>1, <3>3, <3>4 DEF News
    <2>11. CASE Answer(<<CIPRECVDATA(n), OK>>)
      <3>1. PICK m \in Messages : m = CIPRECVDATA(n)
        BY <2>4, MessagesMade
      <3>2. Answer(<<m, OK>>) /\ m.t = "+CIPRECVDATA" /\ m.len = n
        BY <2>11, <3>1, AnswerLines
      <3>3. /\ Grows /\ NewLine(p)
            /\ \A i : NewLine(i) => (i = p /\ uart'[i] = m) \/ (i = p + 1 /\ uart'[i] = OK)
            /\ p # p + 1
        <4>1. AddsTwo(m, OK)
          BY <3>2, MessagesMade, AnswerAdds
        <4> QED BY <2>9, <4>1, AddedTwo
      <3>4. \A i : NewLine(i) => LineNews(i)
        <4>1. ASSUME NEW i, NewLine(i), uart'[i] = m, i = p PROVE LineNews(i)
          <5>1. \A j : NewLine(j) /\ uart'[j].t = "+CIPRECVDATA" => j = i
            BY <3>3, <4>1, AnswerLines
          <5> QED BY <1>2, <2>2, <3>2, <4>1, <5>1 DEF LineNews, Opens, Arrives
        <4>2. ASSUME NEW i, NewLine(i), uart'[i] = OK PROVE LineNews(i)
          BY <2>2, <4>2, AnswerLines DEF LineNews, Opens, Arrives
        <4> QED BY <3>3, <4>1, <4>2
      <3>5. \A k \in Links : k # l => QuietFor(k)
        BY <2>2, <2>6, <3>2, <3>3, AnswerLines DEF QuietFor, SameEnds, Sets, Reads, Arrives
      <3>6. ReadsFor(l)
        <4>1. \A i \in Wire : uart[i].t # "+CIPRECVDATA"
          BY <1>2 DEF Unanswered, EventTypes
        <4>2. Reads(uart[p], l)' /\ unread[l] = unread'[l] + uart'[p].len
          <5>1. uart'[p] = m /\ call' = call
            BY <3>3
          <5>2. unread[l] = unread'[l] + n
            BY <2>3, <2>4, <2>6
          <5> QED BY <2>2, <3>2, <5>1, <5>2 DEF Reads
        <4>3. \A i : NewLine(i) => ~Sets(uart[i], l)'
          BY <2>2, <3>2, <3>3, AnswerLines DEF Sets, Arrives
        <4>4. \A j : NewLine(j) /\ Reads(uart[j], l)' => j = p
          BY <3>3, AnswerLines DEF Reads
        <4> QED BY <2>2, <3>3, <4>1, <4>2, <4>3, <4>4 DEF ReadsFor, SameEnds
      <3> QED BY <1>2, <1>3, <2>2, <2>7, <3>2, <3>3, <3>4, <3>5, <3>6 DEF News
    <2> QED BY <2>8, <2>10, <2>11
  <1>10. CASE ExecSend \/ ExecPayload
    <2>1. /\ pc \in {"prompt", "sent"} /\ UNCHANGED <<open, endpoint, unread, ghosts>>
      BY <1>10 DEF ExecSend, ExecPayload, Executing, Asked
    <2>2. PlainLine(ERROR) /\ PlainLine(PROMPT)
      BY <2>1, AnswerLines DEF PlainLine
    <2>3. PlainLine(RECV) /\ \A b : PlainLine(SEND(b))
      BY Zenon DEF RECV, SEND, PlainLine
    <2>4. \/ Answer(<<ERROR>>) \/ Answer(<<PROMPT>>)
          \/ \E b \in BOOLEAN : Answer(<<RECV, SEND(b)>>)
      BY <1>10 DEF ExecSend, ExecPayload
    <2>5. CASE Answer(<<ERROR>>) \/ Answer(<<PROMPT>>)
      BY <1>4, <1>6, <2>1, <2>2, <2>5, MessagesMade
    <2>6. CASE \E b \in BOOLEAN : Answer(<<RECV, SEND(b)>>)
      <3>1. PICK b \in BOOLEAN : Answer(<<RECV, SEND(b)>>)
        BY <2>6
      <3>2. PICK m \in Messages, n \in Messages : m = RECV /\ n = SEND(b)
        BY MessagesMade
      <3>3. Answer(<<m, n>>) /\ PlainLine(m) /\ PlainLine(n)
        BY <2>3, <3>1, <3>2
      <3>4. \A l \in endpoint : open'[l] = open[l]
        BY <2>1
      <3>5. reliable' => reliable
        BY <1>4, <2>1
      <3> QED BY <1>5, <2>1, <3>3, <3>4, <3>5
    <2> QED BY <2>4, <2>5, <2>6
  <1>11. CASE ExecStatus
    <2>1. /\ pc \in {"status", "params"} /\ UNCHANGED <<open, endpoint, unread, reliable>>
          /\ Answer(<<CIPSTATUS, OK>>)
      BY <1>11 DEF ExecStatus, Executing, Asked
    <2>2. PlainLine(CIPSTATUS) /\ PlainLine(OK) /\ CIPSTATUS \in Messages
      BY <1>1, <2>1, AnswerLines, ListsMade DEF PlainLine
    <2> QED BY <1>5, <2>1, <2>2, MessagesMade
  <1>12. CASE ExecRecvLen
    <2>1. /\ pc = "len" /\ UNCHANGED <<open, endpoint, unread, reliable>>
          /\ Answer(<<CIPRECVLEN, OK>>)
      BY <1>12 DEF ExecRecvLen, Executing, Asked
    <2>2. PICK m \in Messages : m = CIPRECVLEN
      BY <1>1, ListsMade
    <2>3. m.t = "+CIPRECVLEN" /\ m.lens = unread' /\ Answer(<<m, OK>>)
      BY <2>1, <2>2, AnswerLines
    <2>4. PICK p : p = Len(uart) + 1
      OBVIOUS
    <2>5. /\ Grows /\ NewLine(p) /\ uart'[p] = m
          /\ \A i : NewLine(i) => (i = p /\ uart'[i] = m) \/ (i = p + 1 /\ uart'[i] = OK)
          /\ \A j \in Wire' : j > p => j = p + 1 /\ uart'[j] = OK
      <3>1. AddsTwo(m, OK)
        BY <2>3, MessagesMade, AnswerAdds
      <3>2. \A j \in Wire' : j > p => j = p + 1
        BY <2>4, <3>1, AddedTwo
      <3>3. uart'[p] = m /\ uart'[p + 1] = OK /\ \A i : NewLine(i) => i = p \/ i = p + 1
        <4>1. p + 1 = Len(uart) + 2
          BY <2>4, WireFacts
        <4> QED BY <2>4, <3>1, <4>1 DEF AddsTwo
      <3>4. Grows /\ NewLine(p)
        BY <2>4, <3>1 DEF AddsTwo
      <3> QED BY <3>2, <3>3, <3>4
    <2>6. \A k : Behind(p, k)
      BY <2>1, <2>5, AnswerLines DEF Behind, Sets, Reads, Arrives
    <2>7. \A i : NewLine(i) => LineNews(i)
      BY <1>2, <2>1, <2>3, <2>5, <2>6, AnswerLines DEF LineNews, Opens, Arrives
    <2>8. ASSUME NEW k \in Links PROVE SetsFor(k)
      <3>1. Sets(uart[p], k)' /\ Count(uart[p], k)' = unread'[k]
        BY <2>3, <2>5 DEF Sets, Count
      <3>2. \A j \in Wire' : j > p => ~Sets(uart[j], k)'
        BY <2>6 DEF Behind
      <3>3. \A i : NewLine(i) => ~Reads(uart[i], k)'
        BY <2>3, <2>5, AnswerLines DEF Reads
      <3> QED BY <2>1, <2>5, <3>1, <3>2, <3>3 DEF SetsFor, SameEnds
    <2>9. EndpointNews
      BY <2>1 DEF EndpointNews
    <2> QED BY <1>2, <1>3, <2>1, <2>5, <2>7, <2>8, <2>9 DEF News
  <1>13. CASE ExecOther
    <2>1. pc \in {"closemode", "setup"} /\ UNCHANGED <<open, endpoint, unread, ghosts>> /\ Answer(<<OK>>)
      BY <1>13 DEF ExecOther, Asked
    <2>2. PlainLine(OK)
      BY <2>1, AnswerLines DEF PlainLine
    <2> QED BY <1>4, <1>6, <2>1, <2>2, MessagesMade
  <1>14. CASE ExecReset
    <2>1. endpoint' = {} /\ ~reliable' /\ Answer(<<READY>>) /\ pc # "len"
      BY <1>14 DEF ExecReset, Lose, Executing, Asked
    <2>2. Grows /\ \A i : NewLine(i) => uart'[i] = READY
      BY <2>1, MessagesMade, AnswerAdds, AddedOne DEF AddsOne
    <2>3. \A i : NewLine(i) => LineNews(i)
      BY <2>2, AnswerLines DEF LineNews, Opens, Arrives
    <2> QED BY <1>2, <1>3, <2>1, <2>2, <2>3 DEF News, EndpointNews
  <1> QED BY <1>7, <1>8, <1>9, <1>10, <1>11, <1>12, <1>13, <1>14 DEF Execute

----------------------------------------------------------------------------
(* What the lines tell of data stays true. *)

(* A connection that the firmware has was there before, unless it is new.    *)
OpenMoves == \A l \in Links : open'[l] \in {open[l], NoConn, lastConn + 1}

LEMMA SameConn ==
  ASSUME TypeInv, OpenMoves, NEW l \in Links, NEW c \in Conns, c # NoConn, c <= lastConn, open'[l] = c
  PROVE  open[l] = c
  <1>1. c \in Int /\ lastConn \in Int
    BY TypeInvParts, BoundsAssumption DEF FwTypeOK, Conns
  <1> QED BY <1>1 DEF OpenMoves

(* Lines name connections that there were. *)
LEMMA SaidBefore ==
  ASSUME TypeInv, View, NEW i \in Wire, NEW l \in Links
  PROVE  /\ Opens(uart[i], l) =>
              uart[i].conn \in Conns /\ uart[i].conn # NoConn /\ uart[i].conn <= lastConn
         /\ uart[i].t = "OK" /\ pc = "start" /\ call.link = l =>
              uart[i].conn \in Conns /\ uart[i].conn # NoConn /\ uart[i].conn <= lastConn
         /\ uart[i].t = "+CIPRECVLEN" /\ uart[i].conns[l] # NoConn =>
              uart[i].conns[l] \in Conns /\ uart[i].conns[l] <= lastConn
  <1>1. uart[i] \in Messages
    BY WireFacts
  <1>2. \A c \in Conns : c # NoConn /\ Says(uart[i], l, c) => c <= lastConn
    BY DEF View, Sayings, Holds, RealConns
  <1>3. Opens(uart[i], l) => uart[i].conn \in Conns /\ uart[i].conn # NoConn
    BY <1>1, MessageFields DEF Opens, View, Named, EventTypes
  <1>4. uart[i].t = "OK" /\ pc = "start" => uart[i].conn \in Conns /\ uart[i].conn # NoConn
    BY <1>1, MessageFields DEF View, Named
  <1>5. uart[i].t = "+CIPRECVLEN" => uart[i].conns[l] \in Conns
    BY <1>1, MessageFields
  <1> QED BY <1>2, <1>3, <1>4, <1>5 DEF Says, Opens

LEMMA FirmwareData ==
  ASSUME TypeInv, Unanswered, View, DataInv, News, FreshLines, OpenMoves,
         UNCHANGED <<build, drvVars>>
  PROVE  DataInv'
  <1>1. UNCHANGED <<call, pc, flags, conn, available>> /\ AT1' = AT1
    BY DEF drvVars, linkVars, AT1
  <1>2. /\ Grows /\ (reliable' => reliable) /\ Len(uart) \in Nat
        /\ \A i \in Wire : i \in Nat /\ i > 0 /\ i <= Len(uart) /\ i \in Wire' /\ uart'[i] = uart[i]
        /\ \A i \in Wire' : i \in Nat /\ (i \in Wire \/ (NewLine(i) /\ i > Len(uart)))
        /\ \A i : NewLine(i) => LineNews(i) /\ i \in Wire' /\ i \notin Wire
    BY DEF News, Grows, NewLine
  <1>3. ASSUME reliable', NEW l \in Links, ~Retaken(l), NEW i \in Nat, i <= Len(uart), NEW a,
               Told(a, i, l)
        PROVE  Told(a, i, l)'
    <2>1. QuietFor(l) \/ SetsFor(l) \/ ReadsFor(l)
      BY <1>3 DEF News
    <2> QED BY <1>1, <1>2, <1>3, <2>1, ToldGrown
  <1>4. \A l \in Links : open'[l] = open[l] \/ pc \notin {"start", "close"} => ~Retaken(l)
    BY DEF Retaken
  <1>5. ASSUME NEW l \in Links, reliable', ~Retaken(l)
        PROVE  l \in endpoint' <=> l \in endpoint
    BY <1>5 DEF News, QuietFor, SetsFor, ReadsFor, SameEnds
  <1>6. ASSUME NEW i \in Wire, uart[i].t \notin EventTypes
        PROVE  request.cmd = "none"
    BY <1>6 DEF Unanswered
  <1>7. DataView'
    <2> SUFFICES ASSUME reliable', NEW l \in Links, Settled(l)' PROVE EntryTells(l)'
      BY DEF DataView, EntryTells
    <2>1. IsConnected(l) /\ ~IsClosing(l) /\ ~Starting(l) /\ open'[l] = conn[l]
      BY <1>1 DEF Settled, IsConnected, IsClosing, Starting
    <2>2. conn[l] \in Conns /\ conn[l] # NoConn /\ conn[l] <= lastConn
      BY <2>1, TypeInvParts DEF LinkInfoOK, View, Named, EntryView, Holds
    <2>3. open[l] = conn[l] /\ Settled(l) /\ ~Retaken(l)
      <3>1. open[l] = conn[l]
        BY <2>1, <2>2, SameConn
      <3> QED BY <1>4, <2>1, <3>1 DEF Settled
    <2>4. EntryTells(l)
      BY <1>2 DEF DataInv, DataTells, DataView
    <2>5. AT1' => (IsUdpListener(l)' <=> l \in endpoint')
      BY <1>1, <1>5, <2>3, <2>4 DEF EntryTells, IsUdpListener
    <2>6. ASSUME ~Refreshing' PROVE Told(available[l], 0, l)'
      <3>1. PICK a : a = available[l]
        OBVIOUS
      <3>2. CASE Refreshing
        <4>1. pc = "len" /\ request.cmd # "none" /\ request'.cmd = "none"
          BY <1>1, <2>6, <3>2 DEF Refreshing
        <4>2. SetsFor(l)
          BY <4>1 DEF News
        <4>3. Told(a, 0, l)'
          BY <1>2, <4>2, ToldSet
        <4> QED BY <1>1, <3>1, <4>3 DEF Told
      <3>3. CASE ~Refreshing
        <4>1. Told(a, 0, l)
          BY <2>3, <2>4, <3>1, <3>3 DEF EntryTells
        <4>2. Told(a, 0, l)'
          BY <1>2, <1>3, <2>3, <4>1
        <4> QED BY <1>1, <3>1, <4>2 DEF Told
      <3> QED BY <3>2, <3>3
    <2> QED BY <2>5, <2>6 DEF EntryTells
  <1>8. ConnectTells'
    <2> SUFFICES ASSUME reliable', NEW l \in Links, NEW i \in Wire', Opens(uart'[i], l),
                        uart'[i].conn = open'[l]
                 PROVE  Told(0, i, l)'
      BY DEF ConnectTells, Opens
    <2>1. CASE i \in Wire
      <3>1. Opens(uart[i], l) /\ uart[i].conn = open'[l]
        BY <1>2, <2>1
      <3>2. open[l] = uart[i].conn
        BY <2>1, <3>1, SaidBefore, SameConn
      <3>3. Told(0, i, l)
        BY <1>2, <2>1, <3>1, <3>2 DEF DataInv, DataTells, ConnectTells
      <3> QED BY <1>2, <1>3, <1>4, <2>1, <3>1, <3>2, <3>3
    <2>2. CASE NewLine(i)
      <3>1. unread'[l] = 0 /\ Behind(i, l)
        BY <1>2, <2>2 DEF LineNews
      <3> QED BY <3>1, ToldNew DEF Behind
    <2> QED BY <1>2, <2>1, <2>2
  <1>9. ListTells'
    <2> SUFFICES ASSUME reliable', NEW i \in Wire', uart'[i].t = "+CIPRECVLEN", NEW l \in Links,
                        uart'[i].conns[l] = open'[l], open'[l] # NoConn
                 PROVE  Told(uart[i].lens[l], i, l)'
      BY DEF ListTells
    <2>1. PICK a : a = uart'[i].lens[l]
      OBVIOUS
    <2>2. CASE i \in Wire
      <3>1. uart[i].t = "+CIPRECVLEN" /\ uart[i].conns[l] = open'[l] /\ a = uart[i].lens[l]
        BY <1>2, <2>1, <2>2
      <3>2. open[l] = uart[i].conns[l]
        BY <2>2, <3>1, SaidBefore, SameConn
      <3>3. Told(a, i, l)
        BY <1>2, <2>2, <3>1, <3>2 DEF DataInv, DataTells, ListTells
      <3>4. Told(a, i, l)'
        BY <1>2, <1>3, <1>4, <2>2, <3>1, <3>2, <3>3
      <3> QED BY <2>1, <3>4 DEF Told
    <2>3. CASE NewLine(i)
      <3>1. a = unread'[l] /\ Behind(i, l)
        BY <1>2, <2>1, <2>3 DEF LineNews
      <3>2. Told(a, i, l)'
        BY <3>1, ToldNew DEF Behind
      <3> QED BY <2>1, <3>2 DEF Told
    <2> QED BY <1>2, <2>2, <2>3
  <1>10. RefusalTells'
    <2> SUFFICES ASSUME reliable', pc = "recv", NEW i \in Wire', uart'[i].t = "ERROR"
                 PROVE  Told(0, i, call.h.link)'
      BY <1>1 DEF RefusalTells
    <2>1. PICK l \in Links : l = call.h.link
      BY TypeInvParts, HandleFields DEF CallOK, NoHandleWaits
    <2>2. CASE i \in Wire
      <3>1. Told(0, i, l)
        BY <1>2, <2>1, <2>2 DEF DataInv, DataTells, RefusalTells
      <3>2. Told(0, i, l)'
        BY <1>2, <1>3, <1>4, <2>2, <3>1
      <3> QED BY <1>1, <2>1, <3>2 DEF Told
    <2>3. CASE NewLine(i)
      <3>1. unread'[l] = 0 /\ Behind(i, l)
        BY <1>2, <2>1, <2>3 DEF LineNews
      <3>2. Told(0, i, l)'
        BY <3>1, ToldNew DEF Behind
      <3> QED BY <1>1, <2>1, <3>2 DEF Told
    <2> QED BY <1>2, <2>2, <2>3
  <1>11. ASSUME pc = "start" PROVE call.link \in Links
    BY <1>11, TypeInvParts DEF CallOK
  <1>12. StartTells'
    <2> SUFFICES ASSUME pc = "start", NEW i \in Wire', uart'[i].t = "OK",
                        NEW l \in Links, l = call.link
                 PROVE  /\ available[l] = 0
                        /\ \A j \in Wire' : j < i => ~Arrives(uart'[j], l)
                        /\ reliable' /\ uart'[i].conn = open'[l] =>
                             Told(0, i, l)' /\ (l \in endpoint' <=> call.kind = "UDP")
      <3>1. call' = call /\ available' = available /\ pc' = pc
        BY <1>1
      <3> QED BY <1>11, <3>1 DEF StartTells, Arrives, Told, After, LastSet
    <2>1. CASE i \in Wire
      <3>1. uart[i].t = "OK" /\ uart'[i] = uart[i]
        BY <1>2, <2>1
      <3>2. /\ available[l] = 0 /\ \A j \in Wire : j < i => ~Arrives(uart[j], l)
            /\ reliable /\ uart[i].conn = open[l] => Told(0, i, l) /\ (l \in endpoint <=> call.kind = "UDP")
        BY <2>1, <3>1 DEF DataInv, StartInv, StartTells
      <3>3. \A j \in Wire' : j < i => j \in Wire
        BY <1>2, <2>1
      <3>4. ~Retaken(l)
        BY <1>6, <2>1, <3>1 DEF Retaken, EventTypes
      <3>5. ASSUME reliable', uart'[i].conn = open'[l]
            PROVE  Told(0, i, l)' /\ (l \in endpoint' <=> call.kind = "UDP")
        <4>1. open[l] = uart[i].conn
          BY <2>1, <3>1, <3>5, SaidBefore, SameConn
        <4>2. Told(0, i, l) /\ (l \in endpoint <=> call.kind = "UDP") /\ reliable'
          BY <1>2, <3>2, <3>5, <4>1
        <4>3. Told(0, i, l)'
          BY <1>2, <1>3, <2>1, <3>4, <4>2
        <4> QED BY <1>5, <3>4, <4>2, <4>3
      <3> QED BY <1>2, <3>2, <3>3, <3>5
    <2>2. CASE NewLine(i)
      <3>1. StartNews(i)
        BY <1>2, <2>2 DEF LineNews
      <3>2. /\ request.cmd = "CIPSTART" /\ unread'[l] = 0 /\ Behind(i, l)
            /\ unread[l] = 0 /\ l \notin endpoint /\ (l \in endpoint' <=> request.kind = "UDP")
            /\ \A j : NewLine(j) => ~Arrives(uart'[j], l)
        BY <3>1 DEF StartNews
      <3>3. request.kind = call.kind /\ available[l] = 0 /\ \A j \in Wire : ~Arrives(uart[j], l)
        BY <3>2 DEF DataInv, StartInv, StartClear
      <3>4. Told(0, i, l)'
        BY <3>2, ToldNew DEF Behind
      <3> QED BY <1>2, <3>2, <3>3, <3>4
    <2> QED BY <1>2, <2>1, <2>2
  <1>13. StartClear'
    <2> SUFFICES ASSUME pc = "start", request'.cmd = "CIPSTART", NEW l \in Links, l = call.link
                 PROVE  /\ request'.kind = call.kind
                        /\ unread'[l] = 0 /\ l \notin endpoint' =>
                             available[l] = 0 /\ \A j \in Wire' : ~Arrives(uart'[j], l)
      <3>1. call' = call /\ available' = available /\ pc' = pc
        BY <1>1
      <3> QED BY <1>11, <3>1 DEF StartClear, Arrives
    <2>1. request' = request
      BY DEF News
    <2>2. /\ request.kind = call.kind
          /\ unread[l] = 0 /\ l \notin endpoint =>
               available[l] = 0 /\ \A j \in Wire : ~Arrives(uart[j], l)
      BY <2>1 DEF DataInv, StartInv, StartClear
    <2>3. ASSUME unread'[l] = 0, l \notin endpoint'
          PROVE  available[l] = 0 /\ \A j \in Wire' : ~Arrives(uart'[j], l)
      <3>1. unread[l] = 0 /\ l \notin endpoint
        BY <2>1, <2>3 DEF News
      <3>2. \A j : NewLine(j) => ~Arrives(uart'[j], l)
        BY <1>2, <2>3 DEF LineNews
      <3> QED BY <1>2, <2>2, <3>1, <3>2
    <2> QED BY <2>1, <2>2, <2>3
  <1>14. StartUnmarked'
    BY <1>1 DEF DataInv, StartInv, StartUnmarked, Starting, IsUdpListener
  <1>15. StartSeen'
    <2> SUFFICES ASSUME pc = "start", NEW i \in Wire', uart'[i].t = "OK",
                        NEW l \in Links, l = call.link
                 PROVE  \/ IsConnected(l) /\ \A k \in Wire' : k < i => ~Ends(uart'[k], l)
                        \/ \E j \in Wire' : /\ j < i /\ Opens(uart'[j], l)
                                            /\ \A k \in Wire' : j < k /\ k < i => ~Ends(uart'[k], l)
      <3>1. call' = call /\ flags' = flags /\ pc' = pc
        BY <1>1
      <3> QED BY <1>11, <3>1 DEF StartSeen, IsConnected, Opens, Ends
    <2>1. CASE i \in Wire
      <3>1. uart[i].t = "OK" /\ \A k \in Wire' : k < i => k \in Wire /\ uart'[k] = uart[k]
        BY <1>2, <2>1
      <3>2. \/ IsConnected(l) /\ \A k \in Wire : k < i => ~Ends(uart[k], l)
            \/ \E j \in Wire : /\ j < i /\ Opens(uart[j], l)
                               /\ \A k \in Wire : j < k /\ k < i => ~Ends(uart[k], l)
        BY <2>1, <3>1 DEF DataInv, StartInv, StartSeen
      <3>3. CASE IsConnected(l) /\ \A k \in Wire : k < i => ~Ends(uart[k], l)
        BY <3>1, <3>3
      <3>4. ASSUME NEW j \in Wire, j < i, Opens(uart[j], l),
                   \A k \in Wire : j < k /\ k < i => ~Ends(uart[k], l)
            PROVE  \E n \in Wire' : /\ n < i /\ Opens(uart'[n], l)
                                    /\ \A k \in Wire' : n < k /\ k < i => ~Ends(uart'[k], l)
        <4>1. \A k \in Wire' : j < k /\ k < i => ~Ends(uart'[k], l)
          BY <3>1, <3>4
        <4>2. j \in Wire' /\ Opens(uart'[j], l)
          BY <1>2, <3>4
        <4> QED BY <3>4, <4>1, <4>2
      <3> QED BY <3>2, <3>3, <3>4
    <2>2. CASE NewLine(i)
      <3>1. StartNews(i)
        BY <1>2, <2>2 DEF LineNews
      <3>2. PICK j : /\ NewLine(j) /\ j < i /\ Opens(uart'[j], l)
                     /\ \A k \in Wire' : j < k => ~Ends(uart'[k], l)
        BY <3>1 DEF StartNews
      <3> QED BY <1>2, <3>2
    <2> QED BY <1>2, <2>1, <2>2
  <1>16. Awaited'
    <2> SUFFICES ASSUME NEW i \in Wire'
                 PROVE  /\ uart'[i].t = "+CIPRECVDATA" =>
                             pc = "recv" /\ \A j \in Wire' : uart'[j].t = "+CIPRECVDATA" => j = i
                        /\ uart'[i].t = "+CIPRECVLEN" => pc = "len"
      BY <1>1 DEF Awaited
    <2>1. ASSUME uart'[i].t = "+CIPRECVDATA"
          PROVE  pc = "recv" /\ \A j \in Wire' : uart'[j].t = "+CIPRECVDATA" => j = i
      <3>1. CASE i \in Wire
        <4>1. uart[i].t = "+CIPRECVDATA" /\ request.cmd = "none"
          BY <1>2, <1>6, <2>1, <3>1 DEF EventTypes
        <4>2. \A j : NewLine(j) => uart'[j].t # "+CIPRECVDATA"
          BY <1>2, <4>1 DEF LineNews
        <4> QED BY <1>2, <3>1, <4>1, <4>2 DEF DataInv, Awaited
      <3>2. CASE NewLine(i)
        <4>1. /\ pc = "recv" /\ request.cmd # "none"
              /\ \A j : NewLine(j) /\ uart'[j].t = "+CIPRECVDATA" => j = i
          BY <1>2, <2>1, <3>2 DEF LineNews
        <4>2. \A j \in Wire : uart[j].t # "+CIPRECVDATA"
          BY <1>6, <4>1 DEF EventTypes
        <4> QED BY <1>2, <4>1, <4>2
      <3> QED BY <1>2, <3>1, <3>2
    <2>2. uart'[i].t = "+CIPRECVLEN" => pc = "len"
      <3>1. CASE i \in Wire
        BY <1>2, <3>1 DEF DataInv, Awaited
      <3>2. CASE NewLine(i)
        BY <1>2, <3>2 DEF LineNews
      <3> QED BY <1>2, <3>1, <3>2
    <2> QED BY <2>1, <2>2
  <1>17. EndpointsOpen'
    BY DEF News, EndpointNews, DataInv, EndpointInv, EndpointsOpen
  <1>18. EndpointsListed'
    <2> SUFFICES ASSUME NEW l \in endpoint'
                 PROVE  /\ \A i \in Wire' : uart'[i].t = "STATUS" => uart'[i].conns[l] # NoConn
                        /\ Listing => call.list[l] # NoConn
      BY <1>1 DEF EndpointsListed, Listing
    <2>1. ASSUME NEW i \in Wire', i \notin Wire, uart'[i].t = "STATUS"
          PROVE  uart'[i].conns[l] # NoConn
      BY <1>17, <2>1 DEF FreshLines, Fresh, IsList, EndpointsOpen
    <2>2. CASE l \in endpoint
      BY <1>2, <2>1, <2>2 DEF DataInv, EndpointInv, EndpointsListed, NewLine
    <2>3. CASE l \notin endpoint
      <3>1. pc = "start" /\ request.cmd # "none"
        BY <2>3 DEF News, EndpointNews, Starting
      <3>2. \A i \in Wire : uart[i].t # "STATUS"
        BY <1>6, <3>1 DEF EventTypes
      <3> QED BY <1>2, <2>1, <3>1, <3>2 DEF NewLine, Listing
    <2> QED BY <2>2, <2>3
  <1>19. EndpointsKnown'
    <2> SUFFICES ASSUME AT1, reliable', NEW l \in endpoint'
                 PROVE  \/ Starting(l) /\ \E i \in Wire' : uart'[i].t = "OK" /\ uart'[i].conn = open'[l]
                        \/ /\ IsConnected(l) /\ conn[l] = open'[l] /\ IsUdpListener(l)
                           /\ ~Starting(l)
      BY <1>1 DEF EndpointsKnown, Starting, IsConnected, IsUdpListener
    <2>1. CASE l \in endpoint /\ open'[l] = open[l]
      BY <1>2, <2>1 DEF DataInv, EndpointInv, EndpointsKnown
    <2>2. CASE Starting(l) /\ \E i : NewLine(i) /\ uart'[i].t = "OK" /\ uart'[i].conn = open'[l]
      BY <1>2, <2>2
    <2> QED BY <2>1, <2>2 DEF News, EndpointNews
  <1>20. Sized'
    BY <1>1 DEF News, DataInv, Sized
  <1> QED BY <1>7, <1>8, <1>9, <1>10, <1>12, <1>13, <1>14, <1>15, <1>16, <1>17, <1>18, <1>19, <1>20
          DEF DataInv, DataTells, StartInv, EndpointInv

----------------------------------------------------------------------------
(* What the driver reads. *)

LEMMA OnlyListings ==
  ASSUME TypeInv, Dialogue, OnceInv, Awaited, Sketch \/ Driver
  PROVE  /\ Awaited' /\ SameReads
         /\ Still \/ Heard
         /\ Heard /\ Head(uart).t = "+CIPRECVDATA" => pc = "recv"
         /\ Heard /\ Head(uart).t = "+CIPRECVLEN" => pc = "len"
  <1>1. Still \/ Heard
    BY SketchWire, RxWire, BodyWire DEF Driver, Begins, Resumes
  <1>2. CASE Rx
    <2>1. Heard /\ UNCHANGED <<pc, call>>
      BY <1>2, RxWire
    <2>2. /\ \A i \in Wire' : i \in Nat /\ i + 1 \in Wire /\ uart'[i] = uart[i + 1]
          /\ \A i, j \in Wire' : i + 1 = j + 1 => i = j
          /\ 1 \in Wire /\ Head(uart) = uart[1]
      BY <2>1, HeardWire, WireFacts
    <2>3. Awaited'
      BY <2>1, <2>2 DEF Awaited
    <2> QED BY <1>1, <2>1, <2>2, <2>3 DEF SameReads, Awaited
  <1>3. CASE Still /\ (Sketch \/ uart = <<>>)
    <2>1. Wire' = Wire /\ uart' = uart /\ (uart = <<>> => Wire = {})
      BY <1>3, WireFacts DEF Still, Wire
    <2>2. ~Heard
      BY <2>1, SeqFacts, WireFacts DEF Heard
    <2>3. \A i \in Wire : uart[i].t \notin {"+CIPRECVDATA", "+CIPRECVLEN"}
      <3>1. CASE Sketch
        BY <3>1, SketchWire DEF Awaited
      <3> QED BY <1>3, <2>1, <3>1
    <2> QED BY <1>1, <2>1, <2>2, <2>3 DEF Awaited, SameReads
  <1>4. CASE Body /\ Resumes
    <2>1. Heard
      BY <1>4 DEF Resumes
    <2>2. /\ \A i \in Wire' : i \in Nat /\ i + 1 \in Wire /\ uart'[i] = uart[i + 1] /\ 1 < i + 1
          /\ 1 \in Wire /\ Head(uart) = uart[1]
      BY <2>1, HeardWire, WireFacts
    <2>3. ASSUME NEW i \in Wire' PROVE uart'[i].t # "+CIPRECVDATA"
      <3>1. SUFFICES ASSUME uart'[i].t = "+CIPRECVDATA" PROVE FALSE
        OBVIOUS
      <3>2. pc = "recv" /\ \A j \in Wire : uart[j].t = "+CIPRECVDATA" => j = i + 1
        BY <2>2, <3>1 DEF Awaited
      <3>3. Head(uart).t = "ERROR"
        <4>1. RecvData \/ RecvTruncated \/ RecvFails
          BY <1>4, <3>2 DEF Body, CheckFails, NewClientLinkId, ConnectStart, ConnectDone, ConnectFails,
             CloseStart, CloseModeDone, CloseDone, Known, SyncLinkInfo, CheckLinksListed, CheckLinks,
             RecvLenStart, RecvLenQuery, SyncDone, RecvNothing, RecvStart, RecvDone, SendStart,
             SendPayload, SendReceived, SendDone, ParamsStart, ParamsListed, ParamsDone,
             ResetStart, ResetReady, ResetDone, CommandFails,
             Drained, Checked, Matched, Matches, Refused, Accepted
        <4>2. Head(uart).t \in {"+CIPRECVDATA", "ERROR"}
          BY <3>2, <4>1 DEF RecvData, RecvTruncated, RecvFails, Matched, Matches, Refused, Expected
        <4>3. 1 # i + 1
          BY <2>2
        <4> QED BY <2>2, <3>2, <4>2, <4>3
      <3> QED BY <2>2, <3>1, <3>3 DEF Dialogue, EndsLast, Final, EventTypes
    <2>4. ASSUME NEW i \in Wire' PROVE uart'[i].t # "+CIPRECVLEN"
      <3>1. SUFFICES ASSUME uart'[i].t = "+CIPRECVLEN" PROVE FALSE
        OBVIOUS
      <3>2. pc = "len"
        BY <2>2, <3>1 DEF Awaited
      <3>3. RecvLenQuery
        BY <1>4, <3>2 DEF Body, CheckFails, NewClientLinkId, ConnectStart, ConnectDone, ConnectFails,
           CloseStart, CloseModeDone, CloseDone, Known, SyncLinkInfo, CheckLinksListed, CheckLinks,
           RecvLenStart, SyncDone, RecvNothing, RecvStart, RecvData, RecvTruncated, RecvFails, RecvDone,
           SendStart, SendPayload, SendReceived, SendDone, ParamsStart, ParamsListed, ParamsDone,
           ResetStart, ResetReady, ResetDone, CommandFails,
           Drained, Checked, Matched, Matches, Refused, Accepted
      <3>4. Head(uart).t = "+CIPRECVLEN"
        BY <3>2, <3>3 DEF RecvLenQuery, Matched, Matches, Expected
      <3> QED BY <2>2, <3>1, <3>4 DEF OnceInv, OneList, IsList
    <2> QED BY <1>1, <2>2, <2>3, <2>4 DEF Awaited, SameReads
  <1>5. Begins => Still /\ uart = <<>>
    BY DEF Begins
  <1>6. Sketch => Still
    BY SketchWire
  <1> QED BY <1>2, <1>3, <1>4, <1>5, <1>6, BodyWire DEF Driver

(* The count of a link where the driver has not asked for it anew.           *)
LEMMA ToldAfter ==
  ASSUME TypeInv, Heard, UNCHANGED build, SameReads, NEW l \in Links, NEW a, Told(a, 1, l)
  PROVE  Told(a, 0, l)'
  <1>1. unread' = unread /\ 0 + 1 = 1 /\ 0 \in Nat
    BY DEF Heard
  <1> QED BY <1>1, ToldMoved

LEMMA ToldKept ==
  ASSUME TypeInv, UNCHANGED build, SameReads, NEW l \in Links, NEW a, Told(a, 0, l),
         Still \/ (Heard /\ ~Sets(Head(uart), l) /\ ~Reads(Head(uart), l))
  PROVE  Told(a, 0, l)'
  <1>1. CASE Still
    BY <1>1, ToldStill
  <1>2. CASE Heard /\ ~Sets(Head(uart), l) /\ ~Reads(Head(uart), l)
    <2>1. uart # <<>> /\ Head(uart) = uart[1]
      BY <1>2, WireFacts DEF Heard
    <2>2. Told(a, 1, l)
      BY <1>2, <2>1, ToldNext
    <2> QED BY <1>2, <2>2, ToldAfter
  <1> QED BY <1>1, <1>2

(* The entry of l tells of the same connection as before, and what was read  *)
(* does not tell of its data.                                               *)
SameEntry(l) ==
  /\ IsConnected(l)' => IsConnected(l) /\ (IsClosing(l) => IsClosing(l)')
  /\ IsUdpListener(l)' <=> IsUdpListener(l)
  /\ conn'[l] = conn[l] /\ available'[l] = available[l] /\ (Starting(l) => Starting(l)')

LEMMA EntryStays ==
  ASSUME TypeInv, UNCHANGED build, SameReads, NEW l \in Links, EntryTells(l), SameEntry(l),
         Still \/ (Heard /\ ~Sets(Head(uart), l) /\ ~Reads(Head(uart), l)),
         Refreshing => Refreshing'
  PROVE  EntryTells(l)'
  <1>1. open' = open /\ endpoint' = endpoint /\ AT1' = AT1
    BY DEF Still, Heard, AT1
  <1> SUFFICES ASSUME Settled(l)'
               PROVE  /\ Refreshing' \/ Told(available[l], 0, l)'
                      /\ AT1' => (IsUdpListener(l)' <=> l \in endpoint')
    BY DEF EntryTells
  <1>2. Settled(l)
    BY <1>1 DEF Settled, SameEntry
  <1>3. ASSUME ~Refreshing' PROVE Told(available[l], 0, l)'
    <2>1. PICK a : a = available[l]
      OBVIOUS
    <2>2. Told(a, 0, l)
      BY <1>2, <1>3, <2>1 DEF EntryTells
    <2>3. Told(a, 0, l)'
      BY <2>2, ToldKept
    <2> QED BY <2>1, <2>3 DEF Told, SameEntry
  <1> QED BY <1>1, <1>2, <1>3 DEF EntryTells, SameEntry

(* A line about link l says nothing new of the connection that the firmware  *)
(* has, if the entry stands for it.                                         *)
LEMMA NoneTurned ==
  ASSUME TypeInv, View, uart # <<>>, NEW l \in Links, reliable,
         IsConnected(l), conn[l] # NoConn, conn[l] = open[l]
  PROVE  ~Turns(Head(uart), l)
  <1>1. 1 \in Wire /\ Head(uart) = uart[1] /\ \A j \in Wire : j > 0 /\ (j > 1 => j > 0)
    BY WireFacts
  <1>2. /\ ~ClosedAfter(0, l)
        /\ \A j \in Wire : j > 0 /\ Opens(uart[j], l) => uart[j].conn > conn[l]
    BY DEF View, EntryView, Holds
  <1>3. ~Ends(uart[1], l)
    BY <1>1, <1>2 DEF ClosedAfter
  <1>4. ASSUME Opens(uart[1], l) PROVE FALSE
    <2>1. uart[1].conn > conn[l]
      BY <1>1, <1>2, <1>4
    <2>2. uart[1].conn \in RealConns
      BY <1>1, <1>4, SaidBefore DEF RealConns
    <2>3. Holds(1, l, uart[1].conn)
      BY <1>1, <1>4, <2>2 DEF View, Sayings, Says, Opens
    <2>4. open[l] = uart[1].conn
      BY <1>1, <1>2, <2>3 DEF Holds, ClosedAfter
    <2>5. conn[l] \in Int
      BY TypeInvParts, BoundsAssumption DEF LinkInfoOK, Conns
    <2> QED BY <2>1, <2>4, <2>5
  <1> QED BY <1>1, <1>3, <1>4 DEF Turns

(* What listens has its entry. *)
LEMMA Listened ==
  ASSUME TypeInv, EndpointInv, AT1, reliable, NEW l \in Links, l \in endpoint, ~Starting(l)
  PROVE  IsConnected(l) /\ conn[l] = open[l] /\ conn[l] # NoConn /\ IsUdpListener(l)
  BY DEF EndpointInv, EndpointsKnown, EndpointsOpen

LEMMA OneEntry ==
  ASSUME TypeInv, NEW k, NEW l \in Links, l # k, NEW f, NEW c, NEW n,
         flags' = [flags EXCEPT ![k] = f] \/ flags' = flags,
         conn' = [conn EXCEPT ![k] = c] \/ conn' = conn,
         available' = [available EXCEPT ![k] = n] \/ available' = available,
         Starting(l) => Starting(l)'
  PROVE  SameEntry(l)
  <1>1. flags'[l] = flags[l] /\ conn'[l] = conn[l] /\ available'[l] = available[l]
    BY TypeInvParts DEF LinkInfoOK
  <1> QED BY <1>1 DEF SameEntry, IsConnected, IsClosing, IsUdpListener

LEMMA RxTells ==
  ASSUME TypeInv, View, DataInv, UNCHANGED build, SameReads, Rx, reliable', NEW l \in Links,
         Head(uart).t \notin {"+CIPRECVLEN", "+CIPRECVDATA"}
  PROVE  EntryTells(l)'
  <1>1. /\ Heard /\ UNCHANGED <<pc, call, request, reliable>> /\ LinkInfoOK
        /\ uart # <<>> /\ 1 \in Wire /\ Head(uart) = uart[1]
    BY RxWire, HeardWire, TypeInvParts DEF Heard
  <1> DEFINE m == Head(uart)
  <1>2. /\ Refreshing' = Refreshing /\ (Starting(l) <=> Starting(l)') /\ EntryTells(l)
        /\ ~Reads(m, l) /\ endpoint' = endpoint /\ open' = open /\ AT1' = AT1
    BY <1>1 DEF Refreshing, Starting, Heard, Reads, AT1, DataInv, DataTells, DataView
  <1>3. ~Arrives(m, l) => ~Sets(m, l)
    BY DEF Sets
  <1>4. ASSUME SameEntry(l), ~Arrives(m, l) PROVE EntryTells(l)'
    BY <1>1, <1>2, <1>3, <1>4, EntryStays
  <1>5. CASE UNCHANGED linkVars /\ ~Arrives(m, l)
    BY <1>2, <1>4, <1>5 DEF SameEntry, linkVars, IsConnected, IsClosing, IsUdpListener
  <1>6. CASE m.t = "CONNECT" /\ RxConnect(m)
    <2>1. ~Arrives(m, l)
      BY <1>6 DEF Arrives
    <2>2. CASE UNCHANGED linkVars
      BY <1>5, <2>1, <2>2
    <2>3. CASE /\ available[m.link] = 0 /\ available' = available
               /\ SetFlags(m.link, {"CONNECTED", "INCOMING"}) /\ SetConn(m.link, m.conn)
      <3>1. CASE l # m.link
        <4>1. SameEntry(l)
          BY <1>2, <2>3, <3>1, OneEntry DEF SetFlags, SetConn
        <4> QED BY <1>4, <2>1, <4>1
      <3>2. CASE l = m.link
        <4>1. /\ flags'[l] = {"CONNECTED", "INCOMING"} /\ conn'[l] = m.conn
              /\ available'[l] = 0 /\ Opens(m, l)
          BY <1>1, <1>6, <2>3, <3>2 DEF SetFlags, SetConn, LinkInfoOK, Opens
        <4> SUFFICES ASSUME Settled(l)'
                     PROVE  Told(available[l], 0, l)' /\ (AT1 => l \notin endpoint)
          BY <1>2, <4>1 DEF EntryTells, IsUdpListener
        <4>2. open[l] = m.conn /\ ~Starting(l)
          BY <1>2, <4>1 DEF Settled
        <4>3. Told(0, 1, l)
          BY <1>1, <4>1, <4>2 DEF DataInv, DataTells, ConnectTells
        <4>4. Told(0, 0, l)'
          BY <1>1, <4>3, ToldAfter
        <4>5. Told(available[l], 0, l)'
          BY <4>1, <4>4 DEF Told
        <4>6. AT1 => l \notin endpoint
          BY <1>1, <4>1, <4>2, Listened, NoneTurned DEF Turns, DataInv
        <4> QED BY <4>5, <4>6
      <3> QED BY <3>1, <3>2
    <2> QED BY <1>6, <2>2, <2>3 DEF RxConnect
  <1>7. CASE m.t = "CLOSED" /\ RxClosed(m)
    <2>1. ~Arrives(m, l)
      BY <1>7 DEF Arrives
    <2>2. /\ SetFlags(m.link, {}) /\ SetConn(m.link, NoConn)
          /\ available' = available \/ SetAvailable(m.link, 0)
      BY <1>7 DEF RxClosed
    <2>3. CASE l # m.link
      <3>1. SameEntry(l)
        BY <1>2, <2>2, <2>3, OneEntry DEF SetFlags, SetConn, SetAvailable
      <3> QED BY <1>4, <2>1, <3>1
    <2>4. CASE l = m.link
      BY <1>1, <2>2, <2>4 DEF SetFlags, LinkInfoOK, EntryTells, Settled, IsConnected
    <2> QED BY <2>3, <2>4
  <1>8. CASE m.t = "IPD" /\ RxIpd(m)
    <2>1. UNCHANGED <<flags, conn>>
      BY <1>8 DEF RxIpd
    <2>2. CASE l # m.link
      <3>1. ~Arrives(m, l) /\ (available' = available \/ SetAvailable(m.link, m.len))
        BY <1>8, <2>2 DEF Arrives, RxIpd
      <3>2. SameEntry(l)
        BY <1>2, <2>1, <2>2, <3>1, OneEntry DEF SetAvailable
      <3> QED BY <1>4, <3>1, <3>2
    <2>3. CASE l = m.link
      <3> SUFFICES ASSUME Settled(l)', ~Refreshing'
                   PROVE  Told(available[l], 0, l)'
        <4>1. Settled(l)' => Settled(l)
          BY <1>2, <2>1 DEF Settled, IsConnected, IsClosing
        <4> QED BY <1>2, <2>1, <4>1 DEF EntryTells, IsUdpListener
      <3>1. Settled(l) /\ Arrives(m, l)
        BY <1>2, <1>8, <2>1, <2>3 DEF Settled, IsConnected, IsClosing, Arrives
      <3>2. Told(available[l], 0, l) /\ (AT1 => (IsUdpListener(l) <=> l \in endpoint))
        BY <1>2, <3>1 DEF EntryTells
      <3>3. PICK a : a = available[l]
        OBVIOUS
      <3>4. CASE AT1 /\ IsUdpListener(l)
        <4>1. available' = available /\ ~Sets(m, l)
          BY <1>8, <2>3, <3>1, <3>2, <3>4 DEF RxIpd, Sets, Arrives
        <4>2. Told(a, 0, l)'
          BY <1>1, <1>2, <3>2, <3>3, <4>1, ToldKept
        <4> QED BY <3>3, <4>1, <4>2 DEF Told
      <3>5. CASE ~(AT1 /\ IsUdpListener(l))
        <4>1. available'[l] = m.len /\ Sets(m, l) /\ Count(m, l) = m.len
          BY <1>1, <1>8, <2>3, <3>1, <3>2, <3>5 DEF RxIpd, SetAvailable, LinkInfoOK, Sets, Count
        <4>2. Told(m.len, 1, l)
          BY <1>1, <3>2, <3>3, <4>1, ToldNext
        <4>3. PICK n : n = m.len
          OBVIOUS
        <4>4. Told(n, 0, l)'
          BY <1>1, <4>2, <4>3, ToldAfter
        <4> QED BY <4>1, <4>3, <4>4 DEF Told
      <3> QED BY <3>4, <3>5
    <2> QED BY <2>2, <2>3
  <1>9. CASE RxIgnored
    BY <1>5, <1>9 DEF RxIgnored, drvVars, Arrives, EventTypes
  <1> QED BY <1>6, <1>7, <1>8, <1>9 DEF Rx, RxEvent

(* The bodies that leave the entry of l as it is. *)
LEMMA QuietTells ==
  ASSUME TypeInv, Awaited, UNCHANGED build, SameReads, Begins \/ Resumes, NEW l \in Links,
         EntryTells(l), SameEntry(l), pc \notin {"len", "recv"}, pc = "drainSync" => Refreshing'
  PROVE  EntryTells(l)'
  <1>1. Refreshing => Refreshing'
    BY DEF Refreshing
  <1>2. ASSUME Resumes PROVE ~Sets(Head(uart), l) /\ ~Reads(Head(uart), l)
    <2>1. Head(uart).t \notin {"+CIPRECVLEN", "+CIPRECVDATA"}
      BY <1>2, HeardWire DEF Awaited, Resumes
    <2> QED BY <1>2, <2>1 DEF Resumes, Sets, Arrives, Reads, EventTypes
  <1> QED BY <1>1, <1>2, EntryStays DEF Begins, Resumes

LEMMA PlainTells ==
  ASSUME TypeInv, Awaited, UNCHANGED build, SameReads, Begins \/ Resumes, NEW l \in Links,
         EntryTells(l),
         CheckFails \/ CloseDone \/ Known \/ SyncDone \/ RecvNothing \/ RecvDone
           \/ SendDone \/ ResetDone \/ CommandFails
           \/ CloseModeDone \/ SyncLinkInfo \/ RecvLenStart \/ RecvStart \/ SendStart
           \/ SendPayload \/ SendReceived \/ ParamsStart \/ ResetStart \/ ResetReady
           \/ CheckLinksListed \/ ParamsListed
  PROVE  EntryTells(l)'
  <1>1. UNCHANGED linkVars
    BY DEF CheckFails, CloseDone, Known, SyncDone, RecvNothing, RecvDone, SendDone, ResetDone,
         CommandFails, CloseModeDone, SyncLinkInfo, RecvLenStart, RecvStart, SendStart,
         SendPayload, SendReceived, ParamsStart, ResetStart, ResetReady, CheckLinksListed,
         ParamsListed
  <1>2. pc \notin {"start", "len", "recv"} /\ (pc = "drainSync" => RecvLenStart)
    BY DEF CheckFails, CloseDone, Known, SyncDone, RecvNothing, RecvDone, SendDone, ResetDone,
         CommandFails, CloseModeDone, SyncLinkInfo, RecvStart, SendStart, RecvLenStart,
         SendPayload, SendReceived, ParamsStart, ResetStart, ResetReady, CheckLinksListed,
         ParamsListed, Checked, Drained, Matched, Matches, Refused, Accepted
  <1>3. RecvLenStart => Refreshing'
    BY DEF RecvLenStart, Send, Command, Continue, Refreshing
  <1>4. SameEntry(l)
    BY <1>1, <1>2 DEF SameEntry, linkVars, IsConnected, IsClosing, IsUdpListener, Starting
  <1> QED BY <1>2, <1>3, <1>4, QuietTells

LEMMA ConnectTold ==
  ASSUME TypeInv, View, View', DataInv, UNCHANGED build, SameReads, Begins \/ Resumes,
         NEW l \in Links, EntryTells(l), reliable, ConnectStart \/ ConnectDone \/ ConnectFails
  PROVE  EntryTells(l)'
  <1>1. LinkInfoOK /\ CallOK /\ call \in Calls /\ Awaited
    BY TypeInvParts DEF SketchOK, DataInv
  <1>2. CASE ConnectStart
    <2>1. pc = "drain" /\ available' = available
      BY <1>2 DEF ConnectStart, Drained
    <2>2. CASE UNCHANGED <<flags, conn>>
      <3>1. SameEntry(l)
        BY <2>1, <2>2 DEF SameEntry, IsConnected, IsClosing, IsUdpListener, Starting
      <3> QED BY <1>1, <2>1, <3>1, QuietTells
    <2>3. CASE \E k \in FreeLinks : /\ SetFlags(k, {"CONNECTED"}) /\ SetConn(k, NoConn)
                                    /\ call' = [call EXCEPT !.link = k] /\ pc' = "start"
      <3>1. PICK k \in FreeLinks : /\ SetFlags(k, {"CONNECTED"}) /\ SetConn(k, NoConn)
                                   /\ call' = [call EXCEPT !.link = k] /\ pc' = "start"
        BY <2>3
      <3>2. call'.link = k
        BY <1>1, <3>1 DEF Calls
      <3>3. CASE l = k
        BY <3>1, <3>2, <3>3 DEF EntryTells, Settled, Starting
      <3>4. CASE l # k
        <4>1. SameEntry(l)
          BY <2>1, <3>1, <3>4, OneEntry DEF SetFlags, SetConn, Starting
        <4> QED BY <1>1, <2>1, <4>1, QuietTells
      <3> QED BY <3>3, <3>4
    <2> QED BY <1>2, <2>2, <2>3 DEF ConnectStart
  <1>3. CASE ConnectDone \/ ConnectFails
    <2> DEFINE k == call.link
    <2>1. pc = "start" /\ k \in Links /\ Heard
      BY <1>1, <1>3, WaitsHear DEF ConnectDone, ConnectFails, Matched, Matches, Refused, CallOK
    <2>2. \E f, c : /\ flags' = [flags EXCEPT ![k] = f] /\ conn' = [conn EXCEPT ![k] = c]
                    /\ available' = available
      BY <1>3 DEF ConnectDone, ConnectFails, SetFlags, SetConn
    <2>3. CASE l # k
      <3>1. SameEntry(l)
        BY <2>2, <2>3, OneEntry DEF Starting
      <3> QED BY <1>1, <2>1, <3>1, QuietTells
    <2>4. CASE l = k /\ ConnectFails
      BY <1>1, <2>1, <2>4 DEF ConnectFails, SetFlags, LinkInfoOK, EntryTells, Settled, IsConnected
    <2>5. CASE l = k /\ ConnectDone
      <3>1. /\ Head(uart).t = "OK" /\ uart # <<>> /\ 1 \in Wire /\ Head(uart) = uart[1]
            /\ available' = available /\ endpoint' = endpoint /\ open' = open /\ AT1' = AT1
        BY <1>1, <2>1, <2>5, HeardWire DEF ConnectDone, Matched, Matches, Expected, Heard, AT1
      <3>2. /\ flags'[l] = IF call.kind = "UDP" THEN flags[l] \cup {"UDP_LISTENER"} ELSE flags[l]
            /\ conn'[l] = Head(uart).conn
        BY <1>1, <2>1, <2>5 DEF ConnectDone, SetFlags, SetConn, LinkInfoOK
      <3> SUFFICES ASSUME Settled(l)'
                   PROVE  Told(available[l], 0, l)' /\ (IsUdpListener(l)' <=> l \in endpoint)
        BY <3>1 DEF EntryTells
      <3>3. /\ available[l] = 0 /\ Told(0, 1, l)
            /\ l \in endpoint <=> call.kind = "UDP"
        BY <2>1, <2>5, <3>1, <3>2 DEF Settled, DataInv, StartInv, StartTells
      <3>4. Told(0, 0, l)'
        BY <2>1, <3>3, ToldAfter
      <3>5. Told(available[l], 0, l)'
        BY <3>1, <3>3, <3>4 DEF Told
      <3>6. ~IsUdpListener(l)
        BY <2>1, <2>5 DEF DataInv, StartInv, StartUnmarked, Starting
      <3> QED BY <3>2, <3>3, <3>5, <3>6 DEF IsUdpListener
    <2> QED BY <1>3, <2>3, <2>4, <2>5
  <1> QED BY <1>2, <1>3

LEMMA AdoptTells ==
  ASSUME TypeInv, Dialogue, View, ClosingNow, DataInv, UNCHANGED build, SameReads, NEW l \in Links,
         EntryTells(l), reliable, CheckLinks \/ RecvLenQuery \/ ParamsDone
  PROVE  EntryTells(l)'
  <1>1. LinkInfoOK /\ CallOK /\ Awaited
    BY TypeInvParts DEF DataInv
  <1>2. /\ Heard /\ pc \in {"statusOK", "len", "paramsOK"} /\ Resumes
        /\ uart # <<>> /\ 1 \in Wire /\ Head(uart) = uart[1]
        /\ endpoint' = endpoint /\ open' = open /\ AT1' = AT1
    <2>1. Heard /\ pc \in {"statusOK", "len", "paramsOK"} /\ Head(uart).t \notin EventTypes
      BY WaitsHear DEF CheckLinks, RecvLenQuery, ParamsDone
    <2> QED BY <2>1, HeardWire DEF Heard, AT1, Resumes
  <1>3. ~Starting(l) /\ ~IsClosing(l)
    BY <1>2 DEF Starting, ClosingNow
  <1>4. AT1 /\ ~IsConnected(l) => l \notin endpoint
    BY <1>3, Listened DEF DataInv
  <1>5. CASE CheckLinks
    <2> SUFFICES ASSUME Settled(l)', AT1 PROVE IsUdpListener(l)' <=> l \in endpoint
      BY <1>2, <1>5 DEF EntryTells, Refreshing, CheckLinks, Continue
    <2> DEFINE list == call.list
    <2>1. AdoptFlags(list) /\ AdoptConns(list)
      BY <1>5 DEF CheckLinks
    <2>2. list[l] # NoConn
      BY <2>1 DEF AdoptFlags, Settled, IsConnected
    <2>3. CASE MissedIncoming(list, l)
      <3>1. l \notin endpoint
        BY <1>3, <1>4, <2>3 DEF MissedIncoming
      <3>2. ~IsUdpListener(l)'
        BY <2>1, <2>2, <2>3 DEF AdoptFlags, IsUdpListener
      <3> QED BY <3>1, <3>2
    <2>4. CASE ~MissedIncoming(list, l)
      <3>1. flags'[l] = flags[l] /\ conn'[l] = conn[l]
        BY <2>1, <2>2, <2>4 DEF AdoptFlags, AdoptConns
      <3>2. Settled(l)
        BY <1>2, <1>3, <3>1 DEF Settled, IsConnected
      <3> QED BY <3>1, <3>2 DEF EntryTells, IsUdpListener
    <2> QED BY <2>3, <2>4
  <1>6. CASE RecvLenQuery
    <2> DEFINE m == Head(uart)
    <2>1. m.t = "+CIPRECVLEN" /\ Sets(m, l) /\ Count(m, l) = m.lens[l] /\ pc = "len"
      BY <1>6 DEF RecvLenQuery, Matched, Matches, Expected, Sets, Count
    <2>2. ~Refreshing
      BY <1>2, <2>1 DEF Refreshing, Dialogue, Unanswered, EventTypes
    <2> SUFFICES ASSUME Settled(l)'
                 PROVE  Told(available[l], 0, l)' /\ (AT1 => (IsUdpListener(l)' <=> l \in endpoint))
      BY <1>2 DEF EntryTells
    <2>3. PICK n : n = m.lens[l]
      OBVIOUS
    <2>4. /\ available'[l] = n
          /\ \/ flags'[l] = flags[l] /\ conn'[l] = conn[l]
             \/ ~AT1 /\ m.conns[l] # NoConn /\ conn'[l] = m.conns[l]
      <3>1. CASE AT1
        BY <1>6, <2>3, <3>1 DEF RecvLenQuery
      <3>2. CASE ~AT1
        <4>1. /\ AdoptFlags(m.conns) /\ AdoptConns(m.conns)
              /\ available' = [k \in Links |-> IF m.conns[k] = NoConn THEN 0 ELSE m.lens[k]]
          BY <1>6, <3>2 DEF RecvLenQuery
        <4>2. m.conns[l] # NoConn
          BY <4>1 DEF AdoptFlags, Settled, IsConnected
        <4> QED BY <2>3, <3>2, <4>1, <4>2 DEF AdoptFlags, AdoptConns
      <3> QED BY <3>1, <3>2
    <2>5. Told(n, 1, l)
      <3>1. CASE flags'[l] = flags[l] /\ conn'[l] = conn[l]
        <4>1. Settled(l)
          BY <1>2, <1>3, <3>1 DEF Settled, IsConnected
        <4>2. Told(available[l], 0, l)
          BY <2>2, <4>1 DEF EntryTells
        <4>3. PICK a : a = available[l]
          OBVIOUS
        <4> QED BY <1>2, <2>1, <2>3, <4>2, <4>3, ToldNext
      <3>2. CASE m.conns[l] # NoConn /\ conn'[l] = m.conns[l]
        <4>1. open[l] = m.conns[l]
          BY <1>2, <3>2 DEF Settled
        <4> QED BY <1>2, <2>1, <2>3, <3>2, <4>1 DEF DataInv, DataTells, ListTells
      <3> QED BY <2>4, <3>1, <3>2
    <2>6. Told(n, 0, l)'
      BY <1>2, <2>5, ToldAfter
    <2>7. Told(available[l], 0, l)'
      BY <2>4, <2>6 DEF Told
    <2>8. AT1 => (IsUdpListener(l)' <=> l \in endpoint)
      <3> SUFFICES ASSUME AT1 PROVE IsUdpListener(l)' <=> l \in endpoint
        OBVIOUS
      <3>1. flags'[l] = flags[l] /\ conn'[l] = conn[l]
        BY <2>4
      <3>2. Settled(l)
        BY <1>2, <1>3, <3>1 DEF Settled, IsConnected
      <3> QED BY <3>1, <3>2 DEF EntryTells, IsUdpListener
    <2> QED BY <2>7, <2>8
  <1>7. CASE ParamsDone
    <2> DEFINE k == call.h.link
    <2>1. \/ UNCHANGED <<flags, conn>>
          \/ SetFlags(k, {}) /\ SetConn(k, NoConn)
      BY <1>7 DEF ParamsDone
    <2>2. available' = available /\ pc = "paramsOK"
      BY <1>7 DEF ParamsDone, Matched, Matches
    <2>3. CASE UNCHANGED <<flags, conn>> \/ l # k
      <3>1. SameEntry(l)
        <4>1. CASE UNCHANGED <<flags, conn>>
          BY <1>3, <2>2, <4>1 DEF SameEntry, IsConnected, IsClosing, IsUdpListener
        <4>2. CASE l # k
          BY <1>3, <2>1, <2>2, <4>2, OneEntry DEF SetFlags, SetConn
        <4> QED BY <2>3, <4>1, <4>2
      <3> QED BY <1>1, <1>2, <2>2, <3>1, QuietTells
    <2>4. CASE l = k /\ SetFlags(k, {})
      BY <1>1, <2>4 DEF SetFlags, LinkInfoOK, EntryTells, Settled, IsConnected
    <2> QED BY <2>1, <2>3, <2>4
  <1> QED BY <1>5, <1>6, <1>7

LEMMA RecvTells ==
  ASSUME TypeInv, Dialogue, DataInv, UNCHANGED build, SameReads, NEW l \in Links,
         EntryTells(l), reliable, RecvData \/ RecvFails
  PROVE  EntryTells(l)'
  <1> DEFINE k == call.h.link
             m == Head(uart)
  <1>1. LinkInfoOK /\ Awaited /\ pc = "recv" /\ k \in Links
    <2>1. pc = "recv"
      BY DEF RecvData, RecvFails, Matched, Matches, Refused
    <2> QED BY <2>1, TypeInvParts, HandleFields DEF DataInv, CallOK, NoHandleWaits
  <1>2. /\ Heard /\ uart # <<>> /\ 1 \in Wire /\ m = uart[1] /\ UNCHANGED <<flags, conn>>
        /\ endpoint' = endpoint /\ open' = open /\ AT1' = AT1
    <2>1. Heard
      BY WaitsHear DEF RecvData, RecvFails
    <2> QED BY <2>1, HeardWire DEF Heard, AT1, RecvData, RecvFails
  <1>3. ~Starting(l) /\ ~Refreshing /\ \E n : available' = [available EXCEPT ![k] = n]
    BY <1>1 DEF Starting, Refreshing, RecvData, RecvFails, SetAvailable
  <1>4. ~Sets(m, l) /\ m.t \in {"+CIPRECVDATA", "ERROR"}
    BY DEF RecvData, RecvFails, Matched, Matches, Refused, Expected, Sets, Arrives
  <1>5. CASE l # k
    <2>1. SameEntry(l)
      BY <1>2, <1>3, <1>5, OneEntry
    <2>2. ~Reads(m, l)
      BY <1>5 DEF Reads
    <2> QED BY <1>2, <1>3, <1>4, <2>1, <2>2, EntryStays
  <1>6. CASE l = k
    <2> SUFFICES ASSUME Settled(l)'
                 PROVE  Told(available[l], 0, l)' /\ (AT1 => (IsUdpListener(l)' <=> l \in endpoint))
      BY <1>2 DEF EntryTells
    <2>1. Settled(l)
      BY <1>2, <1>3 DEF Settled, IsConnected, IsClosing
    <2>2. /\ Told(available[l], 0, l)
          /\ AT1 => (IsUdpListener(l)' <=> l \in endpoint)
      BY <1>2, <1>3, <2>1 DEF EntryTells, IsUdpListener
    <2>3. ASSUME NEW n, Told(n, 1, l), available'[l] = n
          PROVE  Told(available[l], 0, l)'
      <3>1. Told(n, 0, l)'
        BY <1>2, <2>3, ToldAfter
      <3> QED BY <2>3, <3>1 DEF Told
    <2>4. CASE RecvData
      <3>1. available'[l] = Remaining(available[l], m.len) /\ Reads(m, l)
        BY <1>1, <1>6, <2>4 DEF RecvData, SetAvailable, LinkInfoOK, Matched, Matches, Expected, Reads
      <3>2. PICK a : a = available[l]
        OBVIOUS
      <3>3. Told(Remaining(a, m.len), 1, l)
        BY <1>1, <1>2, <1>4, <2>2, <3>1, <3>2, ToldNext
      <3>4. PICK n : n = Remaining(a, m.len)
        OBVIOUS
      <3>5. Told(n, 1, l) /\ available'[l] = n
        BY <3>1, <3>2, <3>3, <3>4
      <3> QED BY <2>2, <2>3, <3>5
    <2>5. CASE RecvFails
      <3>1. available'[l] = 0 /\ m.t = "ERROR"
        BY <1>1, <1>6, <2>5 DEF RecvFails, SetAvailable, LinkInfoOK, Refused
      <3>2. Told(0, 1, l)
        BY <1>1, <1>2, <1>6, <3>1 DEF DataInv, DataTells, RefusalTells
      <3> QED BY <2>2, <2>3, <3>1, <3>2
    <2> QED BY <2>4, <2>5
  <1> QED BY <1>5, <1>6

LEMMA BodyTells ==
  ASSUME TypeInv, Dialogue, View, View', ClosingNow, DataInv, UNCHANGED build, SameReads, Body,
         reliable', NEW l \in Links
  PROVE  EntryTells(l)'
  <1>1. LinkInfoOK /\ CallOK /\ Awaited /\ (Begins \/ Resumes)
    BY TypeInvParts, BodyWire DEF DataInv
  <1>2. reliable /\ EntryTells(l)
    BY <1>1 DEF Begins, Resumes, Still, Heard, DataInv, DataTells, DataView
  <1>3. CASE ConnectStart \/ ConnectDone \/ ConnectFails
    BY <1>1, <1>2, <1>3, ConnectTold
  <1>4. CASE CheckLinks \/ RecvLenQuery \/ ParamsDone
    BY <1>2, <1>4, AdoptTells
  <1>5. CASE RecvData \/ RecvFails
    BY <1>2, <1>5, RecvTells
  <1>6. CASE RecvTruncated
    BY <1>6 DEF RecvTruncated
  <1>7. CASE NewClientLinkId
    <2>1. conn' = conn /\ available' = available /\ pc = "drain"
      BY <1>7 DEF NewClientLinkId, Drained
    <2>2. flags' = flags \/ \E k \in Links : flags' = [flags EXCEPT ![k] = flags[k] \ {"INCOMING"}]
      BY <1>7 DEF NewClientLinkId, SetFlags, Taken
    <2>3. flags'[l] \in {flags[l], flags[l] \ {"INCOMING"}}
      BY <1>1, <2>2 DEF LinkInfoOK
    <2>4. SameEntry(l)
      BY <2>1, <2>3 DEF SameEntry, IsConnected, IsClosing, IsUdpListener, Starting
    <2> QED BY <1>1, <1>2, <2>1, <2>4, QuietTells
  <1>8. CASE CloseStart
    <2> DEFINE k == call.h.link
    <2>1. /\ SetFlags(k, flags[k] \cup {"CLOSING"}) /\ conn' = conn /\ SetAvailable(k, 0)
          /\ pc = "drain"
      BY <1>8 DEF CloseStart, Checked, Drained
    <2>2. CASE l # k
      <3>1. SameEntry(l)
        BY <2>1, <2>2, OneEntry DEF SetFlags, SetAvailable, Starting
      <3> QED BY <1>1, <1>2, <2>1, <3>1, QuietTells
    <2>3. CASE l = k
      BY <1>1, <2>1, <2>3 DEF SetFlags, LinkInfoOK, EntryTells, Settled, IsClosing
    <2> QED BY <2>2, <2>3
  <1>9. CASE CheckFails \/ CloseDone \/ Known \/ SyncDone \/ RecvNothing \/ RecvDone
           \/ SendDone \/ ResetDone \/ CommandFails
           \/ CloseModeDone \/ SyncLinkInfo \/ RecvLenStart \/ RecvStart \/ SendStart
           \/ SendPayload \/ SendReceived \/ ParamsStart \/ ResetStart \/ ResetReady
           \/ CheckLinksListed \/ ParamsListed
    BY <1>1, <1>2, <1>9, PlainTells
  <1> QED BY <1>3, <1>4, <1>5, <1>6, <1>7, <1>8, <1>9 DEF Body

LEMMA DriverTells ==
  ASSUME TypeInv, Dialogue, OnceInv, View, View', ClosingNow, DataInv, UNCHANGED build,
         Sketch \/ Driver, reliable', NEW l \in Links
  PROVE  EntryTells(l)'
  <1>1. /\ SameReads /\ (Still \/ Heard)
        /\ Heard /\ Head(uart).t = "+CIPRECVDATA" => pc = "recv"
        /\ Heard /\ Head(uart).t = "+CIPRECVLEN" => pc = "len"
    BY OnlyListings DEF DataInv
  <1>2. CASE Sketch
    <2>1. /\ Still /\ UNCHANGED linkVars /\ pc = "idle"
      BY <1>2, SketchWire DEF Sketch, EnterAny, Enter, LocalPortQuery
    <2>2. SameEntry(l) /\ ~Refreshing
      BY <2>1 DEF SameEntry, linkVars, IsConnected, IsClosing, IsUdpListener, Starting, Refreshing
    <2>3. EntryTells(l)
      BY <2>1 DEF Still, DataInv, DataTells, DataView
    <2> QED BY <1>1, <2>1, <2>2, <2>3, EntryStays
  <1>3. CASE Rx
    <2>1. Head(uart).t \notin {"+CIPRECVLEN", "+CIPRECVDATA"}
      BY <1>1, <1>3, RxWire DEF Rx, RxEvent, RxIgnored, Expected
    <2> QED BY <1>1, <1>3, <2>1, RxTells
  <1>4. CASE Body
    BY <1>1, <1>4, BodyTells
  <1> QED BY <1>2, <1>3, <1>4 DEF Driver

LEMMA LinesTell ==
  ASSUME TypeInv, ConnectTells, ListTells, UNCHANGED build, SameReads, Still \/ Heard
  PROVE  ConnectTells' /\ ListTells'
  <1>1. open' = open /\ (reliable' => reliable)
    BY DEF Still, Heard
  <1>2. ASSUME NEW i \in Wire'
        PROVE  \E j \in Wire : /\ uart'[i] = uart[j]
                               /\ \A a, l : Told(a, j, l) => Told(a, i, l)'
    <2>1. CASE Still
      <3>1. i \in Wire /\ uart'[i] = uart[i]
        BY <2>1 DEF Still, Wire
      <3> QED BY <2>1, <3>1, ToldStill
    <2>2. CASE Heard
      <3>1. i + 1 \in Wire /\ uart'[i] = uart[i + 1] /\ i \in Nat /\ unread' = unread
        BY <2>2, HeardWire, WireFacts DEF Heard
      <3> QED BY <2>2, <3>1, ToldMoved
    <2> QED BY <2>1, <2>2
  <1>3. ConnectTells'
    <2> SUFFICES ASSUME reliable', NEW l \in Links, NEW i \in Wire', Opens(uart'[i], l),
                        uart'[i].conn = open'[l]
                 PROVE  Told(0, i, l)'
      BY DEF ConnectTells, Opens
    <2>1. PICK j \in Wire : uart'[i] = uart[j] /\ \A a, k : Told(a, j, k) => Told(a, i, k)'
      BY <1>2
    <2>2. Told(0, j, l)
      BY <1>1, <2>1 DEF ConnectTells
    <2> QED BY <2>1, <2>2
  <1>4. ListTells'
    <2> SUFFICES ASSUME reliable', NEW i \in Wire', uart'[i].t = "+CIPRECVLEN", NEW l \in Links,
                        uart'[i].conns[l] = open'[l], open'[l] # NoConn
                 PROVE  Told(uart[i].lens[l], i, l)'
      BY DEF ListTells
    <2>1. PICK j \in Wire : uart'[i] = uart[j] /\ \A a, k : Told(a, j, k) => Told(a, i, k)'
      BY <1>2
    <2>2. PICK n : n = uart[j].lens[l]
      OBVIOUS
    <2>3. Told(n, j, l)
      BY <1>1, <2>1, <2>2 DEF ListTells
    <2>4. Told(n, i, l)' /\ uart'[i].lens[l] = n
      BY <2>1, <2>2, <2>3
    <2> QED BY <2>4 DEF Told
  <1> QED BY <1>3, <1>4

LEMMA RecvStep ==
  ASSUME Sketch \/ Driver, pc' = "recv"
  PROVE  (Rx /\ pc = "recv") \/ uart' = <<>>
  <1>1. CASE Sketch
    BY <1>1 DEF Sketch, EnterAny, Enter, LocalPortQuery, Fail, Return
  <1>2. CASE Rx
    BY <1>2, RxWire
  <1>3. CASE RecvStart
    BY <1>3 DEF RecvStart, Checked, Drained
  <1>4. ASSUME Body, ~RecvStart
        PROVE  FALSE
    BY <1>4 DEF Body, CheckFails, NewClientLinkId, ConnectStart, ConnectDone, ConnectFails,
         CloseStart, CloseModeDone, CloseDone, Known, SyncLinkInfo, CheckLinksListed, CheckLinks,
         RecvLenStart, RecvLenQuery, SyncDone, RecvNothing, RecvData, RecvTruncated,
         RecvFails, RecvDone, SendStart, SendPayload, SendReceived, SendDone, ParamsStart,
         ParamsListed, ParamsDone, ResetStart, ResetReady, ResetDone, CommandFails,
         Return, Fail, Continue
  <1> QED BY <1>1, <1>2, <1>3, <1>4 DEF Driver

LEMMA DriverDataTells ==
  ASSUME TypeInv, Dialogue, OnceInv, View, View', ClosingNow, DataInv, UNCHANGED build,
         Sketch \/ Driver
  PROVE  DataTells'
  <1>1. SameReads /\ (Still \/ Heard)
    BY OnlyListings DEF DataInv
  <1>2. DataView'
    BY DriverTells DEF DataView
  <1>3. ConnectTells' /\ ListTells'
    BY <1>1, LinesTell DEF DataInv, DataTells
  <1>4. RefusalTells'
    <2> SUFFICES ASSUME reliable', pc' = "recv", NEW i \in Wire', uart'[i].t = "ERROR"
                 PROVE  Told(0, i, call.h.link)'
      BY DEF RefusalTells
    <2>1. PICK l : l = call.h.link
      OBVIOUS
    <2>2. Rx /\ pc = "recv"
      BY RecvStep DEF Wire
    <2>3. Heard /\ call' = call /\ (reliable' => reliable)
      BY <2>2, RxWire DEF Heard
    <2>4. i + 1 \in Wire /\ uart'[i] = uart[i + 1] /\ i \in Nat /\ unread' = unread
      BY <2>3, HeardWire, WireFacts DEF Heard
    <2>5. Told(0, i + 1, l)
      BY <2>1, <2>2, <2>3, <2>4 DEF DataInv, DataTells, RefusalTells
    <2>6. Told(0, i, l)' /\ call'.h.link = l
      BY <1>1, <2>1, <2>3, <2>4, <2>5, ToldMoved
    <2> QED BY <2>6 DEF Told
  <1> QED BY <1>2, <1>3, <1>4 DEF DataTells

----------------------------------------------------------------------------
(* The link that connect() opens. *)

LEMMA RxLink ==
  ASSUME TypeInv, Rx, NEW l \in Links
  PROVE  /\ ~Arrives(Head(uart), l) => available'[l] \in {available[l], 0}
         /\ ~Turns(Head(uart), l) => flags'[l] = flags[l] /\ conn'[l] = conn[l]
         /\ flags'[l] \in {flags[l], {}, {"CONNECTED", "INCOMING"}}
         /\ Opens(Head(uart), l) /\ available[l] = 0 => IsConnected(l)'
         /\ IsConnected(l) /\ ~Ends(Head(uart), l) => IsConnected(l)'
  <1>1. LinkInfoOK
    BY TypeInvParts
  <1> DEFINE m == Head(uart)
  <1>2. CASE UNCHANGED linkVars /\ ~Opens(m, l)
    BY <1>2 DEF linkVars, IsConnected
  <1>3. CASE m.t = "CONNECT" /\ RxConnect(m)
    <2>1. available' = available /\ (Opens(m, l) <=> l = m.link) /\ ~Ends(m, l)
      BY <1>3 DEF RxConnect, linkVars, Opens, Ends
    <2>2. CASE l # m.link
      <3>1. flags'[l] = flags[l] /\ conn'[l] = conn[l]
        BY <1>1, <1>3, <2>2 DEF RxConnect, SetFlags, SetConn, linkVars, LinkInfoOK
      <3> QED BY <2>1, <2>2, <3>1 DEF IsConnected
    <2>3. CASE l = m.link
      <3>1. \/ flags'[l] = {"CONNECTED", "INCOMING"}
            \/ flags'[l] = flags[l] /\ (available[l] = 0 => IsConnected(l))
        BY <1>1, <1>3, <2>3 DEF RxConnect, SetFlags, linkVars, LinkInfoOK
      <3> QED BY <2>1, <2>3, <3>1 DEF IsConnected, Turns
    <2> QED BY <2>2, <2>3
  <1>4. CASE m.t = "CLOSED" /\ RxClosed(m)
    <2>1. (Ends(m, l) <=> l = m.link) /\ ~Opens(m, l)
      BY <1>4 DEF Opens, Ends
    <2>2. available'[l] \in {available[l], 0}
      BY <1>1, <1>4 DEF RxClosed, SetAvailable, LinkInfoOK
    <2>3. flags'[l] = IF l = m.link THEN {} ELSE flags[l]
      BY <1>1, <1>4 DEF RxClosed, SetFlags, LinkInfoOK
    <2>4. l # m.link => conn'[l] = conn[l]
      BY <1>1, <1>4 DEF RxClosed, SetConn, LinkInfoOK
    <2> QED BY <2>1, <2>2, <2>3, <2>4 DEF IsConnected, Turns
  <1>5. CASE m.t = "IPD" /\ RxIpd(m)
    <2>1. UNCHANGED <<flags, conn>> /\ ~Opens(m, l)
      BY <1>5 DEF RxIpd, Opens
    <2>2. ~Arrives(m, l) => available'[l] = available[l]
      BY <1>1, <1>5 DEF RxIpd, SetAvailable, LinkInfoOK, Arrives
    <2> QED BY <2>1, <2>2 DEF IsConnected
  <1>6. CASE RxIgnored
    BY <1>2, <1>6 DEF RxIgnored, drvVars, Opens, EventTypes
  <1> QED BY <1>3, <1>4, <1>5, <1>6 DEF Rx, RxEvent

LEMMA StartEntered ==
  ASSUME TypeInv, Sketch \/ Driver, pc' = "start"
  PROVE  \/ Rx /\ pc = "start" /\ call' = call /\ call.link \in Links
         \/ /\ uart' = <<>> /\ call'.link \in Links
            /\ available'[call'.link] = 0 /\ flags'[call'.link] = {"CONNECTED"}
            /\ request'.kind = call'.kind
  <1>1. CASE Sketch
    BY <1>1 DEF Sketch, EnterAny, Enter, LocalPortQuery, Fail, Return
  <1>2. CASE Rx
    <2>1. pc = "start" /\ call' = call
      BY <1>2, RxWire
    <2> QED BY <1>2, <2>1, TypeInvParts DEF CallOK
  <1>3. CASE ConnectStart
    <2>1. PICK l \in FreeLinks : /\ SetFlags(l, {"CONNECTED"}) /\ Send("CIPSTART", l)
                                 /\ call' = [call EXCEPT !.link = l]
      BY <1>3 DEF ConnectStart, Return
    <2>2. call'.link = l /\ call'.kind = call.kind /\ l \in Links /\ available[l] = 0
      BY <2>1, TypeInvParts DEF SketchOK, Calls, FreeLinks
    <2>3. flags'[l] = {"CONNECTED"} /\ available' = available /\ uart' = <<>>
      BY <1>3, <2>1, <2>2, TypeInvParts DEF SetFlags, LinkInfoOK, ConnectStart, Drained
    <2>4. request'.kind = call.kind
      BY <2>1 DEF Send, Command
    <2> QED BY <2>2, <2>3, <2>4
  <1>4. ASSUME Body, ~ConnectStart
        PROVE  FALSE
    BY <1>4 DEF Body, CheckFails, NewClientLinkId, ConnectDone, ConnectFails,
         CloseStart, CloseModeDone, CloseDone, Known, SyncLinkInfo, CheckLinksListed, CheckLinks,
         RecvLenStart, RecvLenQuery, SyncDone, RecvNothing, RecvStart, RecvData, RecvTruncated,
         RecvFails, RecvDone, SendStart, SendPayload, SendReceived, SendDone, ParamsStart,
         ParamsListed, ParamsDone, ResetStart, ResetReady, ResetDone, CommandFails,
         Return, Fail, Continue
  <1> QED BY <1>1, <1>2, <1>3, <1>4 DEF Driver

LEMMA DriverStart ==
  ASSUME TypeInv, StartInv, UNCHANGED build, SameReads, Sketch \/ Driver
  PROVE  StartInv'
  <1>1. CASE pc' # "start"
    BY <1>1 DEF StartInv, StartTells, StartClear, StartUnmarked, StartSeen, Starting
  <1>2. CASE /\ uart' = <<>> /\ call'.link \in Links /\ request'.kind = call'.kind
             /\ available'[call'.link] = 0 /\ flags'[call'.link] = {"CONNECTED"}
    <2>1. Wire' = {}
      BY <1>2 DEF Wire
    <2> QED BY <1>2, <2>1 DEF StartInv, StartTells, StartClear, StartUnmarked, StartSeen, Starting,
            IsUdpListener
  <1>3. CASE Rx /\ pc = "start" /\ call' = call /\ call.link \in Links
    <2> DEFINE k == call.link
               m == Head(uart)
    <2>1. PICK l \in Links : l = k
      BY <1>3
    <2>2. /\ Heard /\ UNCHANGED <<pc, call, request, reliable>> /\ m = uart[1] /\ 1 \in Wire
          /\ open' = open /\ endpoint' = endpoint /\ unread' = unread
      BY <1>3, RxWire, HeardWire DEF Heard
    <2>3. /\ \A i \in Wire' : i \in Nat /\ i + 1 \in Wire /\ uart'[i] = uart[i + 1] /\ 1 < i + 1
          /\ \A i \in Wire : i \in Nat /\ i > 0 /\ (i # 1 => i - 1 \in Wire' /\ uart'[i - 1] = uart[i])
      BY <2>2, HeardWire, WireFacts
    <2>4. /\ ~Arrives(m, l) => available'[l] \in {available[l], 0}
          /\ flags'[l] \in {flags[l], {}, {"CONNECTED", "INCOMING"}}
          /\ Opens(m, l) /\ available[l] = 0 => IsConnected(l)'
          /\ IsConnected(l) /\ ~Ends(m, l) => IsConnected(l)'
      BY <1>3, RxLink
    <2>5. StartTells'
      <3> SUFFICES ASSUME NEW i \in Wire', uart'[i].t = "OK"
                   PROVE  /\ available'[l] = 0
                          /\ \A j \in Wire' : j < i => ~Arrives(uart'[j], l)
                          /\ reliable' /\ uart'[i].conn = open'[l] =>
                               Told(0, i, l)' /\ (l \in endpoint' <=> call'.kind = "UDP")
        BY <2>1, <2>2 DEF StartTells, Arrives, Told, LastSet, After, Sets, Reads, Count
      <3>1. /\ available[l] = 0 /\ \A j \in Wire : j < i + 1 => ~Arrives(uart[j], l)
            /\ reliable /\ uart[i + 1].conn = open[l] =>
                 Told(0, i + 1, l) /\ (l \in endpoint <=> call.kind = "UDP")
        BY <1>3, <2>1, <2>3 DEF StartInv, StartTells
      <3>2. available'[l] = 0
        BY <2>2, <2>3, <2>4, <3>1
      <3>3. \A j \in Wire' : j < i => ~Arrives(uart'[j], l)
        BY <2>3, <3>1
      <3> QED BY <2>2, <2>3, <3>1, <3>2, <3>3, ToldMoved
    <2>6. StartClear'
      <3> SUFFICES ASSUME request.cmd = "CIPSTART"
                   PROVE  /\ request.kind = call.kind
                          /\ unread[l] = 0 /\ l \notin endpoint =>
                               available'[l] = 0 /\ \A j \in Wire' : ~Arrives(uart'[j], l)
        BY <2>1, <2>2 DEF StartClear, Arrives
      <3>1. /\ request.kind = call.kind
            /\ unread[l] = 0 /\ l \notin endpoint =>
                 available[l] = 0 /\ \A j \in Wire : ~Arrives(uart[j], l)
        BY <1>3, <2>1 DEF StartInv, StartClear
      <3> QED BY <2>2, <2>3, <2>4, <3>1
    <2>7. StartUnmarked'
      <3>1. ~IsUdpListener(l)'
        BY <1>3, <2>1, <2>4 DEF StartInv, StartUnmarked, Starting, IsUdpListener
      <3> QED BY <2>1, <2>2, <3>1 DEF StartUnmarked, Starting, IsUdpListener
    <2>8. StartSeen'
      <3> SUFFICES ASSUME NEW i \in Wire', uart'[i].t = "OK"
                   PROVE  \/ IsConnected(l)' /\ \A n \in Wire' : n < i => ~Ends(uart'[n], l)
                          \/ \E j \in Wire' : /\ j < i /\ Opens(uart'[j], l)
                                              /\ \A n \in Wire' : j < n /\ n < i => ~Ends(uart'[n], l)
        BY <2>1, <2>2 DEF StartSeen, Opens, Ends, IsConnected
      <3>1. available[l] = 0
        BY <1>3, <2>1, <2>3 DEF StartInv, StartTells
      <3>2. \/ IsConnected(l) /\ \A n \in Wire : n < i + 1 => ~Ends(uart[n], l)
            \/ \E j \in Wire : /\ j < i + 1 /\ Opens(uart[j], l)
                               /\ \A n \in Wire : j < n /\ n < i + 1 => ~Ends(uart[n], l)
        BY <1>3, <2>1, <2>3 DEF StartInv, StartSeen
      <3>3. CASE IsConnected(l) /\ \A n \in Wire : n < i + 1 => ~Ends(uart[n], l)
        BY <2>2, <2>3, <2>4, <3>3
      <3>4. ASSUME NEW j \in Wire, j < i + 1, Opens(uart[j], l),
                   \A n \in Wire : j < n /\ n < i + 1 => ~Ends(uart[n], l)
            PROVE  \/ IsConnected(l)' /\ \A n \in Wire' : n < i => ~Ends(uart'[n], l)
                   \/ \E n \in Wire' : /\ n < i /\ Opens(uart'[n], l)
                                       /\ \A p \in Wire' : n < p /\ p < i => ~Ends(uart'[p], l)
        <4>1. CASE j = 1
          BY <2>2, <2>3, <2>4, <3>1, <3>4, <4>1
        <4>2. CASE j # 1
          <5>1. /\ j - 1 \in Wire' /\ j - 1 < i /\ Opens(uart'[j - 1], l)
                /\ \A p \in Wire' : j - 1 < p /\ p < i => ~Ends(uart'[p], l)
            BY <2>3, <3>4, <4>2
          <5> QED BY <5>1
        <4> QED BY <4>1, <4>2
      <3> QED BY <3>2, <3>3, <3>4
    <2> QED BY <2>5, <2>6, <2>7, <2>8 DEF StartInv
  <1> QED BY <1>1, <1>2, <1>3, StartEntered

----------------------------------------------------------------------------
(* What the firmware listens on stays known. *)

DatagramEntry(l) == IsConnected(l) /\ conn[l] = open[l] /\ IsUdpListener(l) /\ ~Starting(l)

LEMMA DatagramStays ==
  ASSUME NEW l, DatagramEntry(l), open' = open, conn'[l] = conn[l], ~Starting(l)',
         flags'[l] \in {flags[l], flags[l] \ {"INCOMING"}, flags[l] \cup {"CLOSING"}}
  PROVE  DatagramEntry(l)'
  BY DEF DatagramEntry, IsConnected, IsUdpListener

(* A wait for the answer to connect() ends with what it started, if that     *)
(* listens.                                                                 *)
LEMMA StartListens ==
  ASSUME TypeInv, Dialogue, StartInv, UNCHANGED build, Sketch \/ Driver, reliable,
         NEW l \in Links, l \in endpoint, Starting(l),
         NEW i \in Wire, uart[i].t = "OK", uart[i].conn = open[l]
  PROVE  \/ Starting(l)' /\ i - 1 \in Wire' /\ uart'[i - 1] = uart[i]
         \/ DatagramEntry(l)'
  <1>1. pc = "start" /\ call.link = l /\ LinkInfoOK
    BY TypeInvParts DEF Starting
  <1>2. CASE Rx
    <2>1. Heard /\ UNCHANGED <<pc, call>> /\ Head(uart) = uart[1]
      BY <1>2, RxWire, HeardWire
    <2>2. Head(uart).t # "OK"
      BY <1>1, <1>2 DEF Rx, RxEvent, RxIgnored, Expected
    <2>3. i # 1
      BY <2>1, <2>2
    <2> QED BY <2>1, <2>3, HeardWire DEF Starting
  <1>3. CASE ConnectDone \/ ConnectFails
    <2>1. /\ Heard /\ Head(uart) = uart[1] /\ 1 \in Wire /\ open' = open
          /\ Head(uart).t = IF ConnectDone THEN "OK" ELSE "ERROR"
      BY <1>1, <1>3, WaitsHear, HeardWire
         DEF ConnectDone, ConnectFails, Matched, Matches, Refused, Expected, Heard
    <2>2. i = 1
      <3>1. i \in Nat /\ i > 0 /\ (1 < i => uart[i].t \in EventTypes)
        BY <2>1, WireFacts DEF Dialogue, EndsLast, Final
      <3> QED BY <3>1 DEF EventTypes
    <2>3. ConnectDone
      BY <1>3, <2>1, <2>2
    <2>4. /\ conn'[l] = open[l] /\ pc' = "idle"
          /\ flags'[l] = IF call.kind = "UDP" THEN flags[l] \cup {"UDP_LISTENER"} ELSE flags[l]
      BY <1>1, <2>1, <2>2, <2>3 DEF ConnectDone, SetFlags, SetConn, LinkInfoOK, Return
    <2>5. call.kind = "UDP"
      BY <1>1 DEF StartInv, StartTells
    <2>6. IsConnected(l)
      <3>1. \A j \in Wire : ~(j < 1)
        BY WireFacts
      <3> QED BY <1>1, <2>2, <3>1 DEF StartInv, StartSeen
    <2> QED BY <2>1, <2>4, <2>5, <2>6 DEF DatagramEntry, IsConnected, IsUdpListener, Starting
  <1>4. ~Sketch
    BY <1>1, SketchWire
  <1>5. ASSUME Body, ~ConnectDone, ~ConnectFails
        PROVE  FALSE
    BY <1>1, <1>5 DEF Body, CheckFails, NewClientLinkId, ConnectStart,
         CloseStart, CloseModeDone, CloseDone, Known, SyncLinkInfo, CheckLinksListed, CheckLinks,
         RecvLenStart, RecvLenQuery, SyncDone, RecvNothing, RecvStart, RecvData, RecvTruncated,
         RecvFails, RecvDone, SendStart, SendPayload, SendReceived, SendDone, ParamsStart,
         ParamsListed, ParamsDone, ResetStart, ResetReady, ResetDone, CommandFails,
         Checked, Drained, Matched, Matches, Refused, Accepted
  <1> QED BY <1>2, <1>3, <1>4, <1>5 DEF Driver

LEMMA DatagramBody ==
  ASSUME TypeInv, Dialogue, ClosingNow, EndpointInv, Body, AT1, reliable,
         NEW l \in Links, l \in endpoint, DatagramEntry(l)
  PROVE  DatagramEntry(l)'
  <1>1. LinkInfoOK /\ CallOK
    BY TypeInvParts
  <1>2. open' = open
    BY BodyWire DEF Begins, Resumes, Still, Heard
  <1>3. CASE ConnectStart
    <2>1. CASE UNCHANGED <<flags, conn>> /\ pc' = "idle"
      BY <1>2, <2>1, DatagramStays DEF Starting
    <2>2. CASE \E k \in FreeLinks : /\ SetFlags(k, {"CONNECTED"}) /\ SetConn(k, NoConn)
                                    /\ call' = [call EXCEPT !.link = k]
      <3>1. PICK k \in FreeLinks : /\ SetFlags(k, {"CONNECTED"}) /\ SetConn(k, NoConn)
                                   /\ call' = [call EXCEPT !.link = k]
        BY <2>2
      <3>2. k # l /\ k \in Links /\ call'.link = k
        BY <3>1, TypeInvParts DEF FreeLinks, DatagramEntry, SketchOK, Calls
      <3>3. flags'[l] = flags[l] /\ conn'[l] = conn[l] /\ ~Starting(l)'
        BY <1>1, <3>1, <3>2 DEF SetFlags, SetConn, LinkInfoOK, Starting
      <3> QED BY <1>2, <3>3, DatagramStays
    <2> QED BY <1>3, <2>1, <2>2 DEF ConnectStart, Return
  <1>4. CASE ConnectDone \/ ConnectFails
    <2> DEFINE k == call.link
    <2>1. pc = "start" /\ pc' = "idle" /\ k # l
      BY <1>4 DEF ConnectDone, ConnectFails, Matched, Matches, Refused, Return, Fail,
         DatagramEntry, Starting
    <2>2. \E f, c : flags' = [flags EXCEPT ![k] = f] /\ conn' = [conn EXCEPT ![k] = c]
      BY <1>4 DEF ConnectDone, ConnectFails, SetFlags, SetConn
    <2>3. flags'[l] = flags[l] /\ conn'[l] = conn[l]
      BY <1>1, <2>1, <2>2 DEF LinkInfoOK
    <2> QED BY <1>2, <2>1, <2>3, DatagramStays DEF Starting
  <1>5. CASE CheckLinks \/ RecvLenQuery \/ ParamsDone
    <2>1. pc \in {"statusOK", "len", "paramsOK"} /\ pc' # "start"
      BY <1>5 DEF CheckLinks, RecvLenQuery, ParamsDone, Matched, Matches, Continue, Return, Fail
    <2>2. ~IsClosing(l)
      BY <2>1 DEF ClosingNow
    <2>3. CASE RecvLenQuery
      BY <1>2, <2>1, <2>3, DatagramStays DEF RecvLenQuery, Starting
    <2>4. CASE CheckLinks
      <3>1. AdoptFlags(call.list) /\ AdoptConns(call.list) /\ pc = "statusOK"
        BY <2>4 DEF CheckLinks, Matched, Matches
      <3>2. call.list[l] # NoConn
        BY <3>1 DEF EndpointInv, EndpointsListed, Listing
      <3>3. ~MissedIncoming(call.list, l)
        BY <2>2 DEF MissedIncoming, DatagramEntry
      <3>4. flags'[l] = flags[l] /\ conn'[l] = conn[l]
        BY <3>1, <3>2, <3>3 DEF AdoptFlags, AdoptConns
      <3> QED BY <1>2, <2>1, <3>4, DatagramStays DEF Starting
    <2>5. CASE ParamsDone
      <3> DEFINE k == call.h.link
      <3>1. pc = "paramsOK" /\ (k = l => call.list[k] # NoConn)
        BY <2>5 DEF ParamsDone, Matched, Matches, EndpointInv, EndpointsListed, Listing
      <3>2. k = l => UNCHANGED <<flags, conn>>
        BY <2>5, <3>1 DEF ParamsDone
      <3>3. flags'[l] = flags[l] /\ conn'[l] = conn[l]
        BY <1>1, <2>5, <3>2 DEF ParamsDone, SetFlags, SetConn, LinkInfoOK
      <3> QED BY <1>2, <2>1, <3>3, DatagramStays DEF Starting
    <2> QED BY <1>5, <2>3, <2>4, <2>5
  <1>6. CASE NewClientLinkId
    <2>1. conn' = conn /\ pc' = "idle"
      BY <1>6 DEF NewClientLinkId, Return
    <2>2. flags' = flags \/ \E k \in Links : flags' = [flags EXCEPT ![k] = flags[k] \ {"INCOMING"}]
      BY <1>6 DEF NewClientLinkId, SetFlags, Taken
    <2>3. flags'[l] \in {flags[l], flags[l] \ {"INCOMING"}}
      BY <1>1, <2>2 DEF LinkInfoOK
    <2> QED BY <1>2, <2>1, <2>3, DatagramStays DEF Starting
  <1>7. CASE CloseStart
    <2> DEFINE k == call.h.link
    <2>1. SetFlags(k, flags[k] \cup {"CLOSING"}) /\ conn' = conn /\ pc' # "start"
      BY <1>7 DEF CloseStart, Continue
    <2>2. flags'[l] \in {flags[l], flags[l] \cup {"CLOSING"}}
      BY <1>1, <2>1 DEF SetFlags, LinkInfoOK
    <2> QED BY <1>2, <2>1, <2>2, DatagramStays DEF Starting
  <1>8. CASE CheckFails \/ CloseDone \/ Known \/ SyncDone \/ RecvNothing \/ RecvDone
           \/ SendDone \/ ResetDone \/ CommandFails
           \/ CloseModeDone \/ SyncLinkInfo \/ RecvLenStart \/ RecvStart \/ SendStart
           \/ SendPayload \/ SendReceived \/ ParamsStart \/ ResetStart \/ ResetReady
           \/ CheckLinksListed \/ ParamsListed \/ RecvData \/ RecvTruncated \/ RecvFails
    <2>1. UNCHANGED <<flags, conn>>
      BY <1>8 DEF CheckFails, CloseDone, Known, SyncDone, RecvNothing, RecvDone, SendDone, ResetDone,
         CommandFails, CloseModeDone, SyncLinkInfo, RecvLenStart, RecvStart, SendStart,
         SendPayload, SendReceived, ParamsStart, ResetStart, ResetReady, CheckLinksListed,
         ParamsListed, RecvData, RecvTruncated, RecvFails, Refused, linkVars
    <2>2. pc' # "start"
      BY <1>8 DEF CheckFails, CloseDone, Known, SyncDone, RecvNothing, RecvDone, SendDone, ResetDone,
         CommandFails, CloseModeDone, SyncLinkInfo, RecvLenStart, RecvStart, SendStart,
         SendPayload, SendReceived, ParamsStart, ResetStart, ResetReady, CheckLinksListed,
         ParamsListed, RecvData, RecvTruncated, RecvFails, Continue, Return, Fail
    <2> QED BY <1>2, <2>1, <2>2, DatagramStays DEF Starting
  <1> QED BY <1>3, <1>4, <1>5, <1>6, <1>7, <1>8 DEF Body

LEMMA DriverEndpoints ==
  ASSUME TypeInv, Dialogue, View, ClosingNow, StartInv, EndpointInv, UNCHANGED build,
         Sketch \/ Driver, Still \/ Heard
  PROVE  EndpointInv'
  <1>1. open' = open /\ endpoint' = endpoint /\ AT1' = AT1 /\ (reliable' => reliable)
    BY DEF Still, Heard, AT1
  <1>2. EndpointsOpen'
    BY <1>1 DEF EndpointInv, EndpointsOpen
  <1>3. EndpointsListed'
    <2>1. \A i \in Wire' : \E j \in Wire : uart'[i] = uart[j]
      BY HeardWire DEF Still, Wire
    <2>2. ASSUME NEW l \in endpoint, Listing'
          PROVE  call'.list[l] # NoConn
      <3>1. l \in Links /\ call \in Calls
        BY TypeInvParts DEF FwTypeOK, SketchOK
      <3>2. CASE Rx
        <4>1. pc' = pc /\ call' = call
          BY <3>2, RxWire
        <4> QED BY <2>2, <4>1 DEF Listing, EndpointInv, EndpointsListed
      <3>3. CASE CheckLinksListed \/ ParamsListed
        <4>1. Head(uart).t = "STATUS" /\ uart # <<>>
          BY <3>3 DEF CheckLinksListed, ParamsListed, Matched, Matches, Expected
        <4>2. call'.list = Head(uart).conns
          BY <3>1, <3>3 DEF CheckLinksListed, ParamsListed, Calls
        <4> QED BY <4>1, <4>2, WireFacts DEF EndpointInv, EndpointsListed
      <3> QED BY <2>2, <3>2, <3>3, ListingStep
    <2> QED BY <1>1, <2>1, <2>2 DEF EndpointInv, EndpointsListed
  <1>4. EndpointsKnown'
    <2> SUFFICES ASSUME AT1, reliable, NEW l \in endpoint
                 PROVE  \/ Starting(l)' /\ \E i \in Wire' : uart'[i].t = "OK" /\ uart'[i].conn = open'[l]
                        \/ DatagramEntry(l)'
      BY <1>1 DEF EndpointsKnown, DatagramEntry
    <2>1. l \in Links
      BY TypeInvParts DEF FwTypeOK
    <2>2. CASE Starting(l)
      <3>1. PICK i \in Wire : uart[i].t = "OK" /\ uart[i].conn = open[l]
        BY <2>2 DEF EndpointInv, EndpointsKnown
      <3> QED BY <1>1, <2>1, <2>2, <3>1, StartListens
    <2>3. CASE ~Starting(l)
      <3>1. DatagramEntry(l) /\ conn[l] # NoConn
        BY <2>1, <2>3, Listened DEF DatagramEntry
      <3>2. CASE Sketch
        <4>1. UNCHANGED linkVars /\ pc' # "start"
          BY <3>2 DEF Sketch, EnterAny, Enter, LocalPortQuery, Fail, Return
        <4> QED BY <1>1, <3>1, <4>1, DatagramStays DEF linkVars, Starting
      <3>3. CASE Rx
        <4>1. UNCHANGED <<pc, call>> /\ uart # <<>>
          BY <3>3, RxWire DEF Heard
        <4>2. ~Turns(Head(uart), l)
          BY <2>1, <3>1, <4>1, NoneTurned DEF DatagramEntry
        <4>3. flags'[l] = flags[l] /\ conn'[l] = conn[l]
          BY <2>1, <3>3, <4>2, RxLink
        <4> QED BY <1>1, <2>3, <3>1, <4>1, <4>3, DatagramStays DEF Starting
      <3>4. CASE Body
        BY <2>1, <3>1, <3>4, DatagramBody
      <3> QED BY <3>2, <3>3, <3>4 DEF Driver
    <2> QED BY <2>2, <2>3
  <1> QED BY <1>2, <1>3, <1>4 DEF EndpointInv

----------------------------------------------------------------------------
(* The invariant and the theorem. *)

LEMMA SizedKept ==
  ASSUME TypeInv, Sized, Sketch \/ Driver
  PROVE  Sized'
  <1>1. CASE Sketch
    <2>1. request' = request
      BY <1>1, SketchWire
    <2>2. call'.op = "recvData" => call'.size > 0
      <3>1. CASE call' = NoCall
        BY <3>1 DEF NoCall, Call
      <3>2. CASE \E op, h, k, n : call' = Call(op, h, k, n) /\ (op = "recvData" => n \in 1 .. MaxData)
        BY <3>2 DEF Call
      <3>3. EnterAny => \E op, h, k, n : /\ call' = Call(op, h, k, n)
                                         /\ op = "recvData" => n \in 1 .. MaxData
        BY DEF EnterAny, Enter, HandleOps
      <3>4. ASSUME NEW h \in handles, LocalPortQuery(h)
            PROVE  call'.op # "recvData"
        BY <3>4 DEF LocalPortQuery, Fail, Return, NoCall, Call
      <3> QED BY <1>1, <3>2, <3>3, <3>4 DEF Sketch
    <2> QED BY <2>1, <2>2 DEF Sized
  <1>2. CASE Rx
    BY <1>2, RxWire DEF Sized
  <1>3. CASE Body
    <2>1. call'.op = "recvData" => call.op = "recvData" /\ call'.size = call.size
      <3>1. call \in Calls
        BY TypeInvParts DEF SketchOK
      <3>2. \/ call' = NoCall \/ call' = call
            \/ \E l : call' = [call EXCEPT !.link = l]
            \/ \E list : call' = [call EXCEPT !.list = list]
        BY <1>3 DEF Body, CheckFails, NewClientLinkId, ConnectStart, ConnectDone, ConnectFails,
           CloseStart, CloseModeDone, CloseDone, Known, SyncLinkInfo, CheckLinksListed, CheckLinks,
           RecvLenStart, RecvLenQuery, SyncDone, RecvNothing, RecvStart, RecvData, RecvTruncated,
           RecvFails, RecvDone, SendStart, SendPayload, SendReceived, SendDone, ParamsStart,
           ParamsListed, ParamsDone, ResetStart, ResetReady, ResetDone, CommandFails,
           Return, Fail, Continue
      <3>3. NoCall.op # "recvData"
        BY DEF NoCall, Call
      <3> QED BY <3>1, <3>2, <3>3 DEF Calls
    <2>2. request'.cmd = "CIPRECVDATA" =>
            request' = request \/ (call.op = "recvData" /\ request'.size = call.size)
      <3>1. CASE RecvStart
        BY <3>1 DEF RecvStart, Checked, Drained, Send, Command
      <3>2. CASE CloseStart \/ ConnectStart \/ CloseModeDone \/ SyncLinkInfo \/ RecvLenStart \/ SendStart
                 \/ SendPayload \/ ParamsStart \/ ResetStart \/ ResetReady
        BY <3>2 DEF ConnectStart, CloseStart, CloseModeDone, SyncLinkInfo, RecvLenStart, SendStart,
           SendPayload, ParamsStart, ResetStart, ResetReady, Send, Command
      <3>3. CASE CheckFails \/ NewClientLinkId \/ ConnectDone \/ ConnectFails \/ CloseDone \/ Known
                 \/ CheckLinksListed \/ CheckLinks \/ RecvLenQuery \/ SyncDone \/ RecvNothing
                 \/ RecvData \/ RecvTruncated \/ RecvFails \/ RecvDone \/ SendReceived \/ SendDone
                 \/ ParamsListed \/ ParamsDone \/ ResetDone \/ CommandFails
        BY <3>3 DEF CheckFails, NewClientLinkId, ConnectDone, ConnectFails, CloseDone, Known,
           CheckLinksListed, CheckLinks, RecvLenQuery, SyncDone, RecvNothing, RecvData,
           RecvTruncated, RecvFails, RecvDone, SendReceived, SendDone, ParamsListed, ParamsDone,
           ResetDone, CommandFails, Refused
      <3> QED BY <1>3, <3>1, <3>2, <3>3 DEF Body
    <2> QED BY <2>1, <2>2 DEF Sized
  <1> QED BY <1>1, <1>2, <1>3 DEF Driver

LEMMA NextData ==
  ASSUME TypeInv, WireInv, OnceInv, DataInv, [Next]_vars
  PROVE  DataInv'
  <1>1. /\ TypeInv' /\ Dialogue /\ View /\ ClosingNow /\ build' = build
        /\ View' /\ Asked /\ Unanswered
    BY NextTypeInv, NextWireInv, BuildIsRigid DEF WireInv, Dialogue
  <1>2. CASE Sketch \/ Driver
    <2>1. Awaited' /\ SameReads /\ (Still \/ Heard)
      BY <1>1, <1>2, OnlyListings DEF DataInv
    <2>2. DataTells'
      BY <1>1, <1>2, DriverDataTells
    <2>3. StartInv' /\ EndpointInv' /\ Sized'
      BY <1>1, <1>2, <2>1, DriverStart, DriverEndpoints, SizedKept DEF DataInv
    <2> QED BY <2>1, <2>2, <2>3 DEF DataInv
  <1>3. CASE FwNext /\ UNCHANGED drvVars
    <2>1. News
      BY <1>1, <1>3, NetworkNews, ExecuteNews DEF FwNext, DataInv, EndpointInv, drvVars
    <2>2. FreshLines
      BY <1>1, <1>3, NetworkFresh, ExecuteFresh DEF FwNext
    <2>3. OpenMoves
      BY <1>1, <1>3, FirmwareSpeaks DEF FirmwareStep, Speaks, OpenMoves
    <2> QED BY <1>1, <1>3, <2>1, <2>2, <2>3, FirmwareData
  <1>4. CASE UNCHANGED vars
    BY <1>4 DEF vars, fwVars, drvVars, linkVars, DataInv, DataTells, DataView, ConnectTells, ListTells,
       RefusalTells, EntryTells, Settled, Refreshing, Told, LastSet, After, Sets, Reads, Arrives, Count,
       StartInv, StartTells, StartClear, StartUnmarked, StartSeen, EndpointInv, EndpointsOpen,
       EndpointsListed, EndpointsKnown, Awaited, Sized, Wire, Listing, Opens, Ends, Starting,
       IsConnected, IsClosing, IsUdpListener, AT1
  <1> QED BY <1>2, <1>3, <1>4 DEF Next

LEMMA InitData == Init => DataInv
  <1> SUFFICES ASSUME Init PROVE DataInv
    OBVIOUS
  <1>1. /\ Wire = {} /\ endpoint = {} /\ pc = "idle" /\ call.op = "none" /\ request.cmd = "none"
        /\ \A l \in Links : flags[l] = {}
    BY DEF Init, FwInit, Wire, NoCall, Call, NoRequest, Command
  <1>2. DataTells
    BY <1>1 DEF DataTells, DataView, ConnectTells, ListTells, RefusalTells, EntryTells, Settled,
       IsConnected
  <1>3. StartInv /\ EndpointInv
    BY <1>1 DEF StartInv, StartTells, StartClear, StartUnmarked, StartSeen, Starting,
       EndpointInv, EndpointsOpen, EndpointsListed, EndpointsKnown
  <1> QED BY <1>1, <1>2, <1>3 DEF DataInv, Awaited, Sized

(* With no event lost, linkInfo calls no closed link connected once all is   *)
(* read, and counts on each link exactly the data that the firmware holds,   *)
(* in whatever order IPD, the answers to CIPRECVDATA and CIPRECVLEN, close() *)
(* and connect() crossed.                                                   *)
THEOREM AvailableAlwaysExact == Spec => []AvailableExact
  <1>1. TypeInv /\ WireInv /\ DataInv => AvailableExact
    <2> SUFFICES ASSUME TypeInv, WireInv, DataInv, reliable, Quiet, NEW l \in Links, IsConnected(l)
                 PROVE  open[l] = conn[l] /\ available[l] = unread[l]
      BY DEF AvailableExact
    <2>1. Wire = {} /\ pc = "idle"
      BY WireFacts DEF Quiet
    <2>2. ~IsClosing(l) /\ ~Starting(l) /\ ~Refreshing /\ conn[l] # NoConn
      BY <2>1 DEF WireInv, ClosingNow, Starting, Refreshing, View, Named
    <2>3. open[l] = conn[l]
      BY <2>1, <2>2 DEF WireInv, View, EntryView, Holds, ClosedAfter
    <2>4. Told(available[l], 0, l)
      BY <2>2, <2>3 DEF DataInv, DataTells, DataView, EntryTells, Settled
    <2>5. After(available[l], 0, l)
      BY <2>1, <2>4 DEF Told
    <2> QED BY <2>1, <2>3, <2>5 DEF After
  <1>2. TypeInv /\ WireInv /\ OnceInv /\ DataInv /\ [Next]_vars => OnceInv' /\ DataInv'
    BY NextOnce, NextData
  <1>3. Spec => [](TypeInv /\ WireInv)
    BY SpecWireInv, PTL
  <1> QED BY <1>1, <1>2, <1>3, InitOnce, InitData, PTL DEF Spec
=============================================================================
