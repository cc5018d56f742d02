--------------------------- MODULE EspAtDrvProofs ---------------------------
(***************************************************************************)
(* Proofs about EspAtDrv, for any set of links, any builds and any bounds:   *)
(* the types, that old handles are refused (OldHandleRefused), and in the    *)
(* second part that linkInfo follows the line (ViewBehindWire, ClosingEnds, *)
(* HandleMeansConnection) and accepts nothing twice (AcceptedOnce).         *)
(***************************************************************************)
EXTENDS EspAtDrv, TLAPS

(* The waits that are not for a handle's operation. *)
NoHandleWaits == {"idle", "drain", "start", "ready", "setup"}

(* Whom the running call and the command under way are for. *)
CallOK ==
  /\ call.op \in HandleOps => call.h \in Handles
  /\ pc \notin NoHandleWaits => call.h \in Handles
  /\ pc = "start" => call.link \in Links
  /\ request.cmd \in {"CIPSTART", "CIPCLOSE", "CIPRECVDATA"} => request.link \in Links

TypeInv == TypeOK /\ CallOK

(* TypeOK in two parts: linkInfo, and the running call with the handles. *)
LinkInfoOK ==
  /\ flags \in [Links -> SUBSET Flags]
  /\ serialId \in [Links -> 0 .. SERIALS - 1]
  /\ available \in [Links -> 0 .. MaxData]
  /\ conn \in [Links -> Conns]
  /\ epoch \in [Links -> Nat]

SketchOK ==
  /\ lastErrorCode \in Errors
  /\ call \in Calls
  /\ pc \in PCs
  /\ handles \subseteq Handles

LEMMA TypeInvParts == TypeInv <=> FwTypeOK /\ LinkInfoOK /\ SketchOK /\ CallOK
  BY DEF TypeInv, TypeOK, LinkInfoOK, SketchOK

----------------------------------------------------------------------------
(* Facts about the constants and the records. *)

LEMMA ConstantFacts ==
  /\ NoConn \in Conns
  /\ 0 \in 0 .. MaxData
  /\ 0 \in 0 .. SERIALS - 1
  /\ NoLink \notin Links
  BY BoundsAssumption, SerialsAssumption, LinksAssumption DEF NoConn, Conns, NoLink

(* What a message of each kind carries. *)
LEMMA MessageFields ==
  ASSUME NEW m \in Messages
  PROVE  /\ m.t \in EventTypes => m.link \in Links /\ m.conn \in Conns /\ m.len \in 0 .. MaxData
         /\ m.t = "OK" => m.conn \in Conns
         /\ m.t = "STATUS" => m.conns \in [Links -> Conns]
         /\ m.t = "+CIPRECVLEN" => m.conns \in [Links -> Conns] /\ m.lens \in [Links -> 0 .. MaxData]
         /\ m.t = "+CIPRECVDATA" => m.len \in 0 .. MaxData
  BY DEF Messages, EventTypes

(* What the firmware says is a message. *)
LEMMA MessagesMade ==
  /\ \A type \in EventTypes, l \in Links, c \in Conns, n \in 0 .. MaxData :
       Event(type, l, c, n) \in Messages
  /\ \A c \in Conns : Started(c) \in Messages
  /\ OK \in Messages /\ ERROR \in Messages /\ UNLINK \in Messages
  /\ PROMPT \in Messages /\ RECV \in Messages /\ READY \in Messages
  /\ \A ok \in BOOLEAN : SEND(ok) \in Messages
  /\ \A n \in 0 .. MaxData : CIPRECVDATA(n) \in Messages
  <1>1. \A type \in EventTypes, l \in Links, c \in Conns, n \in 0 .. MaxData :
          Event(type, l, c, n) \in Messages
    BY DEF Messages, Event
  <1>2. \A c \in Conns : Started(c) \in Messages
    BY DEF Messages, Started
  <1>3. OK \in Messages
    BY ConstantFacts DEF Messages, OK
  <1>4. ERROR \in Messages /\ UNLINK \in Messages
    BY DEF Messages, ERROR, UNLINK
  <1>5. PROMPT \in Messages /\ RECV \in Messages /\ READY \in Messages
    BY DEF Messages, PROMPT, RECV, READY
  <1>6. \A ok \in BOOLEAN : SEND(ok) \in Messages
    BY DEF Messages, SEND
  <1>7. \A n \in 0 .. MaxData : CIPRECVDATA(n) \in Messages
    BY DEF Messages, CIPRECVDATA
  <1> QED BY <1>1, <1>2, <1>3, <1>4, <1>5, <1>6, <1>7

LEMMA ListsMade ==
  ASSUME FwTypeOK
  PROVE  CIPSTATUS \in Messages /\ CIPRECVLEN \in Messages
  <1>1. CIPSTATUS \in Messages
    BY DEF FwTypeOK, Messages, CIPSTATUS
  <1>2. CIPRECVLEN \in Messages
    BY DEF FwTypeOK, Messages, CIPRECVLEN
  <1> QED BY <1>1, <1>2

(* Sequences over any set. *)
LEMMA SeqFacts ==
  ASSUME NEW S, NEW s \in Seq(S)
  PROVE  /\ s # <<>> => Head(s) \in S /\ Tail(s) \in Seq(S)
         /\ \A e \in S : Append(s, e) \in Seq(S)
         /\ \A e \in S : s \o <<e>> \in Seq(S)
         /\ \A e, f \in S : s \o <<e, f>> \in Seq(S)
  OBVIOUS

LEMMA CallFields ==
  ASSUME NEW c \in Calls
  PROVE  /\ c.op \in Ops \cup {"none"} /\ c.h \in Handles \cup {NoHandle}
         /\ c.link \in Links \cup {NoLink} /\ c.kind \in {"TCP", "UDP"}
         /\ c.size \in 0 .. MaxData /\ c.list \in [Links -> Conns]
  BY DEF Calls

LEMMA HandleFields ==
  /\ \A h \in Handles : /\ h.link \in Links /\ h.serial \in 0 .. SERIALS - 1
                        /\ h.conn \in Conns /\ h.epoch \in Nat
                        /\ h.via \in {"connect", "accept"}
  /\ NoHandle.conn \in Conns
  BY ConstantFacts DEF Handles, NoHandle

----------------------------------------------------------------------------
(* The initial states. *)
LEMMA InitTypeInv == Init => TypeInv
  <1> SUFFICES ASSUME Init PROVE TypeInv
    OBVIOUS
  <1> USE ConstantFacts
  <1>1. FwTypeOK
    <2>1. NoRequest \in Requests
      BY DEF NoRequest, Requests, Command
    <2>2. /\ build \in Builds /\ open \in [Links -> Conns] /\ endpoint \subseteq Links
          /\ unread \in [Links -> 0 .. MaxData] /\ uart \in Seq(Messages)
      BY DEF Init, FwInit
    <2>3. lastConn \in Conns
      BY DEF Init, FwInit, NoConn
    <2>4. missed \in BOOLEAN /\ reliable \in BOOLEAN
      BY ZenonT(20) DEF Init, FwInit
    <2>5. request \in Requests
      BY <2>1 DEF Init, FwInit
    <2> QED BY <2>2, <2>3, <2>4, <2>5 DEF FwTypeOK
  <1>2. LinkInfoOK
    BY DEF Init, LinkInfoOK
  <1>3. SketchOK
    <2>1. NoCall \in Calls
      BY DEF NoCall, Call, Calls, NoList
    <2> QED BY <2>1 DEF Init, SketchOK, Errors, PCs
  <1>4. CallOK
    BY DEF Init, FwInit, CallOK, NoCall, Call, HandleOps, NoRequest, Command, NoHandleWaits
  <1> QED BY <1>1, <1>2, <1>3, <1>4, TypeInvParts

----------------------------------------------------------------------------
(* The network and the firmware. *)

LEMMA NotifyOK ==
  ASSUME FwTypeOK, NEW m \in Messages, Notify(m)
  PROVE  uart' \in Seq(Messages) /\ missed' \in BOOLEAN /\ reliable' \in BOOLEAN
  <1>1. uart' \in Seq(Messages)
    BY SeqFacts DEF FwTypeOK, Notify
  <1>2. missed' \in BOOLEAN /\ reliable' \in BOOLEAN
    BY Zenon DEF FwTypeOK, Notify, Lose, ghosts
  <1> QED BY <1>1, <1>2

(* A step of the firmware leaves the driver's side of the invariant alone.  *)
LEMMA DriverAside ==
  ASSUME TypeInv, UNCHANGED drvVars, FwTypeOK', request' \in {request, NoRequest}
  PROVE  TypeInv'
  <1>1. UNCHANGED <<flags, serialId, available, conn, epoch, lastErrorCode, call, pc, handles>>
    BY DEF drvVars, linkVars
  <1>2. LinkInfoOK'
    BY <1>1, TypeInvParts DEF LinkInfoOK
  <1>3. SketchOK'
    BY <1>1, TypeInvParts DEF SketchOK
  <1>4. CallOK'
    <2>1. NoRequest.cmd = "none"
      BY DEF NoRequest, Command
    <2> QED BY <1>1, <2>1, TypeInvParts DEF CallOK
  <1> QED BY <1>2, <1>3, <1>4 DEF TypeInv, TypeOK, LinkInfoOK, SketchOK

LEMMA NetworkTypeInv ==
  ASSUME TypeInv, Network, UNCHANGED build, UNCHANGED drvVars
  PROVE  TypeInv'
  <1> USE ConstantFacts
  <1>1. FwTypeOK
    BY TypeInvParts
  <1>2. PICK l \in Links : PeerConnects(l) \/ DataArrives(l) \/ PeerCloses(l)
    BY DEF Network
  <1>3. open[l] \in Conns /\ unread[l] \in 0 .. MaxData /\ 1 \in 0 .. MaxData
    BY <1>1, BoundsAssumption DEF FwTypeOK
  <1>4. PICK m \in Messages : Notify(m)
    <2>1. CASE PeerConnects(l)
      <3>1. lastConn + 1 \in Conns
        BY <1>1, <2>1, BoundsAssumption DEF FwTypeOK, PeerConnects, Conns
      <3>2. Event("CONNECT", l, lastConn + 1, 0) \in Messages
        BY <3>1, MessagesMade DEF EventTypes
      <3> QED BY <2>1, <3>2 DEF PeerConnects
    <2>2. CASE DataArrives(l)
      <3>1. CASE AT1 /\ l \in endpoint
        <4>1. Event("IPD", l, open[l], 1) \in Messages
          BY <1>3, MessagesMade DEF EventTypes
        <4> QED BY <2>2, <3>1, <4>1 DEF DataArrives
      <3>2. CASE ~(AT1 /\ l \in endpoint)
        <4>1. unread[l] + 1 \in 0 .. MaxData
          BY <1>3, <2>2, <3>2, BoundsAssumption DEF DataArrives
        <4>2. Event("IPD", l, open[l], unread[l] + 1) \in Messages
          BY <1>3, <4>1, MessagesMade DEF EventTypes
        <4> QED BY <2>2, <3>2, <4>2 DEF DataArrives
      <3> QED BY <3>1, <3>2
    <2>3. CASE PeerCloses(l)
      <3>1. Event("CLOSED", l, open[l], 0) \in Messages
        BY <1>3, MessagesMade DEF EventTypes
      <3> QED BY <2>3, <3>1 DEF PeerCloses
    <2> QED BY <1>2, <2>1, <2>2, <2>3
  <1>5. uart' \in Seq(Messages) /\ missed' \in BOOLEAN /\ reliable' \in BOOLEAN
    BY <1>1, <1>4, NotifyOK
  <1>6. request' = request /\ endpoint' = endpoint
    BY <1>2 DEF PeerConnects, DataArrives, PeerCloses
  <1>7. /\ open' \in [Links -> Conns]
        /\ unread' \in [Links -> 0 .. MaxData]
        /\ lastConn' \in Conns
    BY <1>1, <1>2, <1>3, BoundsAssumption
       DEF FwTypeOK, PeerConnects, DataArrives, PeerCloses, Conns, NoConn
  <1>8. FwTypeOK'
    <2>1. build' \in Builds /\ endpoint' \subseteq Links /\ request' \in Requests
      BY <1>1, <1>6 DEF FwTypeOK
    <2> QED BY <1>5, <1>7, <2>1 DEF FwTypeOK
  <1> QED BY <1>6, <1>8, DriverAside

(* The firmware executes a command. *)
LEMMA ExecuteTypeInv ==
  ASSUME TypeInv, Execute, UNCHANGED build, UNCHANGED drvVars
  PROVE  TypeInv'
  <1> USE ConstantFacts
  <1>1. FwTypeOK /\ CallOK
    BY TypeInvParts
  <1>2. NoRequest \in Requests
    BY DEF NoRequest, Requests, Command
  <1>3. ASSUME NEW m \in Messages, Answer(<<m>>)
        PROVE  uart' \in Seq(Messages)
    BY <1>1, <1>3, SeqFacts DEF FwTypeOK, Answer
  <1>4. ASSUME NEW m \in Messages, NEW n \in Messages, Answer(<<m, n>>)
        PROVE  uart' \in Seq(Messages)
    BY <1>1, <1>4, SeqFacts DEF FwTypeOK, Answer
  <1>5. ASSUME request' = NoRequest, uart' \in Seq(Messages), open' \in [Links -> Conns],
               endpoint' \subseteq Links, unread' \in [Links -> 0 .. MaxData],
               lastConn' \in Conns, missed' \in BOOLEAN, reliable' \in BOOLEAN
        PROVE  TypeInv'
    <2>1. FwTypeOK'
      BY <1>1, <1>2, <1>5 DEF FwTypeOK
    <2> QED BY <1>5, <2>1, DriverAside
  <1>6. /\ UNCHANGED ghosts => missed' \in BOOLEAN /\ reliable' \in BOOLEAN
        /\ Lose => missed' \in BOOLEAN /\ reliable' \in BOOLEAN
    BY <1>1, Zenon DEF FwTypeOK, ghosts, Lose
  <1>7. CASE ExecStart
    <2> DEFINE l == request.link
    <2>1. l \in Links /\ open[l] \in Conns
      BY <1>1, <1>7 DEF FwTypeOK, CallOK, ExecStart, Executing
    <2>2. /\ request' = NoRequest /\ UNCHANGED unread /\ UNCHANGED ghosts
      BY <1>7 DEF ExecStart, Answer
    <2>3. CASE Answer(<<Event("CONNECT", l, lastConn + 1, 0), Started(lastConn + 1)>>)
               /\ lastConn < MaxConn /\ lastConn' = lastConn + 1
               /\ open' = [open EXCEPT ![l] = lastConn + 1]
               /\ endpoint' = IF request.kind = "UDP" THEN endpoint \cup {l} ELSE endpoint
      <3>1. lastConn + 1 \in Conns
        BY <1>1, <2>3, BoundsAssumption DEF FwTypeOK, Conns
      <3>2. Event("CONNECT", l, lastConn + 1, 0) \in Messages /\ Started(lastConn + 1) \in Messages
        BY <2>1, <3>1, MessagesMade DEF EventTypes
      <3>3. uart' \in Seq(Messages)
        BY <1>4, <2>3, <3>2
      <3> QED BY <1>1, <1>5, <1>6, <2>1, <2>2, <2>3, <3>1, <3>3 DEF FwTypeOK
    <2>4. CASE Answer(<<Event("CLOSED", l, NoConn, 0), ERROR>>)
               /\ UNCHANGED <<open, endpoint, lastConn>>
      <3>1. Event("CLOSED", l, NoConn, 0) \in Messages /\ ERROR \in Messages
        BY <2>1, MessagesMade DEF EventTypes
      <3>2. uart' \in Seq(Messages)
        BY <1>4, <2>4, <3>1
      <3> QED BY <1>1, <1>5, <1>6, <2>2, <2>4, <3>2 DEF FwTypeOK
    <2>5. CASE Answer(<<ERROR>>) /\ UNCHANGED <<open, endpoint, lastConn>>
      <3>1. uart' \in Seq(Messages)
        BY <1>3, <2>5, MessagesMade
      <3> QED BY <1>1, <1>5, <1>6, <2>2, <2>5, <3>1 DEF FwTypeOK
    <2> QED BY <1>7, <2>3, <2>4, <2>5 DEF ExecStart
  <1>8. CASE ExecClose
    <2> DEFINE l == request.link
    <2>1. l \in Links /\ open[l] \in Conns
      BY <1>1, <1>8 DEF FwTypeOK, CallOK, ExecClose, Executing
    <2>2. request' = NoRequest /\ UNCHANGED lastConn
      BY <1>8 DEF ExecClose, Answer
    <2>3. /\ open' \in [Links -> Conns] /\ endpoint' \subseteq Links
          /\ unread' \in [Links -> 0 .. MaxData]
      BY <1>1, <1>8, <2>1 DEF FwTypeOK, ExecClose
    <2>4. (UNCHANGED ghosts \/ Lose)
      BY <1>8 DEF ExecClose
    <2>5. Event("CLOSED", l, open[l], 0) \in Messages
      BY <2>1, MessagesMade DEF EventTypes
    <2>6. uart' \in Seq(Messages)
      BY <1>3, <1>4, <1>8, <2>5, MessagesMade DEF ExecClose
    <2> QED BY <1>1, <1>5, <1>6, <2>2, <2>3, <2>4, <2>6 DEF FwTypeOK
  <1>9. CASE ExecRecvData
    <2> DEFINE l == request.link
               n == IF request.size < unread[l] THEN request.size ELSE unread[l]
    <2>1. l \in Links /\ unread[l] \in 0 .. MaxData /\ request.size \in 0 .. MaxData
      BY <1>1, <1>9 DEF FwTypeOK, CallOK, ExecRecvData, Executing, Requests
    <2>2. n \in 0 .. MaxData /\ unread[l] - n \in 0 .. MaxData
      BY <2>1, BoundsAssumption
    <2>3. Answer(<<ERROR>>) \/ Answer(<<CIPRECVDATA(n), OK>>)
      BY <1>9 DEF ExecRecvData
    <2>4. uart' \in Seq(Messages)
      BY <1>3, <1>4, <2>2, <2>3, MessagesMade
    <2>5. unread' \in [Links -> 0 .. MaxData]
      BY <1>1, <1>9, <2>2 DEF FwTypeOK, ExecRecvData
    <2>6. request' = NoRequest /\ UNCHANGED <<open, endpoint, lastConn>> /\ UNCHANGED ghosts
      BY <1>9 DEF ExecRecvData, Answer
    <2> QED BY <1>1, <1>5, <1>6, <2>4, <2>5, <2>6 DEF FwTypeOK
  <1>10. CASE ExecSend \/ ExecPayload
    <2>1. /\ request' = NoRequest /\ UNCHANGED <<open, endpoint, unread, lastConn>>
          /\ UNCHANGED ghosts
      BY <1>10 DEF ExecSend, ExecPayload, Answer
    <2>2. uart' \in Seq(Messages)
      BY <1>3, <1>4, <1>10, MessagesMade DEF ExecSend, ExecPayload
    <2> QED BY <1>1, <1>5, <1>6, <2>1, <2>2 DEF FwTypeOK
  <1>11. CASE ExecStatus \/ ExecRecvLen
    <2>1. request' = NoRequest /\ UNCHANGED <<open, endpoint, unread, lastConn>>
      BY <1>11 DEF ExecStatus, ExecRecvLen, Answer
    <2>2. uart' \in Seq(Messages)
      BY <1>1, <1>4, <1>11, MessagesMade, ListsMade DEF ExecStatus, ExecRecvLen
    <2>3. missed' \in BOOLEAN /\ reliable' \in BOOLEAN
      BY <1>1, <1>11, Zenon DEF FwTypeOK, ExecStatus, ExecRecvLen
    <2> QED BY <1>1, <1>5, <2>1, <2>2, <2>3 DEF FwTypeOK
  <1>12. CASE ExecOther
    <2>1. /\ request' = NoRequest /\ UNCHANGED <<open, endpoint, unread, lastConn>>
          /\ UNCHANGED ghosts
      BY <1>12 DEF ExecOther, Answer
    <2>2. uart' \in Seq(Messages)
      BY <1>3, <1>12, MessagesMade DEF ExecOther
    <2> QED BY <1>1, <1>5, <1>6, <2>1, <2>2 DEF FwTypeOK
  <1>13. CASE ExecReset
    <2>1. /\ request' = NoRequest /\ open' \in [Links -> Conns] /\ endpoint' \subseteq Links
          /\ unread' \in [Links -> 0 .. MaxData] /\ UNCHANGED lastConn /\ Lose
      BY <1>13 DEF ExecReset, Answer
    <2>2. uart' \in Seq(Messages)
      BY <1>3, <1>13, MessagesMade DEF ExecReset
    <2> QED BY <1>1, <1>5, <1>6, <2>1, <2>2 DEF FwTypeOK
  <1> QED BY <1>7, <1>8, <1>9, <1>10, <1>11, <1>12, <1>13 DEF Execute

----------------------------------------------------------------------------
(* The sketch starts a call. *)
LEMMA SketchTypeInv ==
  ASSUME TypeInv, Sketch
  PROVE  TypeInv'
  <1> USE ConstantFacts
  <1>1. FwTypeOK /\ LinkInfoOK /\ SketchOK /\ CallOK
    BY TypeInvParts
  <1>2. ASSUME NEW op \in Ops, NEW h \in Handles \cup {NoHandle}, NEW k \in {"TCP", "UDP"},
               NEW n \in 0 .. MaxData
        PROVE  Call(op, h, k, n) \in Calls
    BY <1>2 DEF Call, Calls, NoList
  <1>3. ASSUME UNCHANGED <<fwVars, linkVars, handles>>, call' \in Calls, lastErrorCode' \in Errors,
               pc' \in {"idle", "drain"}, call'.op \in HandleOps => call'.h \in Handles
        PROVE  TypeInv'
    <2>1. FwTypeOK' /\ request' = request
      BY <1>1, <1>3 DEF FwTypeOK, fwVars
    <2>2. LinkInfoOK'
      BY <1>1, <1>3 DEF LinkInfoOK, linkVars
    <2>3. SketchOK'
      BY <1>1, <1>3 DEF SketchOK, PCs
    <2>4. CallOK'
      BY <1>1, <1>3, <2>1 DEF CallOK, NoHandleWaits
    <2> QED BY <2>1, <2>2, <2>3, <2>4 DEF TypeInv, TypeOK, LinkInfoOK, SketchOK
  <1>4. ASSUME NEW op \in Ops, NEW h \in Handles \cup {NoHandle}, NEW k \in {"TCP", "UDP"},
               NEW n \in 0 .. MaxData, op \in HandleOps => h \in Handles, Enter(op, h, k, n)
        PROVE  TypeInv'
    <2>1. /\ call' = Call(op, h, k, n) /\ pc' = "drain" /\ lastErrorCode' \in Errors
          /\ UNCHANGED <<fwVars, linkVars, handles>>
      BY <1>4 DEF Enter, Errors
    <2>2. call'.op = op /\ call'.h = h /\ call' \in Calls
      BY <1>2, <2>1 DEF Call
    <2> QED BY <1>3, <1>4, <2>1, <2>2
  <1>5. ASSUME EnterAny
        PROVE  TypeInv'
    <2>1. HandleOps \subseteq Ops /\ {"newClientLinkId", "reset", "connect"} \subseteq Ops
          /\ "recvData" \in HandleOps /\ {"newClientLinkId", "reset", "connect"} \cap HandleOps = {}
      BY DEF HandleOps, Ops
    <2>2. CASE \E op \in {"newClientLinkId", "reset"} : Enter(op, NoHandle, "TCP", 0)
      BY <1>4, <2>1, <2>2
    <2>3. CASE \E k \in Kinds : Enter("connect", NoHandle, k, 0)
      BY <1>4, <2>1, <2>3, KindsAssumption
    <2>4. CASE \E h \in handles :
                 \/ \E op \in HandleOps \ {"recvData"} : Enter(op, h, "TCP", 0)
                 \/ \E n \in 1 .. MaxData : Enter("recvData", h, "TCP", n)
      <3>1. PICK h \in Handles :
                 \/ \E op \in HandleOps \ {"recvData"} : Enter(op, h, "TCP", 0)
                 \/ \E n \in 1 .. MaxData : Enter("recvData", h, "TCP", n)
        BY <1>1, <2>4 DEF SketchOK
      <3>2. 1 .. MaxData \subseteq 0 .. MaxData
        BY BoundsAssumption
      <3> QED BY <1>4, <2>1, <3>1, <3>2
    <2> QED BY <1>5, <2>2, <2>3, <2>4 DEF EnterAny
  <1>6. ASSUME NEW h \in handles, LocalPortQuery(h)
        PROVE  TypeInv'
    <2>1. h \in Handles /\ [h EXCEPT !.serial = 0] \in Handles
      BY <1>1 DEF SketchOK, Handles
    <2>2. CASE Active(h)
      <3> DEFINE c == Call("remoteParamsQuery", [h EXCEPT !.serial = 0], "TCP", 0)
      <3>1. /\ call' = c /\ pc' = "drain" /\ lastErrorCode' \in Errors
            /\ UNCHANGED <<fwVars, linkVars, handles>>
        BY <1>6, <2>2 DEF LocalPortQuery, Errors
      <3>2. c \in Calls
        BY <1>2, <2>1 DEF Ops
      <3>3. c.h = [h EXCEPT !.serial = 0]
        BY DEF Call
      <3> HIDE DEF c
      <3> QED BY <1>3, <2>1, <3>1, <3>2, <3>3
    <2>3. CASE ~Active(h)
      <3>1. /\ call' = NoCall /\ pc' = "idle" /\ lastErrorCode' \in Errors
            /\ UNCHANGED <<fwVars, linkVars, handles>>
        BY <1>6, <2>3 DEF LocalPortQuery, Fail, Return, Errors
      <3>2. NoCall \in Calls /\ NoCall.op \notin HandleOps
        BY DEF NoCall, Call, Calls, NoList, HandleOps
      <3> QED BY <1>3, <3>1, <3>2
    <2> QED BY <2>2, <2>3
  <1> QED BY <1>5, <1>6 DEF Sketch

----------------------------------------------------------------------------
(* The driver reads an event or ignores a line. *)

(* What the frame of a driver step says of the firmware's variables. *)
LEMMA FirmwareAside ==
  ASSUME FwTypeOK, FwUnchanged, uart' \in Seq(Messages), request' \in Requests
  PROVE  FwTypeOK'
  <1>1. missed' \in BOOLEAN /\ reliable' \in BOOLEAN
    BY Zenon DEF FwTypeOK, FwUnchanged
  <1>2. /\ build' \in Builds /\ open' \in [Links -> Conns] /\ endpoint' \subseteq Links
        /\ unread' \in [Links -> 0 .. MaxData] /\ lastConn' \in Conns
    BY DEF FwTypeOK, FwUnchanged
  <1> QED BY <1>1, <1>2 DEF FwTypeOK

LEMMA NextSerialOK == \A n \in 0 .. SERIALS - 1 : NextSerial(n) \in 0 .. SERIALS - 1
  BY SerialsAssumption DEF NextSerial

LEMMA IncrementOK ==
  ASSUME LinkInfoOK, NEW L, IncrementSerialId(L)
  PROVE  serialId' \in [Links -> 0 .. SERIALS - 1] /\ epoch' \in [Links -> Nat]
  BY NextSerialOK DEF LinkInfoOK, IncrementSerialId

LEMMA RxTypeInv ==
  ASSUME TypeInv, Rx
  PROVE  TypeInv'
  <1> USE ConstantFacts
  <1>1. FwTypeOK /\ LinkInfoOK /\ SketchOK /\ CallOK
    BY TypeInvParts
  <1>2. Reading /\ Receive /\ FwUnchanged /\ UNCHANGED <<request, call, pc, handles>>
    BY DEF Rx, RxEvent, RxIgnored, drvVars
  <1>3. uart' \in Seq(Messages) /\ Head(uart) \in Messages
    BY <1>1, <1>2, SeqFacts DEF FwTypeOK, Reading, Receive
  <1>4. FwTypeOK'
    BY <1>1, <1>2, <1>3, FirmwareAside DEF FwTypeOK
  <1>5. LinkInfoOK' /\ lastErrorCode' \in Errors
    <2>1. CASE RxIgnored
      BY <1>1, <2>1 DEF RxIgnored, LinkInfoOK, SketchOK, drvVars, linkVars
    <2>2. CASE RxEvent
      <3> DEFINE m == Head(uart)
      <3>1. m.t \in EventTypes => m.link \in Links /\ m.conn \in Conns /\ m.len \in 0 .. MaxData
        BY <1>3, MessageFields
      <3>2. CASE m.t = "CONNECT" /\ RxConnect(m)
        <4>1. m.link \in Links /\ m.conn \in Conns
          BY <3>1, <3>2 DEF EventTypes
        <4>2. CASE available[m.link] = 0 /\ (~IsConnected(m.link) \/ IsClosing(m.link))
          <5>1. /\ SetFlags(m.link, {"CONNECTED", "INCOMING"}) /\ IncrementSerialId({m.link})
                /\ SetConn(m.link, m.conn) /\ UNCHANGED <<available, lastErrorCode>>
            BY <3>2, <4>2 DEF RxConnect
          <5>2. serialId' \in [Links -> 0 .. SERIALS - 1] /\ epoch' \in [Links -> Nat]
            BY <1>1, <5>1, IncrementOK
          <5> QED BY <1>1, <4>1, <5>1, <5>2
                  DEF LinkInfoOK, SketchOK, SetFlags, SetConn, Flags
        <4>3. CASE ~(available[m.link] = 0 /\ (~IsConnected(m.link) \/ IsClosing(m.link)))
          BY <1>1, <3>2, <4>3 DEF RxConnect, LinkInfoOK, SketchOK, linkVars
        <4> QED BY <4>2, <4>3
      <3>3. CASE m.t = "CLOSED" /\ RxClosed(m)
        <4>1. m.link \in Links
          BY <3>1, <3>3 DEF EventTypes
        <4> QED BY <1>1, <3>3, <4>1
                DEF RxClosed, LinkInfoOK, SketchOK, SetFlags, SetConn, SetAvailable
      <3>4. CASE m.t = "IPD" /\ RxIpd(m)
        <4>1. m.link \in Links /\ m.len \in 0 .. MaxData
          BY <3>1, <3>4 DEF EventTypes
        <4> QED BY <1>1, <3>4, <4>1 DEF RxIpd, LinkInfoOK, SketchOK, SetAvailable, Errors
      <3> QED BY <2>2, <3>2, <3>3, <3>4 DEF RxEvent
    <2> QED BY <2>1, <2>2 DEF Rx
  <1>6. SketchOK'
    BY <1>1, <1>2, <1>5 DEF SketchOK
  <1>7. CallOK'
    BY <1>1, <1>2 DEF CallOK
  <1> QED BY <1>4, <1>5, <1>6, <1>7 DEF TypeInv, TypeOK, LinkInfoOK, SketchOK

----------------------------------------------------------------------------
(* The bodies of the operations.  Each step ends the call or goes on to the  *)
(* next wait; the two lemmas below say what is left to check in either case. *)

LEMMA ReturnOK ==
  ASSUME TypeInv, Return, request' = request, FwTypeOK', LinkInfoOK',
         lastErrorCode' \in Errors, handles' \subseteq Handles
  PROVE  TypeInv'
  <1>1. NoCall \in Calls /\ NoCall.op \notin HandleOps
    BY ConstantFacts DEF NoCall, Call, Calls, NoList, HandleOps
  <1>2. SketchOK'
    BY <1>1 DEF SketchOK, Return, PCs
  <1>3. CallOK'
    BY <1>1, TypeInvParts DEF CallOK, Return, NoHandleWaits
  <1> QED BY <1>2, <1>3 DEF TypeInv, TypeOK, LinkInfoOK, SketchOK

LEMMA ContinueOK ==
  ASSUME TypeInv, FwTypeOK', LinkInfoOK', UNCHANGED <<lastErrorCode, handles>>,
         call' \in Calls, call'.op = call.op, call'.h = call.h,
         pc' \in PCs \ {"start"}, pc' \in NoHandleWaits \/ call.h \in Handles,
         request'.cmd \in {"CIPSTART", "CIPCLOSE", "CIPRECVDATA"} => request'.link \in Links
  PROVE  TypeInv'
  <1>1. SketchOK'
    BY TypeInvParts DEF SketchOK
  <1>2. CallOK'
    BY TypeInvParts DEF CallOK
  <1> QED BY <1>1, <1>2 DEF TypeInv, TypeOK, LinkInfoOK, SketchOK

(* What the guards of a step give. *)
LEMMA DrainedOK ==
  ASSUME TypeInv, NEW op, Drained(op), request' \in Requests
  PROVE  FwTypeOK' /\ call.op = op
  BY TypeInvParts, FirmwareAside DEF Drained, FwTypeOK

LEMMA WaitOK ==
  ASSUME TypeInv, NEW stage, Matched(stage) \/ Refused(stage) \/ Accepted(stage),
         request' \in Requests
  PROVE  FwTypeOK' /\ Head(uart) \in Messages /\ pc = stage
  <1>1. FwUnchanged /\ uart # <<>> /\ uart' = Tail(uart) /\ pc = stage
    BY DEF Matched, Matches, Refused, Accepted, Receive
  <1>2. uart' \in Seq(Messages) /\ Head(uart) \in Messages
    BY <1>1, TypeInvParts, SeqFacts DEF FwTypeOK
  <1> QED BY <1>1, <1>2, TypeInvParts, FirmwareAside

LEMMA SendOK ==
  ASSUME TypeInv, NEW c \in Commands, NEW l \in Links \cup {NoLink}, Send(c, l)
  PROVE  request' \in Requests /\ request'.cmd = c /\ request'.link = l
  <1>1. call.kind \in {"TCP", "UDP"} /\ call.size \in 0 .. MaxData /\ call.h.conn \in Conns
    BY TypeInvParts, CallFields, HandleFields DEF SketchOK
  <1> QED BY <1>1 DEF Send, Command, Requests

LEMMA LinkVarsOK ==
  ASSUME TypeInv, UNCHANGED linkVars
  PROVE  LinkInfoOK'
  BY TypeInvParts DEF LinkInfoOK, linkVars

(* The steps that end a call and touch nothing but the error code. *)
LEMMA PlainReturnTypeInv ==
  ASSUME TypeInv,
         CheckFails \/ CloseDone \/ Known \/ SyncDone \/ RecvNothing \/ RecvDone
           \/ SendDone \/ ResetDone \/ CommandFails
  PROVE  TypeInv'
  <1>1. FwTypeOK /\ SketchOK /\ request \in Requests
    BY TypeInvParts DEF FwTypeOK
  <1>2. Return /\ UNCHANGED <<request, handles>> /\ UNCHANGED linkVars /\ lastErrorCode' \in Errors
    BY <1>1 DEF CheckFails, CloseDone, Known, SyncDone, RecvNothing, RecvDone, SendDone,
         ResetDone, CommandFails, Fail, SketchOK, Errors, Refused
  <1>3. \/ \E op : Drained(op)
        \/ \E stage : Matched(stage) \/ Refused(stage) \/ Accepted(stage)
    BY DEF CheckFails, CloseDone, Known, SyncDone, RecvNothing, RecvDone, SendDone,
         ResetDone, CommandFails, Checked
  <1>4. FwTypeOK'
    BY <1>1, <1>2, <1>3, DrainedOK, WaitOK
  <1> QED BY <1>1, <1>2, <1>4, LinkVarsOK, ReturnOK DEF SketchOK

(* The steps that go on to the next wait and leave linkInfo alone. *)
LEMMA PlainContinueTypeInv ==
  ASSUME TypeInv,
         CloseModeDone \/ SyncLinkInfo \/ RecvLenStart \/ RecvStart \/ SendStart
           \/ SendPayload \/ SendReceived \/ ParamsStart \/ ResetStart \/ ResetReady
  PROVE  TypeInv'
  <1>1. FwTypeOK /\ SketchOK /\ CallOK /\ request \in Requests
    BY TypeInvParts DEF FwTypeOK
  <1>2. UNCHANGED <<call, lastErrorCode, handles>> /\ UNCHANGED linkVars
    BY DEF CloseModeDone, SyncLinkInfo, RecvLenStart, RecvStart, SendStart, SendPayload,
         SendReceived, ParamsStart, ResetStart, ResetReady, Continue
  <1>3. /\ pc' \in PCs \ {"start"}
        /\ pc' \in NoHandleWaits \/ call.h \in Handles
    <2>1. CASE SyncLinkInfo \/ RecvStart \/ SendStart \/ ParamsStart
      <3>1. call.h \in Handles
        BY <1>1, <2>1 DEF SyncLinkInfo, RecvStart, SendStart, ParamsStart, Checked, Drained,
             CallOK, HandleOps
      <3> QED BY <2>1, <3>1 DEF SyncLinkInfo, RecvStart, SendStart, ParamsStart, Continue, PCs
    <2>2. CASE CloseModeDone \/ RecvLenStart \/ SendPayload \/ SendReceived
      <3>1. call.h \in Handles
        BY <1>1, <2>2 DEF CloseModeDone, RecvLenStart, SendPayload, SendReceived, Matched,
             Matches, CallOK, NoHandleWaits
      <3> QED BY <2>2, <3>1 DEF CloseModeDone, RecvLenStart, SendPayload, SendReceived,
             Continue, PCs
    <2>3. CASE ResetStart \/ ResetReady
      BY <2>3 DEF ResetStart, ResetReady, Continue, PCs, NoHandleWaits
    <2> QED BY <2>1, <2>2, <2>3
  <1>4. \/ request' = request
        \/ \E c \in Commands \ {"CIPSTART", "CIPCLOSE", "CIPRECVDATA"},
              l \in Links \cup {NoLink} : Send(c, l)
        \/ \E c \in Commands : Send(c, call.h.link) /\ call.h \in Handles
    <2>1. CASE CloseModeDone \/ RecvStart
      <3>1. call.h \in Handles
        BY <1>1, <2>1 DEF CloseModeDone, RecvStart, Checked, Drained, Matched, Matches, CallOK,
             HandleOps, NoHandleWaits
      <3> QED BY <2>1, <3>1 DEF CloseModeDone, RecvStart, Commands
    <2>2. CASE SendStart \/ SendPayload
      <3>1. call.h \in Handles
        BY <1>1, <2>2 DEF SendStart, SendPayload, Checked, Drained, Matched, Matches, CallOK,
             HandleOps, NoHandleWaits
      <3> QED BY <2>2, <3>1 DEF SendStart, SendPayload, Commands
    <2>3. CASE SyncLinkInfo \/ RecvLenStart \/ ParamsStart \/ ResetStart \/ ResetReady
      BY <2>3 DEF SyncLinkInfo, RecvLenStart, ParamsStart, ResetStart, ResetReady, Commands
    <2>4. CASE SendReceived
      BY <2>4 DEF SendReceived
    <2> QED BY <2>1, <2>2, <2>3, <2>4
  <1>5. /\ request' \in Requests
        /\ request'.cmd \in {"CIPSTART", "CIPCLOSE", "CIPRECVDATA"} => request'.link \in Links
    BY <1>1, <1>4, SendOK, HandleFields DEF CallOK
  <1>6. FwTypeOK'
    <2>1. CASE RecvLenStart
      BY <1>1, <1>5, <2>1, FirmwareAside DEF RecvLenStart, FwTypeOK
    <2>2. CASE ~RecvLenStart
      <3>1. \/ \E op : Drained(op)
            \/ \E stage : Matched(stage)
        BY <2>2 DEF CloseModeDone, SyncLinkInfo, RecvStart, SendStart,
             SendPayload, SendReceived, ParamsStart, ResetStart, ResetReady, Checked
      <3> QED BY <1>5, <3>1, DrainedOK, WaitOK
    <2> QED BY <2>1, <2>2
  <1> QED BY <1>1, <1>2, <1>3, <1>5, <1>6, LinkVarsOK, ContinueOK DEF SketchOK

LEMMA ConnectTypeInv ==
  ASSUME TypeInv, NewClientLinkId \/ ConnectStart \/ ConnectDone \/ ConnectFails
  PROVE  TypeInv'
  <1> USE ConstantFacts
  <1>1. FwTypeOK /\ LinkInfoOK /\ SketchOK /\ CallOK /\ request \in Requests
    BY TypeInvParts DEF FwTypeOK
  <1>2. ASSUME NEW l \in Links, NEW via \in {"connect", "accept"},
               serialId' \in [Links -> 0 .. SERIALS - 1], conn' \in [Links -> Conns],
               epoch' \in [Links -> Nat]
        PROVE  HandleOf(l, via) \in Handles
    BY <1>2 DEF HandleOf, Handles
  <1>3. CASE NewClientLinkId
    <2>1. /\ Return /\ request' = request /\ lastErrorCode' \in Errors
          /\ UNCHANGED <<serialId, available, conn, epoch>>
      BY <1>1, <1>3 DEF NewClientLinkId, SketchOK
    <2>2. LinkInfoOK' /\ handles' \subseteq Handles
      <3>1. CASE UNCHANGED <<flags, handles>>
        BY <1>1, <2>1, <3>1 DEF LinkInfoOK, SketchOK
      <3>2. CASE \E l \in Links : SetFlags(l, Taken(flags[l]))
                                  /\ handles' = handles \cup {HandleOf(l, "accept")}
        <4>1. PICK l \in Links : SetFlags(l, Taken(flags[l]))
                                 /\ handles' = handles \cup {HandleOf(l, "accept")}
          BY <3>2
        <4>2. LinkInfoOK'
          BY <1>1, <2>1, <4>1 DEF LinkInfoOK, SetFlags, Taken
        <4>3. HandleOf(l, "accept") \in Handles
          BY <1>2, <4>2 DEF LinkInfoOK
        <4> QED BY <1>1, <4>1, <4>2, <4>3 DEF SketchOK
      <3> QED BY <1>3, <3>1, <3>2 DEF NewClientLinkId
    <2>3. FwTypeOK'
      BY <1>1, <1>3, <2>1, DrainedOK DEF NewClientLinkId
    <2> QED BY <2>1, <2>2, <2>3, ReturnOK
  <1>4. CASE ConnectStart
    <2>1. /\ Drained("connect") /\ lastErrorCode' \in Errors
          /\ UNCHANGED <<serialId, available, epoch, lastErrorCode, handles>>
      BY <1>1, <1>4 DEF ConnectStart, SketchOK
    <2>2. CASE Return /\ UNCHANGED <<request, flags, conn>>
      <3>1. FwTypeOK'
        BY <1>1, <2>1, <2>2, DrainedOK
      <3>2. LinkInfoOK' /\ handles' \subseteq Handles
        BY <1>1, <2>1, <2>2 DEF LinkInfoOK, SketchOK
      <3> QED BY <2>1, <2>2, <3>1, <3>2, ReturnOK
    <2>3. CASE \E l \in Links :
                 /\ SetFlags(l, {"CONNECTED"}) /\ SetConn(l, NoConn)
                 /\ Send("CIPSTART", l) /\ pc' = "start" /\ call' = [call EXCEPT !.link = l]
      <3>1. PICK l \in Links :
                 /\ SetFlags(l, {"CONNECTED"}) /\ SetConn(l, NoConn)
                 /\ Send("CIPSTART", l) /\ pc' = "start" /\ call' = [call EXCEPT !.link = l]
        BY <2>3
      <3>2. request' \in Requests /\ request'.link \in Links
        BY <3>1, SendOK DEF Commands
      <3>3. FwTypeOK' /\ call.op = "connect"
        BY <2>1, <3>2, DrainedOK
      <3>4. LinkInfoOK'
        BY <1>1, <2>1, <3>1 DEF LinkInfoOK, SetFlags, SetConn, Flags
      <3>5. call' \in Calls /\ call'.op = "connect" /\ call'.link \in Links
        BY <1>1, <3>1, <3>3 DEF SketchOK, Calls
      <3>6. SketchOK'
        BY <1>1, <2>1, <3>1, <3>5 DEF SketchOK, PCs
      <3>7. CallOK'
        BY <3>1, <3>2, <3>5 DEF CallOK, HandleOps, NoHandleWaits
      <3> QED BY <3>3, <3>4, <3>6, <3>7 DEF TypeInv, TypeOK, LinkInfoOK, SketchOK
    <2> QED BY <1>4, <2>2, <2>3 DEF ConnectStart, FreeLinks
  <1>5. CASE ConnectDone
    <2> DEFINE l == call.link
    <2>1. /\ Matched("start") /\ Return /\ UNCHANGED <<request, available, lastErrorCode>>
          /\ IncrementSerialId({l}) /\ SetConn(l, Head(uart).conn)
          /\ SetFlags(l, IF call.kind = "UDP" THEN flags[l] \cup {"UDP_LISTENER"} ELSE flags[l])
          /\ handles' = handles \cup {HandleOf(l, "connect")}
      BY <1>5 DEF ConnectDone
    <2>2. FwTypeOK' /\ Head(uart) \in Messages /\ pc = "start" /\ l \in Links
      BY <1>1, <2>1, WaitOK DEF CallOK
    <2>3. Head(uart).conn \in Conns
      <3>1. Head(uart).t = "OK"
        BY <2>1, <2>2 DEF Matched, Matches, Expected
      <3> QED BY <2>2, <3>1, MessageFields
    <2>4. serialId' \in [Links -> 0 .. SERIALS - 1] /\ epoch' \in [Links -> Nat]
      BY <1>1, <2>1, IncrementOK
    <2>5. conn' \in [Links -> Conns]
      BY <1>1, <2>1, <2>3 DEF SetConn, LinkInfoOK
    <2>6. flags' \in [Links -> SUBSET Flags]
      BY <1>1, <2>1, <2>2 DEF SetFlags, LinkInfoOK, Flags
    <2>7. LinkInfoOK'
      BY <1>1, <2>1, <2>4, <2>5, <2>6 DEF LinkInfoOK
    <2>8. handles' \subseteq Handles
      BY <1>1, <1>2, <2>1, <2>2, <2>4, <2>5 DEF SketchOK
    <2> QED BY <1>1, <2>1, <2>2, <2>7, <2>8, ReturnOK DEF SketchOK
  <1>6. CASE ConnectFails
    <2>1. /\ Refused("start") /\ Return /\ lastErrorCode' \in Errors
          /\ UNCHANGED <<request, serialId, available, epoch, handles>>
          /\ SetFlags(call.link, {}) /\ SetConn(call.link, NoConn)
      BY <1>6 DEF ConnectFails, Fail, Refused, Errors
    <2>2. FwTypeOK'
      BY <1>1, <2>1, WaitOK
    <2>3. LinkInfoOK'
      BY <1>1, <2>1 DEF LinkInfoOK, SetFlags, SetConn
    <2> QED BY <1>1, <2>1, <2>2, <2>3, ReturnOK DEF SketchOK
  <1> QED BY <1>3, <1>4, <1>5, <1>6

LEMMA CloseTypeInv ==
  ASSUME TypeInv, CloseStart
  PROVE  TypeInv'
  <1> DEFINE l == call.h.link
  <1>1. LinkInfoOK /\ SketchOK /\ CallOK
    BY TypeInvParts
  <1>2. \E op \in {"close", "abort"} : Drained(op)
    BY DEF CloseStart, Checked
  <1>3. call.h \in Handles /\ l \in Links
    BY <1>1, <1>2, HandleFields DEF Drained, CallOK, HandleOps
  <1>4. /\ \/ Send("CIPCLOSE", l) /\ Continue("close")
           \/ Send("CIPCLOSEMODE", l) /\ Continue("closemode")
        /\ SetAvailable(l, 0) /\ SetFlags(l, flags[l] \cup {"CLOSING"})
        /\ UNCHANGED <<serialId, conn, epoch, lastErrorCode, handles>>
    BY DEF CloseStart
  <1>5. request' \in Requests /\ request'.link \in Links
    BY <1>3, <1>4, SendOK DEF Commands
  <1>6. FwTypeOK'
    BY <1>2, <1>5, DrainedOK
  <1>7. LinkInfoOK'
    BY <1>1, <1>3, <1>4, ConstantFacts DEF LinkInfoOK, SetAvailable, SetFlags, Flags
  <1>8. call' = call /\ pc' \in PCs \ {"start"}
    BY <1>4 DEF Continue, PCs
  <1> QED BY <1>1, <1>3, <1>4, <1>5, <1>6, <1>7, <1>8, ContinueOK DEF SketchOK

LEMMA SyncTypeInv ==
  ASSUME TypeInv, CheckLinksListed \/ ParamsListed \/ CheckLinks \/ RecvLenQuery
  PROVE  TypeInv'
  <1> USE ConstantFacts
  <1>1. FwTypeOK /\ LinkInfoOK /\ SketchOK /\ CallOK /\ request \in Requests /\ call \in Calls
    BY TypeInvParts DEF FwTypeOK, SketchOK
  <1>2. PICK stage \in {"status", "params", "statusOK", "len"} : Matched(stage)
    BY DEF CheckLinksListed, ParamsListed, CheckLinks, RecvLenQuery
  <1>3. request' = request /\ UNCHANGED <<lastErrorCode, handles>>
    BY DEF CheckLinksListed, ParamsListed, CheckLinks, RecvLenQuery
  <1>4. FwTypeOK' /\ Head(uart) \in Messages /\ pc = stage
    BY <1>1, <1>2, <1>3, WaitOK
  <1>5. call.h \in Handles
    BY <1>1, <1>4 DEF CallOK, NoHandleWaits
  <1>6. request'.cmd \in {"CIPSTART", "CIPCLOSE", "CIPRECVDATA"} => request'.link \in Links
    BY <1>1, <1>3 DEF CallOK
  <1>7. CASE CheckLinksListed \/ ParamsListed
    <2>1. Head(uart).conns \in [Links -> Conns]
      <3>1. Head(uart).t = "STATUS"
        BY <1>7 DEF CheckLinksListed, ParamsListed, Matched, Matches, Expected
      <3> QED BY <1>4, <3>1, MessageFields
    <2>2. call' = [call EXCEPT !.list = Head(uart).conns]
      BY <1>7 DEF CheckLinksListed, ParamsListed
    <2>3. call' \in Calls /\ call'.op = call.op /\ call'.h = call.h
      BY <1>1, <2>1, <2>2 DEF Calls
    <2>4. pc' \in PCs \ {"start"} /\ UNCHANGED linkVars
      BY <1>7 DEF CheckLinksListed, ParamsListed, PCs
    <2> QED BY <1>3, <1>4, <1>5, <1>6, <2>3, <2>4, LinkVarsOK, ContinueOK
  <1>8. ASSUME NEW list \in [Links -> Conns], AdoptFlags(list), AdoptConns(list)
        PROVE  flags' \in [Links -> SUBSET Flags] /\ conn' \in [Links -> Conns]
    BY <1>1, <1>8 DEF AdoptFlags, AdoptConns, LinkInfoOK, Flags
  <1>9. CASE CheckLinks
    <2>1. /\ AdoptFlags(call.list) /\ AdoptConns(call.list) /\ available' = available
          /\ call' = call /\ pc' = "drainSync" /\ \E L : IncrementSerialId(L)
      BY <1>9 DEF CheckLinks, Continue
    <2>2. call.list \in [Links -> Conns]
      BY <1>1, CallFields
    <2>3. serialId' \in [Links -> 0 .. SERIALS - 1] /\ epoch' \in [Links -> Nat]
      BY <1>1, <2>1, IncrementOK
    <2>4. LinkInfoOK'
      BY <1>1, <1>8, <2>1, <2>2, <2>3 DEF LinkInfoOK
    <2> QED BY <1>1, <1>3, <1>4, <1>5, <1>6, <2>1, <2>4, ContinueOK DEF PCs
  <1>10. CASE RecvLenQuery
    <2> DEFINE m == Head(uart)
    <2>1. m.conns \in [Links -> Conns] /\ m.lens \in [Links -> 0 .. MaxData]
      <3>1. m.t = "+CIPRECVLEN"
        BY <1>10 DEF RecvLenQuery, Matched, Matches, Expected
      <3> QED BY <1>4, <3>1, MessageFields
    <2>2. UNCHANGED <<serialId, epoch, call>> /\ pc' = "lenOK"
      BY <1>10 DEF RecvLenQuery, Continue
    <2>3. /\ flags' \in [Links -> SUBSET Flags] /\ conn' \in [Links -> Conns]
          /\ available' \in [Links -> 0 .. MaxData]
      <3>1. CASE AT1
        BY <1>1, <1>10, <2>1, <3>1 DEF RecvLenQuery, LinkInfoOK
      <3>2. CASE ~AT1
        <4>1. /\ AdoptFlags(m.conns) /\ AdoptConns(m.conns)
              /\ available' = [l \in Links |-> IF m.conns[l] = NoConn THEN 0 ELSE m.lens[l]]
          BY <1>10, <3>2 DEF RecvLenQuery
        <4> QED BY <1>8, <2>1, <4>1
      <3> QED BY <3>1, <3>2
    <2>4. LinkInfoOK'
      BY <1>1, <2>2, <2>3 DEF LinkInfoOK
    <2> QED BY <1>1, <1>3, <1>4, <1>5, <1>6, <2>2, <2>4, ContinueOK DEF PCs
  <1> QED BY <1>7, <1>9, <1>10

LEMMA RecvTypeInv ==
  ASSUME TypeInv, RecvData \/ RecvTruncated \/ RecvFails
  PROVE  TypeInv'
  <1> DEFINE l == call.h.link
  <1> USE ConstantFacts
  <1>1. FwTypeOK /\ LinkInfoOK /\ SketchOK /\ CallOK /\ request \in Requests
    BY TypeInvParts DEF FwTypeOK
  <1>2. pc = "recv" /\ call.h \in Handles /\ l \in Links
    BY <1>1, HandleFields DEF RecvData, RecvTruncated, RecvFails, Matched, Matches, Refused,
         CallOK, NoHandleWaits
  <1>3. CASE RecvData
    <2> DEFINE n == Head(uart).len
    <2>1. /\ Matched("recv") /\ SetAvailable(l, Remaining(available[l], n))
          /\ pc' = "recvOK" /\ UNCHANGED <<call, request, flags, serialId, conn, epoch>>
          /\ UNCHANGED <<lastErrorCode, handles>>
      BY <1>3 DEF RecvData, Continue
    <2>2. FwTypeOK' /\ Head(uart) \in Messages
      BY <1>1, <2>1, WaitOK
    <2>3. n \in 0 .. MaxData
      <3>1. Head(uart).t = "+CIPRECVDATA"
        BY <2>1 DEF Matched, Matches, Expected
      <3> QED BY <2>2, <3>1, MessageFields
    <2>4. Remaining(available[l], n) \in 0 .. MaxData
      BY <1>1, <1>2, <2>3, BoundsAssumption DEF Remaining, LinkInfoOK
    <2>5. LinkInfoOK'
      BY <1>1, <2>1, <2>4 DEF LinkInfoOK, SetAvailable
    <2>6. request'.cmd \in {"CIPSTART", "CIPCLOSE", "CIPRECVDATA"} => request'.link \in Links
      BY <1>1, <2>1 DEF CallOK
    <2> QED BY <1>1, <1>2, <2>1, <2>2, <2>5, <2>6, ContinueOK DEF SketchOK, PCs
  <1>4. CASE RecvFails
    <2>1. /\ Refused("recv") /\ SetAvailable(l, 0) /\ Return /\ lastErrorCode' \in Errors
          /\ UNCHANGED <<request, handles, flags, serialId, conn, epoch>>
      BY <1>4 DEF RecvFails, Fail, Refused, Errors
    <2>2. FwTypeOK'
      BY <1>1, <2>1, WaitOK
    <2>3. LinkInfoOK'
      BY <1>1, <2>1 DEF LinkInfoOK, SetAvailable
    <2> QED BY <1>1, <2>1, <2>2, <2>3, ReturnOK DEF SketchOK
  <1>5. CASE RecvTruncated
    <2>1. /\ Matches("recv") /\ uart' = Tail(uart) /\ SetAvailable(l, 0) /\ Return
          /\ lastErrorCode' \in Errors /\ reliable' = FALSE
          /\ UNCHANGED <<build, open, endpoint, unread, lastConn, missed>>
          /\ UNCHANGED <<request, handles, flags, serialId, conn, epoch>>
      BY <1>5 DEF RecvTruncated, Fail, Receive, Errors
    <2>2. uart' \in Seq(Messages)
      BY <1>1, <2>1, SeqFacts DEF FwTypeOK, Matches
    <2>3. missed' \in BOOLEAN /\ reliable' \in BOOLEAN
      BY <1>1, <2>1, Zenon DEF FwTypeOK
    <2>4. FwTypeOK'
      BY <1>1, <2>1, <2>2, <2>3 DEF FwTypeOK
    <2>5. LinkInfoOK'
      BY <1>1, <2>1 DEF LinkInfoOK, SetAvailable
    <2> QED BY <1>1, <2>1, <2>4, <2>5, ReturnOK DEF SketchOK
  <1> QED BY <1>3, <1>4, <1>5

LEMMA ParamsTypeInv ==
  ASSUME TypeInv, ParamsDone
  PROVE  TypeInv'
  <1>1. FwTypeOK /\ LinkInfoOK /\ SketchOK /\ request \in Requests
    BY TypeInvParts DEF FwTypeOK
  <1>2. /\ Matched("paramsOK") /\ Return /\ lastErrorCode' \in Errors
        /\ UNCHANGED <<request, serialId, available, epoch, handles>>
        /\ \/ UNCHANGED <<flags, conn>>
           \/ SetFlags(call.h.link, {}) /\ SetConn(call.h.link, NoConn)
    BY <1>1 DEF ParamsDone, Fail, Errors, SketchOK
  <1>3. FwTypeOK'
    BY <1>1, <1>2, WaitOK
  <1>4. LinkInfoOK'
    BY <1>1, <1>2, ConstantFacts DEF LinkInfoOK, SetFlags, SetConn
  <1> QED BY <1>1, <1>2, <1>3, <1>4, ReturnOK DEF SketchOK

LEMMA BodyTypeInv ==
  ASSUME TypeInv, Body
  PROVE  TypeInv'
  BY PlainReturnTypeInv, PlainContinueTypeInv, ConnectTypeInv, CloseTypeInv, SyncTypeInv,
     RecvTypeInv, ParamsTypeInv DEF Body

LEMMA StutterTypeInv ==
  ASSUME TypeInv, UNCHANGED vars
  PROVE  TypeInv'
  <1>1. FwTypeOK' /\ request' = request /\ UNCHANGED drvVars
    BY TypeInvParts DEF vars, fwVars, FwTypeOK
  <1> QED BY <1>1, DriverAside

LEMMA NextTypeInv ==
  ASSUME TypeInv, [Next]_vars
  PROVE  TypeInv'
  <1>1. CASE Sketch
    BY <1>1, SketchTypeInv
  <1>2. CASE Driver
    BY <1>2, RxTypeInv, BodyTypeInv DEF Driver
  <1>3. CASE FwNext /\ UNCHANGED drvVars
    BY <1>3, NetworkTypeInv, ExecuteTypeInv DEF FwNext
  <1>4. CASE UNCHANGED vars
    BY <1>4, StutterTypeInv
  <1> QED BY <1>1, <1>2, <1>3, <1>4 DEF Next

(* Every variable of the driver and of the firmware keeps its type, every   *)
(* call on a handle keeps that handle, and a command that needs a link is   *)
(* sent for one of linkInfo's: no access out of the bounds of the table.    *)
THEOREM TypeCorrect == Spec => [](TypeOK /\ CallOK)
  <1>1. Init => TypeInv
    BY InitTypeInv
  <1>2. TypeInv /\ [Next]_vars => TypeInv'
    BY NextTypeInv
  <1>3. TypeInv => TypeOK /\ CallOK
    BY DEF TypeInv
  <1> QED BY <1>1, <1>2, <1>3, PTL DEF Spec

----------------------------------------------------------------------------
(* An old handle is refused for good.                                       *)
(*                                                                          *)
(* The argument: epoch[l] counts the uses of link l, and until the          *)
(* serialId bits wrap around they equal it.  A step either starts a new use *)
(* of a link (Renewed) or keeps the use it has (Kept); while a use is kept,  *)
(* the entry can only stop being connected, never stand for another         *)
(* connection.  The one step that breaks this is recvLenQuery() of firmware  *)
(* 2, which adopts connections without a new serialId.                      *)

(* The serialId bits are the count of uses until they wrap around. *)
SerialCountsUses == \A l \in Links : epoch[l] < SERIALS => serialId[l] = epoch[l]

(* A handle holds the count of uses at the time it was given out. *)
HandlesDated ==
  \A h \in handles : /\ h.epoch <= epoch[h.link]
                     /\ h.epoch < SERIALS => h.serial = h.epoch

(* While its use of the link lasts, a handle's connection is the entry's. *)
HandlesCurrent ==
  ~AdoptsWithoutSerial =>
    \A h \in handles :
      h.epoch = epoch[h.link] /\ IsConnected(h.link) /\ ~Starting(h.link)
        => h.conn = conn[h.link]

(* syncLinkInfo() runs only where polling is built in, checkLinks() for AT1. *)
SyncGuarded ==
  /\ pc \in {"status", "statusOK", "drainSync"} => AT1 /\ Polling
  /\ pc = "len" => Polling

HandleInv == SerialCountsUses /\ HandlesDated /\ HandlesCurrent /\ SyncGuarded

(* What a step does to a link. *)
Renewed(l) == epoch'[l] = epoch[l] + 1 /\ serialId'[l] = NextSerial(serialId[l])

SameConnection(l) ==
  IsConnected(l)' /\ ~Starting(l)' => IsConnected(l) /\ ~Starting(l) /\ conn'[l] = conn[l]

Kept(l) ==
  /\ epoch'[l] = epoch[l] /\ serialId'[l] = serialId[l]
  /\ ~AdoptsWithoutSerial => SameConnection(l)

LinksStep == \A l \in Links : Renewed(l) \/ Kept(l)

HandlesStep ==
  \/ handles' = handles
  \/ \E l \in Links, via \in {"connect", "accept"} : handles' = handles \cup {HandleOf(l, via)}

----------------------------------------------------------------------------
LEMMA IncrementStep ==
  ASSUME TypeInv, NEW L, IncrementSerialId(L), NEW l \in Links
  PROVE  /\ l \in L => Renewed(l)
         /\ l \notin L => epoch'[l] = epoch[l] /\ serialId'[l] = serialId[l]
  BY TypeInvParts DEF IncrementSerialId, Renewed, LinkInfoOK

(* A step that only takes flags away, or adds none but CLOSING, keeps every  *)
(* use, unless it is the end of connect().                                  *)
LEMMA QuietLinksStep ==
  ASSUME UNCHANGED <<serialId, epoch, conn>>,
         \A l \in Links : IsConnected(l)' => IsConnected(l),
         pc # "start" \/ UNCHANGED <<pc, call>>
  PROVE  LinksStep
  <1> SUFFICES ASSUME NEW l \in Links PROVE Kept(l)
    BY DEF LinksStep
  <1>1. Starting(l) => Starting(l)'
    BY DEF Starting
  <1> QED BY <1>1 DEF Kept, SameConnection

(* The same when the entry of one link is cleared. *)
LEMMA ClearedLinksStep ==
  ASSUME TypeInv, NEW k \in Links, SetFlags(k, {}), SetConn(k, NoConn),
         UNCHANGED <<serialId, epoch>>,
         \A l \in Links \ {k} : Starting(l) => Starting(l)'
  PROVE  LinksStep
  <1> SUFFICES ASSUME NEW l \in Links PROVE Kept(l)
    BY DEF LinksStep
  <1>1. LinkInfoOK
    BY TypeInvParts
  <1>2. CASE l = k
    <2>1. ~IsConnected(l)'
      BY <1>1, <1>2 DEF SetFlags, LinkInfoOK, IsConnected
    <2> QED BY <2>1 DEF Kept, SameConnection
  <1>3. CASE l # k
    <2>1. flags'[l] = flags[l] /\ conn'[l] = conn[l]
      BY <1>1, <1>3 DEF SetFlags, SetConn, LinkInfoOK
    <2> QED BY <1>3, <2>1 DEF Kept, SameConnection, IsConnected
  <1> QED BY <1>2, <1>3

LEMMA RxLinksStep ==
  ASSUME TypeInv, Rx
  PROVE  LinksStep /\ handles' = handles
  <1>1. UNCHANGED <<pc, call, handles>>
    BY DEF Rx, RxEvent, RxIgnored, drvVars
  <1>2. \A l \in Links : Starting(l) => Starting(l)'
    BY <1>1 DEF Starting
  <1>3. CASE UNCHANGED linkVars
    <2>1. \A l \in Links : IsConnected(l)' => IsConnected(l)
      BY <1>3 DEF IsConnected, linkVars
    <2> QED BY <1>1, <1>3, <2>1, QuietLinksStep DEF linkVars
  <1>4. CASE RxEvent
    <2> DEFINE m == Head(uart)
    <2>1. m \in Messages
      BY <1>4, TypeInvParts, SeqFacts DEF RxEvent, Reading, FwTypeOK
    <2>2. CASE m.t = "CONNECT" /\ RxConnect(m)
      <3>1. m.link \in Links
        BY <2>1, <2>2, MessageFields DEF EventTypes
      <3>2. CASE available[m.link] = 0 /\ (~IsConnected(m.link) \/ IsClosing(m.link))
        <4>1. /\ SetFlags(m.link, {"CONNECTED", "INCOMING"}) /\ IncrementSerialId({m.link})
              /\ SetConn(m.link, m.conn)
          BY <2>2, <3>2 DEF RxConnect
        <4>2. ASSUME NEW l \in Links PROVE Renewed(l) \/ Kept(l)
          <5>1. CASE l = m.link
            BY <4>1, <5>1, IncrementStep
          <5>2. CASE l # m.link
            <6>1. flags'[l] = flags[l] /\ conn'[l] = conn[l]
              BY <4>1, <5>2, TypeInvParts DEF SetFlags, SetConn, LinkInfoOK
            <6> QED BY <1>2, <4>1, <5>2, <6>1, IncrementStep
                    DEF Kept, SameConnection, IsConnected
          <5> QED BY <5>1, <5>2
        <4> QED BY <1>1, <4>2 DEF LinksStep
      <3>3. CASE ~(available[m.link] = 0 /\ (~IsConnected(m.link) \/ IsClosing(m.link)))
        BY <1>3, <2>2, <3>3 DEF RxConnect
      <3> QED BY <3>2, <3>3
    <2>3. CASE m.t = "CLOSED" /\ RxClosed(m)
      <3>1. m.link \in Links
        BY <2>1, <2>3, MessageFields DEF EventTypes
      <3>2. SetFlags(m.link, {}) /\ SetConn(m.link, NoConn) /\ UNCHANGED <<serialId, epoch>>
        BY <2>3 DEF RxClosed
      <3> QED BY <1>1, <1>2, <3>1, <3>2, ClearedLinksStep
    <2>4. CASE m.t = "IPD" /\ RxIpd(m)
      <3>1. UNCHANGED <<flags, serialId, conn, epoch>>
        BY <2>4 DEF RxIpd
      <3>2. \A l \in Links : IsConnected(l)' => IsConnected(l)
        BY <3>1 DEF IsConnected
      <3> QED BY <1>1, <3>1, <3>2, QuietLinksStep
    <2> QED BY <1>4, <2>2, <2>3, <2>4 DEF RxEvent
  <1>5. RxIgnored => UNCHANGED linkVars
    BY DEF RxIgnored, drvVars
  <1> QED BY <1>3, <1>4, <1>5 DEF Rx

(* Steps outside the driver, and the start of a call. *)
LEMMA AsideLinksStep ==
  ASSUME UNCHANGED linkVars, handles' = handles, pc # "start" \/ UNCHANGED <<pc, call>>
  PROVE  LinksStep /\ HandlesStep
  <1>1. \A l \in Links : IsConnected(l)' => IsConnected(l)
    BY DEF IsConnected, linkVars
  <1> QED BY <1>1, QuietLinksStep DEF linkVars, HandlesStep

LEMMA SketchLinksStep ==
  ASSUME Sketch
  PROVE  LinksStep /\ HandlesStep
  <1>1. UNCHANGED linkVars /\ handles' = handles /\ pc # "start"
    BY DEF Sketch, EnterAny, Enter, LocalPortQuery
  <1> QED BY <1>1, AsideLinksStep

(* The bodies that leave linkInfo alone. *)
LEMMA PlainLinksStep ==
  ASSUME CheckFails \/ CloseDone \/ Known \/ SyncDone \/ RecvNothing \/ RecvDone
           \/ SendDone \/ ResetDone \/ CommandFails
           \/ CloseModeDone \/ SyncLinkInfo \/ RecvLenStart \/ RecvStart \/ SendStart
           \/ SendPayload \/ SendReceived \/ ParamsStart \/ ResetStart \/ ResetReady
           \/ CheckLinksListed \/ ParamsListed
  PROVE  LinksStep /\ HandlesStep
  <1>1. UNCHANGED linkVars /\ handles' = handles
    BY DEF CheckFails, CloseDone, Known, SyncDone, RecvNothing, RecvDone, SendDone, ResetDone,
         CommandFails, CloseModeDone, SyncLinkInfo, RecvLenStart, RecvStart, SendStart,
         SendPayload, SendReceived, ParamsStart, ResetStart, ResetReady, CheckLinksListed,
         ParamsListed, Refused
  <1>2. pc # "start"
    BY DEF CheckFails, CloseDone, Known, SyncDone, RecvNothing, RecvDone, SendDone, ResetDone,
         CommandFails, CloseModeDone, SyncLinkInfo, RecvLenStart, RecvStart, SendStart,
         SendPayload, SendReceived, ParamsStart, ResetStart, ResetReady, CheckLinksListed,
         ParamsListed, Checked, Drained, Matched, Matches, Refused, Accepted
  <1> QED BY <1>1, <1>2, AsideLinksStep

(* The bodies that change the entry of the call's own link, or its counts. *)
LEMMA OwnLinkStep ==
  ASSUME TypeInv, CloseStart \/ RecvData \/ RecvTruncated \/ RecvFails \/ ParamsDone
  PROVE  LinksStep /\ HandlesStep
  <1>1. handles' = handles /\ pc # "start" /\ UNCHANGED <<serialId, epoch>>
    BY DEF CloseStart, RecvData, RecvTruncated, RecvFails, ParamsDone, Checked, Drained,
         Matched, Matches, Refused
  <1>2. CASE CloseStart
    <2>1. SetFlags(call.h.link, flags[call.h.link] \cup {"CLOSING"}) /\ conn' = conn
      BY <1>2 DEF CloseStart
    <2>2. \A l \in Links : IsConnected(l)' => IsConnected(l)
      BY <2>1, TypeInvParts DEF SetFlags, LinkInfoOK, IsConnected
    <2> QED BY <1>1, <2>1, <2>2, QuietLinksStep DEF HandlesStep
  <1>3. CASE RecvData \/ RecvTruncated \/ RecvFails
    <2>1. flags' = flags /\ conn' = conn
      BY <1>3 DEF RecvData, RecvTruncated, RecvFails
    <2>2. \A l \in Links : IsConnected(l)' => IsConnected(l)
      BY <2>1 DEF IsConnected
    <2> QED BY <1>1, <2>1, <2>2, QuietLinksStep DEF HandlesStep
  <1>4. CASE ParamsDone
    <2>1. call.h.link \in Links
      BY <1>4, TypeInvParts, HandleFields DEF ParamsDone, Matched, Matches, CallOK, NoHandleWaits
    <2>2. \/ UNCHANGED <<flags, conn>>
          \/ SetFlags(call.h.link, {}) /\ SetConn(call.h.link, NoConn)
      BY <1>4 DEF ParamsDone
    <2>3. CASE UNCHANGED <<flags, conn>>
      <3>1. \A l \in Links : IsConnected(l)' => IsConnected(l)
        BY <2>3 DEF IsConnected
      <3> QED BY <1>1, <2>3, <3>1, QuietLinksStep DEF HandlesStep
    <2>4. CASE SetFlags(call.h.link, {}) /\ SetConn(call.h.link, NoConn)
      BY <1>1, <2>1, <2>4, ClearedLinksStep DEF HandlesStep, Starting
    <2> QED BY <2>2, <2>3, <2>4
  <1> QED BY <1>2, <1>3, <1>4

LEMMA ConnectLinksStep ==
  ASSUME TypeInv, NewClientLinkId \/ ConnectStart \/ ConnectDone \/ ConnectFails
  PROVE  LinksStep /\ HandlesStep
  <1>1. LinkInfoOK /\ CallOK
    BY TypeInvParts
  <1>2. CASE NewClientLinkId
    <2>1. UNCHANGED <<serialId, conn, epoch>> /\ pc # "start"
      BY <1>2 DEF NewClientLinkId, Drained
    <2>2. /\ \A l \in Links : IsConnected(l)' => IsConnected(l)
          /\ HandlesStep
      <3>1. CASE UNCHANGED <<flags, handles>>
        BY <3>1 DEF IsConnected, HandlesStep
      <3>2. CASE \E l \in Links : SetFlags(l, Taken(flags[l]))
                                  /\ handles' = handles \cup {HandleOf(l, "accept")}
        BY <1>1, <3>2 DEF SetFlags, Taken, LinkInfoOK, IsConnected, HandlesStep
      <3> QED BY <1>2, <3>1, <3>2 DEF NewClientLinkId
    <2> QED BY <2>1, <2>2, QuietLinksStep
  <1>3. CASE ConnectStart
    <2>1. handles' = handles /\ UNCHANGED <<serialId, epoch>> /\ pc # "start"
      BY <1>3 DEF ConnectStart, Drained
    <2>2. CASE UNCHANGED <<flags, conn>>
      <3>1. \A l \in Links : IsConnected(l)' => IsConnected(l)
        BY <2>2 DEF IsConnected
      <3> QED BY <2>1, <2>2, <3>1, QuietLinksStep DEF HandlesStep
    <2>3. CASE \E k \in Links : /\ SetFlags(k, {"CONNECTED"}) /\ SetConn(k, NoConn)
                                /\ pc' = "start" /\ call' = [call EXCEPT !.link = k]
      <3>1. PICK k \in Links : /\ SetFlags(k, {"CONNECTED"}) /\ SetConn(k, NoConn)
                               /\ pc' = "start" /\ call' = [call EXCEPT !.link = k]
        BY <2>3
      <3>2. Starting(k)'
        <4>1. call \in Calls
          BY TypeInvParts DEF SketchOK
        <4>2. call'.link = k
          BY <3>1, <4>1 DEF Calls
        <4> QED BY <3>1, <4>2 DEF Starting
      <3>3. ASSUME NEW l \in Links PROVE Kept(l)
        <4>1. CASE l = k
          BY <2>1, <3>2, <4>1 DEF Kept, SameConnection
        <4>2. CASE l # k
          <5>1. flags'[l] = flags[l] /\ conn'[l] = conn[l]
            BY <1>1, <3>1, <4>2 DEF SetFlags, SetConn, LinkInfoOK
          <5> QED BY <2>1, <5>1 DEF Kept, SameConnection, IsConnected, Starting
        <4> QED BY <4>1, <4>2
      <3> QED BY <2>1, <3>3 DEF LinksStep, HandlesStep
    <2> QED BY <1>3, <2>2, <2>3 DEF ConnectStart, FreeLinks
  <1>4. CASE ConnectDone
    <2> DEFINE k == call.link
    <2>1. /\ IncrementSerialId({k}) /\ SetConn(k, Head(uart).conn)
          /\ SetFlags(k, IF call.kind = "UDP" THEN flags[k] \cup {"UDP_LISTENER"} ELSE flags[k])
          /\ handles' = handles \cup {HandleOf(k, "connect")}
      BY <1>4 DEF ConnectDone
    <2>2. pc = "start" /\ k \in Links
      BY <1>1, <1>4 DEF ConnectDone, Matched, Matches, CallOK
    <2>3. ASSUME NEW l \in Links PROVE Renewed(l) \/ Kept(l)
      <3>1. CASE l = k
        BY <2>1, <3>1, IncrementStep
      <3>2. CASE l # k
        <4>1. flags'[l] = flags[l] /\ conn'[l] = conn[l] /\ ~Starting(l)
          BY <1>1, <2>1, <3>2 DEF SetFlags, SetConn, LinkInfoOK, Starting
        <4> QED BY <2>1, <3>2, <4>1, IncrementStep DEF Kept, SameConnection, IsConnected
      <3> QED BY <3>1, <3>2
    <2> QED BY <2>1, <2>2, <2>3 DEF LinksStep, HandlesStep
  <1>5. CASE ConnectFails
    <2>1. /\ SetFlags(call.link, {}) /\ SetConn(call.link, NoConn)
          /\ UNCHANGED <<serialId, epoch>> /\ handles' = handles
      BY <1>5 DEF ConnectFails, Refused
    <2>2. call.link \in Links
      BY <1>1, <1>5 DEF ConnectFails, Refused, CallOK
    <2> QED BY <2>1, <2>2, ClearedLinksStep DEF HandlesStep, Starting
  <1> QED BY <1>2, <1>3, <1>4, <1>5

LEMMA AdoptLinksStep ==
  ASSUME TypeInv, SyncGuarded, CheckLinks \/ RecvLenQuery
  PROVE  LinksStep /\ HandlesStep
  <1>1. handles' = handles /\ pc # "start"
    BY DEF CheckLinks, RecvLenQuery, Matched, Matches
  <1>2. CASE CheckLinks
    <2> DEFINE list == call.list
               L == {l \in Links : MissedIncoming(list, l)}
    <2>1. AdoptFlags(list) /\ AdoptConns(list) /\ IncrementSerialId(L)
      BY <1>2 DEF CheckLinks
    <2>2. ASSUME NEW l \in Links PROVE Renewed(l) \/ Kept(l)
      <3>1. CASE l \in L
        BY <2>1, <3>1, IncrementStep
      <3>2. CASE l \notin L
        <4>1. epoch'[l] = epoch[l] /\ serialId'[l] = serialId[l]
          BY <2>1, <3>2, IncrementStep
        <4>2. IsConnected(l)' => IsConnected(l) /\ conn'[l] = conn[l]
          BY <2>1, <3>2 DEF AdoptFlags, AdoptConns, IsConnected
        <4> QED BY <1>1, <4>1, <4>2 DEF Kept, SameConnection, Starting
      <3> QED BY <3>1, <3>2
    <2> QED BY <1>1, <2>2 DEF LinksStep, HandlesStep
  <1>3. CASE RecvLenQuery
    <2>1. UNCHANGED <<serialId, epoch>> /\ Polling
      BY <1>3 DEF RecvLenQuery, Matched, Matches, SyncGuarded
    <2>2. CASE AT1
      <3>1. UNCHANGED <<flags, conn>>
        BY <1>3, <2>2 DEF RecvLenQuery
      <3>2. \A l \in Links : IsConnected(l)' => IsConnected(l)
        BY <3>1 DEF IsConnected
      <3> QED BY <1>1, <2>1, <3>1, <3>2, QuietLinksStep DEF HandlesStep
    <2>3. CASE ~AT1
      <3>1. AdoptsWithoutSerial
        BY <2>1, <2>3 DEF AdoptsWithoutSerial
      <3> QED BY <1>1, <2>1, <3>1 DEF LinksStep, Kept, HandlesStep
    <2> QED BY <2>2, <2>3
  <1> QED BY <1>2, <1>3

LEMMA NextLinksStep ==
  ASSUME TypeInv, SyncGuarded, [Next]_vars
  PROVE  LinksStep /\ HandlesStep
  <1>1. CASE Sketch
    BY <1>1, SketchLinksStep
  <1>2. CASE Rx
    BY <1>2, RxLinksStep DEF HandlesStep
  <1>3. CASE Body
    BY <1>3, PlainLinksStep, OwnLinkStep, ConnectLinksStep, AdoptLinksStep DEF Body
  <1>4. CASE UNCHANGED drvVars
    BY <1>4, AsideLinksStep DEF drvVars
  <1> QED BY <1>1, <1>2, <1>3, <1>4 DEF Next, Driver, vars

----------------------------------------------------------------------------
(* The invariant holds initially and is kept. *)
LEMMA InitHandleInv == Init => HandleInv
  <1> SUFFICES ASSUME Init PROVE HandleInv
    OBVIOUS
  <1> QED BY DEF Init, HandleInv, SerialCountsUses, HandlesDated, HandlesCurrent, SyncGuarded

LEMMA BuildIsRigid ==
  ASSUME [Next]_vars
  PROVE  build' = build
  <1>1. CASE Sketch
    BY <1>1 DEF Sketch, EnterAny, Enter, LocalPortQuery, fwVars
  <1>2. CASE Rx
    BY <1>2 DEF Rx, RxEvent, RxIgnored, FwUnchanged
  <1>3. CASE Body
    BY <1>3 DEF Body, CheckFails, NewClientLinkId, ConnectStart, ConnectDone, ConnectFails,
         CloseStart, CloseModeDone, CloseDone, Known, SyncLinkInfo, CheckLinksListed, CheckLinks,
         RecvLenStart, RecvLenQuery, SyncDone, RecvNothing, RecvStart, RecvData, RecvTruncated,
         RecvFails, RecvDone, SendStart, SendPayload, SendReceived, SendDone, ParamsStart,
         ParamsListed, ParamsDone, ResetStart, ResetReady, ResetDone, CommandFails,
         Checked, Drained, Matched, Refused, Accepted, FwUnchanged
  <1>4. CASE FwNext
    BY <1>4 DEF FwNext
  <1>5. CASE UNCHANGED vars
    BY <1>5 DEF vars, fwVars
  <1> QED BY <1>1, <1>2, <1>3, <1>4, <1>5 DEF Next, Driver

(* The waits of syncLinkInfo() are entered in their order. *)
LEMMA SyncGuardedKept ==
  ASSUME SyncGuarded, [Next]_vars
  PROVE  SyncGuarded'
  <1>1. AT1' = AT1 /\ Polling' = Polling
    BY BuildIsRigid DEF AT1, Polling
  <1>2. CASE pc' = pc
    BY <1>1, <1>2 DEF SyncGuarded
  <1>3. CASE pc' \notin {"status", "statusOK", "drainSync", "len"}
    BY <1>3 DEF SyncGuarded
  <1>4. CASE SyncLinkInfo \/ CheckLinksListed \/ CheckLinks \/ RecvLenStart
    BY <1>1, <1>4 DEF SyncGuarded, SyncLinkInfo, CheckLinksListed, CheckLinks, RecvLenStart,
         Continue, Matched, Matches
  <1>5. ASSUME Body, ~(SyncLinkInfo \/ CheckLinksListed \/ CheckLinks \/ RecvLenStart)
        PROVE  pc' \notin {"status", "statusOK", "drainSync", "len"}
    BY <1>5 DEF Body, CheckFails, NewClientLinkId, ConnectStart, ConnectDone, ConnectFails,
         CloseStart, CloseModeDone, CloseDone, Known,
         RecvLenQuery, SyncDone, RecvNothing, RecvStart, RecvData, RecvTruncated,
         RecvFails, RecvDone, SendStart, SendPayload, SendReceived, SendDone, ParamsStart,
         ParamsListed, ParamsDone, ResetStart, ResetReady, ResetDone, CommandFails,
         Return, Fail, Continue
  <1>6. Sketch => pc' \in {"drain", "idle"}
    BY DEF Sketch, EnterAny, Enter, LocalPortQuery, Fail, Return
  <1>7. Rx => pc' = pc
    BY DEF Rx, RxEvent, RxIgnored, drvVars
  <1>8. UNCHANGED drvVars => pc' = pc
    BY DEF drvVars
  <1> QED BY <1>2, <1>3, <1>4, <1>5, <1>6, <1>7, <1>8 DEF Next, Driver, vars

LEMMA NextHandleInv ==
  ASSUME TypeInv, HandleInv, [Next]_vars
  PROVE  HandleInv'
  <1> USE SerialsAssumption
  <1>1. LinksStep /\ HandlesStep
    BY NextLinksStep DEF HandleInv
  <1>2. TypeInv'
    BY NextTypeInv
  <1>3. /\ \A l \in Links : epoch[l] \in Nat /\ epoch'[l] \in Nat
        /\ handles \subseteq Handles /\ handles' \subseteq Handles
    BY <1>2 DEF TypeInv, TypeOK
  <1>4. SerialCountsUses'
    BY <1>1, <1>3 DEF HandleInv, SerialCountsUses, LinksStep, Renewed, Kept, NextSerial
  <1>5. AdoptsWithoutSerial' = AdoptsWithoutSerial
    BY BuildIsRigid DEF AdoptsWithoutSerial, AT1, Polling
  <1>6. ASSUME NEW h \in handles
        PROVE  /\ h.epoch <= epoch'[h.link]
               /\ h.epoch < SERIALS => h.serial = h.epoch
               /\ ~AdoptsWithoutSerial' /\ h.epoch = epoch'[h.link] /\ IsConnected(h.link)'
                    /\ ~Starting(h.link)' => h.conn = conn'[h.link]
    <2>1. h.link \in Links /\ h.epoch \in Nat
      BY <1>3, HandleFields
    <2>2. h.epoch <= epoch[h.link] /\ (h.epoch < SERIALS => h.serial = h.epoch)
      BY DEF HandleInv, HandlesDated
    <2>3. CASE Renewed(h.link)
      BY <1>3, <2>1, <2>2, <2>3 DEF Renewed
    <2>4. CASE Kept(h.link)
      BY <1>5, <2>2, <2>4 DEF Kept, SameConnection, HandleInv, HandlesCurrent
    <2> QED BY <1>1, <2>1, <2>3, <2>4 DEF LinksStep
  <1>7. ASSUME NEW l \in Links, NEW via \in {"connect", "accept"}, NEW h, h = HandleOf(l, via)
        PROVE  /\ h.epoch <= epoch'[h.link]
               /\ h.epoch < SERIALS => h.serial = h.epoch
               /\ h.conn = conn'[h.link]
    <2>1. h.link = l /\ h.epoch = epoch'[l] /\ h.serial = serialId'[l] /\ h.conn = conn'[l]
      BY <1>7 DEF HandleOf
    <2> QED BY <1>3, <1>4, <2>1 DEF SerialCountsUses
  <1>8. HandlesDated' /\ HandlesCurrent'
    <2>1. ASSUME NEW h \in handles'
          PROVE  /\ h.epoch <= epoch'[h.link]
                 /\ h.epoch < SERIALS => h.serial = h.epoch
                 /\ ~AdoptsWithoutSerial' /\ h.epoch = epoch'[h.link] /\ IsConnected(h.link)'
                      /\ ~Starting(h.link)' => h.conn = conn'[h.link]
      BY <1>1, <1>6, <1>7 DEF HandlesStep
    <2> QED BY <2>1 DEF HandlesDated, HandlesCurrent
  <1> QED BY <1>4, <1>8, SyncGuardedKept DEF HandleInv

----------------------------------------------------------------------------
(* Where the serialId bits still count the uses, a handle that passes        *)
(* checkLinkId() is of the present use of its link, and so of its connection. *)
LEMMA HandleInvRefusesOld ==
  ASSUME TypeInv, HandleInv
  PROVE  OldHandleRefused
  <1> SUFFICES ASSUME ~AdoptsWithoutSerial, NEW h \in handles, Active(h),
                      epoch[h.link] < SERIALS, ~Starting(h.link)
               PROVE  h.epoch = epoch[h.link] /\ h.conn = conn[h.link]
    BY DEF OldHandleRefused, HandleNeverRevives
  <1>1. h.link \in Links /\ h.epoch \in Nat /\ epoch[h.link] \in Nat
    BY TypeInvParts, HandleFields DEF SketchOK, LinkInfoOK
  <1>2. h.epoch <= epoch[h.link] /\ (h.epoch < SERIALS => h.serial = h.epoch)
    BY DEF HandleInv, HandlesDated
  <1>3. serialId[h.link] = epoch[h.link] /\ serialId[h.link] = h.serial
    BY <1>1 DEF HandleInv, SerialCountsUses, Active
  <1>4. h.epoch = epoch[h.link]
    BY <1>1, <1>2, <1>3, SerialsAssumption
  <1> QED BY <1>4 DEF HandleInv, HandlesCurrent, Active

(* checkLinkId() refuses, for good, a handle whose link has been given to    *)
(* another connection or use since, whatever events and commands interleave  *)
(* and whatever events are lost: for any number of links and in every build  *)
(* but AT2 with polling, until a link's serialId bits wrap around.           *)
THEOREM OldHandlesRefused == Spec => []OldHandleRefused
  <1>1. Init => TypeInv /\ HandleInv
    BY InitTypeInv, InitHandleInv
  <1>2. TypeInv /\ HandleInv /\ [Next]_vars => (TypeInv /\ HandleInv)'
    BY NextTypeInv, NextHandleInv
  <1>3. TypeInv /\ HandleInv => OldHandleRefused
    BY HandleInvRefusesOld
  <1> QED BY <1>1, <1>2, <1>3, PTL DEF Spec

-----------------------------------------------------------------------------
(***************************************************************************)
(* What linkInfo says of a link is what the serial line has told.            *)
(*                                                                          *)
(* Everything the driver knows of a link it has read, and what it has not    *)
(* read yet waits in the line.  So the invariant speaks of positions in the  *)
(* line: Holds(i, l, c) says that somebody who has read up to line i may    *)
(* believe that link l carries connection c.  A line says so of the         *)
(* connections it names (Sayings), the driver of those in its tables, which  *)
(* are at position 0 (EntryView, ListView); reading moves every claim one   *)
(* position down, and what the firmware does appends lines.                 *)
(***************************************************************************)

Wire == DOMAIN uart
RealConns == Conns \ {NoConn}

(* Line m tells that link l is closed; some line behind position i does.    *)
Ends(m, l) == m.t = "CLOSED" /\ m.link = l
ClosedAfter(i, l) == \E j \in Wire : j > i /\ Ends(uart[j], l)

(* Line m starts a connection on link l. *)
Opens(m, l) == m.t = "CONNECT" /\ m.link = l

(* Line m says that link l carries connection c. *)
Says(m, l, c) ==
  \/ m.t = "CONNECT" /\ m.link = l /\ m.conn = c
  \/ m.t = "OK" /\ call.link = l /\ m.conn = c
  \/ m.t \in {"STATUS", "+CIPRECVLEN"} /\ m.conns[l] = c

(* One who has read the lines up to i may believe that l carries c: unless   *)
(* lines were lost it does, or the CLOSED is still to be read.  What starts   *)
(* on l behind i is newer.                                                  *)
Holds(i, l, c) ==
  /\ c <= lastConn
  /\ ClosedAfter(i, l) => open[l] # c
  /\ reliable => open[l] = c \/ ClosedAfter(i, l)
  /\ \A j \in Wire : j > i /\ Opens(uart[j], l) => uart[j].conn > c

Sayings == \A i \in Wire, l \in Links, c \in RealConns : Says(uart[i], l, c) => Holds(i, l, c)

Listing == pc \in {"statusOK", "paramsOK"}
ListView ==
  Listing => \A l \in Links : call.list[l] # NoConn => Holds(0, l, call.list[l])

EntryView ==
  \A l \in Links : IsConnected(l) /\ conn[l] # NoConn => Holds(0, l, conn[l])

OpenKnown == \A l \in Links : open[l] <= lastConn

(* The lines name connections, and so do the entries of connected links.    *)
Named ==
  /\ \A i \in Wire : /\ uart[i].t = "CONNECT" => uart[i].conn # NoConn
                     /\ pc = "start" /\ uart[i].t = "OK" => uart[i].conn # NoConn
  /\ \A l \in Links : IsConnected(l) /\ ~Starting(l) => conn[l] # NoConn

(* The command under way is the one the driver waits for. *)
Asked ==
  \/ request.cmd = "none"
  \/ pc = "start" /\ request.cmd = "CIPSTART" /\ request.link = call.link
  \/ pc = "closemode" /\ request.cmd = "CIPCLOSEMODE"
  \/ pc = "close" /\ request.cmd = "CIPCLOSE" /\ request.link = call.h.link
  \/ pc \in {"status", "params"} /\ request.cmd = "CIPSTATUS"
  \/ pc = "len" /\ request.cmd = "CIPRECVLEN"
  \/ pc = "recv" /\ request.cmd = "CIPRECVDATA" /\ request.link = call.h.link
  \/ pc = "prompt" /\ request.cmd = "CIPSEND"
  \/ pc = "sent" /\ request.cmd = "payload"
  \/ pc = "ready" /\ request.cmd = "RST"
  \/ pc = "setup" /\ request.cmd = "setup"

(* Lines that end an answer. *)
Final == {"OK", "ERROR", "UNLINK", ">", "ready"}

(* While a command is under way nothing but events is in the line, behind   *)
(* the end of an answer are only events, and a list is followed by its OK.   *)
Unanswered == request.cmd # "none" => \A i \in Wire : uart[i].t \in EventTypes
EndsLast == \A i, j \in Wire : i < j /\ uart[i].t \in Final => uart[j].t \in EventTypes
ListEnds ==
  /\ \A i \in Wire : uart[i].t = "STATUS" => i + 1 \in Wire /\ uart[i + 1].t = "OK"
  /\ Listing => 1 \in Wire /\ uart[1].t = "OK"

(* A link that is closing is the one close() waits for, and the answer to   *)
(* CIPCLOSE has the CLOSED of the link before it.                           *)
Refusals == {"OK", "ERROR", "UNLINK"}
ClosingNow ==
  reliable => \A l \in Links : IsClosing(l) =>
    /\ IsConnected(l) /\ pc \in {"closemode", "close"} /\ call.h.link = l
    /\ pc = "close" => \A i \in Wire : uart[i].t \in Refusals =>
                         \E j \in Wire : j < i /\ Ends(uart[j], l)

Dialogue == Asked /\ Unanswered /\ EndsLast /\ ListEnds
View == Sayings /\ ListView /\ EntryView /\ OpenKnown /\ Named
WireInv == Dialogue /\ View /\ ClosingNow

----------------------------------------------------------------------------
(* What a step does to the line: the driver's calls leave it as it is, reads *)
(* take its first line, and the firmware appends to it.                     *)

Still == UNCHANGED <<uart, open, endpoint, unread, lastConn, reliable>>

Heard ==
  /\ uart # <<>> /\ uart' = Tail(uart)
  /\ UNCHANGED <<open, endpoint, unread, lastConn>>
  /\ reliable' => reliable

LEMMA WireFacts ==
  ASSUME TypeInv
  PROVE  /\ uart \in Seq(Messages) /\ Len(uart) \in Nat /\ Wire = 1 .. Len(uart)
         /\ \A i \in Wire : uart[i] \in Messages
         /\ uart # <<>> => 1 \in Wire /\ Head(uart) = uart[1]
         /\ uart = <<>> => Wire = {}
  BY TypeInvParts DEF FwTypeOK, Wire

LEMMA ExpectedNoEvent == Expected \cap EventTypes = {}
  BY DEF Expected, EventTypes

LEMMA WaitsHear ==
  ASSUME NEW stage, Matched(stage) \/ Refused(stage) \/ Accepted(stage)
  PROVE  /\ Heard /\ pc = stage /\ Head(uart).t \notin EventTypes
         /\ UNCHANGED reliable
  <1>1. CASE Matched(stage)
    BY <1>1, ExpectedNoEvent DEF Matched, Matches, Receive, FwUnchanged, Heard
  <1>2. CASE Refused(stage)
    BY <1>2 DEF Refused, Receive, FwUnchanged, Heard, EventTypes
  <1>3. CASE Accepted(stage) /\ ~Matched(stage)
    BY <1>3 DEF Accepted, Receive, FwUnchanged, Heard, EventTypes
  <1> QED BY <1>1, <1>2, <1>3

(* The bodies of the operations begin when the line is empty, and go on when *)
(* they read a line that is no event.                                       *)
Begins == pc \in {"drain", "drainSync"} /\ uart = <<>> /\ Still
Resumes == pc \notin {"idle", "drain", "drainSync"} /\ Head(uart).t \notin EventTypes /\ Heard

LEMMA BodyWire ==
  ASSUME Body
  PROVE  Begins \/ Resumes
  <1>1. ASSUME NEW op, Drained(op)
        PROVE  Begins
    BY <1>1 DEF Drained, Begins, Still, FwUnchanged
  <1>2. CASE CheckFails \/ NewClientLinkId \/ ConnectStart \/ CloseStart \/ Known
               \/ SyncLinkInfo \/ RecvNothing \/ RecvStart \/ SendStart \/ ParamsStart
               \/ ResetStart
    BY <1>1, <1>2 DEF CheckFails, NewClientLinkId, ConnectStart, CloseStart, Known, SyncLinkInfo,
         RecvNothing, RecvStart, SendStart, ParamsStart, ResetStart, Checked
  <1>3. CASE RecvLenStart
    BY <1>3 DEF RecvLenStart, Begins, Still, FwUnchanged
  <1>4. ASSUME NEW stage, Matched(stage) \/ Refused(stage) \/ Accepted(stage),
               stage \notin {"idle", "drain", "drainSync"}
        PROVE  Resumes
    BY <1>4, WaitsHear DEF Resumes
  <1>5. CASE ConnectDone \/ ConnectFails \/ CloseModeDone \/ CloseDone \/ CheckLinksListed
               \/ CheckLinks \/ RecvLenQuery \/ SyncDone \/ RecvData \/ RecvFails \/ RecvDone
    BY <1>4, <1>5 DEF ConnectDone, ConnectFails, CloseModeDone, CloseDone, CheckLinksListed,
         CheckLinks, RecvLenQuery, SyncDone, RecvData, RecvFails, RecvDone
  <1>6. CASE SendPayload \/ SendReceived \/ SendDone \/ ParamsListed \/ ParamsDone
               \/ ResetReady \/ ResetDone \/ CommandFails
    BY <1>4, <1>6 DEF SendPayload, SendReceived, SendDone, ParamsListed, ParamsDone,
         ResetReady, ResetDone, CommandFails
  <1>7. CASE RecvTruncated
    BY <1>7, ExpectedNoEvent DEF RecvTruncated, Matches, Receive, Resumes, Heard
  <1> QED BY <1>2, <1>3, <1>5, <1>6, <1>7 DEF Body

LEMMA SketchWire == Sketch => Still /\ pc = "idle" /\ request' = request
  BY DEF Sketch, EnterAny, Enter, LocalPortQuery, Still, fwVars

LEMMA RxWire ==
  ASSUME Rx
  PROVE  Heard /\ pc # "idle" /\ UNCHANGED <<request, call, pc, handles, reliable>>
  BY DEF Rx, RxEvent, RxIgnored, Reading, Receive, FwUnchanged, Heard, drvVars

(* Whatever the driver does, call.link is given up or chosen on an empty line. *)
LEMMA CallLinkStep ==
  ASSUME TypeInv, Sketch \/ Driver
  PROVE  call'.link = call.link \/ call'.link = NoLink \/ (uart = <<>> /\ uart' = <<>>)
  <1>1. call \in Calls
    BY TypeInvParts DEF SketchOK
  <1>2. NoCall.link = NoLink
    BY DEF NoCall, Call
  <1>3. CASE Sketch
    <2>1. PICK op, h, kind, size : call' = Call(op, h, kind, size) \/ call' = NoCall
      BY <1>3 DEF Sketch, EnterAny, Enter, LocalPortQuery, Fail, Return
    <2> QED BY <1>2, <2>1 DEF Call
  <1>4. CASE Rx
    <2>1. call' = call
      BY <1>4, RxWire
    <2> QED BY <2>1
  <1>5. CASE Body
    <2>1. CASE Begins
      BY <2>1 DEF Begins, Still
    <2>2. CASE Resumes
      <3>1. CASE CheckLinksListed \/ ParamsListed
        BY <1>1, <3>1 DEF CheckLinksListed, ParamsListed, Calls
      <3>2. CASE Return \/ call' = call
        BY <1>2, <3>2 DEF Return
      <3>3. ASSUME Body, ~CheckLinksListed, ~ParamsListed, Resumes
            PROVE  Return \/ call' = call
        <4>1. ~ConnectStart
          BY <3>3 DEF ConnectStart, Drained, Resumes
        <4> QED BY <3>3, <4>1
          DEF Body, CheckFails, NewClientLinkId, ConnectDone, ConnectFails,
           CloseStart, CloseModeDone, CloseDone, Known, SyncLinkInfo, CheckLinks,
           RecvLenStart, RecvLenQuery, SyncDone, RecvNothing, RecvStart, RecvData, RecvTruncated,
           RecvFails, RecvDone, SendStart, SendPayload, SendReceived, SendDone, ParamsStart,
           ParamsDone, ResetStart, ResetReady, ResetDone, CommandFails, Fail, Continue
      <3> QED BY <1>5, <2>2, <3>1, <3>2, <3>3
    <2> QED BY <1>5, <2>1, <2>2, BodyWire
  <1> QED BY <1>3, <1>4, <1>5 DEF Driver

LEMMA HeardWire ==
  ASSUME TypeInv, Heard
  PROVE  /\ Wire' = 1 .. Len(uart) - 1
         /\ \A i \in Wire' : i + 1 \in Wire /\ uart'[i] = uart[i + 1]
         /\ \A i \in Wire : i # 1 => i - 1 \in Wire' /\ uart'[i - 1] = uart[i]
         /\ 1 \in Wire /\ Head(uart) = uart[1]
  <1>1. uart \in Seq(Messages) /\ Wire = 1 .. Len(uart)
    BY WireFacts
  <1>2. Len(uart') = Len(uart) - 1 /\ uart' \in Seq(Messages)
    BY <1>1 DEF Heard
  <1>3. Wire' = 1 .. Len(uart) - 1
    BY <1>2 DEF Wire
  <1>4. \A i \in Wire' : i + 1 \in Wire /\ uart'[i] = uart[i + 1]
    BY <1>1, <1>3 DEF Heard
  <1>5. \A i \in Wire : i # 1 => i - 1 \in Wire' /\ uart'[i - 1] = uart[i]
    BY <1>1, <1>3 DEF Heard
  <1>6. 1 \in Wire /\ Head(uart) = uart[1]
    BY WireFacts DEF Heard
  <1> QED BY <1>3, <1>4, <1>5, <1>6

LEMMA GrownWire ==
  ASSUME TypeInv, NEW msgs \in Seq(Messages), uart' = uart \o msgs
  PROVE  /\ Wire' = 1 .. Len(uart) + Len(msgs) /\ DOMAIN msgs = 1 .. Len(msgs)
         /\ \A i \in Wire : i \in Wire' /\ uart'[i] = uart[i]
         /\ \A k \in DOMAIN msgs : k + Len(uart) \in Wire' /\ uart'[k + Len(uart)] = msgs[k]
         /\ \A i \in Wire' : i \in Wire \/ (i - Len(uart) \in DOMAIN msgs /\ uart'[i] = msgs[i - Len(uart)])
  <1>1. uart \in Seq(Messages) /\ Wire = 1 .. Len(uart) /\ Len(uart) \in Nat
    BY WireFacts
  <1>2. DOMAIN msgs = 1 .. Len(msgs) /\ Len(msgs) \in Nat
    OBVIOUS
  <1>3. /\ uart' \in Seq(Messages) /\ Len(uart') = Len(uart) + Len(msgs)
        /\ \A i \in 1 .. Len(uart) + Len(msgs) :
             uart'[i] = IF i <= Len(uart) THEN uart[i] ELSE msgs[i - Len(uart)]
    BY <1>1
  <1>4. Wire' = 1 .. Len(uart) + Len(msgs)
    BY <1>3 DEF Wire
  <1>5. \A i \in Wire : i \in Wire' /\ uart'[i] = uart[i]
    BY <1>1, <1>2, <1>3, <1>4
  <1>6. \A k \in DOMAIN msgs : k + Len(uart) \in Wire' /\ uart'[k + Len(uart)] = msgs[k]
    <2> SUFFICES ASSUME NEW k \in DOMAIN msgs
                 PROVE  k + Len(uart) \in Wire' /\ uart'[k + Len(uart)] = msgs[k]
      OBVIOUS
    <2>1. k \in 1 .. Len(msgs) /\ (k + Len(uart)) - Len(uart) = k /\ ~(k + Len(uart) <= Len(uart))
      BY <1>1, <1>2
    <2> QED BY <1>1, <1>2, <1>3, <1>4, <2>1
  <1>7. \A i \in Wire' : i \in Wire \/ (i - Len(uart) \in DOMAIN msgs /\ uart'[i] = msgs[i - Len(uart)])
    <2>1. ASSUME NEW i \in Wire', i \notin Wire
          PROVE  i - Len(uart) \in DOMAIN msgs /\ uart'[i] = msgs[i - Len(uart)]
      <3>1. i \in Int /\ i > Len(uart) /\ i <= Len(uart) + Len(msgs)
        BY <1>1, <1>2, <1>4, <2>1
      <3> QED BY <1>1, <1>2, <1>3, <3>1
    <2> QED BY <2>1
  <1> QED BY <1>2, <1>4, <1>5, <1>6, <1>7

(* What the firmware adds to the line, and what that has to do with its     *)
(* table of links.                                                          *)
Shuts(msgs, l) == \E k \in DOMAIN msgs : Ends(msgs[k], l)

Answers(msgs) ==
  \/ request' = request /\ \A k \in DOMAIN msgs : msgs[k].t \in EventTypes
  \/ /\ request.cmd # "none" /\ request'.cmd = "none"
     /\ \A j, k \in DOMAIN msgs : j < k /\ msgs[j].t \in Final => msgs[k].t \in EventTypes
     /\ \A k \in DOMAIN msgs :
          msgs[k].t = "STATUS" => k + 1 \in DOMAIN msgs /\ msgs[k + 1].t = "OK"

Speaks(msgs) ==
  /\ lastConn' \in {lastConn, lastConn + 1}
  /\ reliable' => reliable
  /\ \A l \in Links :
       /\ Shuts(msgs, l) => open'[l] = NoConn
       /\ \/ open'[l] \in {open[l], NoConn}
          \/ open'[l] = lastConn' /\ lastConn' = lastConn + 1
       /\ reliable' => open'[l] = open[l] \/ Shuts(msgs, l) \/ open[l] = NoConn
  /\ \A l \in Links, k \in DOMAIN msgs, c \in RealConns : Says(msgs[k], l, c) => open'[l] = c
  /\ \A k \in DOMAIN msgs :
       /\ msgs[k].t = "CONNECT" => k = 1 /\ msgs[k].conn > lastConn
       /\ pc = "start" /\ msgs[k].t = "OK" => msgs[k].conn # NoConn
  /\ reliable' /\ request.cmd = "CIPCLOSE" /\ open[request.link] # NoConn =>
       \A k \in DOMAIN msgs : msgs[k].t \in Refusals =>
         \E j \in DOMAIN msgs : j < k /\ Ends(msgs[j], request.link)

FirmwareStep == \E msgs \in Seq(Messages) : uart' = uart \o msgs /\ Answers(msgs) /\ Speaks(msgs)

(* The same of one line. *)
Fits(m) ==
  /\ lastConn' \in {lastConn, lastConn + 1}
  /\ \A l \in Links :
       /\ Ends(m, l) => open'[l] = NoConn
       /\ \/ open'[l] \in {open[l], NoConn}
          \/ open'[l] = lastConn' /\ lastConn' = lastConn + 1
       /\ open'[l] = open[l] \/ Ends(m, l) \/ open[l] = NoConn
  /\ \A l \in Links, c \in RealConns : Says(m, l, c) => open'[l] = c
  /\ m.t = "CONNECT" => m.conn > lastConn

LEMMA NotifySpeaks ==
  ASSUME TypeInv, NEW m \in Messages, m.t \in EventTypes, Notify(m), request' = request, Fits(m)
  PROVE  FirmwareStep
  <1>1. m.t \notin Refusals /\ m.t # "OK"
    BY DEF EventTypes, Refusals
  <1>2. CASE uart' = Append(uart, m) /\ UNCHANGED ghosts
    <2> DEFINE msgs == <<m>>
    <2>1. msgs \in Seq(Messages) /\ DOMAIN msgs = {1} /\ msgs[1] = m
      OBVIOUS
    <2>2. uart' = uart \o msgs
      BY <1>2, TypeInvParts DEF FwTypeOK
    <2> HIDE DEF msgs
    <2>3. \A l : Shuts(msgs, l) <=> Ends(m, l)
      BY <2>1 DEF Shuts
    <2>4. Answers(msgs)
      BY <2>1 DEF Answers
    <2>5. reliable' = reliable
      BY <1>2 DEF ghosts
    <2>6. ASSUME NEW l \in Links
          PROVE  /\ Shuts(msgs, l) => open'[l] = NoConn
                 /\ \/ open'[l] \in {open[l], NoConn}
                    \/ open'[l] = lastConn' /\ lastConn' = lastConn + 1
                 /\ open'[l] = open[l] \/ Shuts(msgs, l) \/ open[l] = NoConn
      BY <2>3, Zenon DEF Fits
    <2>7. \A l \in Links, k \in DOMAIN msgs, c \in RealConns : Says(msgs[k], l, c) => open'[l] = c
      BY <2>1 DEF Fits
    <2>8. \A k \in DOMAIN msgs : /\ msgs[k].t = "CONNECT" => k = 1 /\ msgs[k].conn > lastConn
                                 /\ msgs[k].t # "OK" /\ msgs[k].t \notin Refusals
      BY <1>1, <2>1 DEF Fits
    <2>9. Speaks(msgs)
      BY <2>5, <2>6, <2>7, <2>8, Zenon DEF Speaks, Fits
    <2> QED BY <2>1, <2>2, <2>4, <2>9 DEF FirmwareStep
  <1>3. CASE Lose /\ UNCHANGED uart
    <2> DEFINE msgs == <<>>
    <2>1. msgs \in Seq(Messages) /\ DOMAIN msgs = {}
      OBVIOUS
    <2>2. uart' = uart \o msgs
      BY <1>3, TypeInvParts DEF FwTypeOK
    <2> HIDE DEF msgs
    <2>3. \A l : ~Shuts(msgs, l)
      BY <2>1 DEF Shuts
    <2>4. Answers(msgs)
      BY <2>1 DEF Answers
    <2>5. ~reliable'
      BY <1>3 DEF Lose
    <2>6. Speaks(msgs)
      BY <2>1, <2>3, <2>5 DEF Speaks, Fits
    <2> QED BY <2>1, <2>2, <2>4, <2>6 DEF FirmwareStep
  <1> QED BY <1>2, <1>3 DEF Notify

LEMMA NetworkSpeaks ==
  ASSUME TypeInv, Network
  PROVE  FirmwareStep
  <1>1. FwTypeOK /\ lastConn \in Conns
    BY TypeInvParts DEF FwTypeOK
  <1>2. PICK l \in Links : PeerConnects(l) \/ DataArrives(l) \/ PeerCloses(l)
    BY DEF Network
  <1>3. open[l] \in Conns /\ unread[l] \in 0 .. MaxData /\ 1 \in 0 .. MaxData
    BY <1>1, BoundsAssumption DEF FwTypeOK
  <1>4. request' = request
    BY <1>2 DEF PeerConnects, DataArrives, PeerCloses
  <1>5. CASE PeerConnects(l)
    <2> DEFINE m == Event("CONNECT", l, lastConn + 1, 0)
    <2>1. lastConn + 1 \in Conns /\ lastConn + 1 # NoConn /\ lastConn + 1 > lastConn
      BY <1>1, <1>5, BoundsAssumption DEF PeerConnects, Conns, NoConn
    <2>2. m \in Messages /\ m.t = "CONNECT" /\ m.link = l /\ m.conn = lastConn + 1
      BY <2>1, MessagesMade, ConstantFacts DEF EventTypes, Event
    <2>3. /\ Notify(m) /\ lastConn' = lastConn + 1 /\ open[l] = NoConn
          /\ open' = [open EXCEPT ![l] = lastConn + 1]
      BY <1>5 DEF PeerConnects
    <2> HIDE DEF m
    <2>4. Fits(m)
      BY <1>1, <2>1, <2>2, <2>3 DEF Fits, Ends, Says, FwTypeOK
    <2> QED BY <1>4, <2>2, <2>3, <2>4, NotifySpeaks DEF EventTypes
  <1>6. CASE DataArrives(l)
    <2>1. PICK n \in 0 .. MaxData : Notify(Event("IPD", l, open[l], n))
      <3>1. CASE AT1 /\ l \in endpoint
        BY <1>3, <1>6, <3>1 DEF DataArrives
      <3>2. CASE ~(AT1 /\ l \in endpoint)
        <4>1. unread[l] + 1 \in 0 .. MaxData
          BY <1>3, <1>6, <3>2, BoundsAssumption DEF DataArrives
        <4> QED BY <1>6, <3>2, <4>1 DEF DataArrives
      <3> QED BY <3>1, <3>2
    <2> DEFINE m == Event("IPD", l, open[l], n)
    <2>2. m \in Messages /\ m.t = "IPD"
      BY <1>3, MessagesMade DEF EventTypes, Event
    <2>3. open' = open /\ lastConn' = lastConn
      BY <1>6 DEF DataArrives
    <2>4. Notify(m)
      BY <2>1
    <2> HIDE DEF m
    <2>5. Fits(m)
      BY <2>2, <2>3 DEF Fits, Ends, Says
    <2> QED BY <1>4, <2>2, <2>4, <2>5, NotifySpeaks DEF EventTypes
  <1>7. CASE PeerCloses(l)
    <2> DEFINE m == Event("CLOSED", l, open[l], 0)
    <2>1. m \in Messages /\ m.t = "CLOSED" /\ m.link = l
      BY <1>3, MessagesMade, ConstantFacts DEF EventTypes, Event
    <2>2. Notify(m) /\ lastConn' = lastConn /\ open' = [open EXCEPT ![l] = NoConn]
      BY <1>7 DEF PeerCloses
    <2> HIDE DEF m
    <2>3. Fits(m)
      BY <1>1, <2>1, <2>2 DEF Fits, Ends, Says, FwTypeOK
    <2> QED BY <1>4, <2>1, <2>2, <2>3, NotifySpeaks DEF EventTypes
  <1> QED BY <1>2, <1>5, <1>6, <1>7

(* The lines of answers. *)
Telling == {"CONNECT", "CLOSED", "STATUS", "+CIPRECVLEN"}

LEMMA AnswerLines ==
  /\ OK.t = "OK" /\ OK.conn = NoConn /\ ERROR.t = "ERROR" /\ UNLINK.t = "UNLINK"
  /\ \A c : Started(c).t = "OK" /\ Started(c).conn = c
  /\ CIPSTATUS.t = "STATUS" /\ CIPSTATUS.conns = open
  /\ CIPRECVLEN.t = "+CIPRECVLEN" /\ CIPRECVLEN.conns = open /\ CIPRECVLEN.lens = unread
  /\ \A n : CIPRECVDATA(n).t = "+CIPRECVDATA" /\ CIPRECVDATA(n).len = n
  /\ PROMPT.t = ">" /\ READY.t = "ready"
  BY DEF OK, ERROR, UNLINK, Started, CIPSTATUS, CIPRECVLEN, CIPRECVDATA, PROMPT, READY

LEMMA SendLines ==
  /\ RECV.t \notin Telling \cup Final
  /\ \A b : SEND(b).t \notin Telling \cup Final
  BY Zenon DEF RECV, SEND, Telling, Final

LEMMA OneAnswers ==
  ASSUME NEW m, Answer(<<m>>), request.cmd # "none", m.t # "STATUS"
  PROVE  Answers(<<m>>)
  <1>1. request'.cmd = "none"
    BY DEF Answer, NoRequest, Command
  <1> QED BY <1>1 DEF Answers

LEMMA TwoAnswers ==
  ASSUME NEW m, NEW n, Answer(<<m, n>>), request.cmd # "none", m.t \notin Final,
         m.t = "STATUS" => n.t = "OK", n.t # "STATUS"
  PROVE  Answers(<<m, n>>)
  <1>1. request'.cmd = "none"
    BY DEF Answer, NoRequest, Command
  <1> DEFINE msgs == <<m, n>>
  <1>2. DOMAIN msgs = {1, 2} /\ msgs[1] = m /\ msgs[2] = n /\ 1 + 1 = 2
    OBVIOUS
  <1> HIDE DEF msgs
  <1>3. \A j, k \in DOMAIN msgs : j < k /\ msgs[j].t \in Final => msgs[k].t \in EventTypes
    BY <1>2
  <1>4. \A k \in DOMAIN msgs :
          msgs[k].t = "STATUS" => k + 1 \in DOMAIN msgs /\ msgs[k + 1].t = "OK"
    BY <1>2
  <1>5. Answers(msgs)
    BY <1>1, <1>3, <1>4 DEF Answers
  <1> QED BY <1>5 DEF msgs

(* An answer that tells of no link but by a list of all. *)
LEMMA PlainSpeaks ==
  ASSUME TypeInv, NEW msgs, lastConn' = lastConn, reliable' => reliable,
         \A l \in Links : open'[l] = open[l] \/ (open'[l] = NoConn /\ ~reliable'),
         request.cmd # "CIPCLOSE" \/ open[request.link] = NoConn,
         \A k \in DOMAIN msgs :
           /\ msgs[k].t \notin {"CONNECT", "CLOSED"}
           /\ msgs[k].t = "OK" => msgs[k].conn = NoConn /\ pc # "start"
           /\ msgs[k].t \in {"STATUS", "+CIPRECVLEN"} => msgs[k].conns = open'
  PROVE  Speaks(msgs)
  <1>1. \A l : ~Shuts(msgs, l)
    BY DEF Shuts, Ends
  <1>2. ASSUME NEW l \in Links, NEW k \in DOMAIN msgs, NEW c \in RealConns, Says(msgs[k], l, c)
        PROVE  open'[l] = c
    BY <1>2 DEF Says, RealConns
  <1> QED BY <1>1, <1>2 DEF Speaks

LEMMA ExecuteSpeaks ==
  ASSUME TypeInv, Asked, Execute
  PROVE  FirmwareStep
  <1>1. FwTypeOK /\ CallOK /\ lastConn \in Conns
    BY TypeInvParts DEF FwTypeOK
  <1>2. request.cmd # "none"
    BY DEF Execute, ExecStart, ExecClose, ExecRecvData, ExecSend, ExecPayload, ExecStatus,
         ExecRecvLen, ExecOther, ExecReset, Executing
  <1>3. ASSUME NEW m \in Messages, Answer(<<m>>), m.t # "STATUS", Speaks(<<m>>)
        PROVE  FirmwareStep
    <2>1. <<m>> \in Seq(Messages)
      OBVIOUS
    <2> QED BY <1>2, <1>3, <2>1, OneAnswers DEF FirmwareStep, Answer
  <1>4. ASSUME NEW m \in Messages, NEW n \in Messages, Answer(<<m, n>>), m.t \notin Final,
               m.t = "STATUS" => n.t = "OK", n.t # "STATUS", Speaks(<<m, n>>)
        PROVE  FirmwareStep
    <2>1. <<m, n>> \in Seq(Messages)
      OBVIOUS
    <2> QED BY <1>2, <1>4, <2>1, TwoAnswers DEF FirmwareStep, Answer
  <1>5. UNCHANGED ghosts => reliable' = reliable
    BY DEF ghosts
  <1>6. CASE ExecStart
    <2> DEFINE l == request.link
               c == lastConn + 1
    <2>1. l \in Links /\ open[l] \in Conns /\ request.cmd = "CIPSTART"
      BY <1>1, <1>6 DEF FwTypeOK, CallOK, ExecStart, Executing
    <2>2. pc = "start" /\ l = call.link /\ reliable' = reliable
      BY <1>5, <1>6, <2>1 DEF Asked, ExecStart
    <2>3. CASE Answer(<<Event("CONNECT", l, c, 0), Started(c)>>)
               /\ open[l] = NoConn /\ lastConn < MaxConn /\ lastConn' = c
               /\ open' = [open EXCEPT ![l] = c]
      <3> DEFINE m == Event("CONNECT", l, c, 0)
                 n == Started(c)
                 msgs == <<m, n>>
      <3>1. c \in Conns /\ c # NoConn /\ c > lastConn
        BY <1>1, <2>3, BoundsAssumption DEF Conns, NoConn
      <3>2. m \in Messages /\ m.t = "CONNECT" /\ m.link = l /\ m.conn = c
        BY <2>1, <3>1, MessagesMade, ConstantFacts DEF EventTypes, Event
      <3>3. n \in Messages /\ n.t = "OK" /\ n.conn = c
        BY <3>1, MessagesMade, AnswerLines
      <3>4. DOMAIN msgs = {1, 2} /\ msgs[1] = m /\ msgs[2] = n
        OBVIOUS
      <3>5. Answer(<<m, n>>)
        BY <2>3
      <3> HIDE DEF m, n
      <3>6. Speaks(msgs)
        <4> HIDE DEF msgs
        <4>1. \A k \in Links : ~Shuts(msgs, k)
          BY <3>2, <3>3, <3>4 DEF Shuts, Ends
        <4>2. \A k \in Links : open'[k] = IF k = l THEN c ELSE open[k]
          BY <1>1, <2>3 DEF FwTypeOK
        <4>3. ASSUME NEW k \in Links, NEW i \in DOMAIN msgs, NEW d \in RealConns,
                     Says(msgs[i], k, d)
              PROVE  open'[k] = d
          BY <2>2, <3>2, <3>3, <3>4, <4>2, <4>3 DEF Says
        <4>4. \A i \in DOMAIN msgs : /\ msgs[i].conn # NoConn
                                     /\ msgs[i].t = "CONNECT" => i = 1 /\ msgs[i].conn > lastConn
          BY <3>1, <3>2, <3>3, <3>4
        <4> QED BY <2>1, <2>2, <2>3, <4>1, <4>2, <4>3, <4>4 DEF Speaks
      <3> QED BY <1>4, <3>2, <3>3, <3>5, <3>6 DEF Final
    <2>4. CASE Answer(<<Event("CLOSED", l, NoConn, 0), ERROR>>) /\ open[l] = NoConn
               /\ UNCHANGED <<open, lastConn>>
      <3> DEFINE m == Event("CLOSED", l, NoConn, 0)
                 msgs == <<m, ERROR>>
      <3>1. m \in Messages /\ m.t = "CLOSED" /\ m.link = l /\ ERROR \in Messages
        BY <2>1, MessagesMade, ConstantFacts DEF EventTypes, Event
      <3>2. DOMAIN msgs = {1, 2} /\ msgs[1] = m /\ msgs[2] = ERROR
        OBVIOUS
      <3>3. Answer(<<m, ERROR>>)
        BY <2>4
      <3> HIDE DEF m
      <3>4. Speaks(msgs)
        <4> HIDE DEF msgs
        <4>1. \A k \in Links : Shuts(msgs, k) => k = l
          BY <3>1, <3>2, AnswerLines DEF Shuts, Ends
        <4>2. ASSUME NEW k \in Links, NEW i \in DOMAIN msgs, NEW d \in RealConns
              PROVE  ~Says(msgs[i], k, d)
          BY <3>1, <3>2, AnswerLines DEF Says
        <4>3. \A i \in DOMAIN msgs : msgs[i].t # "CONNECT" /\ msgs[i].t # "OK"
          BY <3>1, <3>2, AnswerLines
        <4> QED BY <2>1, <2>2, <2>4, <4>1, <4>2, <4>3 DEF Speaks
      <3> QED BY <1>4, <3>1, <3>3, <3>4, AnswerLines DEF Final
    <2>5. CASE Answer(<<ERROR>>) /\ UNCHANGED <<open, lastConn>>
      <3>1. Speaks(<<ERROR>>)
        BY <2>1, <2>2, <2>5, AnswerLines, PlainSpeaks
      <3> QED BY <1>3, <2>5, <3>1, MessagesMade, AnswerLines
    <2> QED BY <1>6, <2>3, <2>4, <2>5 DEF ExecStart
  <1>7. CASE ExecClose
    <2> DEFINE l == request.link
    <2>1. l \in Links /\ open[l] \in Conns /\ request.cmd = "CIPCLOSE"
      BY <1>1, <1>7 DEF FwTypeOK, CallOK, ExecClose, Executing
    <2>2. pc = "close" /\ lastConn' = lastConn
      BY <1>7, <2>1 DEF Asked, ExecClose
    <2>3. CASE open[l] = NoConn
      <3>1. UNCHANGED <<open, ghosts>> /\ (Answer(<<UNLINK>>) \/ Answer(<<ERROR>>))
        BY <1>7, <2>3 DEF ExecClose
      <3>2. ASSUME NEW m \in {UNLINK, ERROR} PROVE Speaks(<<m>>)
        BY <1>5, <2>1, <2>2, <2>3, <3>1, AnswerLines, PlainSpeaks
      <3> QED BY <1>3, <3>1, <3>2, MessagesMade, AnswerLines
    <2>4. CASE open[l] # NoConn
      <3>1. open' = [open EXCEPT ![l] = NoConn]
        BY <1>7, <2>4 DEF ExecClose
      <3>2. \A k \in Links : open'[k] = IF k = l THEN NoConn ELSE open[k]
        BY <1>1, <3>1 DEF FwTypeOK
      <3>3. CASE Answer(<<Event("CLOSED", l, open[l], 0), OK>>) /\ UNCHANGED ghosts
        <4> DEFINE m == Event("CLOSED", l, open[l], 0)
                   msgs == <<m, OK>>
        <4>1. m \in Messages /\ m.t = "CLOSED" /\ m.link = l /\ OK \in Messages
          BY <2>1, MessagesMade, ConstantFacts DEF EventTypes, Event
        <4>2. DOMAIN msgs = {1, 2} /\ msgs[1] = m /\ msgs[2] = OK
          OBVIOUS
        <4>3. Answer(<<m, OK>>)
          BY <3>3
        <4> HIDE DEF m
        <4>4. Speaks(msgs)
          <5> HIDE DEF msgs
          <5>1. \A k \in Links : Shuts(msgs, k) <=> k = l
            BY <4>1, <4>2, AnswerLines DEF Shuts, Ends
          <5>2. ASSUME NEW k \in Links, NEW i \in DOMAIN msgs, NEW d \in RealConns
                PROVE  ~Says(msgs[i], k, d)
            BY <4>1, <4>2, AnswerLines DEF Says, RealConns
          <5>3. \A i \in DOMAIN msgs : msgs[i].t # "CONNECT"
            BY <4>1, <4>2, AnswerLines
          <5>4. \A i \in DOMAIN msgs : msgs[i].t \in Refusals =>
                  \E j \in DOMAIN msgs : j < i /\ Ends(msgs[j], l)
            BY <4>1, <4>2 DEF Refusals, Ends
          <5> QED BY <1>5, <2>2, <3>2, <3>3, <5>1, <5>2, <5>3, <5>4 DEF Speaks
        <4> QED BY <1>4, <4>1, <4>3, <4>4, AnswerLines DEF Final
      <3>4. CASE Answer(<<OK>>) /\ Lose
        <4> DEFINE msgs == <<OK>>
        <4>1. DOMAIN msgs = {1} /\ msgs[1] = OK
          OBVIOUS
        <4> HIDE DEF msgs
        <4>2. \A k \in Links : ~Shuts(msgs, k)
          BY <4>1, AnswerLines DEF Shuts, Ends
        <4>3. ASSUME NEW k \in Links, NEW i \in DOMAIN msgs, NEW d \in RealConns
              PROVE  ~Says(msgs[i], k, d)
          BY <4>1, AnswerLines DEF Says, RealConns
        <4>4. \A i \in DOMAIN msgs : msgs[i].t # "CONNECT"
          BY <4>1, AnswerLines
        <4>5. ~reliable'
          BY <3>4 DEF Lose
        <4>6. Speaks(msgs)
          BY <2>2, <3>2, <4>2, <4>3, <4>4, <4>5 DEF Speaks
        <4> QED BY <1>3, <3>4, <4>6, MessagesMade, AnswerLines DEF msgs
      <3> QED BY <1>7, <2>4, <3>3, <3>4 DEF ExecClose
    <2> QED BY <2>3, <2>4
  <1>8. CASE ExecRecvData
    <2> DEFINE l == request.link
               n == IF request.size < unread[l] THEN request.size ELSE unread[l]
    <2>1. /\ pc # "start" /\ request.cmd # "CIPCLOSE" /\ UNCHANGED <<open, lastConn, ghosts>>
          /\ l \in Links /\ request.size \in 0 .. MaxData /\ unread[l] \in 0 .. MaxData
      BY <1>1, <1>8 DEF ExecRecvData, Executing, Asked, CallOK, FwTypeOK, Requests
    <2>2. n \in 0 .. MaxData
      BY <2>1
    <2>3. Answer(<<ERROR>>) \/ Answer(<<CIPRECVDATA(n), OK>>)
      BY <1>8 DEF ExecRecvData
    <2> HIDE DEF n
    <2>4. Speaks(<<ERROR>>)
      BY <1>5, <2>1, AnswerLines, PlainSpeaks
    <2>5. Speaks(<<CIPRECVDATA(n), OK>>)
      BY <1>5, <2>1, AnswerLines, PlainSpeaks
    <2>6. CIPRECVDATA(n) \in Messages
      BY <2>2, MessagesMade
    <2> QED BY <1>3, <1>4, <2>3, <2>4, <2>5, <2>6, MessagesMade, AnswerLines DEF Final
  <1>9. CASE ExecSend \/ ExecPayload
    <2>1. pc # "start" /\ request.cmd # "CIPCLOSE" /\ UNCHANGED <<open, lastConn, ghosts>>
      BY <1>9 DEF ExecSend, ExecPayload, Executing, Asked
    <2>2. \A m \in {ERROR, PROMPT} : Speaks(<<m>>)
      BY <1>5, <2>1, AnswerLines, PlainSpeaks
    <2>3. ASSUME NEW b \in BOOLEAN, Answer(<<RECV, SEND(b)>>)
          PROVE  FirmwareStep
      <3>1. PICK m \in Messages : m = RECV
        BY MessagesMade
      <3>2. PICK n \in Messages : n = SEND(b)
        BY MessagesMade
      <3>3. m.t \notin Telling \cup Final /\ n.t \notin Telling \cup Final
        BY <3>1, <3>2, SendLines
      <3>4. Answer(<<m, n>>)
        BY <2>3, <3>1, <3>2
      <3>5. Speaks(<<m, n>>)
        BY <1>5, <2>1, <3>3, PlainSpeaks DEF Telling, Final
      <3> QED BY <1>4, <3>3, <3>4, <3>5 DEF Telling
    <2>4. Answer(<<ERROR>>) \/ Answer(<<PROMPT>>) \/ \E b \in BOOLEAN : Answer(<<RECV, SEND(b)>>)
      BY <1>9 DEF ExecSend, ExecPayload
    <2> QED BY <1>3, <2>2, <2>3, <2>4, MessagesMade, AnswerLines
  <1>10. CASE ExecStatus \/ ExecRecvLen
    <2>1. /\ pc # "start" /\ request.cmd # "CIPCLOSE" /\ UNCHANGED <<open, lastConn>>
          /\ reliable' = reliable
      BY <1>10 DEF ExecStatus, ExecRecvLen, Executing, Asked
    <2>2. Speaks(<<CIPSTATUS, OK>>) /\ Speaks(<<CIPRECVLEN, OK>>)
      BY <2>1, AnswerLines, PlainSpeaks
    <2> QED BY <1>1, <1>4, <1>10, <2>2, ListsMade, MessagesMade, AnswerLines
            DEF ExecStatus, ExecRecvLen, Final
  <1>11. CASE ExecOther
    <2>1. pc # "start" /\ request.cmd # "CIPCLOSE" /\ UNCHANGED <<open, lastConn, ghosts>>
      BY <1>11 DEF ExecOther, Asked
    <2>2. Speaks(<<OK>>)
      BY <1>5, <2>1, AnswerLines, PlainSpeaks
    <2> QED BY <1>3, <1>11, <2>2, MessagesMade, AnswerLines DEF ExecOther
  <1>12. CASE ExecReset
    <2>1. /\ pc # "start" /\ request.cmd # "CIPCLOSE" /\ lastConn' = lastConn /\ ~reliable'
          /\ \A l \in Links : open'[l] = NoConn
      BY <1>12 DEF ExecReset, Executing, Asked, Lose
    <2>2. Speaks(<<READY>>)
      BY <2>1, AnswerLines, PlainSpeaks
    <2> QED BY <1>3, <1>12, <2>2, MessagesMade, AnswerLines DEF ExecReset
  <1> QED BY <1>6, <1>7, <1>8, <1>9, <1>10, <1>11, <1>12 DEF Execute

----------------------------------------------------------------------------
(* Question and answer. *)

(* While a command is under way the driver reads on. *)
LEMMA OnlyReads ==
  ASSUME TypeInv, Asked, Unanswered, request.cmd # "none", Sketch \/ Driver
  PROVE  Rx
  <1>1. pc \notin {"idle", "drain", "drainSync"}
    BY DEF Asked
  <1>2. ~Sketch
    BY <1>1, SketchWire
  <1>3. ~Begins
    BY <1>1 DEF Begins
  <1>4. ~Resumes
    BY HeardWire DEF Resumes, Unanswered
  <1> QED BY <1>2, <1>3, <1>4, BodyWire DEF Driver

(* A command is sent at the end of what was said before. *)
LEMMA BodyAsks ==
  ASSUME TypeInv, Body
  PROVE  request' = request \/ (Asked' /\ (uart = <<>> \/ Head(uart).t \in Final))
  <1>1. call \in Calls
    BY TypeInvParts DEF SketchOK
  <1>2. \A c, l : Send(c, l) => request'.cmd = c /\ request'.link = l
    BY DEF Send, Command
  <1>3. CASE ConnectStart
    <2>1. CASE request' = request
      BY <2>1
    <2>2. CASE \E l \in Links : Send("CIPSTART", l) /\ pc' = "start"
                                /\ call' = [call EXCEPT !.link = l]
      <3>1. PICK l \in Links : Send("CIPSTART", l) /\ pc' = "start"
                               /\ call' = [call EXCEPT !.link = l]
        BY <2>2
      <3>2. call'.link = l
        BY <1>1, <3>1 DEF Calls
      <3>3. request'.cmd = "CIPSTART" /\ request'.link = l
        BY <3>1, <1>2
      <3>4. Asked'
        BY <3>1, <3>2, <3>3 DEF Asked
      <3> QED BY <1>3, <3>4 DEF ConnectStart, Drained
    <2> QED BY <1>3, <2>1, <2>2 DEF ConnectStart, FreeLinks
  <1>4. CASE CloseStart
    BY <1>2, <1>4 DEF CloseStart, Checked, Drained, Continue, Asked
  <1>5. CASE CloseModeDone
    <2>1. Head(uart).t = "OK"
      BY <1>5 DEF CloseModeDone, Matched, Matches, Expected
    <2> QED BY <1>2, <1>5, <2>1 DEF CloseModeDone, Continue, Asked, Final
  <1>6. CASE SyncLinkInfo \/ RecvLenStart
    BY <1>2, <1>6 DEF SyncLinkInfo, RecvLenStart, Checked, Drained, Continue, Asked
  <1>7. CASE RecvStart \/ SendStart \/ ParamsStart \/ ResetStart
    BY <1>2, <1>7 DEF RecvStart, SendStart, ParamsStart, ResetStart, Checked, Drained,
       Continue, Asked
  <1>8. CASE SendPayload
    <2>1. Head(uart).t = ">"
      BY <1>8 DEF SendPayload, Matched, Matches, Expected
    <2> QED BY <1>2, <1>8, <2>1 DEF SendPayload, Continue, Asked, Final
  <1>9. CASE ResetReady
    <2>1. Head(uart).t = "ready"
      BY <1>9 DEF ResetReady, Matched, Matches, Expected
    <2> QED BY <1>2, <1>9, <2>1 DEF ResetReady, Continue, Asked, Final
  <1>10. CASE CheckFails \/ NewClientLinkId \/ ConnectDone \/ ConnectFails \/ CloseDone \/ Known
               \/ CheckLinksListed \/ CheckLinks \/ RecvLenQuery \/ SyncDone \/ RecvNothing
               \/ RecvData \/ RecvTruncated \/ RecvFails \/ RecvDone \/ SendReceived \/ SendDone
               \/ ParamsListed \/ ParamsDone \/ ResetDone \/ CommandFails
    BY <1>10 DEF CheckFails, NewClientLinkId, ConnectDone, ConnectFails, CloseDone, Known,
         CheckLinksListed, CheckLinks, RecvLenQuery, SyncDone, RecvNothing, RecvData,
         RecvTruncated, RecvFails, RecvDone, SendReceived, SendDone, ParamsListed, ParamsDone,
         ResetDone, CommandFails, Refused
  <1> QED BY <1>3, <1>4, <1>5, <1>6, <1>7, <1>8, <1>9, <1>10 DEF Body

(* A list is read when it comes, and its OK next. *)
LEMMA ListingStep ==
  ASSUME Sketch \/ Driver, Listing'
  PROVE  Rx \/ CheckLinksListed \/ ParamsListed
  <1>1. CASE Sketch
    BY <1>1 DEF Sketch, EnterAny, Enter, LocalPortQuery, Listing, Fail, Return
  <1>2. ASSUME Body, ~CheckLinksListed, ~ParamsListed
        PROVE  FALSE
    BY <1>2 DEF Listing, Body, CheckFails, NewClientLinkId, ConnectStart, ConnectDone, ConnectFails,
         CloseStart, CloseModeDone, CloseDone, Known, SyncLinkInfo, CheckLinks,
         RecvLenStart, RecvLenQuery, SyncDone, RecvNothing, RecvStart, RecvData, RecvTruncated,
         RecvFails, RecvDone, SendStart, SendPayload, SendReceived, SendDone, ParamsStart,
         ParamsDone, ResetStart, ResetReady, ResetDone, CommandFails, Return, Fail, Continue
  <1> QED BY <1>1, <1>2 DEF Driver

LEMMA NotWhileListing ==
  ASSUME TypeInv, ListEnds, Rx
  PROVE  ~Listing
  <1> SUFFICES ASSUME Listing PROVE FALSE
    OBVIOUS
  <1>1. Head(uart).t = "OK"
    BY RxWire, HeardWire DEF ListEnds
  <1>2. Head(uart).t \in Expected
    BY <1>1 DEF Listing, Expected
  <1> QED BY <1>1, <1>2 DEF Rx, RxEvent, RxIgnored

LEMMA DriverDialogue ==
  ASSUME TypeInv, Dialogue, Sketch \/ Driver
  PROVE  Dialogue'
  <1>1. CASE request.cmd # "none"
    <2>1. Rx
      BY <1>1, OnlyReads DEF Dialogue
    <2>2. Heard /\ UNCHANGED <<request, call, pc>>
      BY <2>1, RxWire
    <2>3. \A i \in Wire : uart[i].t \in EventTypes
      BY <1>1 DEF Dialogue, Unanswered
    <2>4. Asked'
      BY <2>2 DEF Dialogue, Asked
    <2>5. \A i \in Wire' : uart'[i].t \in EventTypes
      BY <2>2, <2>3, HeardWire
    <2>6. Unanswered' /\ EndsLast'
      BY <2>5 DEF Unanswered, EndsLast
    <2>7. ~Listing'
      BY <2>1, <2>2, NotWhileListing DEF Dialogue, Listing
    <2>8. ListEnds'
      BY <2>5, <2>7 DEF ListEnds, EventTypes
    <2> QED BY <2>4, <2>6, <2>8 DEF Dialogue
  <1>2. CASE request.cmd = "none"
    <2>1. Still \/ Heard
      BY SketchWire, RxWire, BodyWire DEF Driver, Begins, Resumes
    <2>2. EndsLast'
      <3>1. CASE Still
        BY <3>1 DEF Still, Dialogue, EndsLast, Wire
      <3>2. CASE Heard
        <4>1. ASSUME NEW i \in Wire', NEW j \in Wire', i < j, uart'[i].t \in Final
              PROVE  uart'[j].t \in EventTypes
          <5>1. i + 1 \in Wire /\ j + 1 \in Wire /\ i + 1 < j + 1 /\ uart[i + 1].t \in Final
                /\ uart'[j] = uart[j + 1]
            BY <3>2, <4>1, HeardWire, WireFacts
          <5> QED BY <5>1 DEF Dialogue, EndsLast
        <4> QED BY <4>1 DEF EndsLast
      <3> QED BY <2>1, <3>1, <3>2
    <2>3. ASSUME NEW i \in Wire', uart'[i].t = "STATUS"
          PROVE  i + 1 \in Wire' /\ uart'[i + 1].t = "OK"
      <3>1. CASE Still
        BY <2>3, <3>1 DEF Still, Dialogue, ListEnds, Wire
      <3>2. CASE Heard
        <4>1. i + 1 \in Wire /\ uart[i + 1].t = "STATUS" /\ i \in Nat
          BY <2>3, <3>2, HeardWire, WireFacts
        <4>2. (i + 1) + 1 \in Wire /\ uart[(i + 1) + 1].t = "OK"
          BY <4>1 DEF Dialogue, ListEnds
        <4>3. (i + 1) + 1 # 1 /\ ((i + 1) + 1) - 1 = i + 1
          BY <4>1
        <4> QED BY <3>2, <4>2, <4>3, HeardWire
      <3> QED BY <2>1, <3>1, <3>2
    <2>4. ASSUME Listing'
          PROVE  1 \in Wire' /\ uart'[1].t = "OK"
      <3>1. ~Rx
        <4> SUFFICES ASSUME Rx PROVE FALSE
          OBVIOUS
        <4>1. Listing
          BY <2>4, RxWire DEF Listing
        <4> QED BY <4>1, NotWhileListing DEF Dialogue
      <3>2. CheckLinksListed \/ ParamsListed
        BY <2>4, <3>1, ListingStep
      <3>3. Head(uart).t = "STATUS" /\ Heard
        BY <3>2, WaitsHear DEF CheckLinksListed, ParamsListed, Matched, Matches, Expected
      <3>4. 1 \in Wire /\ uart[1].t = "STATUS"
        BY <3>3, HeardWire
      <3>5. 1 + 1 \in Wire /\ uart[1 + 1].t = "OK"
        BY <3>4 DEF Dialogue, ListEnds
      <3>6. 1 + 1 # 1 /\ (1 + 1) - 1 = 1
        OBVIOUS
      <3> QED BY <3>3, <3>5, <3>6, HeardWire
    <2>5. request' = request => Asked' /\ Unanswered'
      BY <1>2 DEF Asked, Unanswered
    <2>6. ASSUME request' # request
          PROVE  Asked' /\ Unanswered'
      <3>1. Body
        BY <2>6, SketchWire, RxWire DEF Driver
      <3>2. Asked' /\ (uart = <<>> \/ Head(uart).t \in Final)
        BY <2>6, <3>1, BodyAsks
      <3>3. CASE uart = <<>>
        <4>1. Still
          BY <2>1, <3>3 DEF Heard
        <4>2. Wire' = {}
          BY <3>3, <4>1 DEF Still, Wire
        <4> QED BY <3>2, <4>2 DEF Unanswered
      <3>4. CASE uart # <<>>
        <4>1. Heard
          BY <3>1, <3>4, BodyWire DEF Begins, Resumes
        <4>2. 1 \in Wire /\ uart[1].t \in Final
          BY <3>2, <3>4, <4>1, HeardWire
        <4>3. ASSUME NEW i \in Wire' PROVE uart'[i].t \in EventTypes
          <5>1. i + 1 \in Wire /\ 1 < i + 1 /\ uart'[i] = uart[i + 1]
            BY <4>1, HeardWire, WireFacts
          <5> QED BY <4>2, <5>1 DEF Dialogue, EndsLast
        <4> QED BY <3>2, <4>3 DEF Unanswered
      <3> QED BY <3>3, <3>4
    <2> QED BY <2>2, <2>3, <2>4, <2>5, <2>6 DEF Dialogue, ListEnds
  <1> QED BY <1>1, <1>2

LEMMA FirmwareDialogue ==
  ASSUME TypeInv, Dialogue, FirmwareStep, UNCHANGED drvVars
  PROVE  Dialogue'
  <1>1. PICK msgs \in Seq(Messages) : uart' = uart \o msgs /\ Answers(msgs)
    BY DEF FirmwareStep
  <1> DEFINE n == Len(uart)
  <1>2. /\ n \in Nat /\ Wire = 1 .. n /\ Wire' = 1 .. n + Len(msgs) /\ DOMAIN msgs = 1 .. Len(msgs)
        /\ \A i \in Wire : i \in Wire' /\ uart'[i] = uart[i]
        /\ \A k \in DOMAIN msgs : k + n \in Wire' /\ uart'[k + n] = msgs[k]
        /\ \A i \in Wire' : i \in Wire \/ (i - n \in DOMAIN msgs /\ uart'[i] = msgs[i - n])
    BY <1>1, WireFacts, GrownWire
  <1>3. UNCHANGED <<pc, call>> /\ Listing' = Listing
    BY DEF drvVars, Listing
  <1>4. Asked'
    BY <1>1, <1>3 DEF Answers, Dialogue, Asked
  <1>5. ASSUME request'.cmd # "none"
        PROVE  \A i \in Wire' : uart'[i].t \in EventTypes
    BY <1>1, <1>2, <1>5 DEF Answers, Dialogue, Unanswered
  <1>6. ASSUME NEW i \in Wire', NEW j \in Wire', i < j, uart'[i].t \in Final
        PROVE  uart'[j].t \in EventTypes
    <2>1. CASE j \in Wire
      <3>1. i \in Wire
        BY <1>2, <1>6, <2>1
      <3> QED BY <1>2, <1>6, <2>1, <3>1 DEF Dialogue, EndsLast
    <2>2. CASE j \notin Wire
      <3>1. j - n \in DOMAIN msgs /\ uart'[j] = msgs[j - n]
        BY <1>2, <2>2
      <3>2. CASE i \in Wire
        <4>1. uart[i].t \notin EventTypes
          BY <1>2, <1>6, <3>2 DEF Final, EventTypes
        <4>2. request.cmd = "none"
          BY <3>2, <4>1 DEF Dialogue, Unanswered
        <4> QED BY <1>1, <3>1, <4>2 DEF Answers
      <3>3. CASE i \notin Wire
        <4>1. i - n \in DOMAIN msgs /\ uart'[i] = msgs[i - n]
          BY <1>2, <3>3
        <4>2. i - n < j - n
          BY <1>2, <1>6
        <4> QED BY <1>1, <1>6, <3>1, <4>1, <4>2 DEF Answers
      <3> QED BY <3>2, <3>3
    <2> QED BY <2>1, <2>2
  <1>7. ASSUME NEW i \in Wire', uart'[i].t = "STATUS"
        PROVE  i + 1 \in Wire' /\ uart'[i + 1].t = "OK"
    <2>1. CASE i \in Wire
      BY <1>2, <1>7, <2>1 DEF Dialogue, ListEnds
    <2>2. CASE i \notin Wire
      <3>1. i - n \in DOMAIN msgs /\ msgs[i - n].t = "STATUS" /\ i \in Int
        BY <1>2, <1>7, <2>2
      <3>2. (i - n) + 1 \in DOMAIN msgs /\ msgs[(i - n) + 1].t = "OK"
        BY <1>1, <3>1 DEF Answers, EventTypes
      <3>3. ((i - n) + 1) + n = i + 1
        BY <1>2, <3>1
      <3> QED BY <1>2, <3>2, <3>3
    <2> QED BY <2>1, <2>2
  <1>8. Listing' => 1 \in Wire' /\ uart'[1].t = "OK"
    BY <1>2, <1>3 DEF Dialogue, ListEnds
  <1> QED BY <1>4, <1>5, <1>6, <1>7, <1>8 DEF Dialogue, Unanswered, EndsLast, ListEnds

----------------------------------------------------------------------------
(* A claim goes with the line. *)

LEMMA HoldsStill ==
  ASSUME Still, NEW i, NEW l, NEW c, Holds(i, l, c)
  PROVE  Holds(i, l, c)'
  BY DEF Still, Holds, ClosedAfter, Opens, Wire

LEMMA HoldsHeard ==
  ASSUME TypeInv, Heard, NEW i \in Nat, NEW l \in Links, NEW c,
         Holds(i + 1, l, c) \/ (i = 0 /\ Holds(0, l, c) /\ ~Ends(Head(uart), l))
  PROVE  Holds(i, l, c)'
  <1>1. ClosedAfter(i, l)' <=> ClosedAfter(i + 1, l)
    <2>1. ASSUME ClosedAfter(i, l)' PROVE ClosedAfter(i + 1, l)
      <3>1. PICK j \in Wire' : j > i /\ Ends(uart'[j], l)
        BY <2>1 DEF ClosedAfter
      <3>2. j + 1 \in Wire /\ uart'[j] = uart[j + 1] /\ j + 1 > i + 1
        BY <3>1, HeardWire, WireFacts
      <3> QED BY <3>1, <3>2 DEF ClosedAfter
    <2>2. ASSUME ClosedAfter(i + 1, l) PROVE ClosedAfter(i, l)'
      <3>1. PICK j \in Wire : j > i + 1 /\ Ends(uart[j], l)
        BY <2>2 DEF ClosedAfter
      <3>2. j - 1 \in Wire' /\ uart'[j - 1] = uart[j] /\ j - 1 > i
        BY <3>1, HeardWire, WireFacts
      <3> QED BY <3>1, <3>2 DEF ClosedAfter
    <2> QED BY <2>1, <2>2
  <1>2. ~Ends(Head(uart), l) => (ClosedAfter(0, l) <=> ClosedAfter(1, l))
    BY HeardWire, WireFacts DEF ClosedAfter
  <1>3. Holds(i + 1, l, c)
    <2>1. ASSUME i = 0, Holds(0, l, c), ~Ends(Head(uart), l)
          PROVE  Holds(1, l, c)
      <3>1. \A j \in Wire : j > 1 => j > 0
        BY WireFacts
      <3> QED BY <1>2, <2>1, <3>1 DEF Holds
    <2> QED BY <2>1
  <1>4. ASSUME NEW j \in Wire', j > i, Opens(uart'[j], l)
        PROVE  uart'[j].conn > c
    <2>1. j + 1 \in Wire /\ uart'[j] = uart[j + 1] /\ j + 1 > i + 1
      BY <1>4, HeardWire, WireFacts
    <2> QED BY <1>3, <1>4, <2>1 DEF Holds
  <1>5. \A j \in Wire' : j > i /\ Opens(uart[j], l)' => uart'[j].conn > c
    BY <1>4 DEF Opens
  <1> QED BY <1>1, <1>3, <1>5 DEF Holds, Heard

(* What the firmware appends leaves a claim true, and what it says is true.  *)
LEMMA ClosedGrown ==
  ASSUME TypeInv, NEW msgs \in Seq(Messages), uart' = uart \o msgs, NEW l
  PROVE  /\ \A i \in 0 .. Len(uart) : ClosedAfter(i, l)' <=> ClosedAfter(i, l) \/ Shuts(msgs, l)
         /\ \A i \in Nat : i >= Len(uart) /\ ClosedAfter(i, l)' => Shuts(msgs, l)
  <1> DEFINE n == Len(uart)
  <1>1. /\ n \in Nat /\ Wire = 1 .. n /\ Wire' = 1 .. n + Len(msgs) /\ DOMAIN msgs = 1 .. Len(msgs)
        /\ \A i \in Wire : i \in Wire' /\ uart'[i] = uart[i]
        /\ \A k \in DOMAIN msgs : k + n \in Wire' /\ uart'[k + n] = msgs[k]
        /\ \A i \in Wire' : i \in Wire \/ (i - n \in DOMAIN msgs /\ uart'[i] = msgs[i - n])
    BY WireFacts, GrownWire
  <1>2. ASSUME NEW i \in 0 .. n, ClosedAfter(i, l)'
        PROVE  ClosedAfter(i, l) \/ Shuts(msgs, l)
    <2>1. PICK j \in Wire' : j > i /\ Ends(uart'[j], l)
      BY <1>2 DEF ClosedAfter
    <2> QED BY <1>1, <2>1 DEF ClosedAfter, Shuts
  <1>3. ASSUME NEW i \in 0 .. n, ClosedAfter(i, l)
        PROVE  ClosedAfter(i, l)'
    BY <1>1, <1>3 DEF ClosedAfter
  <1>4. ASSUME NEW i \in 0 .. n, Shuts(msgs, l)
        PROVE  ClosedAfter(i, l)'
    <2>1. PICK k \in DOMAIN msgs : Ends(msgs[k], l)
      BY <1>4 DEF Shuts
    <2>2. k + n \in Wire' /\ uart'[k + n] = msgs[k] /\ k + n > i
      BY <1>1, <2>1
    <2> QED BY <2>1, <2>2 DEF ClosedAfter
  <1>5. ASSUME NEW i \in Nat, i >= n, ClosedAfter(i, l)'
        PROVE  Shuts(msgs, l)
    <2>1. PICK j \in Wire' : j > i /\ Ends(uart'[j], l)
      BY <1>5 DEF ClosedAfter
    <2> QED BY <1>1, <1>5, <2>1 DEF Shuts
  <1> QED BY <1>2, <1>3, <1>4, <1>5

LEMMA HoldsGrown ==
  ASSUME TypeInv, OpenKnown, NEW msgs \in Seq(Messages), uart' = uart \o msgs, Speaks(msgs),
         NEW i \in 0 .. Len(uart), NEW l \in Links, NEW c \in RealConns, Holds(i, l, c)
  PROVE  Holds(i, l, c)'
  <1>1. ClosedAfter(i, l)' <=> ClosedAfter(i, l) \/ Shuts(msgs, l)
    BY ClosedGrown
  <1>2. lastConn \in Nat /\ c \in Nat /\ c # NoConn
    BY TypeInvParts DEF FwTypeOK, Conns, RealConns
  <1>3. /\ lastConn' \in {lastConn, lastConn + 1} /\ (reliable' => reliable)
        /\ Shuts(msgs, l) => open'[l] = NoConn
        /\ \/ open'[l] \in {open[l], NoConn}
           \/ open'[l] = lastConn' /\ lastConn' = lastConn + 1
        /\ reliable' => open'[l] = open[l] \/ Shuts(msgs, l) \/ open[l] = NoConn
    BY DEF Speaks
  <1>4. c <= lastConn /\ c <= lastConn'
    BY <1>2, <1>3 DEF Holds
  <1>5. ClosedAfter(i, l)' => open'[l] # c
    <2>1. CASE Shuts(msgs, l)
      BY <1>2, <1>3, <2>1
    <2>2. CASE ClosedAfter(i, l)
      <3>1. open[l] # c
        BY <2>2 DEF Holds
      <3> QED BY <1>2, <1>3, <1>4, <3>1
    <2> QED BY <1>1, <2>1, <2>2
  <1>6. reliable' => open'[l] = c \/ ClosedAfter(i, l)'
    <2>1. reliable' => open[l] = c \/ ClosedAfter(i, l)
      BY <1>3 DEF Holds
    <2> QED BY <1>1, <1>2, <1>3, <2>1
  <1>7. ASSUME NEW j \in Wire', j > i, Opens(uart'[j], l)
        PROVE  uart'[j].conn > c
    <2>1. CASE j \in Wire
      BY <1>7, <2>1, GrownWire DEF Holds
    <2>2. CASE j \notin Wire
      <3>1. j - Len(uart) \in DOMAIN msgs /\ uart'[j] = msgs[j - Len(uart)]
        BY <2>2, GrownWire
      <3>2. msgs[j - Len(uart)] \in Messages
        BY <3>1
      <3>3. uart'[j].conn > lastConn
        BY <1>7, <3>1 DEF Speaks, Opens
      <3>4. PICK d \in Conns : d = uart'[j].conn
        BY <1>7, <3>1, <3>2, MessageFields DEF Opens, EventTypes
      <3>5. d \in Nat
        BY BoundsAssumption DEF Conns
      <3>6. d > lastConn
        BY <3>3, <3>4
      <3>7. d > c
        BY <1>2, <1>4, <3>5, <3>6
      <3> QED BY <3>4, <3>7
    <2> QED BY <2>1, <2>2
  <1>8. \A j \in Wire' : j > i /\ Opens(uart[j], l)' => uart'[j].conn > c
    BY <1>7 DEF Opens
  <1> QED BY <1>4, <1>5, <1>6, <1>8 DEF Holds

LEMMA OpenKnownKept ==
  ASSUME TypeInv, OpenKnown, NEW msgs, Speaks(msgs)
  PROVE  OpenKnown'
  <1>1. lastConn \in Nat /\ \A l \in Links : open[l] \in Nat /\ open[l] <= lastConn
    BY TypeInvParts DEF FwTypeOK, Conns, OpenKnown
  <1>2. /\ lastConn' \in {lastConn, lastConn + 1}
        /\ \A l \in Links : \/ open'[l] \in {open[l], NoConn}
                            \/ open'[l] = lastConn' /\ lastConn' = lastConn + 1
    BY DEF Speaks
  <1> QED BY <1>1, <1>2 DEF OpenKnown, NoConn

LEMMA HoldsNew ==
  ASSUME TypeInv, OpenKnown, NEW msgs \in Seq(Messages), uart' = uart \o msgs, Speaks(msgs),
         NEW k \in DOMAIN msgs, NEW l \in Links, NEW c \in RealConns, Says(msgs[k], l, c),
         NEW i, i = Len(uart) + k
  PROVE  Holds(i, l, c)'
  <1>1. open'[l] = c /\ c # NoConn
    BY DEF Speaks, RealConns
  <1>2. c <= lastConn'
    BY <1>1, OpenKnownKept DEF OpenKnown
  <1>3. ~ClosedAfter(i, l)'
    <2>1. ~Shuts(msgs, l)
      BY <1>1 DEF Speaks
    <2>2. i \in Nat /\ i >= Len(uart)
      BY WireFacts, GrownWire
    <2> QED BY <2>1, <2>2, ClosedGrown
  <1>4. \A j \in Wire' : j > i => uart'[j].t # "CONNECT"
    <2> SUFFICES ASSUME NEW j \in Wire', j > i PROVE uart'[j].t # "CONNECT"
      OBVIOUS
    <2>1. Len(uart) \in Nat /\ k \in Nat \ {0} /\ Wire = 1 .. Len(uart) /\ j \in Nat
      <3>1. Len(msgs) \in Nat /\ DOMAIN msgs = 1 .. Len(msgs)
        OBVIOUS
      <3>2. Wire' = 1 .. Len(uart) + Len(msgs)
        BY GrownWire
      <3> QED BY <3>1, <3>2, WireFacts
    <2>2. j - Len(uart) \in DOMAIN msgs /\ uart'[j] = msgs[j - Len(uart)] /\ j - Len(uart) # 1
      BY <2>1, GrownWire
    <2> QED BY <2>2 DEF Speaks
  <1> QED BY <1>1, <1>2, <1>3, <1>4 DEF Holds, Opens

----------------------------------------------------------------------------
(* What a step of the driver does to the entry of a link: it keeps the       *)
(* connection or drops it, it takes the one a line names, the one a list     *)
(* that was read before names, or it marks the link for connect().          *)
EntryKept(l) ==
  IsConnected(l)' => /\ IsConnected(l) /\ conn'[l] = conn[l]
                     /\ Starting(l) => Starting(l)'
                     /\ uart' = uart \/ ~Ends(Head(uart), l)

EntryTold(l) ==
  /\ Heard /\ Says(Head(uart), l, conn'[l])
  /\ Head(uart).t = "OK" => pc = "start"
  /\ Head(uart).t \notin {"CONNECT", "OK"} => conn'[l] # NoConn

EntryListed(l) ==
  /\ Heard /\ Listing /\ ~Ends(Head(uart), l)
  /\ call.list[l] # NoConn /\ conn'[l] = call.list[l]

EntryStarts(l) == Starting(l)' /\ conn'[l] = NoConn

EntryStep(l) == EntryKept(l) \/ EntryTold(l) \/ EntryListed(l) \/ EntryStarts(l)

LEMMA QuietEntry ==
  ASSUME Begins \/ Resumes, conn' = conn, \A l \in Links : IsConnected(l)' => IsConnected(l),
         pc # "start"
  PROVE  \A l \in Links : EntryStep(l)
  <1>1. \A l \in Links : ~Starting(l)
    BY DEF Starting
  <1>2. \A l \in Links : uart' = uart \/ ~Ends(Head(uart), l)
    BY DEF Begins, Still, Resumes, Ends, EventTypes
  <1> QED BY <1>1, <1>2 DEF EntryStep, EntryKept

LEMMA SketchEntry ==
  ASSUME Sketch
  PROVE  \A l \in Links : EntryStep(l)
  <1>1. UNCHANGED linkVars /\ uart' = uart /\ pc # "start"
    BY SketchWire DEF Sketch, EnterAny, Enter, LocalPortQuery, Still
  <1> QED BY <1>1 DEF EntryStep, EntryKept, linkVars, IsConnected, Starting

LEMMA RxEntry ==
  ASSUME TypeInv, Rx
  PROVE  \A l \in Links : EntryStep(l)
  <1>1. LinkInfoOK /\ Heard /\ UNCHANGED <<pc, call>>
    BY TypeInvParts, RxWire
  <1>2. \A l : Starting(l) => Starting(l)'
    BY <1>1 DEF Starting
  <1>3. ASSUME NEW l \in Links, flags'[l] = flags[l], conn'[l] = conn[l], ~Ends(Head(uart), l)
        PROVE  EntryStep(l)
    BY <1>2, <1>3 DEF EntryStep, EntryKept, IsConnected
  <1>4. CASE RxIgnored
    BY <1>3, <1>4 DEF RxIgnored, drvVars, linkVars, Ends, EventTypes
  <1>5. CASE RxEvent
    <2> DEFINE m == Head(uart)
    <2>1. m \in Messages
      BY <1>5, TypeInvParts, SeqFacts DEF RxEvent, Reading, FwTypeOK
    <2>2. CASE m.t = "CONNECT" /\ RxConnect(m)
      <3>1. m.link \in Links
        BY <2>1, <2>2, MessageFields DEF EventTypes
      <3>2. \A l \in Links : ~Ends(m, l)
        BY <2>2 DEF Ends
      <3>3. CASE available[m.link] = 0 /\ (~IsConnected(m.link) \/ IsClosing(m.link))
        <4>1. SetFlags(m.link, {"CONNECTED", "INCOMING"}) /\ SetConn(m.link, m.conn)
          BY <2>2, <3>3 DEF RxConnect
        <4>2. ASSUME NEW l \in Links PROVE EntryStep(l)
          <5>1. CASE l = m.link
            <6>1. conn'[l] = m.conn
              BY <1>1, <4>1, <5>1 DEF SetConn, LinkInfoOK
            <6> QED BY <1>1, <2>2, <5>1, <6>1 DEF EntryStep, EntryTold, Says
          <5>2. CASE l # m.link
            <6>1. flags'[l] = flags[l] /\ conn'[l] = conn[l]
              BY <1>1, <4>1, <5>2 DEF SetFlags, SetConn, LinkInfoOK
            <6> QED BY <1>3, <3>2, <6>1
          <5> QED BY <5>1, <5>2
        <4> QED BY <4>2
      <3>4. CASE ~(available[m.link] = 0 /\ (~IsConnected(m.link) \/ IsClosing(m.link)))
        <4>1. UNCHANGED linkVars
          BY <2>2, <3>4 DEF RxConnect
        <4> QED BY <1>3, <3>2, <4>1 DEF linkVars
      <3> QED BY <3>3, <3>4
    <2>3. CASE m.t = "CLOSED" /\ RxClosed(m)
      <3>1. m.link \in Links
        BY <2>1, <2>3, MessageFields DEF EventTypes
      <3>2. SetFlags(m.link, {}) /\ SetConn(m.link, NoConn)
        BY <2>3 DEF RxClosed
      <3>3. ASSUME NEW l \in Links PROVE EntryStep(l)
        <4>1. CASE l = m.link
          <5>1. ~IsConnected(l)'
            BY <1>1, <3>2, <4>1 DEF SetFlags, LinkInfoOK, IsConnected
          <5> QED BY <5>1 DEF EntryStep, EntryKept
        <4>2. CASE l # m.link
          <5>1. flags'[l] = flags[l] /\ conn'[l] = conn[l]
            BY <1>1, <3>2, <4>2 DEF SetFlags, SetConn, LinkInfoOK
          <5> QED BY <1>3, <4>2, <5>1 DEF Ends
        <4> QED BY <4>1, <4>2
      <3> QED BY <3>3
    <2>4. CASE m.t = "IPD" /\ RxIpd(m)
      BY <1>3, <2>4 DEF RxIpd, Ends
    <2> QED BY <1>5, <2>2, <2>3, <2>4 DEF RxEvent
  <1> QED BY <1>4, <1>5 DEF Rx

LEMMA ConnectEntry ==
  ASSUME TypeInv, ConnectStart \/ ConnectDone \/ ConnectFails
  PROVE  \A l \in Links : EntryStep(l)
  <1>1. LinkInfoOK /\ CallOK /\ call \in Calls
    BY TypeInvParts DEF SketchOK
  <1>2. Begins \/ Resumes
    BY BodyWire DEF Body
  <1>3. ASSUME NEW l \in Links, flags'[l] = flags[l], conn'[l] = conn[l], ~Starting(l)
        PROVE  EntryStep(l)
    <2>1. uart' = uart \/ ~Ends(Head(uart), l)
      BY <1>2 DEF Begins, Still, Resumes, Ends, EventTypes
    <2> QED BY <1>3, <2>1 DEF EntryStep, EntryKept, IsConnected
  <1>4. CASE ConnectStart
    <2>1. pc # "start"
      BY <1>4 DEF ConnectStart, Drained
    <2>2. CASE UNCHANGED <<flags, conn>>
      BY <1>3, <2>1, <2>2 DEF Starting
    <2>3. CASE \E k \in Links : /\ SetFlags(k, {"CONNECTED"}) /\ SetConn(k, NoConn)
                                /\ pc' = "start" /\ call' = [call EXCEPT !.link = k]
      <3>1. PICK k \in Links : /\ SetFlags(k, {"CONNECTED"}) /\ SetConn(k, NoConn)
                               /\ pc' = "start" /\ call' = [call EXCEPT !.link = k]
        BY <2>3
      <3>2. call'.link = k
        BY <1>1, <3>1 DEF Calls
      <3>3. ASSUME NEW l \in Links PROVE EntryStep(l)
        <4>1. CASE l = k
          <5>1. Starting(l)' /\ conn'[l] = NoConn
            BY <1>1, <3>1, <3>2, <4>1 DEF Starting, SetConn, LinkInfoOK
          <5> QED BY <5>1 DEF EntryStep, EntryStarts
        <4>2. CASE l # k
          <5>1. flags'[l] = flags[l] /\ conn'[l] = conn[l]
            BY <1>1, <3>1, <4>2 DEF SetFlags, SetConn, LinkInfoOK
          <5> QED BY <1>3, <2>1, <5>1 DEF Starting
        <4> QED BY <4>1, <4>2
      <3> QED BY <3>3
    <2> QED BY <1>4, <2>2, <2>3 DEF ConnectStart, FreeLinks
  <1>5. CASE ConnectDone
    <2> DEFINE k == call.link
    <2>1. /\ SetConn(k, Head(uart).conn)
          /\ SetFlags(k, IF call.kind = "UDP" THEN flags[k] \cup {"UDP_LISTENER"} ELSE flags[k])
      BY <1>5 DEF ConnectDone
    <2>2. pc = "start" /\ k \in Links /\ Head(uart).t = "OK" /\ Heard
      BY <1>1, <1>5, WaitsHear DEF ConnectDone, Matched, Matches, CallOK, Expected
    <2>3. ASSUME NEW l \in Links PROVE EntryStep(l)
      <3>1. CASE l = k
        <4>1. conn'[l] = Head(uart).conn
          BY <1>1, <2>1, <3>1 DEF SetConn, LinkInfoOK
        <4> QED BY <2>2, <3>1, <4>1 DEF EntryStep, EntryTold, Says
      <3>2. CASE l # k
        <4>1. flags'[l] = flags[l] /\ conn'[l] = conn[l]
          BY <1>1, <2>1, <3>2 DEF SetFlags, SetConn, LinkInfoOK
        <4> QED BY <1>3, <3>2, <4>1 DEF Starting
      <3> QED BY <3>1, <3>2
    <2> QED BY <2>3
  <1>6. CASE ConnectFails
    <2> DEFINE k == call.link
    <2>1. SetFlags(k, {}) /\ SetConn(k, NoConn) /\ k \in Links
      BY <1>1, <1>6 DEF ConnectFails, Refused, CallOK
    <2>2. ASSUME NEW l \in Links PROVE EntryStep(l)
      <3>1. CASE l = k
        <4>1. ~IsConnected(l)'
          BY <1>1, <2>1, <3>1 DEF SetFlags, LinkInfoOK, IsConnected
        <4> QED BY <4>1 DEF EntryStep, EntryKept
      <3>2. CASE l # k
        <4>1. flags'[l] = flags[l] /\ conn'[l] = conn[l]
          BY <1>1, <2>1, <3>2 DEF SetFlags, SetConn, LinkInfoOK
        <4> QED BY <1>3, <3>2, <4>1 DEF Starting
      <3> QED BY <3>1, <3>2
    <2> QED BY <2>2
  <1> QED BY <1>4, <1>5, <1>6

LEMMA AdoptEntry ==
  ASSUME TypeInv, CheckLinks \/ RecvLenQuery
  PROVE  \A l \in Links : EntryStep(l)
  <1>1. LinkInfoOK /\ call \in Calls
    BY TypeInvParts DEF SketchOK
  <1>2. Resumes /\ pc # "start"
    BY BodyWire DEF CheckLinks, RecvLenQuery, Matched, Matches, Body, Begins
  <1>3. Heard /\ \A l : ~Ends(Head(uart), l)
    BY <1>2 DEF Resumes, Ends, EventTypes
  <1>4. ASSUME NEW list, AdoptFlags(list), AdoptConns(list), NEW l \in Links
        PROVE  \/ EntryKept(l)
               \/ list[l] # NoConn /\ conn'[l] = list[l]
    <2>1. CASE list[l] = NoConn
      BY <1>1, <1>4, <2>1 DEF AdoptFlags, EntryKept, IsConnected
    <2>2. CASE list[l] # NoConn /\ MissedIncoming(list, l)
      BY <1>1, <1>4, <2>2 DEF AdoptConns
    <2>3. CASE list[l] # NoConn /\ ~MissedIncoming(list, l)
      <3>1. flags'[l] = flags[l] /\ conn'[l] = conn[l]
        BY <1>4, <2>3 DEF AdoptFlags, AdoptConns
      <3> QED BY <1>2, <1>3, <3>1 DEF EntryKept, IsConnected, Starting
    <2> QED BY <2>1, <2>2, <2>3
  <1>5. CASE CheckLinks
    <2>1. AdoptFlags(call.list) /\ AdoptConns(call.list) /\ Listing
      BY <1>5 DEF CheckLinks, Matched, Matches, Listing
    <2> QED BY <1>3, <1>4, <2>1 DEF EntryStep, EntryListed
  <1>6. CASE RecvLenQuery /\ ~AT1
    <2> DEFINE m == Head(uart)
    <2>1. AdoptFlags(m.conns) /\ AdoptConns(m.conns) /\ m.t = "+CIPRECVLEN"
      BY <1>6 DEF RecvLenQuery, Matched, Matches, Expected
    <2>2. ASSUME NEW l \in Links PROVE EntryStep(l)
      <3>1. \/ EntryKept(l)
            \/ m.conns[l] # NoConn /\ conn'[l] = m.conns[l]
        BY <1>4, <2>1
      <3>2. ASSUME m.conns[l] # NoConn, conn'[l] = m.conns[l]
            PROVE  EntryTold(l)
        BY <1>3, <2>1, <3>2 DEF EntryTold, Says
      <3> QED BY <3>1, <3>2 DEF EntryStep
    <2> QED BY <2>2
  <1>7. CASE RecvLenQuery /\ AT1
    BY <1>2, <1>7, QuietEntry DEF RecvLenQuery, IsConnected
  <1> QED BY <1>5, <1>6, <1>7

LEMMA BodyEntry ==
  ASSUME TypeInv, Body
  PROVE  \A l \in Links : EntryStep(l)
  <1>1. LinkInfoOK /\ CallOK /\ (Begins \/ Resumes)
    BY TypeInvParts, BodyWire
  <1>2. CASE ConnectStart \/ ConnectDone \/ ConnectFails
    BY <1>2, ConnectEntry
  <1>3. CASE CheckLinks \/ RecvLenQuery
    BY <1>3, AdoptEntry
  <1>4. CASE CheckFails \/ CloseDone \/ Known \/ SyncDone \/ RecvNothing \/ RecvDone
           \/ SendDone \/ ResetDone \/ CommandFails
           \/ CloseModeDone \/ SyncLinkInfo \/ RecvLenStart \/ RecvStart \/ SendStart
           \/ SendPayload \/ SendReceived \/ ParamsStart \/ ResetStart \/ ResetReady
           \/ CheckLinksListed \/ ParamsListed \/ RecvData \/ RecvTruncated \/ RecvFails
    <2>1. UNCHANGED <<flags, conn>>
      BY <1>4 DEF CheckFails, CloseDone, Known, SyncDone, RecvNothing, RecvDone, SendDone, ResetDone,
         CommandFails, CloseModeDone, SyncLinkInfo, RecvLenStart, RecvStart, SendStart,
         SendPayload, SendReceived, ParamsStart, ResetStart, ResetReady, CheckLinksListed,
         ParamsListed, RecvData, RecvTruncated, RecvFails, Refused, linkVars
    <2>2. pc # "start"
      BY <1>4 DEF CheckFails, CloseDone, Known, SyncDone, RecvNothing, RecvDone, SendDone, ResetDone,
         CommandFails, CloseModeDone, SyncLinkInfo, RecvLenStart, RecvStart, SendStart,
         SendPayload, SendReceived, ParamsStart, ResetStart, ResetReady, CheckLinksListed,
         ParamsListed, RecvData, RecvTruncated, RecvFails,
         Checked, Drained, Matched, Matches, Refused, Accepted
    <2> QED BY <1>1, <2>1, <2>2, QuietEntry DEF IsConnected
  <1>5. CASE NewClientLinkId
    <2>1. conn' = conn /\ pc # "start"
      BY <1>5 DEF NewClientLinkId, Drained
    <2>2. \A l \in Links : IsConnected(l)' => IsConnected(l)
      BY <1>1, <1>5 DEF NewClientLinkId, SetFlags, Taken, LinkInfoOK, IsConnected
    <2> QED BY <1>1, <2>1, <2>2, QuietEntry
  <1>6. CASE CloseStart
    <2>1. conn' = conn /\ pc # "start"
          /\ SetFlags(call.h.link, flags[call.h.link] \cup {"CLOSING"})
      BY <1>6 DEF CloseStart, Checked, Drained
    <2>2. \A l \in Links : IsConnected(l)' => IsConnected(l)
      BY <1>1, <2>1 DEF SetFlags, LinkInfoOK, IsConnected
    <2> QED BY <1>1, <2>1, <2>2, QuietEntry
  <1>7. CASE ParamsDone
    <2> DEFINE k == call.h.link
    <2>1. pc # "start" /\ (UNCHANGED <<flags, conn>> \/ (SetFlags(k, {}) /\ SetConn(k, NoConn)))
      BY <1>7 DEF ParamsDone, Matched, Matches
    <2>2. CASE UNCHANGED <<flags, conn>>
      BY <1>1, <2>1, <2>2, QuietEntry DEF IsConnected
    <2>3. CASE SetFlags(k, {}) /\ SetConn(k, NoConn)
      <3>1. ASSUME NEW l \in Links PROVE EntryStep(l)
        <4>1. CASE l = k
          <5>1. ~IsConnected(l)'
            BY <1>1, <2>3, <4>1 DEF SetFlags, LinkInfoOK, IsConnected
          <5> QED BY <5>1 DEF EntryStep, EntryKept
        <4>2. CASE l # k
          <5>1. flags'[l] = flags[l] /\ conn'[l] = conn[l]
            BY <1>1, <2>3, <4>2 DEF SetFlags, SetConn, LinkInfoOK
          <5>2. uart' = uart \/ ~Ends(Head(uart), l)
            BY <1>1 DEF Begins, Still, Resumes, Ends, EventTypes
          <5> QED BY <2>1, <5>1, <5>2 DEF EntryStep, EntryKept, IsConnected, Starting
        <4> QED BY <4>1, <4>2
      <3> QED BY <3>1
    <2> QED BY <2>1, <2>2, <2>3
  <1> QED BY <1>2, <1>3, <1>4, <1>5, <1>6, <1>7 DEF Body

LEMMA DriverEntry ==
  ASSUME TypeInv, Sketch \/ Driver
  PROVE  \A l \in Links : EntryStep(l)
  BY SketchEntry, RxEntry, BodyEntry DEF Driver

----------------------------------------------------------------------------
(* Every claim stays true. *)

LEMMA HeardMoves ==
  ASSUME TypeInv, Heard
  PROVE  uart' # uart
  <1>1. Wire' = 1 .. Len(uart) - 1 /\ Wire = 1 .. Len(uart) /\ Len(uart) \in Nat /\ 1 \in Wire
    BY HeardWire, WireFacts
  <1>2. Len(uart) \notin Wire' /\ Len(uart) \in Wire
    BY <1>1
  <1> QED BY <1>2 DEF Wire

LEMMA StartStep ==
  ASSUME Sketch \/ Driver, pc' = "start"
  PROVE  pc = "start" \/ uart' = <<>>
  <1>1. CASE Sketch
    BY <1>1 DEF Sketch, EnterAny, Enter, LocalPortQuery, Fail, Return
  <1>2. CASE Rx
    BY <1>2, RxWire
  <1>3. CASE ConnectStart
    BY <1>3 DEF ConnectStart, Drained
  <1>4. ASSUME Body, ~ConnectStart
        PROVE  FALSE
    BY <1>4 DEF Body, CheckFails, NewClientLinkId, ConnectDone, ConnectFails,
         CloseStart, CloseModeDone, CloseDone, Known, SyncLinkInfo, CheckLinksListed, CheckLinks,
         RecvLenStart, RecvLenQuery, SyncDone, RecvNothing, RecvStart, RecvData, RecvTruncated,
         RecvFails, RecvDone, SendStart, SendPayload, SendReceived, SendDone, ParamsStart,
         ParamsListed, ParamsDone, ResetStart, ResetReady, ResetDone, CommandFails,
         Return, Fail, Continue
  <1> QED BY <1>1, <1>2, <1>3, <1>4 DEF Driver

LEMMA DriverView ==
  ASSUME TypeInv, TypeInv', Dialogue, View, Sketch \/ Driver
  PROVE  View'
  <1>1. Still \/ Heard
    BY SketchWire, RxWire, BodyWire DEF Driver, Begins, Resumes
  <1>2. Sayings'
    <2>1. ASSUME NEW i \in Wire', NEW l \in Links, NEW c \in RealConns, Says(uart[i], l, c)'
          PROVE  Holds(i, l, c)'
      <3>1. call'.link = l => call.link = l
        <4>1. uart' # <<>>
          BY WireFacts, TypeInv' DEF Wire
        <4> QED BY <4>1, CallLinkStep, ConstantFacts
      <3>2. Says(uart'[i], l, c)
        BY <2>1, <3>1 DEF Says
      <3>3. CASE Still
        <4>1. i \in Wire /\ uart'[i] = uart[i]
          BY <3>3 DEF Still, Wire
        <4>2. Holds(i, l, c)
          BY <3>2, <4>1 DEF View, Sayings
        <4> QED BY <3>3, <4>2, HoldsStill
      <3>4. CASE Heard
        <4>1. i + 1 \in Wire /\ uart'[i] = uart[i + 1] /\ i \in Nat
          BY <3>4, HeardWire, WireFacts
        <4>2. Holds(i + 1, l, c)
          BY <3>2, <4>1 DEF View, Sayings
        <4> QED BY <3>4, <4>1, <4>2, HoldsHeard
      <3> QED BY <1>1, <3>3, <3>4
    <2> QED BY <2>1 DEF Sayings
  <1>3. ListView'
    <2> SUFFICES ASSUME Listing', NEW l \in Links, NEW c, c = call'.list[l], c # NoConn
                 PROVE  Holds(0, l, c)'
      BY DEF ListView
    <2>1. ~Rx
      <3> SUFFICES ASSUME Rx PROVE FALSE
        OBVIOUS
      <3>1. Listing
        BY RxWire DEF Listing
      <3> QED BY <3>1, NotWhileListing DEF Dialogue
    <2>2. CheckLinksListed \/ ParamsListed
      BY <2>1, ListingStep
    <2>3. Head(uart).t = "STATUS" /\ Heard /\ call' = [call EXCEPT !.list = Head(uart).conns]
      BY <2>2, WaitsHear DEF CheckLinksListed, ParamsListed, Matched, Matches, Expected
    <2>4. call'.list = Head(uart).conns
      BY <2>3, TypeInvParts DEF SketchOK, Calls
    <2>5. 1 \in Wire /\ Head(uart) = uart[1] /\ uart[1].conns \in [Links -> Conns]
      BY <2>3, HeardWire, WireFacts, MessageFields
    <2>6. c \in RealConns /\ Says(uart[1], l, c)
      BY <2>3, <2>4, <2>5 DEF RealConns, Says
    <2>7. Holds(0 + 1, l, c)
      BY <2>5, <2>6 DEF View, Sayings
    <2> QED BY <2>3, <2>7, HoldsHeard
  <1>4. ASSUME NEW l \in Links, IsConnected(l)', NEW c, c = conn'[l], c # NoConn
        PROVE  Holds(0, l, c)'
    <2>1. c \in RealConns
      BY <1>4, TypeInvParts DEF TypeInv, TypeOK, RealConns
    <2>2. CASE EntryKept(l)
      <3>1. Holds(0, l, c) /\ (uart' = uart \/ ~Ends(Head(uart), l))
        BY <1>4, <2>2 DEF EntryKept, View, EntryView
      <3> QED BY <1>1, <3>1, HoldsStill, HoldsHeard, HeardMoves
    <2>3. CASE EntryTold(l)
      <3>1. 1 \in Wire /\ Says(uart[1], l, c) /\ Heard
        BY <1>4, <2>3, HeardWire DEF EntryTold
      <3>2. Holds(0 + 1, l, c)
        BY <2>1, <3>1 DEF View, Sayings
      <3> QED BY <3>1, <3>2, HoldsHeard
    <2>4. CASE EntryListed(l)
      <3>1. Holds(0, l, c) /\ Heard /\ ~Ends(Head(uart), l)
        BY <1>4, <2>4 DEF EntryListed, View, ListView
      <3> QED BY <3>1, HoldsHeard
    <2>5. CASE EntryStarts(l)
      BY <1>4, <2>5 DEF EntryStarts
    <2> QED BY <2>2, <2>3, <2>4, <2>5, DriverEntry DEF EntryStep
  <1>5. EntryView'
    BY <1>4 DEF EntryView
  <1>6. OpenKnown'
    BY <1>1 DEF Still, Heard, View, OpenKnown
  <1>7. ASSUME NEW i \in Wire'
        PROVE  /\ uart'[i].t = "CONNECT" => uart'[i].conn # NoConn
               /\ pc' = "start" /\ uart'[i].t = "OK" => uart'[i].conn # NoConn
    <2>1. PICK j \in Wire : uart'[i] = uart[j]
      <3>1. CASE Still
        BY <3>1 DEF Still, Wire
      <3>2. CASE Heard
        BY <3>2, HeardWire
      <3> QED BY <1>1, <3>1, <3>2
    <2>2. pc' = "start" => pc = "start"
      <3>1. uart' # <<>>
        BY WireFacts, TypeInv' DEF Wire
      <3> QED BY <3>1, StartStep
    <2> QED BY <2>1, <2>2 DEF View, Named
  <1>8. ASSUME NEW l \in Links, IsConnected(l)', ~Starting(l)'
        PROVE  conn'[l] # NoConn
    <2>1. CASE EntryKept(l)
      BY <1>8, <2>1 DEF EntryKept, View, Named
    <2>2. CASE EntryTold(l)
      <3>1. 1 \in Wire /\ Head(uart) = uart[1]
        BY <2>2, HeardWire DEF EntryTold
      <3> QED BY <2>2, <3>1 DEF EntryTold, Says, View, Named
    <2>3. CASE EntryListed(l)
      BY <2>3 DEF EntryListed
    <2>4. CASE EntryStarts(l)
      BY <1>8, <2>4 DEF EntryStarts
    <2> QED BY <2>1, <2>2, <2>3, <2>4, DriverEntry DEF EntryStep
  <1>9. Named'
    BY <1>7, <1>8 DEF Named
  <1> QED BY <1>2, <1>3, <1>5, <1>6, <1>9 DEF View

LEMMA FirmwareView ==
  ASSUME TypeInv, TypeInv', Dialogue, View, FirmwareStep, UNCHANGED drvVars
  PROVE  View'
  <1>1. PICK msgs \in Seq(Messages) : uart' = uart \o msgs /\ Speaks(msgs)
    BY DEF FirmwareStep
  <1>2. UNCHANGED <<pc, call, flags, conn>>
    BY DEF drvVars, linkVars
  <1>3. /\ Len(uart) \in Nat /\ Wire = 1 .. Len(uart)
        /\ \A i \in Wire : uart'[i] = uart[i]
        /\ \A i \in Wire' : i \in Wire \/ (i - Len(uart) \in DOMAIN msgs /\ uart'[i] = msgs[i - Len(uart)])
        /\ Wire' = 1 .. Len(uart) + Len(msgs)
    BY <1>1, WireFacts, GrownWire
  <1>4. OpenKnown /\ OpenKnown'
    BY <1>1, OpenKnownKept DEF View
  <1>5. ASSUME NEW i \in Wire', NEW l \in Links, NEW c \in RealConns, Says(uart[i], l, c)'
        PROVE  Holds(i, l, c)'
    <2>1. Says(uart'[i], l, c)
      BY <1>2, <1>5 DEF Says
    <2>2. CASE i \in Wire
      <3>1. Holds(i, l, c) /\ i \in 0 .. Len(uart)
        BY <1>3, <2>1, <2>2 DEF View, Sayings
      <3> QED BY <1>1, <1>4, <3>1, HoldsGrown
    <2>3. CASE i \notin Wire
      <3>1. PICK k \in DOMAIN msgs : k = i - Len(uart) /\ uart'[i] = msgs[k]
        BY <1>3, <2>3
      <3>2. Says(msgs[k], l, c) /\ i = Len(uart) + k
        BY <1>3, <2>1, <3>1
      <3> QED BY <1>1, <1>4, <3>2, HoldsNew
    <2> QED BY <2>2, <2>3
  <1>6. ASSUME NEW l \in Links, NEW c \in RealConns, Holds(0, l, c)
        PROVE  Holds(0, l, c)'
    <2>1. 0 \in 0 .. Len(uart)
      BY <1>3
    <2> QED BY <1>1, <1>4, <1>6, <2>1, HoldsGrown
  <1>7. conn \in [Links -> Conns] /\ call.list \in [Links -> Conns]
    BY TypeInvParts, CallFields DEF LinkInfoOK, SketchOK
  <1>8. Sayings'
    BY <1>5 DEF Sayings
  <1>9. ListView'
    <2> SUFFICES ASSUME Listing', NEW l \in Links, NEW c, c = call'.list[l], c # NoConn
                 PROVE  Holds(0, l, c)'
      BY DEF ListView
    <2>1. Listing /\ c = call.list[l] /\ c \in RealConns
      BY <1>2, <1>7 DEF Listing, RealConns
    <2> QED BY <1>6, <2>1 DEF View, ListView
  <1>10. EntryView'
    <2> SUFFICES ASSUME NEW l \in Links, IsConnected(l)', NEW c, c = conn'[l], c # NoConn
                 PROVE  Holds(0, l, c)'
      BY DEF EntryView
    <2>1. IsConnected(l) /\ c = conn[l] /\ c \in RealConns
      BY <1>2, <1>7 DEF IsConnected, RealConns
    <2> QED BY <1>6, <2>1 DEF View, EntryView
  <1>11. Named'
    <2>1. ASSUME NEW i \in Wire'
          PROVE  /\ uart'[i].t = "CONNECT" => uart'[i].conn # NoConn
                 /\ pc' = "start" /\ uart'[i].t = "OK" => uart'[i].conn # NoConn
      <3>1. CASE i \in Wire
        BY <1>2, <1>3, <3>1 DEF View, Named
      <3>2. CASE i \notin Wire
        <4>1. PICK k \in DOMAIN msgs : uart'[i] = msgs[k]
          BY <1>3, <3>2
        <4>2. msgs[k] \in Messages /\ lastConn \in Nat
          BY TypeInvParts DEF FwTypeOK, Conns
        <4>3. msgs[k].t = "CONNECT" => msgs[k].conn \in Nat /\ msgs[k].conn > lastConn
          BY <1>1, <4>2, MessageFields DEF Speaks, EventTypes, Conns
        <4>4. pc = "start" /\ msgs[k].t = "OK" => msgs[k].conn # NoConn
          BY <1>1 DEF Speaks
        <4> QED BY <1>2, <4>1, <4>2, <4>3, <4>4 DEF NoConn
      <3> QED BY <3>1, <3>2
    <2>2. \A l \in Links : IsConnected(l)' /\ ~Starting(l)' => conn'[l] # NoConn
      BY <1>2 DEF IsConnected, Starting, View, Named
    <2> QED BY <2>1, <2>2 DEF Named
  <1> QED BY <1>4, <1>8, <1>9, <1>10, <1>11 DEF View

----------------------------------------------------------------------------
(* close() waits until its link is closed. *)

LEMMA RxClosing ==
  ASSUME TypeInv, Rx
  PROVE  \A l \in Links : IsClosing(l)' => flags'[l] = flags[l] /\ ~Ends(Head(uart), l)
  <1>1. LinkInfoOK
    BY TypeInvParts
  <1>2. CASE RxIgnored
    BY <1>2 DEF RxIgnored, drvVars, linkVars, Ends, EventTypes
  <1>3. CASE RxEvent
    <2> DEFINE m == Head(uart)
    <2>1. CASE m.t = "CONNECT" /\ RxConnect(m)
      BY <1>1, <2>1 DEF RxConnect, SetFlags, LinkInfoOK, IsClosing, Ends, linkVars
    <2>2. CASE m.t = "CLOSED" /\ RxClosed(m)
      BY <1>1, <2>2 DEF RxClosed, SetFlags, LinkInfoOK, IsClosing, Ends
    <2>3. CASE m.t = "IPD" /\ RxIpd(m)
      BY <2>3 DEF RxIpd, Ends
    <2> QED BY <1>3, <2>1, <2>2, <2>3 DEF RxEvent
  <1> QED BY <1>2, <1>3 DEF Rx

(* Only close() and abort() mark a link so. *)
LEMMA BodyClosing ==
  ASSUME TypeInv, Body, ~CloseStart
  PROVE  \A l \in Links : IsClosing(l)' => IsClosing(l)
  <1>1. LinkInfoOK
    BY TypeInvParts
  <1>2. CASE CheckFails \/ CloseDone \/ Known \/ SyncDone \/ RecvNothing \/ RecvDone
           \/ SendDone \/ ResetDone \/ CommandFails
           \/ CloseModeDone \/ SyncLinkInfo \/ RecvLenStart \/ RecvStart \/ SendStart
           \/ SendPayload \/ SendReceived \/ ParamsStart \/ ResetStart \/ ResetReady
           \/ CheckLinksListed \/ ParamsListed \/ RecvData \/ RecvTruncated \/ RecvFails
    <2>1. flags' = flags
      BY <1>2 DEF CheckFails, CloseDone, Known, SyncDone, RecvNothing, RecvDone, SendDone, ResetDone,
         CommandFails, CloseModeDone, SyncLinkInfo, RecvLenStart, RecvStart, SendStart,
         SendPayload, SendReceived, ParamsStart, ResetStart, ResetReady, CheckLinksListed,
         ParamsListed, RecvData, RecvTruncated, RecvFails, Refused, linkVars
    <2> QED BY <2>1 DEF IsClosing
  <1>3. CASE NewClientLinkId \/ ConnectStart \/ ConnectDone \/ ConnectFails
    <2>1. CASE NewClientLinkId
      BY <1>1, <2>1 DEF NewClientLinkId, SetFlags, Taken, LinkInfoOK, IsClosing
    <2>2. CASE ConnectStart
      BY <1>1, <2>2 DEF ConnectStart, SetFlags, LinkInfoOK, IsClosing
    <2>3. CASE ConnectDone \/ ConnectFails
      BY <1>1, <2>3 DEF ConnectDone, ConnectFails, SetFlags, LinkInfoOK, IsClosing
    <2> QED BY <1>3, <2>1, <2>2, <2>3
  <1>4. CASE CheckLinks \/ RecvLenQuery \/ ParamsDone
    <2>1. \/ flags' = flags
          \/ SetFlags(call.h.link, {})
          \/ \E list : AdoptFlags(list)
      BY <1>4 DEF CheckLinks, RecvLenQuery, ParamsDone
    <2> QED BY <1>1, <2>1 DEF SetFlags, AdoptFlags, IsClosing, LinkInfoOK
  <1> QED BY <1>2, <1>3, <1>4 DEF Body

LEMMA DriverClosing ==
  ASSUME TypeInv, Dialogue, View, ClosingNow, Sketch \/ Driver
  PROVE  ClosingNow'
  <1>1. Still \/ Heard
    BY SketchWire, RxWire, BodyWire DEF Driver, Begins, Resumes
  <1> SUFFICES ASSUME reliable', NEW l \in Links, IsClosing(l)'
               PROVE  /\ IsConnected(l)' /\ pc' \in {"closemode", "close"} /\ call'.h.link = l
                      /\ pc' = "close" => \A i \in Wire' : uart'[i].t \in Refusals =>
                                            \E j \in Wire' : j < i /\ Ends(uart'[j], l)
    BY DEF ClosingNow
  <1>2. reliable
    BY <1>1 DEF Still, Heard
  <1>3. IsClosing(l) =>
          /\ IsConnected(l) /\ pc \in {"closemode", "close"} /\ call.h.link = l
          /\ pc = "close" => \A i \in Wire : uart[i].t \in Refusals =>
                               \E j \in Wire : j < i /\ Ends(uart[j], l)
    BY <1>2 DEF ClosingNow
  <1>4. CASE Sketch
    <2>1. pc = "idle" /\ UNCHANGED linkVars
      BY <1>4 DEF Sketch, EnterAny, Enter, LocalPortQuery
    <2> QED BY <1>3, <2>1 DEF linkVars, IsClosing
  <1>5. CASE Rx
    <2>1. Heard /\ UNCHANGED <<call, pc>>
      BY <1>5, RxWire
    <2>2. flags'[l] = flags[l] /\ ~Ends(Head(uart), l)
      BY <1>5, RxClosing
    <2>3. IsClosing(l) /\ (IsConnected(l) => IsConnected(l)')
      BY <2>2 DEF IsClosing, IsConnected
    <2>4. ASSUME pc' = "close", NEW i \in Wire', uart'[i].t \in Refusals
          PROVE  \E j \in Wire' : j < i /\ Ends(uart'[j], l)
      <3>1. i + 1 \in Wire /\ uart[i + 1].t \in Refusals /\ i \in Nat
        BY <2>1, <2>4, HeardWire, WireFacts
      <3>2. PICK j \in Wire : j < i + 1 /\ Ends(uart[j], l)
        BY <1>3, <2>1, <2>3, <2>4, <3>1
      <3>3. j # 1
        BY <2>1, <2>2, <3>2, HeardWire
      <3>4. j - 1 \in Wire' /\ uart'[j - 1] = uart[j] /\ j - 1 < i
        BY <2>1, <3>1, <3>2, <3>3, HeardWire, WireFacts
      <3> QED BY <3>2, <3>4
    <2> QED BY <1>3, <2>1, <2>3, <2>4
  <1>6. CASE CloseStart
    <2> DEFINE k == call.h.link
    <2>1. /\ pc = "drain" /\ uart = <<>> /\ uart' = uart /\ call' = call
          /\ pc' \in {"close", "closemode"} /\ IsConnected(k)
          /\ SetFlags(k, flags[k] \cup {"CLOSING"})
      BY <1>6 DEF CloseStart, Checked, Drained, Continue, Active
    <2>2. ~IsClosing(l)
      BY <1>3, <2>1
    <2>3. l = k /\ IsConnected(l)'
      BY <2>1, <2>2, TypeInvParts DEF SetFlags, IsClosing, IsConnected, LinkInfoOK
    <2>4. Wire' = {}
      BY <2>1 DEF Wire
    <2> QED BY <2>1, <2>3, <2>4
  <1>7. CASE Body /\ ~CloseStart
    <2>1. IsClosing(l) /\ pc \in {"closemode", "close"} /\ Heard
      BY <1>3, <1>7, BodyClosing, BodyWire DEF Begins, Resumes
    <2>2. CloseModeDone \/ CloseDone \/ CommandFails
      BY <1>7, <2>1 DEF Body, CheckFails, NewClientLinkId, ConnectStart, ConnectDone, ConnectFails,
         Known, SyncLinkInfo, CheckLinksListed, CheckLinks,
         RecvLenStart, RecvLenQuery, SyncDone, RecvNothing, RecvStart, RecvData, RecvTruncated,
         RecvFails, RecvDone, SendStart, SendPayload, SendReceived, SendDone, ParamsStart,
         ParamsListed, ParamsDone, ResetStart, ResetReady, ResetDone,
         Checked, Drained, Matched, Matches, Refused
    <2>3. 1 \in Wire /\ Head(uart) = uart[1]
      BY <2>1, HeardWire
    <2>4. CASE CloseModeDone
      <3>1. uart[1].t = "OK" /\ pc' = "close" /\ UNCHANGED <<flags, call>>
        BY <2>3, <2>4 DEF CloseModeDone, Matched, Matches, Expected, Continue, linkVars
      <3>2. ASSUME NEW i \in Wire' PROVE uart'[i].t \notin Refusals
        <4>1. i + 1 \in Wire /\ 1 < i + 1 /\ uart'[i] = uart[i + 1]
          BY <2>1, HeardWire, WireFacts
        <4>2. uart'[i].t \in EventTypes
          BY <2>3, <3>1, <4>1 DEF Dialogue, EndsLast, Final
        <4> QED BY <4>2 DEF EventTypes, Refusals
      <3> QED BY <1>3, <2>1, <3>1, <3>2 DEF IsConnected
    <2>5. CASE CloseDone \/ CommandFails
      <3>1. pc = "close" /\ uart[1].t \in Refusals
        BY <2>1, <2>3, <2>5 DEF CloseDone, CommandFails, Accepted, Matched, Matches, Refused,
           Expected, Refusals
      <3>2. PICK j \in Wire : j < 1
        BY <1>3, <2>1, <2>3, <3>1
      <3> QED BY <3>2, WireFacts
    <2> QED BY <2>2, <2>4, <2>5
  <1> QED BY <1>4, <1>5, <1>6, <1>7 DEF Driver

LEMMA FirmwareClosing ==
  ASSUME TypeInv, Dialogue, View, ClosingNow, FirmwareStep, UNCHANGED drvVars
  PROVE  ClosingNow'
  <1>1. PICK msgs \in Seq(Messages) : uart' = uart \o msgs /\ Answers(msgs) /\ Speaks(msgs)
    BY DEF FirmwareStep
  <1> SUFFICES ASSUME reliable', NEW l \in Links, IsClosing(l)'
               PROVE  /\ IsConnected(l)' /\ pc' \in {"closemode", "close"} /\ call'.h.link = l
                      /\ pc' = "close" => \A i \in Wire' : uart'[i].t \in Refusals =>
                                            \E j \in Wire' : j < i /\ Ends(uart'[j], l)
    BY DEF ClosingNow
  <1> DEFINE n == Len(uart)
  <1>2. /\ n \in Nat /\ Wire = 1 .. n /\ Wire' = 1 .. n + Len(msgs) /\ DOMAIN msgs = 1 .. Len(msgs)
        /\ \A i \in Wire : i \in Wire' /\ uart'[i] = uart[i]
        /\ \A k \in DOMAIN msgs : k + n \in Wire' /\ uart'[k + n] = msgs[k]
        /\ \A i \in Wire' : i \in Wire \/ (i - n \in DOMAIN msgs /\ uart'[i] = msgs[i - n])
    BY <1>1, WireFacts, GrownWire
  <1>3. reliable /\ UNCHANGED <<pc, call, flags, conn>>
    BY <1>1 DEF Speaks, drvVars, linkVars
  <1>4. IsClosing(l) /\ (IsConnected(l)' <=> IsConnected(l))
    BY <1>3 DEF IsClosing, IsConnected
  <1>5. /\ IsConnected(l) /\ pc \in {"closemode", "close"} /\ call.h.link = l
        /\ pc = "close" => \A i \in Wire : uart[i].t \in Refusals =>
                             \E j \in Wire : j < i /\ Ends(uart[j], l)
    BY <1>3, <1>4 DEF ClosingNow
  <1>6. ASSUME pc = "close", NEW i \in Wire', uart'[i].t \in Refusals
        PROVE  \E j \in Wire' : j < i /\ Ends(uart'[j], l)
    <2>1. CASE i \in Wire
      <3>1. PICK j \in Wire : j < i /\ Ends(uart[j], l)
        BY <1>2, <1>5, <1>6, <2>1
      <3> QED BY <1>2, <3>1
    <2>2. CASE i \notin Wire
      <3>1. PICK k \in DOMAIN msgs : k = i - n /\ uart'[i] = msgs[k]
        BY <1>2, <2>2
      <3>2. request.cmd = "CIPCLOSE" /\ request.link = l
        <4>1. msgs[k].t \notin EventTypes
          BY <1>6, <3>1 DEF Refusals, EventTypes
        <4>2. request.cmd # "none"
          BY <1>1, <3>1, <4>1 DEF Answers
        <4> QED BY <1>5, <1>6, <4>2 DEF Dialogue, Asked
      <3>3. CASE open[l] = NoConn
        <4>1. ~Starting(l)
          BY <1>6 DEF Starting
        <4>2. conn[l] # NoConn
          BY <1>5, <4>1 DEF View, Named
        <4>3. ClosedAfter(0, l)
          BY <1>3, <1>5, <3>3, <4>2 DEF View, EntryView, Holds
        <4>4. PICK j \in Wire : Ends(uart[j], l)
          BY <4>3 DEF ClosedAfter
        <4>5. j < i
          BY <1>2, <2>2, <4>4
        <4> QED BY <1>2, <4>4, <4>5
      <3>4. CASE open[l] # NoConn
        <4>1. PICK j \in DOMAIN msgs : j < k /\ Ends(msgs[j], l)
          BY <1>1, <1>6, <3>1, <3>2, <3>4 DEF Speaks
        <4>2. j + n \in Wire' /\ uart'[j + n] = msgs[j] /\ j + n < i
          BY <1>2, <3>1, <4>1
        <4> QED BY <4>1, <4>2
      <3> QED BY <3>3, <3>4
    <2> QED BY <2>1, <2>2
  <1> QED BY <1>3, <1>4, <1>5, <1>6

----------------------------------------------------------------------------
LEMMA InitWireInv == Init => WireInv
  <1> SUFFICES ASSUME Init PROVE WireInv
    OBVIOUS
  <1>1. Wire = {} /\ pc = "idle" /\ request.cmd = "none"
    BY DEF Init, FwInit, Wire, NoRequest, Command
  <1>2. \A l \in Links : ~IsConnected(l) /\ ~IsClosing(l) /\ open[l] <= lastConn
    BY DEF Init, FwInit, IsConnected, IsClosing, NoConn
  <1>3. Dialogue
    BY <1>1 DEF Dialogue, Asked, Unanswered, EndsLast, ListEnds, Listing
  <1>4. View
    BY <1>1, <1>2 DEF View, Sayings, ListView, Listing, EntryView, OpenKnown, Named
  <1>5. ClosingNow
    BY <1>2 DEF ClosingNow
  <1> QED BY <1>3, <1>4, <1>5 DEF WireInv

LEMMA FirmwareSpeaks ==
  ASSUME TypeInv, Dialogue, FwNext
  PROVE  FirmwareStep
  BY NetworkSpeaks, ExecuteSpeaks DEF FwNext, Dialogue

LEMMA StutterWireInv ==
  ASSUME WireInv, UNCHANGED vars
  PROVE  WireInv'
  <1>1. /\ UNCHANGED <<open, uart, request, lastConn, reliable>>
        /\ UNCHANGED <<flags, conn, call, pc>>
    BY DEF vars, fwVars, drvVars, linkVars
  <1>2. Dialogue'
    BY <1>1 DEF WireInv, Dialogue, Asked, Unanswered, EndsLast, ListEnds, Listing, Wire
  <1>3. View'
    BY <1>1 DEF WireInv, View, Sayings, ListView, Listing, EntryView, OpenKnown, Named, Holds,
       ClosedAfter, Says, IsConnected, Starting, Wire
  <1>4. ClosingNow'
    BY <1>1 DEF WireInv, ClosingNow, IsClosing, IsConnected, Wire
  <1> QED BY <1>2, <1>3, <1>4 DEF WireInv

LEMMA NextWireInv ==
  ASSUME TypeInv, WireInv, [Next]_vars
  PROVE  WireInv'
  <1>1. TypeInv'
    BY NextTypeInv
  <1>2. CASE Sketch \/ Driver
    BY <1>1, <1>2, DriverDialogue, DriverView, DriverClosing DEF WireInv
  <1>3. CASE FwNext /\ UNCHANGED drvVars
    BY <1>1, <1>3, FirmwareSpeaks, FirmwareDialogue, FirmwareView, FirmwareClosing DEF WireInv
  <1>4. CASE UNCHANGED vars
    BY <1>4, StutterWireInv
  <1> QED BY <1>2, <1>3, <1>4 DEF Next

LEMMA SpecWireInv == Spec => [](TypeInv /\ HandleInv /\ WireInv)
  <1>1. Init => TypeInv /\ HandleInv /\ WireInv
    BY InitTypeInv, InitHandleInv, InitWireInv
  <1>2. TypeInv /\ HandleInv /\ WireInv /\ [Next]_vars => (TypeInv /\ HandleInv /\ WireInv)'
    BY NextTypeInv, NextHandleInv, NextWireInv
  <1> QED BY <1>1, <1>2, PTL DEF Spec

(* Unless lines were lost, a connected entry whose connection is gone from   *)
(* the firmware has its CLOSED still in the line, whatever events, answers   *)
(* and lists crossed each other: for any links, builds and bounds.          *)
THEOREM DriverNeverWrongInSilence == Spec => []ViewBehindWire
  <1>1. TypeInv /\ WireInv => ViewBehindWire
    <2> SUFFICES ASSUME TypeInv, WireInv, NEW l \in Links, reliable, IsConnected(l),
                        conn[l] # NoConn, open[l] # conn[l]
                 PROVE  \E i \in 1 .. Len(uart) : uart[i].t = "CLOSED" /\ uart[i].link = l
      BY DEF ViewBehindWire
    <2>1. ClosedAfter(0, l)
      BY DEF WireInv, View, EntryView, Holds
    <2> QED BY <2>1, WireFacts DEF ClosedAfter, Ends
  <1> QED BY <1>1, SpecWireInv, PTL

(* Unless lines were lost, no link is left CLOSING when close() or abort()   *)
(* returns, however the CLOSED, the answer and a new CONNECT cross.         *)
THEOREM ClosingAlwaysEnds == Spec => []ClosingEnds
  <1>1. WireInv => ClosingEnds
    BY DEF WireInv, ClosingNow, ClosingEnds
  <1> QED BY <1>1, SpecWireInv, PTL

(* No link was used so often that its serialId bits have gone round. *)
NotWrapped == \A l \in Links : epoch[l] < SERIALS

(* Unless lines were lost, in silence a handle that checkLinkId() lets pass  *)
(* stands for the connection that the firmware has on the link, in every    *)
(* build but AT2 with polling and until serialId bits wrap around.          *)
THEOREM HandlesMeanConnections == Spec => [](NotWrapped => HandleMeansConnection)
  <1>1. TypeInv /\ HandleInv /\ WireInv => (NotWrapped => HandleMeansConnection)
    <2> SUFFICES ASSUME TypeInv, HandleInv, WireInv, NotWrapped, reliable,
                        ~AdoptsWithoutSerial, Quiet, NEW h \in handles, Active(h)
                 PROVE  open[h.link] = h.conn
      BY DEF HandleMeansConnection
    <2> DEFINE l == h.link
    <2>1. l \in Links /\ IsConnected(l) /\ ~Starting(l) /\ epoch[l] < SERIALS
      BY TypeInvParts, HandleFields DEF SketchOK, Active, Quiet, Starting, NotWrapped
    <2>2. h.conn = conn[l]
      BY <2>1, HandleInvRefusesOld DEF OldHandleRefused, HandleNeverRevives
    <2>3. conn[l] # NoConn
      BY <2>1 DEF WireInv, View, Named
    <2>4. ~ClosedAfter(0, l)
      BY WireFacts DEF Quiet, ClosedAfter
    <2> QED BY <2>1, <2>2, <2>3, <2>4 DEF WireInv, View, EntryView, Holds
  <1> QED BY <1>1, SpecWireInv, PTL

----------------------------------------------------------------------------
(* No connection is accepted twice. *)

IsList(m) == m.t \in {"STATUS", "+CIPRECVLEN"}

(* A line that starts a connection tells that the one before it is over, as  *)
(* a line that ends it does.                                                *)
Turns(m, l) == Opens(m, l) \/ Ends(m, l)

(* The lines that the firmware has added: what starts is a new connection,  *)
(* and a list is what it has now.                                           *)
Fresh(m) ==
  /\ m.t = "CONNECT" \/ (m.t = "OK" /\ pc = "start") => m.conn > lastConn
  /\ IsList(m) => m.conns = open'

FreshLines ==
  \A i \in Wire' : i \notin Wire =>
    /\ Fresh(uart'[i])
    /\ IsList(uart'[i]) => i = Len(uart) + 1 /\ request.cmd # "none"

LEMMA NotifyFresh ==
  ASSUME TypeInv, NEW m \in Messages, Notify(m), Fresh(m), ~IsList(m)
  PROVE  FreshLines
  <1>1. CASE UNCHANGED uart
    BY <1>1 DEF FreshLines, Wire
  <1>2. CASE uart' = Append(uart, m)
    <2> DEFINE msgs == <<m>>
    <2>1. msgs \in Seq(Messages) /\ DOMAIN msgs = {1} /\ msgs[1] = m
      OBVIOUS
    <2>2. uart' = uart \o msgs
      BY <1>2, TypeInvParts DEF FwTypeOK
    <2> HIDE DEF msgs
    <2>3. \A i \in Wire' : i \in Wire \/ (i - Len(uart) \in DOMAIN msgs /\ uart'[i] = msgs[i - Len(uart)])
      BY <2>1, <2>2, GrownWire
    <2>4. \A i \in Wire' : i \notin Wire => uart'[i] = m
      BY <2>1, <2>3
    <2> QED BY <2>4 DEF FreshLines
  <1> QED BY <1>1, <1>2 DEF Notify

LEMMA AnswerFresh ==
  ASSUME TypeInv, NEW m \in Messages, NEW n \in Messages, Answer(<<m>>) \/ Answer(<<m, n>>),
         Fresh(m), request.cmd # "none", Answer(<<m>>) \/ (Fresh(n) /\ ~IsList(n))
  PROVE  FreshLines
  <1>1. ASSUME NEW msgs \in Seq(Messages), Answer(msgs), Len(msgs) \in {1, 2}, msgs[1] = m,
               Len(msgs) = 2 => Fresh(msgs[2]) /\ ~IsList(msgs[2])
        PROVE  FreshLines
    <2>1. DOMAIN msgs = 1 .. Len(msgs) /\ uart' = uart \o msgs
      BY <1>1 DEF Answer
    <2>2. \A i \in Wire' : i \in Wire \/ (i - Len(uart) \in DOMAIN msgs /\ uart'[i] = msgs[i - Len(uart)])
      BY <2>1, GrownWire
    <2>3. ASSUME NEW i \in Wire', i \notin Wire
          PROVE  /\ Fresh(uart'[i])
                 /\ IsList(uart'[i]) => i = Len(uart) + 1
      <3>1. i - Len(uart) \in DOMAIN msgs /\ uart'[i] = msgs[i - Len(uart)]
        BY <2>2, <2>3
      <3>2. i \in Int /\ Len(uart) \in Nat
        BY <1>1, <2>1, GrownWire, WireFacts
      <3>3. CASE i - Len(uart) = 1
        BY <1>1, <3>1, <3>2, <3>3
      <3>4. CASE i - Len(uart) = 2 /\ Len(msgs) = 2
        BY <1>1, <3>1, <3>4
      <3>5. i - Len(uart) = 1 \/ (i - Len(uart) = 2 /\ Len(msgs) = 2)
        BY <1>1, <2>1, <3>1, <3>2
      <3> QED BY <3>3, <3>4, <3>5
    <2> QED BY <2>3 DEF FreshLines
  <1>2. CASE Answer(<<m>>)
    <2>1. <<m>> \in Seq(Messages) /\ Len(<<m>>) = 1 /\ <<m>>[1] = m
      OBVIOUS
    <2> QED BY <1>1, <1>2, <2>1
  <1>3. CASE Answer(<<m, n>>) /\ Fresh(n) /\ ~IsList(n)
    <2>1. <<m, n>> \in Seq(Messages) /\ Len(<<m, n>>) = 2 /\ <<m, n>>[1] = m /\ <<m, n>>[2] = n
      OBVIOUS
    <2> QED BY <1>1, <1>3, <2>1
  <1> QED BY <1>2, <1>3

LEMMA NetworkFresh ==
  ASSUME TypeInv, Network
  PROVE  FreshLines
  <1>1. FwTypeOK /\ lastConn \in Conns
    BY TypeInvParts DEF FwTypeOK
  <1>2. PICK l \in Links : PeerConnects(l) \/ DataArrives(l) \/ PeerCloses(l)
    BY DEF Network
  <1>3. open[l] \in Conns /\ unread[l] \in 0 .. MaxData /\ 1 \in 0 .. MaxData
    BY <1>1, BoundsAssumption DEF FwTypeOK
  <1>4. CASE PeerConnects(l)
    <2> DEFINE m == Event("CONNECT", l, lastConn + 1, 0)
    <2>1. lastConn + 1 \in Conns /\ lastConn + 1 > lastConn
      BY <1>1, <1>4, BoundsAssumption DEF PeerConnects, Conns
    <2>2. m \in Messages /\ m.t = "CONNECT" /\ m.conn = lastConn + 1
      BY <2>1, MessagesMade, ConstantFacts DEF EventTypes, Event
    <2>3. Notify(m)
      BY <1>4 DEF PeerConnects
    <2> HIDE DEF m
    <2> QED BY <2>1, <2>2, <2>3, NotifyFresh DEF Fresh, IsList
  <1>5. CASE DataArrives(l)
    <2>1. PICK n \in 0 .. MaxData : Notify(Event("IPD", l, open[l], n))
      <3>1. CASE AT1 /\ l \in endpoint
        BY <1>3, <1>5, <3>1 DEF DataArrives
      <3>2. CASE ~(AT1 /\ l \in endpoint)
        <4>1. unread[l] + 1 \in 0 .. MaxData
          BY <1>3, <1>5, <3>2, BoundsAssumption DEF DataArrives
        <4> QED BY <1>5, <3>2, <4>1 DEF DataArrives
      <3> QED BY <3>1, <3>2
    <2> DEFINE m == Event("IPD", l, open[l], n)
    <2>2. m \in Messages /\ m.t = "IPD"
      BY <1>3, MessagesMade DEF EventTypes, Event
    <2>3. Notify(m)
      BY <2>1
    <2> HIDE DEF m
    <2> QED BY <2>2, <2>3, NotifyFresh DEF Fresh, IsList
  <1>6. CASE PeerCloses(l)
    <2> DEFINE m == Event("CLOSED", l, open[l], 0)
    <2>1. m \in Messages /\ m.t = "CLOSED"
      BY <1>3, MessagesMade, ConstantFacts DEF EventTypes, Event
    <2>2. Notify(m)
      BY <1>6 DEF PeerCloses
    <2> HIDE DEF m
    <2> QED BY <2>1, <2>2, NotifyFresh DEF Fresh, IsList
  <1> QED BY <1>2, <1>4, <1>5, <1>6

LEMMA ExecuteFresh ==
  ASSUME TypeInv, Asked, Execute
  PROVE  FreshLines
  <1>1. FwTypeOK /\ CallOK /\ lastConn \in Conns
    BY TypeInvParts DEF FwTypeOK
  <1>2. request.cmd # "none"
    BY DEF Execute, ExecStart, ExecClose, ExecRecvData, ExecSend, ExecPayload, ExecStatus,
         ExecRecvLen, ExecOther, ExecReset, Executing
  <1>3. ASSUME NEW m \in Messages, Answer(<<m>>), Fresh(m)
        PROVE  FreshLines
    BY <1>2, <1>3, AnswerFresh
  <1>4. ASSUME NEW m \in Messages, NEW n \in Messages, Answer(<<m, n>>), Fresh(m), Fresh(n), ~IsList(n)
        PROVE  FreshLines
    BY <1>2, <1>4, AnswerFresh
  <1>5. /\ Fresh(ERROR) /\ Fresh(UNLINK) /\ Fresh(PROMPT) /\ Fresh(READY)
        /\ \A n : Fresh(CIPRECVDATA(n))
        /\ ~IsList(ERROR) /\ ~IsList(OK) /\ \A c : ~IsList(Started(c))
        /\ pc # "start" => Fresh(OK)
    BY AnswerLines DEF Fresh, IsList
  <1>6. /\ Fresh(RECV) /\ \A b : Fresh(SEND(b)) /\ ~IsList(SEND(b))
    BY SendLines, Zenon DEF Fresh, IsList, Telling, Final
  <1>7. CASE ExecStart
    <2> DEFINE l == request.link
               c == lastConn + 1
    <2>1. l \in Links /\ pc = "start"
      BY <1>1, <1>7 DEF FwTypeOK, CallOK, ExecStart, Executing, Asked
    <2>2. CASE Answer(<<Event("CONNECT", l, c, 0), Started(c)>>) /\ lastConn < MaxConn
      <3>1. c \in Conns /\ c > lastConn
        BY <1>1, <2>2, BoundsAssumption DEF Conns
      <3> DEFINE m == Event("CONNECT", l, c, 0)
                 n == Started(c)
      <3>2. m \in Messages /\ m.t = "CONNECT" /\ m.conn = c /\ n \in Messages /\ n.t = "OK" /\ n.conn = c
        BY <2>1, <3>1, MessagesMade, ConstantFacts, AnswerLines DEF EventTypes, Event
      <3>3. Answer(<<m, n>>)
        BY <2>2
      <3> HIDE DEF m, n
      <3> QED BY <1>4, <3>1, <3>2, <3>3 DEF Fresh, IsList
    <2>3. CASE Answer(<<Event("CLOSED", l, NoConn, 0), ERROR>>)
      <3> DEFINE m == Event("CLOSED", l, NoConn, 0)
      <3>1. m \in Messages /\ m.t = "CLOSED"
        BY <2>1, MessagesMade, ConstantFacts DEF EventTypes, Event
      <3>2. Answer(<<m, ERROR>>)
        BY <2>3
      <3> HIDE DEF m
      <3> QED BY <1>4, <1>5, <3>1, <3>2, MessagesMade DEF Fresh, IsList
    <2>4. CASE Answer(<<ERROR>>)
      BY <1>3, <1>5, <2>4, MessagesMade
    <2> QED BY <1>7, <2>2, <2>3, <2>4 DEF ExecStart
  <1>8. CASE ExecClose
    <2> DEFINE l == request.link
    <2>1. l \in Links /\ open[l] \in Conns /\ pc # "start"
      BY <1>1, <1>8 DEF FwTypeOK, CallOK, ExecClose, Executing, Asked
    <2>2. CASE Answer(<<Event("CLOSED", l, open[l], 0), OK>>)
      <3> DEFINE m == Event("CLOSED", l, open[l], 0)
      <3>1. m \in Messages /\ m.t = "CLOSED"
        BY <2>1, MessagesMade, ConstantFacts DEF EventTypes, Event
      <3>2. Answer(<<m, OK>>)
        BY <2>2
      <3> HIDE DEF m
      <3> QED BY <1>4, <1>5, <2>1, <3>1, <3>2, MessagesMade DEF Fresh, IsList
    <2>3. CASE Answer(<<OK>>) \/ Answer(<<ERROR>>) \/ Answer(<<UNLINK>>)
      BY <1>3, <1>5, <2>1, <2>3, MessagesMade
    <2> QED BY <1>8, <2>2, <2>3 DEF ExecClose
  <1>9. CASE ExecRecvData
    <2> DEFINE n == IF request.size < unread[request.link] THEN request.size ELSE unread[request.link]
    <2>1. pc # "start" /\ request.link \in Links
      BY <1>1, <1>9 DEF ExecRecvData, Executing, Asked, CallOK
    <2>2. n \in 0 .. MaxData
      BY <1>1, <2>1 DEF FwTypeOK, Requests
    <2>3. Answer(<<ERROR>>) \/ Answer(<<CIPRECVDATA(n), OK>>)
      BY <1>9 DEF ExecRecvData
    <2> HIDE DEF n
    <2> QED BY <1>3, <1>4, <1>5, <2>1, <2>2, <2>3, MessagesMade
  <1>10. CASE ExecSend
    BY <1>3, <1>5, <1>10, MessagesMade DEF ExecSend
  <1>11. CASE ExecPayload
    <2>1. PICK b \in BOOLEAN : Answer(<<RECV, SEND(b)>>)
      BY <1>11 DEF ExecPayload
    <2> QED BY <1>4, <1>6, <2>1, MessagesMade
  <1>12. CASE ExecStatus \/ ExecRecvLen
    <2>1. pc # "start" /\ open' = open
      BY <1>12 DEF ExecStatus, ExecRecvLen, Executing, Asked
    <2>2. Fresh(CIPSTATUS) /\ Fresh(CIPRECVLEN)
      BY <2>1, AnswerLines DEF Fresh
    <2> QED BY <1>1, <1>4, <1>5, <1>12, <2>1, <2>2, MessagesMade, ListsMade DEF ExecStatus, ExecRecvLen
  <1>13. CASE ExecOther
    <2>1. pc # "start"
      BY <1>13 DEF ExecOther, Asked
    <2> QED BY <1>3, <1>5, <1>13, <2>1, MessagesMade DEF ExecOther
  <1>14. CASE ExecReset
    BY <1>3, <1>5, <1>14, MessagesMade DEF ExecReset
  <1> QED BY <1>7, <1>8, <1>9, <1>10, <1>11, <1>12, <1>13, <1>14 DEF Execute

(* What is known of a link's connection c that was accepted: what follows    *)
(* in the line is newer; it is not incoming again; and if the firmware, a   *)
(* list on the line or one just read still have it, so has the entry.       *)
AcceptedHere(l, c) == \E h \in handles : h.via = "accept" /\ h.link = l /\ h.conn = c

ClosingUnderWay(l) ==
  call.h.link = l /\ (pc = "closemode" \/ (pc = "close" /\ request.cmd = "CIPCLOSE"))

HeldBy(l, c) ==
  /\ IsConnected(l) /\ ~IsIncoming(l) /\ conn[l] = c
  /\ IsClosing(l) => ClosingUnderWay(l)

Older(l, c) ==
  \A i \in Wire : Opens(uart[i], l) \/ (uart[i].t = "OK" /\ Starting(l)) => uart[i].conn > c

NotAgain(l, c) == IsIncoming(l) \/ Starting(l) => conn[l] # c

StillOpen(l, c) ==
  open[l] = c =>
    /\ HeldBy(l, c)
    /\ \A i \in Wire : /\ ~Turns(uart[i], l)
                       /\ IsList(uart[i]) => uart[i].conns[l] = c
    /\ Listing => call.list[l] = c

StillListed(l, c) ==
  \A i \in Wire : IsList(uart[i]) /\ uart[i].conns[l] = c =>
    HeldBy(l, c) /\ \A j \in Wire : j < i => ~Turns(uart[j], l)

StillRead(l, c) == Listing /\ call.list[l] = c => HeldBy(l, c)

Claimed(l, c) ==
  /\ c \in RealConns /\ c <= lastConn
  /\ Older(l, c) /\ NotAgain(l, c) /\ StillOpen(l, c) /\ StillListed(l, c) /\ StillRead(l, c)

OneList == \A i, j \in Wire : i < j /\ IsList(uart[i]) => ~IsList(uart[j])
IncomingConnected == \A l \in Links : IsIncoming(l) => IsConnected(l)

OnceInv ==
  /\ OneList /\ IncomingConnected
  /\ \A l \in Links, c \in Conns : AcceptedHere(l, c) => Claimed(l, c)

(* The firmware keeps it. *)
LEMMA CloseEnds ==
  ASSUME TypeInv, FwNext, request.cmd = "CIPCLOSE", request'.cmd # "CIPCLOSE"
  PROVE  open'[request.link] = NoConn
  <1>1. open \in [Links -> Conns] /\ request.link \in Links
    BY TypeInvParts DEF FwTypeOK, CallOK
  <1>2. ~Network
    BY DEF Network, PeerConnects, DataArrives, PeerCloses
  <1>3. ExecClose
    BY <1>2 DEF FwNext, Execute, ExecStart, ExecRecvData, ExecSend, ExecPayload, ExecStatus,
         ExecRecvLen, ExecOther, ExecReset, Executing
  <1> QED BY <1>1, <1>3 DEF ExecClose

LEMMA FirmwareOnce ==
  ASSUME TypeInv, Dialogue, View, FwNext, UNCHANGED drvVars, OnceInv
  PROVE  OnceInv'
  <1>1. FreshLines
    BY NetworkFresh, ExecuteFresh DEF FwNext, Dialogue
  <1>2. PICK msgs \in Seq(Messages) : uart' = uart \o msgs /\ Answers(msgs) /\ Speaks(msgs)
    BY FirmwareSpeaks DEF FirmwareStep
  <1>3. UNCHANGED <<pc, call, flags, conn, handles>>
    BY DEF drvVars, linkVars
  <1>4. /\ Len(uart) \in Nat /\ Wire = 1 .. Len(uart) /\ Wire' = 1 .. Len(uart) + Len(msgs)
        /\ Len(msgs) \in Nat
        /\ \A i \in Wire : i \in Wire' /\ uart'[i] = uart[i]
        /\ \A i \in Wire' : i \in Wire \/ (i - Len(uart) \in DOMAIN msgs /\ uart'[i] = msgs[i - Len(uart)])
    <2>1. Len(msgs) \in Nat
      OBVIOUS
    <2>2. Len(uart) \in Nat /\ Wire = 1 .. Len(uart)
      BY WireFacts
    <2>3. /\ Wire' = 1 .. Len(uart) + Len(msgs)
          /\ \A i \in Wire : i \in Wire' /\ uart'[i] = uart[i]
          /\ \A i \in Wire' : i \in Wire \/ (i - Len(uart) \in DOMAIN msgs /\ uart'[i] = msgs[i - Len(uart)])
      BY <1>2, GrownWire
    <2> QED BY <2>1, <2>2, <2>3
  <1>5. OneList'
    <2> SUFFICES ASSUME NEW i \in Wire', NEW j \in Wire', i < j, IsList(uart'[i]), IsList(uart'[j])
                 PROVE  FALSE
      BY DEF OneList, IsList
    <2>1. CASE j \in Wire
      <3>1. i \in Wire
        BY <1>4, <2>1
      <3> QED BY <1>4, <2>1, <3>1 DEF OnceInv, OneList
    <2>2. CASE j \notin Wire
      <3>1. j = Len(uart) + 1 /\ request.cmd # "none"
        BY <1>1, <2>2 DEF FreshLines
      <3>2. i \in Wire
        BY <1>4, <3>1
      <3>3. uart[i].t \in EventTypes
        BY <3>1, <3>2 DEF Dialogue, Unanswered
      <3> QED BY <1>4, <3>2, <3>3 DEF IsList, EventTypes
    <2> QED BY <2>1, <2>2
  <1>6. IncomingConnected'
    BY <1>3 DEF OnceInv, IncomingConnected, IsIncoming, IsConnected
  <1>7. ASSUME NEW l \in Links, NEW c \in Conns, AcceptedHere(l, c)'
        PROVE  Claimed(l, c)'
    <2>1. Claimed(l, c)
      BY <1>3, <1>7 DEF OnceInv, AcceptedHere
    <2>2. c \in RealConns /\ c \in Int /\ c # NoConn /\ c <= lastConn /\ lastConn \in Int /\ lastConn' \in {lastConn, lastConn + 1}
      BY <1>2, <2>1, TypeInvParts DEF Claimed, RealConns, Conns, Speaks, FwTypeOK
    <2>3. open'[l] = c => open[l] = c /\ ~Shuts(msgs, l) /\ \A k \in DOMAIN msgs : ~Opens(msgs[k], l)
      <3> SUFFICES ASSUME open'[l] = c PROVE open[l] = c /\ ~Shuts(msgs, l) /\ \A k \in DOMAIN msgs : ~Opens(msgs[k], l)
        OBVIOUS
      <3>1. open[l] = c /\ ~Shuts(msgs, l)
        BY <1>2, <2>2 DEF Speaks
      <3>2. ASSUME NEW k \in DOMAIN msgs, Opens(msgs[k], l) PROVE FALSE
        <4>1. msgs[k] \in Messages /\ msgs[k].t = "CONNECT" /\ msgs[k].link = l
          BY <3>2 DEF Opens
        <4>2. msgs[k].conn \in Conns /\ msgs[k].conn # NoConn
          <5>1. msgs[k].conn \in Conns /\ lastConn \in Nat
            BY <4>1, MessageFields, TypeInvParts DEF EventTypes, FwTypeOK, Conns
          <5>2. msgs[k].conn > lastConn
            BY <1>2, <4>1 DEF Speaks
          <5> QED BY <5>1, <5>2 DEF Conns, NoConn
        <4>3. open'[l] = msgs[k].conn
          BY <1>2, <4>1, <4>2 DEF Speaks, Says, RealConns
        <4>4. k + Len(uart) \in Wire' /\ uart'[k + Len(uart)] = msgs[k]
          BY <1>2, GrownWire
        <4>5. k + Len(uart) \notin Wire
          BY <1>4, <1>2, GrownWire
        <4>6. msgs[k].conn > lastConn
          BY <1>1, <4>1, <4>4, <4>5 DEF FreshLines, Fresh
        <4> QED BY <2>2, <3>1, <4>2, <4>3, <4>6 DEF Conns
      <3> QED BY <3>1, <3>2
    <2>4. HeldBy(l, c) /\ open'[l] = c => HeldBy(l, c)'
      <3> SUFFICES ASSUME HeldBy(l, c), open'[l] = c PROVE HeldBy(l, c)'
        OBVIOUS
      <3>1. ClosingUnderWay(l) => ClosingUnderWay(l)'
        BY <1>3, <2>2, CloseEnds DEF ClosingUnderWay, Dialogue, Asked
      <3> QED BY <1>3, <3>1 DEF HeldBy, IsConnected, IsIncoming, IsClosing
    <2>5. (\E i \in Wire : IsList(uart[i])) \/ Listing => (HeldBy(l, c) => HeldBy(l, c)')
      <3> SUFFICES ASSUME (\E i \in Wire : IsList(uart[i])) \/ Listing, HeldBy(l, c) PROVE HeldBy(l, c)'
        OBVIOUS
      <3>1. ~(pc = "close" /\ request.cmd = "CIPCLOSE")
        BY DEF Dialogue, Unanswered, IsList, EventTypes, Listing
      <3>2. ClosingUnderWay(l) => ClosingUnderWay(l)'
        BY <1>3, <3>1 DEF ClosingUnderWay
      <3> QED BY <1>3, <3>2 DEF HeldBy, IsConnected, IsIncoming, IsClosing
    <2>6. Older(l, c)'
      <3> SUFFICES ASSUME NEW i \in Wire', Opens(uart'[i], l) \/ (uart'[i].t = "OK" /\ Starting(l))
                   PROVE  uart'[i].conn > c
        BY <1>3 DEF Older, Opens, Starting
      <3>1. CASE i \in Wire
        BY <1>4, <2>1, <3>1 DEF Claimed, Older
      <3>2. CASE i \notin Wire
        <4>1. uart'[i] \in Messages /\ uart'[i].conn > lastConn
          BY <1>1, <1>4, <3>2 DEF FreshLines, Fresh, Opens, Starting
        <4>2. uart'[i].conn \in Conns
          BY <4>1, MessageFields DEF Opens, EventTypes
        <4> QED BY <2>2, <4>1, <4>2 DEF Conns
      <3> QED BY <3>1, <3>2
    <2>7. NotAgain(l, c)'
      BY <1>3, <2>1 DEF Claimed, NotAgain, IsIncoming, Starting
    <2>8. StillOpen(l, c)'
      <3> SUFFICES ASSUME open'[l] = c
                   PROVE  /\ HeldBy(l, c)'
                          /\ \A i \in Wire' : /\ ~Turns(uart'[i], l)
                                              /\ IsList(uart'[i]) => uart'[i].conns[l] = c
                          /\ Listing => call.list[l] = c
        BY <1>3 DEF StillOpen, Listing, Turns, Opens, Ends, IsList
      <3>1. open[l] = c /\ StillOpen(l, c)
        BY <2>1, <2>3 DEF Claimed
      <3>2. ASSUME NEW i \in Wire'
            PROVE  ~Turns(uart'[i], l) /\ (IsList(uart'[i]) => uart'[i].conns[l] = c)
        <4>1. CASE i \in Wire
          BY <1>4, <3>1, <4>1 DEF StillOpen
        <4>2. CASE i \notin Wire
          <5>1. IsList(uart'[i]) => uart'[i].conns[l] = c
            BY <1>1, <4>2 DEF FreshLines, Fresh
          <5>2. ~Turns(uart'[i], l)
            BY <1>4, <2>3, <4>2 DEF Turns, Shuts
          <5> QED BY <5>1, <5>2
        <4> QED BY <4>1, <4>2
      <3> QED BY <2>4, <3>1, <3>2 DEF StillOpen
    <2>9. StillListed(l, c)'
      <3> SUFFICES ASSUME NEW i \in Wire', IsList(uart'[i]), uart'[i].conns[l] = c
                   PROVE  HeldBy(l, c)' /\ \A j \in Wire' : j < i => ~Turns(uart'[j], l)
        BY DEF StillListed, IsList, Turns, Opens, Ends
      <3>1. CASE i \in Wire
        <4>1. HeldBy(l, c) /\ \A j \in Wire : j < i => ~Turns(uart[j], l)
          BY <1>4, <2>1, <3>1 DEF Claimed, StillListed
        <4>2. HeldBy(l, c)'
          BY <1>4, <2>5, <3>1, <4>1
        <4>3. \A j \in Wire' : j < i => j \in Wire /\ uart'[j] = uart[j]
          BY <1>4, <3>1
        <4> QED BY <4>1, <4>2, <4>3
      <3>2. CASE i \notin Wire
        <4>1. open'[l] = c /\ i = Len(uart) + 1
          BY <1>1, <3>2 DEF FreshLines, Fresh
        <4>2. HeldBy(l, c)' /\ \A j \in Wire : ~Turns(uart[j], l)
          BY <2>1, <2>3, <2>4, <4>1 DEF Claimed, StillOpen
        <4>3. \A j \in Wire' : j < i => j \in Wire /\ uart'[j] = uart[j]
          BY <1>4, <4>1
        <4> QED BY <4>2, <4>3
      <3> QED BY <3>1, <3>2
    <2>10. StillRead(l, c)'
      BY <1>3, <2>1, <2>5 DEF Claimed, StillRead, Listing
    <2>11. c <= lastConn'
      BY <2>2
    <2> QED BY <2>2, <2>6, <2>7, <2>8, <2>9, <2>10, <2>11 DEF Claimed
  <1> QED BY <1>5, <1>6, <1>7 DEF OnceInv

----------------------------------------------------------------------------
(* What one driver step does to the entry of link l and to its connection.   *)

ReadList(list) ==
  \/ Listing /\ list = call.list
  \/ Heard /\ IsList(Head(uart)) /\ list = Head(uart).conns

OwnerSame(l) ==
  flags'[l] = flags[l] /\ conn'[l] = conn[l] /\ (Starting(l)' <=> Starting(l))

OwnerTurned(l) ==
  /\ Heard
  /\ \/ Ends(Head(uart), l) /\ flags'[l] = {} /\ conn'[l] = NoConn
     \/ Opens(Head(uart), l) /\ flags'[l] = {"CONNECTED", "INCOMING"} /\ conn'[l] = Head(uart).conn

OwnerTaken(l) ==
  /\ IsIncoming(l) /\ ~IsClosing(l)
  /\ flags'[l] = flags[l] \ {"INCOMING"} /\ conn'[l] = conn[l]
  /\ pc = "drain" /\ pc' = "idle" /\ uart' = <<>>

OwnerStarts(l) == ~IsConnected(l) /\ flags'[l] = {"CONNECTED"} /\ conn'[l] = NoConn

OwnerAnswered(l) ==
  /\ Starting(l) /\ pc' = "idle"
  /\ \/ flags'[l] = {}
     \/ /\ Heard /\ Head(uart).t = "OK" /\ conn'[l] = Head(uart).conn
        /\ flags'[l] \in {flags[l], flags[l] \cup {"UDP_LISTENER"}}

OwnerCloses(l) ==
  /\ IsConnected(l) /\ flags'[l] = flags[l] \cup {"CLOSING"} /\ conn'[l] = conn[l]
  /\ ClosingUnderWay(l)' /\ pc' # "start"

OwnerListed(l) ==
  /\ pc' # "start" /\ ~ClosingUnderWay(l)
  /\ \E list : /\ ReadList(list)
               /\ \/ list[l] = NoConn /\ flags'[l] = {}
                  \/ /\ list[l] # NoConn /\ MissedIncoming(list, l)
                     /\ flags'[l] = {"CONNECTED", "INCOMING"} /\ conn'[l] = list[l]

OwnerStep(l) ==
  \/ OwnerSame(l) \/ OwnerTurned(l) \/ OwnerTaken(l) \/ OwnerStarts(l)
  \/ OwnerAnswered(l) \/ OwnerCloses(l) \/ OwnerListed(l)

LEMMA PlainOwner ==
  ASSUME UNCHANGED <<flags, conn>>,
         (pc # "start" /\ pc' # "start") \/ UNCHANGED <<pc, call>>
  PROVE  \A l \in Links : OwnerStep(l)
  BY DEF OwnerStep, OwnerSame, Starting

LEMMA RxOwner ==
  ASSUME TypeInv, Rx
  PROVE  \A l \in Links : OwnerStep(l)
  <1>1. LinkInfoOK /\ Heard /\ UNCHANGED <<pc, call>>
    BY TypeInvParts, RxWire
  <1>2. CASE UNCHANGED <<flags, conn>>
    BY <1>1, <1>2, PlainOwner
  <1>3. ASSUME NEW l \in Links, l # Head(uart).link, NEW f, NEW c,
               SetFlags(Head(uart).link, f), SetConn(Head(uart).link, c)
        PROVE  OwnerStep(l)
    BY <1>1, <1>3 DEF OwnerStep, OwnerSame, Starting, SetFlags, SetConn, LinkInfoOK
  <1>4. CASE Head(uart).t = "CONNECT" /\ RxConnect(Head(uart))
    <2> DEFINE k == Head(uart).link
    <2>1. CASE UNCHANGED linkVars
      BY <1>2, <2>1 DEF linkVars
    <2>2. CASE SetFlags(k, {"CONNECTED", "INCOMING"}) /\ SetConn(k, Head(uart).conn)
      <3>1. ASSUME NEW l \in Links, l = k PROVE OwnerStep(l)
        BY <1>1, <1>4, <2>2, <3>1 DEF OwnerStep, OwnerTurned, Opens, SetFlags, SetConn, LinkInfoOK
      <3> QED BY <1>3, <2>2, <3>1
    <2> QED BY <1>4, <2>1, <2>2 DEF RxConnect
  <1>5. CASE Head(uart).t = "CLOSED" /\ RxClosed(Head(uart))
    <2> DEFINE k == Head(uart).link
    <2>1. SetFlags(k, {}) /\ SetConn(k, NoConn)
      BY <1>5 DEF RxClosed
    <2>2. ASSUME NEW l \in Links, l = k PROVE OwnerStep(l)
      BY <1>1, <1>5, <2>1, <2>2 DEF OwnerStep, OwnerTurned, Ends, SetFlags, SetConn, LinkInfoOK
    <2> QED BY <1>3, <2>1, <2>2
  <1>6. CASE RxIpd(Head(uart))
    BY <1>2, <1>6 DEF RxIpd
  <1>7. CASE RxIgnored
    BY <1>2, <1>7 DEF RxIgnored, drvVars, linkVars
  <1> QED BY <1>4, <1>5, <1>6, <1>7 DEF Rx, RxEvent

LEMMA SketchOwner ==
  ASSUME Sketch
  PROVE  \A l \in Links : OwnerStep(l)
  <1>1. UNCHANGED <<flags, conn>> /\ pc # "start" /\ pc' # "start"
    BY DEF Sketch, EnterAny, Enter, LocalPortQuery, Fail, Return, linkVars
  <1> QED BY <1>1, PlainOwner

LEMMA ConnectOwner ==
  ASSUME TypeInv, ConnectStart \/ ConnectDone \/ ConnectFails
  PROVE  \A l \in Links : OwnerStep(l)
  <1>1. LinkInfoOK /\ CallOK /\ call \in Calls
    BY TypeInvParts DEF SketchOK
  <1>2. CASE ConnectStart
    <2>1. pc # "start"
      BY <1>2 DEF ConnectStart, Drained
    <2>2. CASE Return /\ UNCHANGED <<flags, conn>>
      BY <2>1, <2>2, PlainOwner DEF Return
    <2>3. CASE \E k \in FreeLinks : /\ SetFlags(k, {"CONNECTED"}) /\ SetConn(k, NoConn)
                                    /\ call' = [call EXCEPT !.link = k]
      <3>1. PICK k \in FreeLinks : /\ SetFlags(k, {"CONNECTED"}) /\ SetConn(k, NoConn)
                                   /\ call' = [call EXCEPT !.link = k]
        BY <2>3
      <3>2. call'.link = k /\ k \in Links /\ ~IsConnected(k)
        BY <1>1, <3>1 DEF Calls, FreeLinks
      <3>3. ASSUME NEW l \in Links, l = k PROVE OwnerStep(l)
        BY <1>1, <3>1, <3>2, <3>3 DEF OwnerStep, OwnerStarts, SetFlags, SetConn, LinkInfoOK
      <3>4. ASSUME NEW l \in Links, l # k PROVE OwnerStep(l)
        BY <1>1, <2>1, <3>1, <3>2, <3>4 DEF OwnerStep, OwnerSame, Starting, SetFlags, SetConn, LinkInfoOK
      <3> QED BY <3>3, <3>4
    <2> QED BY <1>2, <2>2, <2>3 DEF ConnectStart
  <1>3. ASSUME NEW l \in Links, flags'[l] = flags[l], conn'[l] = conn[l], pc' # "start",
               ~Starting(l)
        PROVE  OwnerStep(l)
    BY <1>3 DEF OwnerStep, OwnerSame, Starting
  <1>4. CASE ConnectDone
    <2> DEFINE k == call.link
    <2>1. /\ SetConn(k, Head(uart).conn)
          /\ SetFlags(k, IF call.kind = "UDP" THEN flags[k] \cup {"UDP_LISTENER"} ELSE flags[k])
          /\ pc' = "idle"
      BY <1>4 DEF ConnectDone, Return
    <2>2. pc = "start" /\ k \in Links /\ Head(uart).t = "OK" /\ Heard
      BY <1>1, <1>4, WaitsHear DEF ConnectDone, Matched, Matches, CallOK, Expected
    <2>3. ASSUME NEW l \in Links, l = k PROVE OwnerStep(l)
      <3>1. conn'[l] = Head(uart).conn
        BY <1>1, <2>1, <2>3 DEF SetConn, LinkInfoOK
      <3>2. flags'[l] \in {flags[l], flags[l] \cup {"UDP_LISTENER"}}
        BY <1>1, <2>1, <2>3 DEF SetFlags, LinkInfoOK
      <3> QED BY <2>1, <2>2, <2>3, <3>1, <3>2 DEF OwnerStep, OwnerAnswered, Starting
    <2>4. ASSUME NEW l \in Links, l # k PROVE OwnerStep(l)
      BY <1>1, <1>3, <2>1, <2>4 DEF SetFlags, SetConn, LinkInfoOK, Starting
    <2> QED BY <2>3, <2>4
  <1>5. CASE ConnectFails
    <2> DEFINE k == call.link
    <2>1. SetFlags(k, {}) /\ SetConn(k, NoConn) /\ k \in Links /\ pc = "start" /\ pc' = "idle"
      BY <1>1, <1>5 DEF ConnectFails, Refused, CallOK, Fail, Return
    <2>2. ASSUME NEW l \in Links, l = k PROVE OwnerStep(l)
      BY <1>1, <2>1, <2>2 DEF OwnerStep, OwnerAnswered, Starting, SetFlags, LinkInfoOK
    <2>3. ASSUME NEW l \in Links, l # k PROVE OwnerStep(l)
      BY <1>1, <1>3, <2>1, <2>3 DEF SetFlags, SetConn, LinkInfoOK, Starting
    <2> QED BY <2>2, <2>3
  <1> QED BY <1>2, <1>4, <1>5

LEMMA AdoptOwner ==
  ASSUME TypeInv, CheckLinks \/ RecvLenQuery \/ ParamsDone
  PROVE  \A l \in Links : OwnerStep(l)
  <1>1. LinkInfoOK
    BY TypeInvParts
  <1>2. pc # "start" /\ pc' # "start" /\ \A l \in Links : ~ClosingUnderWay(l)
    BY DEF CheckLinks, RecvLenQuery, ParamsDone, Matched, Matches, Continue, Return, Fail,
         ClosingUnderWay
  <1>3. ASSUME NEW l \in Links, flags'[l] = flags[l], conn'[l] = conn[l]
        PROVE  OwnerStep(l)
    BY <1>2, <1>3 DEF OwnerStep, OwnerSame, Starting
  <1>4. ASSUME NEW list, ReadList(list), AdoptFlags(list), AdoptConns(list), NEW l \in Links
        PROVE  OwnerStep(l)
    <2>1. CASE list[l] = NoConn
      BY <1>2, <1>4, <2>1 DEF AdoptFlags, OwnerStep, OwnerListed
    <2>2. CASE list[l] # NoConn /\ MissedIncoming(list, l)
      BY <1>2, <1>4, <2>2 DEF AdoptFlags, AdoptConns, OwnerStep, OwnerListed
    <2>3. CASE list[l] # NoConn /\ ~MissedIncoming(list, l)
      BY <1>3, <1>4, <2>3 DEF AdoptFlags, AdoptConns
    <2> QED BY <2>1, <2>2, <2>3
  <1>5. CASE CheckLinks
    <2>1. AdoptFlags(call.list) /\ AdoptConns(call.list) /\ ReadList(call.list)
      BY <1>5 DEF CheckLinks, Matched, Matches, Listing, ReadList
    <2> QED BY <1>4, <2>1
  <1>6. CASE RecvLenQuery
    <2> DEFINE list == Head(uart).conns
    <2>1. UNCHANGED <<flags, conn>> \/ (AdoptFlags(list) /\ AdoptConns(list))
      BY <1>6 DEF RecvLenQuery
    <2>2. Heard /\ Head(uart).t = "+CIPRECVLEN"
      BY <1>6, WaitsHear DEF RecvLenQuery, Matched, Matches, Expected
    <2>3. ReadList(list)
      BY <2>2 DEF ReadList, IsList
    <2> QED BY <1>3, <1>4, <2>1, <2>3
  <1>7. CASE ParamsDone
    <2> DEFINE k == call.h.link
    <2>1. Listing
      BY <1>7 DEF ParamsDone, Matched, Matches, Listing
    <2>2. CASE UNCHANGED <<flags, conn>>
      BY <1>3, <2>2
    <2>3. CASE SetFlags(k, {}) /\ SetConn(k, NoConn) /\ call.list[k] = NoConn
      <3>1. ASSUME NEW l \in Links, l = k PROVE OwnerStep(l)
        <4>1. ReadList(call.list) /\ call.list[l] = NoConn /\ flags'[l] = {}
          BY <1>1, <2>1, <2>3, <3>1 DEF ReadList, SetFlags, LinkInfoOK
        <4> QED BY <1>2, <4>1 DEF OwnerStep, OwnerListed
      <3>2. ASSUME NEW l \in Links, l # k PROVE OwnerStep(l)
        BY <1>1, <1>3, <2>3, <3>2 DEF SetFlags, SetConn, LinkInfoOK
      <3> QED BY <3>1, <3>2
    <2> QED BY <1>7, <2>2, <2>3 DEF ParamsDone
  <1> QED BY <1>5, <1>6, <1>7

LEMMA BodyOwner ==
  ASSUME TypeInv, Body
  PROVE  \A l \in Links : OwnerStep(l)
  <1>1. LinkInfoOK /\ CallOK
    BY TypeInvParts
  <1>2. CASE ConnectStart \/ ConnectDone \/ ConnectFails
    BY <1>2, ConnectOwner
  <1>3. CASE CheckLinks \/ RecvLenQuery \/ ParamsDone
    BY <1>3, AdoptOwner
  <1>4. CASE CheckFails \/ CloseDone \/ Known \/ SyncDone \/ RecvNothing \/ RecvDone
           \/ SendDone \/ ResetDone \/ CommandFails
           \/ CloseModeDone \/ SyncLinkInfo \/ RecvLenStart \/ RecvStart \/ SendStart
           \/ SendPayload \/ SendReceived \/ ParamsStart \/ ResetStart \/ ResetReady
           \/ CheckLinksListed \/ ParamsListed \/ RecvData \/ RecvTruncated \/ RecvFails
    <2>1. UNCHANGED <<flags, conn>>
      BY <1>4 DEF CheckFails, CloseDone, Known, SyncDone, RecvNothing, RecvDone, SendDone, ResetDone,
         CommandFails, CloseModeDone, SyncLinkInfo, RecvLenStart, RecvStart, SendStart,
         SendPayload, SendReceived, ParamsStart, ResetStart, ResetReady, CheckLinksListed,
         ParamsListed, RecvData, RecvTruncated, RecvFails, Refused, linkVars
    <2>2. pc # "start" /\ pc' # "start"
      BY <1>4 DEF CheckFails, CloseDone, Known, SyncDone, RecvNothing, RecvDone, SendDone, ResetDone,
         CommandFails, CloseModeDone, SyncLinkInfo, RecvLenStart, RecvStart, SendStart,
         SendPayload, SendReceived, ParamsStart, ResetStart, ResetReady, CheckLinksListed,
         ParamsListed, RecvData, RecvTruncated, RecvFails, Continue, Return, Fail,
         Checked, Drained, Matched, Matches, Refused, Accepted
    <2> QED BY <2>1, <2>2, PlainOwner
  <1>5. CASE NewClientLinkId
    <2>1. conn' = conn /\ pc = "drain" /\ pc' = "idle" /\ uart' = <<>>
      BY <1>5 DEF NewClientLinkId, Drained, Return
    <2>2. ASSUME NEW l \in Links, flags'[l] = flags[l] PROVE OwnerStep(l)
      BY <2>1, <2>2 DEF OwnerStep, OwnerSame, Starting
    <2>3. CASE UNCHANGED flags
      BY <2>2, <2>3
    <2>4. CASE \E k \in Links : IsIncoming(k) /\ ~IsClosing(k) /\ SetFlags(k, Taken(flags[k]))
      <3>1. PICK k \in Links : IsIncoming(k) /\ ~IsClosing(k) /\ SetFlags(k, Taken(flags[k]))
        BY <2>4
      <3>2. ASSUME NEW l \in Links, l = k PROVE OwnerStep(l)
        BY <1>1, <2>1, <3>1, <3>2 DEF OwnerStep, OwnerTaken, SetFlags, Taken, LinkInfoOK
      <3>3. ASSUME NEW l \in Links, l # k PROVE OwnerStep(l)
        BY <1>1, <2>2, <3>1, <3>3 DEF SetFlags, LinkInfoOK
      <3> QED BY <3>2, <3>3
    <2> QED BY <1>5, <2>3, <2>4 DEF NewClientLinkId
  <1>6. CASE CloseStart
    <2> DEFINE k == call.h.link
    <2>1. /\ conn' = conn /\ SetFlags(k, flags[k] \cup {"CLOSING"})
          /\ IsConnected(k) /\ call' = call /\ pc' \in {"close", "closemode"} /\ pc = "drain"
          /\ pc' = "close" => request'.cmd = "CIPCLOSE"
      BY <1>6 DEF CloseStart, Checked, Drained, Active, Continue, Send, Command
    <2>2. ASSUME NEW l \in Links, l = k PROVE OwnerStep(l)
      <3>1. flags'[l] = flags[l] \cup {"CLOSING"} /\ conn'[l] = conn[l]
        BY <1>1, <2>1, <2>2 DEF SetFlags, LinkInfoOK
      <3>2. ClosingUnderWay(l)'
        BY <2>1, <2>2 DEF ClosingUnderWay
      <3> QED BY <2>1, <2>2, <3>1, <3>2 DEF OwnerStep, OwnerCloses
    <2>3. ASSUME NEW l \in Links, l # k PROVE OwnerStep(l)
      <3>1. flags'[l] = flags[l] /\ conn'[l] = conn[l]
        BY <1>1, <2>1, <2>3 DEF SetFlags, LinkInfoOK
      <3> QED BY <2>1, <3>1 DEF OwnerStep, OwnerSame, Starting
    <2> QED BY <2>2, <2>3
  <1> QED BY <1>2, <1>3, <1>4, <1>5, <1>6 DEF Body

LEMMA DriverOwner ==
  ASSUME TypeInv, Sketch \/ Driver
  PROVE  \A l \in Links : OwnerStep(l)
  BY SketchOwner, RxOwner, BodyOwner DEF Driver

LEMMA ClosingStays ==
  ASSUME TypeInv, Dialogue, Sketch \/ Driver, NEW l \in Links, ClosingUnderWay(l)
  PROVE  ClosingUnderWay(l)'
  <1>1. CASE Rx
    BY <1>1, RxWire DEF ClosingUnderWay
  <1>2. CASE Body /\ ~Rx
    <2>1. request.cmd = "none" /\ pc = "closemode" /\ call.h.link = l
      BY <1>2, OnlyReads DEF Dialogue, Driver, ClosingUnderWay
    <2>2. CloseModeDone
      BY <1>2, <2>1 DEF Body, CheckFails, NewClientLinkId, ConnectStart, ConnectDone, ConnectFails,
         CloseStart, CloseDone, Known, SyncLinkInfo, CheckLinksListed, CheckLinks,
         RecvLenStart, RecvLenQuery, SyncDone, RecvNothing, RecvStart, RecvData, RecvTruncated,
         RecvFails, RecvDone, SendStart, SendPayload, SendReceived, SendDone, ParamsStart,
         ParamsListed, ParamsDone, ResetStart, ResetReady, ResetDone, CommandFails,
         Drained, Checked, Matched, Matches, Refused, Accepted
    <2> QED BY <2>1, <2>2 DEF CloseModeDone, Send, Command, Continue, ClosingUnderWay
  <1>3. CASE Sketch
    BY <1>3, SketchWire DEF ClosingUnderWay
  <1> QED BY <1>1, <1>2, <1>3 DEF Driver

(* A connection that was accepted is let go only when a line says so. *)
LetGo(l, c) ==
  \/ Heard /\ Turns(Head(uart), l)
  \/ \E list : ReadList(list) /\ list[l] # c

LEMMA HeldStep ==
  ASSUME TypeInv, Dialogue, Sketch \/ Driver, NEW l \in Links, NEW c \in RealConns,
         NotAgain(l, c), HeldBy(l, c), ~LetGo(l, c)
  PROVE  HeldBy(l, c)'
  <1>1. OwnerStep(l) /\ (ClosingUnderWay(l) => ClosingUnderWay(l)')
    BY DriverOwner, ClosingStays
  <1>2. IsConnected(l) /\ ~IsIncoming(l) /\ conn[l] = c /\ c # NoConn
    BY DEF HeldBy, RealConns
  <1>3. CASE OwnerSame(l)
    BY <1>1, <1>3 DEF HeldBy, OwnerSame, IsConnected, IsIncoming, IsClosing
  <1>4. CASE OwnerCloses(l)
    BY <1>4, <1>2 DEF HeldBy, OwnerCloses, IsConnected, IsIncoming, IsClosing
  <1>5. ~OwnerTurned(l)
    BY DEF LetGo, OwnerTurned, Turns
  <1>6. ~OwnerTaken(l) /\ ~OwnerStarts(l) /\ ~OwnerAnswered(l)
    BY <1>2 DEF OwnerTaken, OwnerStarts, OwnerAnswered, NotAgain
  <1>7. ~OwnerListed(l)
    BY <1>2 DEF OwnerListed, LetGo, HeldBy, MissedIncoming
  <1> QED BY <1>1, <1>3, <1>4, <1>5, <1>6, <1>7 DEF OwnerStep

LEMMA OwnersAfter ==
  ASSUME TypeInv, Dialogue, View, OnceInv, Sketch \/ Driver,
         NEW l \in Links, NEW c \in Conns, Claimed(l, c)
  PROVE  Claimed(l, c)'
  <1>1. /\ c \in RealConns /\ c \in Int /\ c # NoConn /\ c <= lastConn
        /\ Older(l, c) /\ NotAgain(l, c) /\ StillOpen(l, c) /\ StillListed(l, c) /\ StillRead(l, c)
    BY DEF Claimed, RealConns, Conns
  <1>2. CallOK /\ call \in Calls /\ NoLink \notin Links
    BY TypeInvParts, ConstantFacts DEF SketchOK
  <1>3. (Still \/ Heard) /\ UNCHANGED <<open, lastConn>>
    BY SketchWire, RxWire, BodyWire DEF Driver, Begins, Resumes, Still, Heard
  <1>4. ASSUME Still, Listing PROVE FALSE
    <2>1. Heard => FALSE
      BY <1>4, HeardMoves DEF Still
    <2> QED BY <1>4, <2>1, SketchWire, RxWire, BodyWire DEF Driver, Begins, Resumes, Listing
  <1>5. ASSUME NEW i \in Wire'
        PROVE  \/ Still /\ i \in Wire /\ uart'[i] = uart[i]
               \/ Heard /\ i + 1 \in Wire /\ uart'[i] = uart[i + 1]
    BY <1>3, <1>5, HeardWire DEF Still, Wire
  <1>6. \A i \in Wire' : \E j \in Wire : uart'[i] = uart[j]
    BY <1>5
  <1>7. ASSUME NEW list, ReadList(list), Listing
        PROVE  \A i \in Wire : ~IsList(uart[i])
    <2>1. 1 \in Wire /\ uart[1].t = "OK"
      BY <1>7 DEF Dialogue, ListEnds
    <2>2. ASSUME NEW i \in Wire PROVE ~IsList(uart[i])
      <3>1. CASE i = 1
        BY <2>1, <3>1 DEF IsList
      <3>2. CASE i # 1
        <4>1. 1 < i
          BY <3>2, WireFacts
        <4> QED BY <2>1, <4>1 DEF Dialogue, EndsLast, Final, IsList, EventTypes
      <3> QED BY <3>1, <3>2
    <2> QED BY <2>2
  <1>8. Older(l, c)'
    <2> SUFFICES ASSUME NEW i \in Wire', Opens(uart'[i], l) \/ (uart'[i].t = "OK" /\ Starting(l)')
                 PROVE  uart'[i].conn > c
      BY DEF Older, Opens, Starting
    <2>1. PICK j \in Wire : uart'[i] = uart[j]
      BY <1>6
    <2>2. Starting(l)' => Starting(l)
      <3> SUFFICES ASSUME Starting(l)' PROVE Starting(l)
        OBVIOUS
      <3>1. uart' # <<>>
        BY DEF Wire
      <3>2. pc = "start" /\ call.link = l
        BY <1>2, <3>1, StartStep, CallLinkStep DEF Starting
      <3> QED BY <3>2 DEF Starting
    <2> QED BY <1>1, <2>1, <2>2 DEF Older
  <1>9. ASSUME NEW list, ReadList(list), list[l] = c
        PROVE  HeldBy(l, c)
    <2>1. CASE Listing /\ list = call.list
      BY <1>1, <1>9, <2>1 DEF StillRead
    <2>2. CASE Heard /\ IsList(Head(uart)) /\ list = Head(uart).conns
      <3>1. 1 \in Wire /\ Head(uart) = uart[1]
        BY <2>2, HeardWire
      <3> QED BY <1>1, <1>9, <2>2, <3>1 DEF StillListed
    <2> QED BY <1>9, <2>1, <2>2 DEF ReadList
  <1>10. NotAgain(l, c)'
    <2> SUFFICES ASSUME IsIncoming(l)' \/ Starting(l)', conn'[l] = c PROVE FALSE
      BY DEF NotAgain, IsIncoming, Starting
    <2>1. ASSUME Heard, Opens(Head(uart), l) \/ (Head(uart).t = "OK" /\ Starting(l)),
                 Head(uart).conn = c
          PROVE  FALSE
      <3>1. 1 \in Wire /\ Head(uart) = uart[1]
        BY <2>1, HeardWire
      <3>2. uart[1].conn > c
        BY <1>1, <2>1, <3>1 DEF Older
      <3> QED BY <1>1, <2>1, <3>1, <3>2
    <2>2. ~OwnerSame(l)
      BY <1>1 DEF OwnerSame, NotAgain, IsIncoming
    <2>3. ~OwnerTurned(l)
      BY <1>1, <2>1 DEF OwnerTurned
    <2>4. ~OwnerTaken(l)
      BY DEF OwnerTaken, IsIncoming, Starting
    <2>5. ~OwnerStarts(l)
      BY <1>1 DEF OwnerStarts
    <2>6. ~OwnerAnswered(l)
      <3> SUFFICES ASSUME OwnerAnswered(l) PROVE FALSE
        OBVIOUS
      <3>1. IsIncoming(l)' /\ Starting(l)
        BY DEF OwnerAnswered, Starting
      <3> QED BY <2>1, <3>1 DEF OwnerAnswered, IsIncoming
    <2>7. ~OwnerCloses(l)
      BY <1>1 DEF OwnerCloses, NotAgain, IsIncoming, Starting
    <2>8. ~OwnerListed(l)
      <3> SUFFICES ASSUME OwnerListed(l) PROVE FALSE
        OBVIOUS
      <3>1. PICK list : /\ ReadList(list)
                        /\ \/ list[l] = NoConn /\ flags'[l] = {}
                           \/ MissedIncoming(list, l) /\ conn'[l] = list[l]
        BY DEF OwnerListed
      <3>2. pc' # "start" /\ ~ClosingUnderWay(l)
        BY DEF OwnerListed
      <3>3. MissedIncoming(list, l) /\ list[l] = c
        BY <3>1, <3>2 DEF IsIncoming, Starting
      <3>4. HeldBy(l, c)
        BY <1>9, <3>1, <3>3
      <3> QED BY <3>2, <3>3, <3>4 DEF MissedIncoming, HeldBy
    <2>9. OwnerStep(l)
      BY DriverOwner
    <2> QED BY <2>2, <2>3, <2>4, <2>5, <2>6, <2>7, <2>8, <2>9 DEF OwnerStep
  <1>11. StillOpen(l, c)'
    <2> SUFFICES ASSUME open[l] = c
                 PROVE  /\ HeldBy(l, c)'
                        /\ \A i \in Wire' : /\ ~Turns(uart'[i], l)
                                            /\ IsList(uart'[i]) => uart'[i].conns[l] = c
                        /\ Listing' => call'.list[l] = c
      BY <1>3 DEF StillOpen, Turns, Opens, Ends, IsList, Listing
    <2>1. /\ HeldBy(l, c)
          /\ \A i \in Wire : /\ ~Turns(uart[i], l)
                             /\ IsList(uart[i]) => uart[i].conns[l] = c
          /\ Listing => call.list[l] = c
      BY <1>1 DEF StillOpen
    <2>2. ~LetGo(l, c)
      <3>1. Heard => 1 \in Wire /\ Head(uart) = uart[1]
        BY HeardWire
      <3> QED BY <2>1, <3>1 DEF LetGo, ReadList
    <2>3. HeldBy(l, c)'
      BY <1>1, <2>1, <2>2, HeldStep
    <2>4. ASSUME Listing' PROVE call'.list[l] = c
      <3>1. Heard /\ (Rx \/ CheckLinksListed \/ ParamsListed)
        BY <2>4, ListingStep, RxWire, WaitsHear DEF CheckLinksListed, ParamsListed
      <3>2. ~Rx
        BY <2>4, RxWire, NotWhileListing DEF Dialogue, Listing
      <3>3. call' = [call EXCEPT !.list = Head(uart).conns] /\ IsList(Head(uart))
        BY <3>1, <3>2 DEF CheckLinksListed, ParamsListed, Matched, Matches, Expected, IsList
      <3>4. 1 \in Wire /\ Head(uart) = uart[1]
        BY <3>1, HeardWire
      <3> QED BY <1>2, <2>1, <3>3, <3>4 DEF Calls
    <2> QED BY <1>6, <2>1, <2>3, <2>4
  <1>12. StillListed(l, c)'
    <2> SUFFICES ASSUME NEW i \in Wire', IsList(uart'[i]), uart'[i].conns[l] = c
                 PROVE  HeldBy(l, c)' /\ \A j \in Wire' : j < i => ~Turns(uart'[j], l)
      BY DEF StillListed, IsList, Turns, Opens, Ends
    <2>1. CASE Still /\ i \in Wire /\ uart'[i] = uart[i]
      <3>1. HeldBy(l, c) /\ \A j \in Wire : j < i => ~Turns(uart[j], l)
        BY <1>1, <2>1 DEF StillListed
      <3>2. ~LetGo(l, c)
        BY <1>4, <2>1, HeardMoves DEF LetGo, ReadList, Still
      <3>3. HeldBy(l, c)'
        BY <1>1, <3>1, <3>2, HeldStep
      <3> QED BY <2>1, <3>1, <3>3 DEF Still, Wire
    <2>2. CASE Heard /\ i + 1 \in Wire /\ uart'[i] = uart[i + 1]
      <3>1. HeldBy(l, c) /\ \A j \in Wire : j < i + 1 => ~Turns(uart[j], l)
        BY <1>1, <2>2 DEF StillListed
      <3>2. 1 \in Wire /\ Head(uart) = uart[1] /\ i \in Nat /\ 1 < i + 1
            /\ \A j \in Wire' : j \in Nat /\ j + 1 \in Wire /\ uart'[j] = uart[j + 1]
        BY <2>2, HeardWire
      <3>3. ~LetGo(l, c)
        <4>1. ~Turns(Head(uart), l)
          BY <3>1, <3>2
        <4>2. ~Listing
          BY <1>7, <2>2 DEF ReadList
        <4>3. ~IsList(Head(uart))
          BY <2>2, <3>2 DEF OnceInv, OneList
        <4> QED BY <4>1, <4>2, <4>3 DEF LetGo, ReadList
      <3>4. HeldBy(l, c)'
        BY <1>1, <3>1, <3>3, HeldStep
      <3>5. \A j \in Wire' : j < i => j + 1 < i + 1
        BY <3>2
      <3> QED BY <3>1, <3>2, <3>4, <3>5
    <2> QED BY <1>5, <2>1, <2>2
  <1>13. StillRead(l, c)'
    <2> SUFFICES ASSUME Listing', call'.list[l] = c PROVE HeldBy(l, c)'
      BY DEF StillRead, Listing
    <2>1. Heard /\ (Rx \/ CheckLinksListed \/ ParamsListed)
      BY ListingStep, RxWire, WaitsHear DEF CheckLinksListed, ParamsListed
    <2>2. ~Rx
      BY RxWire, NotWhileListing DEF Dialogue, Listing
    <2>3. /\ call' = [call EXCEPT !.list = Head(uart).conns]
          /\ IsList(Head(uart)) /\ Head(uart).t = "STATUS" /\ ~Listing
      BY <2>1, <2>2 DEF CheckLinksListed, ParamsListed, Matched, Matches, Expected, IsList, Listing
    <2>4. 1 \in Wire /\ Head(uart) = uart[1] /\ Head(uart).conns[l] = c
      BY <1>2, <2>1, <2>3, HeardWire DEF Calls
    <2>5. HeldBy(l, c)
      BY <1>1, <2>3, <2>4 DEF StillListed
    <2>6. ~LetGo(l, c)
      BY <2>3, <2>4 DEF LetGo, ReadList, Turns, Opens, Ends
    <2> QED BY <1>1, <2>5, <2>6, HeldStep
  <1> QED BY <1>1, <1>3, <1>8, <1>10, <1>11, <1>12, <1>13 DEF Claimed

(* The handle that newClientLinkId() gives out.                              *)
LEMMA NewlyAccepted ==
  ASSUME TypeInv, TypeInv', Dialogue, View, OnceInv, Sketch \/ Driver,
         NEW l \in Links, NEW c \in Conns, AcceptedHere(l, c)', ~AcceptedHere(l, c)
  PROVE  Claimed(l, c)'
  <1>1. LinkInfoOK /\ lastConn \in Conns
    BY TypeInvParts DEF FwTypeOK
  <1>2. PICK h \in handles' : h.via = "accept" /\ h.link = l /\ h.conn = c
    BY DEF AcceptedHere
  <1>3. h \notin handles
    BY <1>2 DEF AcceptedHere
  <1>4. NewClientLinkId \/ ConnectDone
    BY <1>3, RxWire
       DEF Driver, Body, CheckFails, ConnectStart, ConnectFails, CloseStart, CloseModeDone,
         CloseDone, Known, SyncLinkInfo, CheckLinksListed, CheckLinks,
         RecvLenStart, RecvLenQuery, SyncDone, RecvNothing, RecvStart, RecvData, RecvTruncated,
         RecvFails, RecvDone, SendStart, SendPayload, SendReceived, SendDone, ParamsStart,
         ParamsListed, ParamsDone, ResetStart, ResetReady, ResetDone, CommandFails, Refused,
         Sketch, EnterAny, Enter, LocalPortQuery
  <1>5. ~ConnectDone
    BY <1>2, <1>3 DEF ConnectDone, HandleOf
  <1>6. /\ Drained("newClientLinkId") /\ pc' = "idle" /\ conn' = conn
        /\ \E k \in Links : /\ IsIncoming(k) /\ ~IsClosing(k) /\ SetFlags(k, Taken(flags[k]))
                            /\ h = HandleOf(k, "accept")
    BY <1>3, <1>4, <1>5 DEF NewClientLinkId, Return
  <1>7. /\ IsIncoming(l) /\ ~IsClosing(l) /\ SetFlags(l, Taken(flags[l])) /\ conn[l] = c
        /\ conn'[l] = c
    BY <1>2, <1>6 DEF HandleOf
  <1>8. uart' = <<>> /\ UNCHANGED <<open, lastConn>> /\ pc = "drain"
    BY <1>6 DEF Drained, FwUnchanged
  <1>9. IsConnected(l) /\ c # NoConn /\ c <= lastConn
    <2>1. IsConnected(l) /\ ~Starting(l)
      BY <1>7, <1>8 DEF OnceInv, IncomingConnected, Starting
    <2>2. c # NoConn
      BY <1>7, <2>1 DEF View, Named
    <2> QED BY <1>7, <2>1, <2>2 DEF View, EntryView, Holds
  <1>10. flags'[l] = flags[l] \ {"INCOMING"}
    BY <1>1, <1>7 DEF SetFlags, Taken, LinkInfoOK
  <1>11. HeldBy(l, c)'
    BY <1>7, <1>9, <1>10 DEF HeldBy, IsConnected, IsIncoming, IsClosing
  <1>12. Wire' = {}
    BY <1>8 DEF Wire
  <1>13. NotAgain(l, c)'
    BY <1>6, <1>10 DEF NotAgain, IsIncoming, Starting
  <1>14. ~Listing'
    BY <1>6 DEF Listing
  <1> QED BY <1>8, <1>9, <1>11, <1>12, <1>13, <1>14
          DEF Claimed, RealConns, Older, StillOpen, StillListed, StillRead

LEMMA DriverOnce ==
  ASSUME TypeInv, TypeInv', Dialogue, View, OnceInv, Sketch \/ Driver
  PROVE  OnceInv'
  <1>1. OneList'
    <2>1. Still \/ Heard
      BY SketchWire, RxWire, BodyWire DEF Driver, Begins, Resumes
    <2>2. CASE Still
      BY <2>2 DEF OnceInv, OneList, Still, Wire, IsList
    <2>3. CASE Heard
      <3> SUFFICES ASSUME NEW i \in Wire', NEW j \in Wire', i < j, IsList(uart'[i]), IsList(uart'[j])
                   PROVE  FALSE
        BY DEF OneList, IsList
      <3>1. /\ i \in Int /\ j \in Int /\ i + 1 \in Wire /\ j + 1 \in Wire
            /\ uart'[i] = uart[i + 1] /\ uart'[j] = uart[j + 1]
        BY <2>3, HeardWire
      <3>2. i + 1 < j + 1
        BY <3>1
      <3> QED BY <3>1, <3>2 DEF OnceInv, OneList
    <2> QED BY <2>1, <2>2, <2>3
  <1>2. IncomingConnected'
    <2> SUFFICES ASSUME NEW l \in Links, IsIncoming(l)' PROVE IsConnected(l)'
      BY DEF IncomingConnected, IsIncoming, IsConnected
    <2>1. OwnerStep(l) /\ (IsIncoming(l) => IsConnected(l))
      BY DriverOwner DEF OnceInv, IncomingConnected
    <2> QED BY <2>1 DEF OwnerStep, OwnerSame, OwnerTurned, OwnerTaken, OwnerStarts, OwnerAnswered,
              OwnerCloses, OwnerListed, IsIncoming, IsConnected
  <1>3. ASSUME NEW l \in Links, NEW c \in Conns, AcceptedHere(l, c)'
        PROVE  Claimed(l, c)'
    BY <1>3, OwnersAfter, NewlyAccepted DEF OnceInv
  <1> QED BY <1>1, <1>2, <1>3 DEF OnceInv

LEMMA NextOnce ==
  ASSUME TypeInv, WireInv, OnceInv, [Next]_vars
  PROVE  OnceInv'
  <1>1. TypeInv' /\ Dialogue /\ View
    BY NextTypeInv DEF WireInv
  <1>2. CASE Sketch \/ Driver
    BY <1>1, <1>2, DriverOnce
  <1>3. CASE FwNext /\ UNCHANGED drvVars
    BY <1>1, <1>3, FirmwareOnce
  <1>4. CASE UNCHANGED vars
    BY <1>4 DEF vars, fwVars, drvVars, linkVars, OnceInv, OneList, IncomingConnected, AcceptedHere,
         Claimed, Older, NotAgain, StillOpen, StillListed, StillRead, HeldBy, ClosingUnderWay,
         Wire, Listing, IsList, Turns, Opens, Ends, IsConnected, IsIncoming, IsClosing, Starting
  <1> QED BY <1>2, <1>3, <1>4 DEF Next

LEMMA InitOnce == Init => OnceInv
  <1> SUFFICES ASSUME Init PROVE OnceInv
    OBVIOUS
  <1>1. Wire = {} /\ handles = {} /\ \A l \in Links : ~IsIncoming(l)
    BY DEF Init, FwInit, Wire, IsIncoming
  <1> QED BY <1>1 DEF OnceInv, OneList, IncomingConnected, AcceptedHere

(* No connection is accepted twice: a link that newClientLinkId() would hand *)
(* out does not carry a connection it handed out before, whatever events     *)
(* were lost and however often the serialId bits wrapped around.             *)
THEOREM NothingAcceptedTwice == Spec => []AcceptedOnce
  <1>1. TypeInv /\ OnceInv => AcceptedOnce
    <2> SUFFICES ASSUME TypeInv, OnceInv, NEW h \in handles, h.via = "accept", IsIncoming(h.link)
                 PROVE  conn[h.link] # h.conn
      BY DEF AcceptedOnce
    <2>1. h.link \in Links /\ h.conn \in Conns
      BY TypeInvParts, HandleFields DEF SketchOK
    <2>2. AcceptedHere(h.link, h.conn)
      BY DEF AcceptedHere
    <2> QED BY <2>1, <2>2 DEF OnceInv, Claimed, NotAgain
  <1>2. TypeInv /\ WireInv /\ OnceInv /\ [Next]_vars => OnceInv'
    BY NextOnce
  <1>3. Spec => [](TypeInv /\ WireInv)
    BY SpecWireInv, PTL
  <1> QED BY <1>1, <1>2, <1>3, InitOnce, PTL DEF Spec
=============================================================================
