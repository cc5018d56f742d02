------------------------------ MODULE EspAtDrv ------------------------------
(***************************************************************************)
(* utility/EspAtDrv.cpp: the driver's table of links and the blocking calls  *)
(* that use it.                                                             *)
(*                                                                          *)
(* The driver is single threaded: one call runs at a time (variable call)   *)
(* and blocks in readRX() until the firmware's answer arrives; the firmware *)
(* goes on in between.  A call starts with maintain(), which reads the       *)
(* serial line until nothing is available (pc = "drain"); then it checks    *)
(* its handle, sends a command and waits, pc saying for what.  While it     *)
(* drains or waits, readRX() applies every unsolicited event it meets to    *)
(* linkInfo.                                                                *)
(*                                                                          *)
(* A uint8_t linkId of the code, index and serialId bits together, is a     *)
(* handle here: the record of the two fields, with ghosts that remember     *)
(* which connection and which use of the link it was given out for.         *)
(***************************************************************************)
EXTENDS AtFirmware

CONSTANTS
  SERIALS,   \* values of the serialId bits: 32 in the code (uint8_t, steps of 8)
  CallOps    \* bound: the operations the sketch uses in this instance

Ops == {"newClientLinkId", "connect", "close", "abort", "connected", "availData",
        "recvData", "sendData", "remoteParamsQuery", "localPortQuery", "reset"}

ASSUME SerialsAssumption == SERIALS \in Nat \ {0}
ASSUME OpsAssumption == CallOps \subseteq Ops

VARIABLES
  flags,          \* linkInfo[l].flags, as a set of names
  serialId,       \* linkInfo[l].serialId / 8
  available,      \* linkInfo[l].available
  lastErrorCode,
  call,           \* the running call: operation, its handle or link, its argument
  pc,             \* what the running call waits for
  conn,           \* ghost: the connection the entry of a link stands for
  epoch,          \* ghost: how often the serialId of a link was incremented
  handles         \* the handles given out to the layer above, with their ghosts

linkVars == <<flags, serialId, available, conn, epoch>>
drvVars == <<linkVars, lastErrorCode, call, pc, handles>>
vars == <<fwVars, drvVars>>

Flags == {"CONNECTED", "CLOSING", "INCOMING", "UDP_LISTENER"}
Errors == {"NO_ERROR", "LINK_NOT_ACTIVE", "AT_ERROR", "RECEIVE", "SEND", "UDP_BUSY"}
PCs == {"idle", "drain", "start", "closemode", "close", "status", "statusOK",
        "drainSync", "len", "lenOK", "recv", "recvOK", "prompt", "sent", "result",
        "params", "paramsOK", "ready", "setup"}

Handles == [link : Links, serial : 0 .. SERIALS - 1, conn : Conns, epoch : Nat,
            via : {"connect", "accept"}]
NoHandle == [link |-> NoLink, serial |-> 0, conn |-> NoConn, epoch |-> 0, via |-> "none"]

NoList == [l \in Links |-> NoConn]

(* h: the handle the sketch passed; link: the link connect() chose; list:    *)
(* the array ok[] that checkLinks() fills, with the ghosts.                 *)
Call(op, h, kind, size) ==
  [op |-> op, h |-> h, link |-> NoLink, kind |-> kind, size |-> size, list |-> NoList]
NoCall == Call("none", NoHandle, "TCP", 0)
Calls == [op : Ops \cup {"none"}, h : Handles \cup {NoHandle},
          link : Links \cup {NoLink}, kind : {"TCP", "UDP"}, size : 0 .. MaxData,
          list : [Links -> Conns]]

IsConnected(l) == "CONNECTED" \in flags[l]
IsClosing(l) == "CLOSING" \in flags[l]
IsIncoming(l) == "INCOMING" \in flags[l]
IsUdpListener(l) == "UDP_LISTENER" \in flags[l]

(* Wrong: the serialId bits are not compared. *)
ActiveBySlot(h) == IsConnected(h.link)

(* checkLinkId: the link is connected and the serialId bits agree. *)
Active(h) == IsConnected(h.link) /\ serialId[h.link] = h.serial

TypeOK ==
  /\ FwTypeOK
  /\ flags \in [Links -> SUBSET Flags]
  /\ serialId \in [Links -> 0 .. SERIALS - 1]
  /\ available \in [Links -> 0 .. MaxData]
  /\ lastErrorCode \in Errors
  /\ call \in Calls
  /\ pc \in PCs
  /\ conn \in [Links -> Conns]
  /\ epoch \in [Links -> Nat]
  /\ handles \subseteq Handles

Init ==
  /\ FwInit
  /\ flags = [l \in Links |-> {}]
  /\ serialId = [l \in Links |-> 0]
  /\ available = [l \in Links |-> 0]
  /\ lastErrorCode = "NO_ERROR"
  /\ call = NoCall
  /\ pc = "idle"
  /\ conn = [l \in Links |-> NoConn]
  /\ epoch = [l \in Links |-> 0]
  /\ handles = {}

----------------------------------------------------------------------------
(* LinkInfo helpers. *)

(* Wrong: the serialId stays. *)
IncrementSerialIdForgotten(L) ==
  /\ UNCHANGED serialId
  /\ epoch' = [l \in Links |-> IF l \in L THEN epoch[l] + 1 ELSE epoch[l]]

(* uint8_t arithmetic: the bits wrap around. *)
NextSerial(n) == IF n + 1 = SERIALS THEN 0 ELSE n + 1

(* incrementSerialId() of the links in L. *)
IncrementSerialId(L) ==
  /\ serialId' = [l \in Links |-> IF l \in L THEN NextSerial(serialId[l]) ELSE serialId[l]]
  /\ epoch' = [l \in Links |-> IF l \in L THEN epoch[l] + 1 ELSE epoch[l]]

SetFlags(l, f) == flags' = [flags EXCEPT ![l] = f]
SetAvailable(l, n) == available' = [available EXCEPT ![l] = n]
SetConn(l, c) == conn' = [conn EXCEPT ![l] = c]

(* The handle for the present use of link l, which the driver returns. *)
HandleOf(l, via) ==
  [link |-> l, serial |-> serialId'[l], conn |-> conn'[l], epoch |-> epoch'[l], via |-> via]

(* The end of a call and a step to the next command. *)
Return == pc' = "idle" /\ call' = NoCall
Continue(next) == pc' = next /\ UNCHANGED call
Fail(error) == lastErrorCode' = error /\ Return

Send(c, l) == request' = Command(c, l, call.kind, call.size, call.h.conn)

(* The fields a driver step never writes: the network's side. *)
FwUnchanged == UNCHANGED <<build, open, endpoint, unread, lastConn, missed, reliable>>

----------------------------------------------------------------------------
(* readRX(): unsolicited events, in any call that reads. *)

Reading == pc # "idle" /\ uart # <<>>
Receive == uart' = Tail(uart)

RxConnect(m) ==
  LET l == m.link IN
  IF available[l] = 0 /\ (~IsConnected(l) \/ IsClosing(l))
    THEN /\ SetFlags(l, {"CONNECTED", "INCOMING"})
         /\ IncrementSerialId({l})
         /\ SetConn(l, m.conn)
         /\ UNCHANGED <<available, lastErrorCode>>
    ELSE UNCHANGED <<linkVars, lastErrorCode>>  \* ignored

(* Wrong: only the connected bit is cleared. *)
RxClosedKeepsClosing(m) ==
  LET l == m.link IN
  /\ SetFlags(l, flags[l] \ {"CONNECTED"})
  /\ SetConn(l, NoConn)
  /\ IF AT1 THEN UNCHANGED available ELSE SetAvailable(l, 0)
  /\ UNCHANGED <<serialId, epoch, lastErrorCode>>

(* Wrong: a connection nobody accepted yet is left alone. *)
RxClosedSkipsIncoming(m) ==
  LET l == m.link IN
  IF IsIncoming(l)
    THEN UNCHANGED <<linkVars, lastErrorCode>>
    ELSE /\ SetFlags(l, {})
         /\ SetConn(l, NoConn)
         /\ IF AT1 THEN UNCHANGED available ELSE SetAvailable(l, 0)
         /\ UNCHANGED <<serialId, epoch, lastErrorCode>>

RxClosed(m) ==
  LET l == m.link IN
  /\ SetFlags(l, {})
  /\ SetConn(l, NoConn)
  /\ IF AT1 THEN UNCHANGED available ELSE SetAvailable(l, 0)
  /\ UNCHANGED <<serialId, epoch, lastErrorCode>>

(* An AT1 listener's datagram goes to the callback, which can refuse it. *)
RxIpd(m) ==
  LET l == m.link IN
  /\ IF AT1 /\ IsUdpListener(l)
       THEN /\ lastErrorCode' \in {lastErrorCode, "UDP_BUSY"}
            /\ UNCHANGED available
       ELSE /\ SetAvailable(l, m.len)
            /\ UNCHANGED lastErrorCode
  /\ UNCHANGED <<flags, serialId, conn, epoch>>

RxEvent ==
  /\ Reading
  /\ LET m == Head(uart) IN
       \/ m.t = "CONNECT" /\ RxConnect(m)
       \/ m.t = "CLOSED" /\ RxClosed(m)
       \/ m.t = "IPD" /\ RxIpd(m)
  /\ Receive
  /\ FwUnchanged /\ UNCHANGED <<request, call, pc, handles>>

Draining == pc \in {"drain", "drainSync"}

(* The answer each wait is for. *)
Expected ==
  CASE pc \in {"start", "closemode", "close", "statusOK", "lenOK", "recvOK",
               "paramsOK", "setup"} -> {"OK"}
    [] pc \in {"status", "params"} -> {"STATUS"}
    [] pc = "len" -> {"+CIPRECVLEN"}
    [] pc = "recv" -> {"+CIPRECVDATA"}
    [] pc = "prompt" -> {">"}
    [] pc = "sent" -> {"Recv "}
    [] pc = "result" -> {"SEND "}
    [] pc = "ready" -> {"ready"}
    [] OTHER -> {}

(* Wrong: ERROR is skipped like any unexpected line. *)
RxIgnoredWithError ==
  /\ Reading
  /\ Head(uart).t \notin EventTypes \cup Expected
  /\ Receive
  /\ FwUnchanged /\ UNCHANGED <<request, drvVars>>

(* maintain() drops whatever is no event; so does a wait for the lines it   *)
(* did not expect.  ERROR and UNLINK are no such lines unless expected is   *)
(* null or "ready".                                                         *)
RxIgnored ==
  /\ Reading
  /\ LET t == Head(uart).t IN
       /\ t \notin EventTypes \cup Expected
       /\ t \in {"ERROR", "UNLINK"} => Draining \/ pc = "ready"
  /\ Receive
  /\ FwUnchanged /\ UNCHANGED <<request, drvVars>>

(* The wait at stage ends with the message it expected. *)
Matches(stage) == pc = stage /\ uart # <<>> /\ Head(uart).t \in Expected
Matched(stage) == Matches(stage) /\ Receive /\ FwUnchanged

(* The wait at stage ends with ERROR. *)
Refused(stage) ==
  /\ pc = stage /\ uart # <<>>
  /\ Head(uart).t = "ERROR"
  /\ Receive
  /\ FwUnchanged
  /\ UNCHANGED <<request, handles>>

(* UNLINK makes the ERROR behind it count as success. *)
Accepted(stage) ==
  \/ Matched(stage)
  \/ /\ pc = stage /\ uart # <<>>
     /\ Head(uart).t = "UNLINK"
     /\ Receive
     /\ FwUnchanged

----------------------------------------------------------------------------
(* The sketch calls an operation.  maintain() clears lastErrorCode and      *)
(* starts to drain the line.                                                *)

HandleOps == {"close", "abort", "connected", "availData", "recvData", "sendData",
              "remoteParamsQuery"}

Enter(op, h, kind, size) ==
  /\ op \in CallOps
  /\ pc = "idle"
  /\ pc' = "drain"
  /\ call' = Call(op, h, kind, size)
  /\ lastErrorCode' = "NO_ERROR"
  /\ UNCHANGED <<fwVars, linkVars, handles>>

EnterAny ==
  \/ \E op \in {"newClientLinkId", "reset"} : Enter(op, NoHandle, "TCP", 0)
  \/ \E k \in Kinds : Enter("connect", NoHandle, k, 0)
  \/ \E h \in handles :
       \/ \E op \in HandleOps \ {"recvData"} : Enter(op, h, "TCP", 0)
       \/ \E n \in 1 .. MaxData : Enter("recvData", h, "TCP", n)

(* localPortQuery checks the handle before any maintain() and then passes   *)
(* the bare link index on, so that remoteParamsQuery sees serialId bits 0.  *)
LocalPortQuery(h) ==
  /\ "localPortQuery" \in CallOps
  /\ pc = "idle"
  /\ IF Active(h)
       THEN /\ pc' = "drain"
            /\ call' = Call("remoteParamsQuery", [h EXCEPT !.serial = 0], "TCP", 0)
            /\ lastErrorCode' = "NO_ERROR"
       ELSE Fail("LINK_NOT_ACTIVE")
  /\ UNCHANGED <<fwVars, linkVars, handles>>

(* maintain() found nothing more to read; the body of op begins. *)
Drained(op) ==
  /\ pc = "drain" /\ uart = <<>>
  /\ call.op = op
  /\ FwUnchanged /\ UNCHANGED uart

(* checkLinkId() lets the handle of the call pass. *)
Checked(op) == Drained(op) /\ Active(call.h)

CheckFails ==
  /\ \E op \in HandleOps : Drained(op)
  /\ ~Active(call.h)
  /\ Fail("LINK_NOT_ACTIVE")
  /\ UNCHANGED <<request, linkVars, handles>>

----------------------------------------------------------------------------
(* newClientLinkId *)

(* Wrong: the mark stays. *)
TakenStillIncoming(f) == f

(* An accepted link is no longer incoming. *)
Taken(f) == f \ {"INCOMING"}

NewClientLinkId ==
  LET incoming == {l \in Links : IsIncoming(l) /\ ~IsClosing(l)} IN
  /\ Drained("newClientLinkId")
  /\ UNCHANGED <<request, serialId, available, conn, epoch, lastErrorCode>>
  /\ \/ incoming = {} /\ UNCHANGED <<flags, handles>>
     \/ \E l \in incoming :
          /\ \A k \in incoming : l <= k
          /\ SetFlags(l, Taken(flags[l]))
          /\ handles' = handles \cup {HandleOf(l, "accept")}
  /\ Return

----------------------------------------------------------------------------
(* connect: freeLinkId() takes the highest free link, as the firmware gives  *)
(* incoming connections the lowest.  The flags are set before the command.  *)

FreeLinks == {l \in Links : ~IsConnected(l) /\ ~IsClosing(l) /\ available[l] = 0}

ConnectStart ==
  /\ Drained("connect")
  /\ \/ FreeLinks = {} /\ Return /\ UNCHANGED <<request, flags, conn>>
     \/ \E l \in FreeLinks :
          /\ \A k \in FreeLinks : l >= k
          /\ SetFlags(l, {"CONNECTED"})
          /\ SetConn(l, NoConn)
          /\ Send("CIPSTART", l)
          /\ pc' = "start"
          /\ call' = [call EXCEPT !.link = l]
  /\ UNCHANGED <<serialId, available, epoch, lastErrorCode, handles>>

ConnectDone ==
  LET l == call.link IN
  /\ Matched("start")
  /\ SetFlags(l, IF call.kind = "UDP" THEN flags[l] \cup {"UDP_LISTENER"} ELSE flags[l])
  /\ SetConn(l, Head(uart).conn)
  /\ IncrementSerialId({l})
  /\ handles' = handles \cup {HandleOf(l, "connect")}
  /\ Return
  /\ UNCHANGED <<request, available, lastErrorCode>>

ConnectFails ==
  /\ Refused("start")
  /\ SetFlags(call.link, {})
  /\ SetConn(call.link, NoConn)
  /\ Fail("AT_ERROR")
  /\ UNCHANGED <<serialId, available, epoch>>

----------------------------------------------------------------------------
(* close *)

CloseStart ==
  LET l == call.h.link IN
  /\ \/ Checked("close") /\ Send("CIPCLOSE", l) /\ Continue("close")
     \/ Checked("abort") /\ Send("CIPCLOSEMODE", l) /\ Continue("closemode")
  /\ SetAvailable(l, 0)
  /\ SetFlags(l, flags[l] \cup {"CLOSING"})
  /\ UNCHANGED <<serialId, conn, epoch, lastErrorCode, handles>>

(* No second look at the link after CIPCLOSEMODE. *)
CloseModeDone ==
  /\ Matched("closemode")
  /\ Send("CIPCLOSE", call.h.link)
  /\ Continue("close")
  /\ UNCHANGED <<linkVars, lastErrorCode, handles>>

CloseDone ==
  /\ Accepted("close")
  /\ Return
  /\ UNCHANGED <<request, linkVars, lastErrorCode, handles>>

----------------------------------------------------------------------------
(* connected, and availData when it asks nobody: data are known, the link is *)
(* closing, polling is off or less than 500 ms passed since the last sync.   *)

Known ==
  /\ Checked("connected") \/ Checked("availData")
  /\ Return
  /\ UNCHANGED <<request, linkVars, lastErrorCode, handles>>

(* syncLinkInfo: AT1 asks for the links and then for the lengths, AT2 only  *)
(* for the lengths.                                                         *)
SyncLinkInfo ==
  LET l == call.h.link IN
  /\ Polling
  /\ Checked("availData")
  /\ available[l] = 0 /\ ~IsClosing(l)
  /\ IF AT1
       THEN Send("CIPSTATUS", NoLink) /\ Continue("status")
       ELSE Send("CIPRECVLEN", NoLink) /\ Continue("len")
  /\ UNCHANGED <<linkVars, lastErrorCode, handles>>

CheckLinksListed ==
  /\ Matched("status")
  /\ call' = [call EXCEPT !.list = Head(uart).conns]
  /\ pc' = "statusOK"
  /\ UNCHANGED <<request, linkVars, lastErrorCode, handles>>

(* The answer lists link l, which linkInfo does not hold as connected. *)
MissedIncoming(list, l) == list[l] # NoConn /\ (~IsConnected(l) \/ IsClosing(l))

(* Wrong: only the missed connections are looked at. *)
AdoptFlagsOnlyMissed(list) ==
  flags' = [l \in Links |-> IF MissedIncoming(list, l) THEN {"CONNECTED", "INCOMING"}
                            ELSE flags[l]]

AdoptFlags(list) ==
  flags' = [l \in Links |->
              IF list[l] = NoConn THEN {}
              ELSE IF MissedIncoming(list, l) THEN {"CONNECTED", "INCOMING"}
              ELSE flags[l]]

AdoptConns(list) ==
  conn' = [l \in Links |->
             IF list[l] = NoConn THEN NoConn
             ELSE IF MissedIncoming(list, l) THEN list[l]
             ELSE conn[l]]

CheckLinks ==
  LET list == call.list IN
  /\ Matched("statusOK")
  /\ AdoptFlags(list)
  /\ AdoptConns(list)
  /\ IncrementSerialId({l \in Links : MissedIncoming(list, l)})
  /\ Continue("drainSync")
  /\ UNCHANGED <<request, available, lastErrorCode, handles>>

(* recvLenQuery runs maintain() again before it asks. *)
RecvLenStart ==
  /\ pc = "drainSync" /\ uart = <<>>
  /\ Send("CIPRECVLEN", NoLink)
  /\ Continue("len")
  /\ FwUnchanged
  /\ UNCHANGED <<uart, linkVars, lastErrorCode, handles>>

RecvLenQuery ==
  LET m == Head(uart) IN
  /\ Matched("len")
  /\ IF AT1
       THEN /\ available' = m.lens
            /\ UNCHANGED <<flags, conn>>
       ELSE /\ AdoptFlags(m.conns)
            /\ AdoptConns(m.conns)
            /\ available' = [l \in Links |-> IF m.conns[l] = NoConn THEN 0 ELSE m.lens[l]]
  /\ Continue("lenOK")
  /\ UNCHANGED <<request, serialId, epoch, lastErrorCode, handles>>

SyncDone ==
  /\ Matched("lenOK")
  /\ Return
  /\ UNCHANGED <<request, linkVars, lastErrorCode, handles>>

----------------------------------------------------------------------------
(* recvData *)

RecvNothing ==
  /\ Checked("recvData")
  /\ available[call.h.link] = 0
  /\ Return
  /\ UNCHANGED <<request, linkVars, lastErrorCode, handles>>

RecvStart ==
  /\ Checked("recvData")
  /\ available[call.h.link] # 0
  /\ Send("CIPRECVDATA", call.h.link)
  /\ Continue("recv")
  /\ UNCHANGED <<linkVars, lastErrorCode, handles>>

(* Wrong: size_t underflow. *)
RemainingUnchecked(a, n) == a - n

(* Wrong: a read is taken to empty the link. *)
RemainingNone(a, n) == 0

(* What is left of a known bytes after n were read. *)
Remaining(a, n) == IF n > a THEN 0 ELSE a - n

RecvData ==
  LET l == call.h.link
      n == Head(uart).len
  IN
  /\ Matched("recv")
  /\ SetAvailable(l, Remaining(available[l], n))
  /\ Continue("recvOK")
  /\ UNCHANGED <<request, flags, serialId, conn, epoch, lastErrorCode, handles>>

(* Bytes of the data were lost on the line: readBytes() times out. *)
RecvTruncated ==
  /\ Matches("recv")
  /\ Receive
  /\ reliable' = FALSE
  /\ UNCHANGED <<build, open, endpoint, unread, lastConn, missed>>
  /\ SetAvailable(call.h.link, 0)
  /\ Fail("RECEIVE")
  /\ UNCHANGED <<request, flags, serialId, conn, epoch, handles>>

RecvFails ==
  LET l == call.h.link IN
  /\ Refused("recv")
  /\ SetAvailable(l, 0)
  /\ Fail(IF ~AT1 /\ available[l] = 0 THEN "AT_ERROR" ELSE "RECEIVE")
  /\ UNCHANGED <<flags, serialId, conn, epoch>>

RecvDone ==
  /\ Matched("recvOK")
  /\ Return
  /\ UNCHANGED <<request, linkVars, lastErrorCode, handles>>

----------------------------------------------------------------------------
(* sendData, the three variants alike *)

SendStart ==
  /\ Checked("sendData")
  /\ Send("CIPSEND", call.h.link)
  /\ Continue("prompt")
  /\ UNCHANGED <<linkVars, lastErrorCode, handles>>

SendPayload ==
  /\ Matched("prompt")
  /\ Send("payload", call.h.link)
  /\ Continue("sent")
  /\ UNCHANGED <<linkVars, lastErrorCode, handles>>

SendReceived ==
  /\ Matched("sent")
  /\ Continue("result")
  /\ UNCHANGED <<request, linkVars, lastErrorCode, handles>>

SendDone ==
  /\ Matched("result")
  /\ lastErrorCode' = IF Head(uart).ok THEN lastErrorCode ELSE "SEND"
  /\ Return
  /\ UNCHANGED <<request, linkVars, handles>>

----------------------------------------------------------------------------
(* remoteParamsQuery: a link that is not listed loses its flags. *)

ParamsStart ==
  /\ Checked("remoteParamsQuery")
  /\ Send("CIPSTATUS", NoLink)
  /\ Continue("params")
  /\ UNCHANGED <<linkVars, lastErrorCode, handles>>

ParamsListed ==
  /\ Matched("params")
  /\ call' = [call EXCEPT !.list = Head(uart).conns]
  /\ pc' = "paramsOK"
  /\ UNCHANGED <<request, linkVars, lastErrorCode, handles>>

ParamsDone ==
  LET l == call.h.link IN
  /\ Matched("paramsOK")
  /\ IF call.list[l] # NoConn
       THEN Return /\ UNCHANGED <<flags, conn, lastErrorCode>>
       ELSE /\ SetFlags(l, {})
            /\ SetConn(l, NoConn)
            /\ Fail("LINK_NOT_ACTIVE")
  /\ UNCHANGED <<request, serialId, available, epoch, handles>>

----------------------------------------------------------------------------
(* reset: linkInfo is left as it is.  The set-up commands are one round.    *)

ResetStart ==
  /\ Drained("reset")
  /\ Send("RST", NoLink)
  /\ Continue("ready")
  /\ UNCHANGED <<linkVars, lastErrorCode, handles>>

ResetReady ==
  /\ Matched("ready")
  /\ Send("setup", NoLink)
  /\ Continue("setup")
  /\ UNCHANGED <<linkVars, lastErrorCode, handles>>

ResetDone ==
  /\ Matched("setup")
  /\ Return
  /\ UNCHANGED <<request, linkVars, lastErrorCode, handles>>

(* ERROR for a command whose failure changes nothing but the error code:    *)
(* CIPCLOSE (the link stays CLOSING) and CIPSEND.                           *)
CommandFails ==
  /\ Refused("close") \/ Refused("prompt")
  /\ Fail("AT_ERROR")
  /\ UNCHANGED linkVars

----------------------------------------------------------------------------

Rx == RxEvent \/ RxIgnored

Body ==
  \/ CheckFails \/ NewClientLinkId
  \/ ConnectStart \/ ConnectDone \/ ConnectFails
  \/ CloseStart \/ CloseModeDone \/ CloseDone
  \/ Known \/ SyncLinkInfo \/ CheckLinksListed \/ CheckLinks
  \/ RecvLenStart \/ RecvLenQuery \/ SyncDone
  \/ RecvNothing \/ RecvStart \/ RecvData \/ RecvTruncated \/ RecvFails \/ RecvDone
  \/ SendStart \/ SendPayload \/ SendReceived \/ SendDone
  \/ ParamsStart \/ ParamsListed \/ ParamsDone
  \/ ResetStart \/ ResetReady \/ ResetDone
  \/ CommandFails

Driver == Rx \/ Body

Sketch == EnterAny \/ \E h \in handles : LocalPortQuery(h)

Next ==
  \/ Sketch
  \/ Driver
  \/ FwNext /\ UNCHANGED drvVars

Spec == Init /\ [][Next]_vars

(* The firmware executes what it was sent and the blocking call reads on.   *)
FairSpec ==
  /\ Spec
  /\ WF_vars(Driver)
  /\ WF_vars(FwNext /\ Execute /\ UNCHANGED drvVars)

----------------------------------------------------------------------------
(* Properties. *)

(* The driver has read all it was told and no call runs. *)
Quiet == pc = "idle" /\ uart = <<>>

(* connect() has marked the link it is about to use. *)
Starting(l) == pc = "start" /\ call.link = l

(* recvLenQuery of AT2 adopts a connection without a new serialId. *)
AdoptsWithoutSerial == ~AT1 /\ Polling

(* With no event lost, a handle that checkLinkId() lets pass stands for the *)
(* very connection it was given out for, still open in the firmware: no old *)
(* WiFiClient reaches a newer connection on its link.                       *)
HandleMeansConnection ==
  reliable /\ ~AdoptsWithoutSerial /\ Quiet
    => \A h \in handles : Active(h) => open[h.link] = h.conn

(* With no event lost, linkInfo calls no closed link connected, and its     *)
(* available is exactly what the firmware holds: IPD, CIPRECVDATA and close  *)
(* keep the two counts together in whatever order they cross.               *)
AvailableExact ==
  reliable /\ Quiet => \A l \in Links :
             IsConnected(l) => open[l] = conn[l] /\ available[l] = unread[l]

(* With no event lost, close() never leaves a link CLOSING behind: such a   *)
(* link would be neither usable nor free.                                   *)
ClosingEnds == reliable /\ pc = "idle" => \A l \in Links : ~IsClosing(l)

(* No connection is accepted twice: a link that newClientLinkId() would     *)
(* hand out does not carry a connection that it handed out before.          *)
AcceptedOnce ==
  pc = "idle" =>
    \A h \in handles : h.via = "accept" /\ IsIncoming(h.link) => conn[h.link] # h.conn

(* A handle acts on the use of the link it was given out for, as far as the  *)
(* driver was told: once linkInfo has seen the link closed or reused, the    *)
(* old handle is refused for good, unless the serialId bits wrapped around.  *)
HandleNeverRevives ==
  \A h \in handles :
    LET l == h.link IN
    Active(h) /\ epoch[l] < SERIALS /\ ~Starting(l) => h.epoch = epoch[l] /\ h.conn = conn[l]

(* The same for every build but AT2 with polling, where it does not hold.   *)
OldHandleRefused == ~AdoptsWithoutSerial => HandleNeverRevives

(* With no event lost, the driver is never wrong about a link in silence: if  *)
(* the connection an entry stands for is gone from the firmware, the CLOSED  *)
(* that tells so still waits in the line.  A command that hits another       *)
(* connection than its handle's is therefore only ever that race.            *)
ViewBehindWire ==
  \A l \in Links :
    reliable /\ IsConnected(l) /\ conn[l] # NoConn /\ open[l] # conn[l]
      => \E i \in 1 .. Len(uart) : uart[i].t = "CLOSED" /\ uart[i].link = l

(* Polling makes up for lost events: if nothing was lost since the firmware *)
(* answered and all it said is read, then after syncLinkInfo() linkInfo     *)
(* knows exactly the open links and their data.                             *)
SyncRestoresView ==
  [][ pc = "lenOK" /\ pc' = "idle" /\ uart' = <<>> /\ ~missed
      => \A l \in Links :
           /\ IsConnected(l) <=> open[l] # NoConn
           /\ IsConnected(l) => available[l] = unread[l] ]_vars

(* Every call of the driver returns, however the answers and the events     *)
(* interleave.                                                              *)
EveryCallReturns == pc # "idle" ~> pc = "idle"
=============================================================================
