----------------------------- MODULE AtFirmware -----------------------------
(***************************************************************************)
(* The ESP AT firmware and the serial line, seen from the library.  This    *)
(* code is not in the repository: the module says only what                 *)
(* utility/EspAtDrv.cpp relies on, and is marked external in the map.       *)
(*                                                                          *)
(* The firmware keeps a table of links.  A link carries at most one TCP     *)
(* connection or UDP endpoint.  Peers connect, send and hang up on their    *)
(* own; the host sends one command at a time.  Everything the firmware      *)
(* says, answers and unsolicited events alike, goes through one FIFO (the   *)
(* host's serial receive buffer).                                           *)
(*                                                                          *)
(* Connections are numbered 1, 2, ... so that properties can tell two       *)
(* connections on one link apart.  The number travels in the messages as a  *)
(* ghost: the real messages carry only the link, and EspAtDrv.tla uses it   *)
(* only to record what its own tables stand for.                            *)
(***************************************************************************)
EXTENDS Integers, Sequences, FiniteSets

CONSTANTS
  Links,    \* the link ids, 0 .. LINKS_COUNT-1 in the code
  Builds,   \* the builds of the library considered
  Kinds,    \* what the sketch opens: a subset of {"TCP", "UDP"}
  MaxConn,  \* bound: connections over the whole behaviour
  MaxData,  \* bound: unread data the firmware holds for a link
  MaxUart   \* bound: no event is produced while this much waits in the FIFO

ASSUME LinksAssumption == Links \subseteq Nat /\ IsFiniteSet(Links) /\ Links # {}
ASSUME BuildsAssumption == Builds \subseteq [at1 : BOOLEAN, polling : BOOLEAN]
ASSUME KindsAssumption == Kinds \subseteq {"TCP", "UDP"}
ASSUME BoundsAssumption == MaxConn \in Nat /\ MaxData \in Nat \ {0} /\ MaxUart \in Nat

VARIABLES
  build,     \* chosen once: at1 is WIFIESPAT1 (firmware 1.7, else firmware 2),
             \* polling is the absence of ESPATDRV_ASSUME_FLOW_CONTROL
  open,      \* open[l]: the connection on link l, 0 if there is none
  endpoint,  \* the links that carry a UDP endpoint of the host
  unread,    \* unread[l]: data received for l and not yet read by the host
  uart,      \* firmware to host: the messages not yet read by the driver
  request,   \* host to firmware: the command the firmware has to execute
  lastConn,  \* ghost: number of the latest connection
  missed,    \* ghost: an event was lost since the firmware last listed its links
  reliable   \* ghost: no event was lost so far, and the firmware did not restart

ghosts == <<missed, reliable>>
fwVars == <<build, open, endpoint, unread, uart, request, lastConn, missed, reliable>>

AT1 == build.at1
Polling == build.polling

NoConn == 0
Conns == 0 .. MaxConn

NoLink == -1  \* NO_LINK, 255 in the code

----------------------------------------------------------------------------
(* Messages to the host. *)

EventTypes == {"CONNECT", "CLOSED", "IPD"}

Event(type, link, conn, len) ==
  [t |-> type, link |-> link, conn |-> conn, len |-> len]

OK == [t |-> "OK", conn |-> NoConn]
Started(c) == [t |-> "OK", conn |-> c]  \* the OK of CIPSTART; c is a ghost
ERROR == [t |-> "ERROR"]
UNLINK == [t |-> "UNLINK"]  \* the line UNLINK and the ERROR that follows it
PROMPT == [t |-> ">"]
RECV == [t |-> "Recv "]
SEND(ok) == [t |-> "SEND ", ok |-> ok]
READY == [t |-> "ready"]
CIPSTATUS == [t |-> "STATUS", conns |-> open]
CIPRECVLEN == [t |-> "+CIPRECVLEN", conns |-> open, lens |-> unread]
CIPRECVDATA(n) == [t |-> "+CIPRECVDATA", len |-> n]

Messages ==
       [t : EventTypes, link : Links, conn : Conns, len : 0 .. MaxData]
  \cup [t : {"OK"}, conn : Conns]
  \cup [t : {"ERROR", "UNLINK", ">", "Recv ", "ready"}]
  \cup [t : {"SEND "}, ok : BOOLEAN]
  \cup [t : {"STATUS"}, conns : [Links -> Conns]]
  \cup [t : {"+CIPRECVLEN"}, conns : [Links -> Conns], lens : [Links -> 0 .. MaxData]]
  \cup [t : {"+CIPRECVDATA"}, len : 0 .. MaxData]

(* Commands to the firmware; owner is a ghost, the connection that the      *)
(* handle the host acts for was given out for.                              *)
Commands == {"CIPSTART", "CIPCLOSEMODE", "CIPCLOSE", "CIPSTATUS", "CIPRECVLEN",
             "CIPRECVDATA", "CIPSEND", "payload", "RST", "setup"}

Command(c, link, kind, size, owner) ==
  [cmd |-> c, link |-> link, kind |-> kind, size |-> size, owner |-> owner]

NoRequest == Command("none", NoLink, "TCP", 0, NoConn)

Requests == [cmd : Commands \cup {"none"}, link : Links \cup {NoLink},
             kind : {"TCP", "UDP"}, size : 0 .. MaxData, owner : Conns]

FwTypeOK ==
  /\ build \in Builds
  /\ open \in [Links -> Conns]
  /\ endpoint \subseteq Links
  /\ unread \in [Links -> 0 .. MaxData]
  /\ uart \in Seq(Messages)
  /\ request \in Requests
  /\ lastConn \in Conns
  /\ missed \in BOOLEAN
  /\ reliable \in BOOLEAN

FwInit ==
  /\ build \in Builds
  /\ open = [l \in Links |-> NoConn]
  /\ endpoint = {}
  /\ unread = [l \in Links |-> 0]
  /\ uart = <<>>
  /\ request = NoRequest
  /\ lastConn = 0
  /\ missed = FALSE
  /\ reliable = TRUE

----------------------------------------------------------------------------
(* What happens on the network.  The host is told by an event, which can be  *)
(* lost in a serial buffer overflow.                                        *)

Lose == missed' = TRUE /\ reliable' = FALSE

Notify(m) ==
  /\ Len(uart) < MaxUart
  /\ \/ uart' = Append(uart, m) /\ UNCHANGED ghosts
     \/ Lose /\ UNCHANGED uart

(* A peer connects to the server; the firmware picks the link. *)
PeerConnects(l) ==
  /\ open[l] = NoConn /\ unread[l] = 0
  /\ lastConn < MaxConn
  /\ lastConn' = lastConn + 1
  /\ open' = [open EXCEPT ![l] = lastConn + 1]
  /\ Notify(Event("CONNECT", l, lastConn + 1, 0))
  /\ UNCHANGED <<endpoint, unread, request>>

(* Data arrive and are kept until read; +IPD tells the total that waits.    *)
(* AT1 has no passive mode for UDP and pushes the datagram in the event.    *)
DataArrives(l) ==
  /\ open[l] # NoConn
  /\ IF AT1 /\ l \in endpoint
       THEN /\ Notify(Event("IPD", l, open[l], 1))
            /\ UNCHANGED unread
       ELSE /\ unread[l] < MaxData
            /\ unread' = [unread EXCEPT ![l] = @ + 1]
            /\ Notify(Event("IPD", l, open[l], unread[l] + 1))
  /\ UNCHANGED <<open, endpoint, request, lastConn>>

(* The peer closes.  AT2 sends CLOSED only after all data are read; AT1     *)
(* sends it at once and keeps the unread data.                              *)
PeerCloses(l) ==
  /\ open[l] # NoConn /\ l \notin endpoint
  /\ AT1 \/ unread[l] = 0
  /\ open' = [open EXCEPT ![l] = NoConn]
  /\ Notify(Event("CLOSED", l, open[l], 0))
  /\ UNCHANGED <<endpoint, unread, request, lastConn>>

----------------------------------------------------------------------------
(* Execution of the host's command: the effect and the whole answer.        *)

Executing(c) == request.cmd = c

Answer(msgs) ==
  /\ uart' = uart \o msgs
  /\ request' = NoRequest

ExecStart ==
  LET l == request.link IN
  /\ Executing("CIPSTART")
  /\ \/ /\ open[l] = NoConn /\ unread[l] = 0
        /\ lastConn < MaxConn
        /\ lastConn' = lastConn + 1
        /\ open' = [open EXCEPT ![l] = lastConn + 1]
        /\ endpoint' = IF request.kind = "UDP" THEN endpoint \cup {l} ELSE endpoint
        /\ Answer(<<Event("CONNECT", l, lastConn + 1, 0), Started(lastConn + 1)>>)
     \/ /\ Answer(IF open[l] = NoConn
                    THEN <<Event("CLOSED", l, NoConn, 0), ERROR>>  \* "n,CONNECT FAIL"
                    ELSE <<ERROR>>)                                \* the link is taken
        /\ UNCHANGED <<open, endpoint, lastConn>>
  /\ UNCHANGED <<unread, ghosts>>

ExecClose ==
  LET l == request.link IN
  /\ Executing("CIPCLOSE")
  /\ IF open[l] = NoConn
       THEN /\ Answer(IF AT1 THEN <<UNLINK>> ELSE <<ERROR>>)
            /\ UNCHANGED <<open, endpoint, unread, ghosts>>
       ELSE /\ open' = [open EXCEPT ![l] = NoConn]
            /\ endpoint' = endpoint \ {l}
            /\ unread' = [unread EXCEPT ![l] = 0]
            /\ \/ Answer(<<Event("CLOSED", l, open[l], 0), OK>>) /\ UNCHANGED ghosts
               \/ Answer(<<OK>>) /\ Lose
  /\ UNCHANGED lastConn

ExecRecvData ==
  LET l == request.link
      n == IF request.size < unread[l] THEN request.size ELSE unread[l]
  IN
  /\ Executing("CIPRECVDATA")
  /\ unread' = [unread EXCEPT ![l] = @ - n]
  /\ Answer(IF n = 0 THEN <<ERROR>> ELSE <<CIPRECVDATA(n), OK>>)
  /\ UNCHANGED <<open, endpoint, lastConn, ghosts>>

ExecSend ==
  /\ Executing("CIPSEND")
  /\ Answer(IF open[request.link] = NoConn THEN <<ERROR>> ELSE <<PROMPT>>)
  /\ UNCHANGED <<open, endpoint, unread, lastConn, ghosts>>

ExecPayload ==
  /\ Executing("payload")
  /\ \E ok \in BOOLEAN :
       /\ ok => open[request.link] # NoConn
       /\ Answer(<<RECV, SEND(ok)>>)
  /\ UNCHANGED <<open, endpoint, unread, lastConn, ghosts>>

ExecStatus ==
  /\ Executing("CIPSTATUS")
  /\ Answer(<<CIPSTATUS, OK>>)
  /\ missed' = FALSE
  /\ UNCHANGED <<reliable, open, endpoint, unread, lastConn>>

ExecRecvLen ==
  /\ Executing("CIPRECVLEN")
  /\ Answer(<<CIPRECVLEN, OK>>)
  /\ missed' = IF AT1 THEN missed ELSE FALSE  \* in AT2 this query lists the links
  /\ UNCHANGED <<reliable, open, endpoint, unread, lastConn>>

(* CIPCLOSEMODE and the set-up commands of reset(): no effect on the links. *)
ExecOther ==
  /\ request.cmd \in {"CIPCLOSEMODE", "setup"}
  /\ Answer(<<OK>>)
  /\ UNCHANGED <<open, endpoint, unread, lastConn, ghosts>>

(* AT+RST: the firmware restarts; every connection is gone without a CLOSED. *)
ExecReset ==
  /\ Executing("RST")
  /\ open' = [l \in Links |-> NoConn]
  /\ endpoint' = {}
  /\ unread' = [l \in Links |-> 0]
  /\ Answer(<<READY>>)
  /\ Lose
  /\ UNCHANGED lastConn

Execute ==
  \/ ExecStart \/ ExecClose \/ ExecRecvData \/ ExecSend \/ ExecPayload
  \/ ExecStatus \/ ExecRecvLen \/ ExecOther \/ ExecReset

Network == \E l \in Links : PeerConnects(l) \/ DataArrives(l) \/ PeerCloses(l)

FwNext == (Network \/ Execute) /\ UNCHANGED build
=============================================================================
