-------------------------------- MODULE Ble --------------------------------
(***************************************************************************)
(* The BLE manager of BLE.cpp: the table of connections, the scan, and the  *)
(* callback unsolicitedMessage, which readRX runs on every line it reads,   *)
(* before it looks whether the line is the answer the driver waits for.     *)
(*                                                                          *)
(* The firmware is external: it has connections and a scan of its own, and  *)
(* tells of them in lines that the host reads in order; some may be lost.   *)
(* Of a wait of the driver the manager sees that it ends with the expected  *)
(* answer, with ERROR, with a line that the callback claims, or in silence  *)
(* (AtCommand.tla has the details).                                         *)
(***************************************************************************)
EXTENDS Integers, Sequences, FiniteSets

CONSTANTS
  MAX_BLE_CONNECTIONS,
  Addresses,      \* BD_ADDR
  Objects,        \* bound: BLEConnection objects
  Roles,          \* the roles begin() may have been called with
  MaxLines        \* bound: lines not yet read

ASSUME ConnectionsAssumption == MAX_BLE_CONNECTIONS \in Nat
ASSUME ObjectsAssumption == 1 .. MAX_BLE_CONNECTIONS \subseteq Objects /\ Objects \subseteq Nat \ {0}
ASSUME BoundsAssumption == MaxLines \in Nat

VARIABLES
  bleConnections, \* the object in each slot, or NULL
  heap,           \* the live objects
  scanline,       \* 0, or of how many rows the scan result is whose first was the last line
  role,
  call,           \* the call that is running and its command
  lines,          \* from the firmware, not yet read
  fw,             \* the firmware: its connections, and the command it works on
  owed,           \* ghost: scan results not lost and not yet given to the sketch
  held,           \* ghost: objects the sketch got from getBleConnection
  intact,         \* ghost: no line about a slot was lost
  fault           \* ghost: what went wrong in memory; the program stops there

table == <<bleConnections, heap>>
scan == <<scanline, owed>>
vars == <<table, scan, role, call, lines, fw, held, intact, fault>>

Indexes == 0 .. MAX_BLE_CONNECTIONS - 1
NULL == 0
Unset == "unset"   \* remote_address before setAddress, and no connection
NoCall == [name |-> "none", step |-> 0, index |-> 0]

Line(t, i, a) == [t |-> t, i |-> i, address |-> a]
\* "claimed" stands for +BLESCANDONE and the lines about GATT services; "cut service" for one
\* of those that the 64 bytes of the driver's buffer have cut, whose rest is a line of its own.
Answer(t) == Line(t, 0, Unset)
AboutSlot(l) == l.t \in {"+BLECONN", "+BLEDISCONN"}
Object(i, a) == [conn_index |-> i, remote_address |-> a]

Init ==
  /\ bleConnections = [i \in Indexes |-> NULL]
  /\ heap = [o \in {} |-> Object(0, Unset)]
  /\ scanline = 0 /\ owed = 0
  /\ role \in Roles
  /\ call = NoCall
  /\ lines = <<>>
  /\ fw = [link |-> [i \in Indexes |-> Unset], command |-> Answer("none")]
  /\ held = {} /\ intact = TRUE /\ fault = "none"

----------------------------------------------------------------------------
(* The firmware. *)

Says(new) == lines' = lines \o new /\ Len(lines') <= MaxLines
Linked(i) == fw.link[i] # Unset

PeerConnects(i, a) ==
  /\ ~Linked(i) /\ a \notin {fw.link[j] : j \in Indexes}
  /\ fw' = [fw EXCEPT !.link[i] = a] /\ Says(<<Line("+BLECONN", i, a)>>) /\ UNCHANGED owed

PeerLeaves(i) ==
  /\ Linked(i)
  /\ fw' = [fw EXCEPT !.link[i] = Unset] /\ Says(<<Line("+BLEDISCONN", i, Unset)>>)
  /\ UNCHANGED owed

(* A scan result is cut in rows, by the 64 bytes of the driver's buffer; a   *)
(* third row may come on top of MaxLines.                                    *)
ScanResult(rows) ==
  /\ Len(lines) + rows <= MaxLines + 1 /\ Len(lines) < MaxLines
  /\ lines' = lines \o <<Line("+BLESCAN", rows, Unset)>>
                    \o [n \in 1 .. rows - 1 |-> Answer("rest of a result")]
  /\ owed' = owed + 1 /\ UNCHANGED fw

Tells ==
  /\ \/ Says(<<Answer("claimed")>>)
     \/ \E i \in Indexes : Linked(i) /\ Says(<<Line("+BLECFGMTU", i, Unset)>>)
     \/ \E i \in Indexes : Linked(i) /\ Says(<<Line("+BLESETPHY", 0, fw.link[i])>>)
  /\ UNCHANGED <<fw, owed>>

\* The lines of a discovery; with OK they may come one on top of MaxLines.
Services == {<<>>, <<Answer("claimed")>>, <<Answer("cut service"), Answer("rest of a service")>>}

\* The command fails, or has its effect.
Executes ==
  /\ fw.command.t # "none" /\ UNCHANGED owed
  /\ LET c == fw.command
         idle == [fw EXCEPT !.command = Answer("none")]
         Does(new) == Says(new) /\ fw' = idle
     IN  \/ Does(<<Answer("ERROR")>>)
         \/ c.t = "connect" /\ ~Linked(c.i) /\ c.address \notin {fw.link[j] : j \in Indexes}
            /\ fw' = [idle EXCEPT !.link[c.i] = c.address]
            /\ \/ Says(<<Line("+BLECONN", c.i, c.address), Answer("OK")>>)
               \/ Says(<<Answer("OK"), Line("+BLECONN", c.i, c.address)>>)
         \/ c.t = "mtu?" /\ \E i \in Indexes :
              Linked(i) /\ Does(<<Line("+BLECFGMTU", i, Unset), Answer("OK")>>)
         \/ c.t = "name?" /\ Does(<<Answer("+BLENAME"), Answer("OK")>>)
         \/ c.t = "addr?" /\ Does(<<Answer("+BLEADDR"), Answer("OK")>>)
         \/ c.t = "discover" /\ \E services \in Services :
              /\ lines' = lines \o services \o <<Answer("OK")>> /\ Len(lines') <= MaxLines + 1
              /\ fw' = idle
         \/ c.t = "set" /\ Does(<<Answer("OK")>>)

LineLost ==
  /\ lines # <<>> /\ lines' = Tail(lines)
  /\ intact' = (intact /\ ~AboutSlot(Head(lines)))
  /\ owed' = IF Head(lines).t = "+BLESCAN" THEN owed - 1 ELSE owed

Firmware ==
  /\ fault = "none"
  /\ \/ /\ \/ \E i \in Indexes : PeerLeaves(i) \/ \E a \in Addresses : PeerConnects(i, a)
           \/ \E rows \in 1 .. 3 : ScanResult(rows)
           \/ Tells \/ Executes
        /\ UNCHANGED intact
     \/ LineLost /\ UNCHANGED fw
  /\ UNCHANGED <<table, scanline, role, call, held, fault>>

----------------------------------------------------------------------------
(* unsolicitedMessage *)

Without(o) == [x \in DOMAIN heap \ {o} |-> heap[x]]
\* An object that nobody points to any more is not deleted; the model forgets it
\* and may use its number again.
Allocates(i, object) ==
  LET known == DOMAIN heap \cap ({bleConnections[j] : j \in Indexes \ {i}} \cup held)
      o == CHOOSE x \in Objects : x \notin known /\ (i + 1 \notin known => x = i + 1)
  IN  /\ Objects \ known # {}
      /\ heap' = [x \in known \cup {o} |-> IF x = o THEN object ELSE heap[x]]
      /\ bleConnections' = [bleConnections EXCEPT ![i] = o]

Dangling(i) == bleConnections[i] # NULL /\ bleConnections[i] \notin DOMAIN heap

(* +BLECONN always makes a new object.  The one that bleConnect put into    *)
(* the slot is leaked, see Allocates.                                       *)
Connected(l) == Allocates(l.i, Object(l.i, l.address))

\* A bug would be to delete the object and leave the pointer.
DisconnectedKeepsSlot(l) == heap' = Without(bleConnections[l.i]) /\ UNCHANGED bleConnections

Disconnected(l) ==
  /\ heap' = Without(bleConnections[l.i])
  /\ bleConnections' = [bleConnections EXCEPT ![l.i] = NULL]

(* The slots are searched for the address up to the first that matches,     *)
(* the empty ones too.                                                      *)
SearchFails(address) ==
  LET Matches(i) ==
        bleConnections[i] \in DOMAIN heap /\ heap[bleConnections[i]].remote_address = address
  IN  \E i \in Indexes :
        bleConnections[i] \notin DOMAIN heap /\ \A j \in 0 .. i - 1 : ~Matches(j)

(* The result is taken apart at its commas up to the address type, which    *)
(* ends it.  Rows that are not the two of one result may have too few, and  *)
(* the text that is missing is read all the same.                           *)
JoinFaults(l) ==
  IF scanline \in 0 .. 1 \/ (scanline = 2 /\ l.t = "rest of a result") THEN {"none"}
  ELSE {"none", "+BLESCAN"}

\* A bug would be to take a slot that may be empty for occupied.
CallbackFaultUnguarded(l) ==
  CASE l.t = "+BLECFGMTU" /\ bleConnections[l.i] \notin DOMAIN heap -> "+BLECFGMTU"
    [] l.t = "+BLEDISCONN" /\ Dangling(l.i) -> "double delete"
    [] l.t = "+BLESETPHY" /\ SearchFails(l.address) -> "+BLESETPHY"
    [] OTHER -> "none"

\* +BLECFGMTU and +BLEDISCONN use a slot only if it is not empty.
CallbackFault(l) ==
  CASE l.t = "+BLECFGMTU" /\ Dangling(l.i) -> "+BLECFGMTU"
    [] l.t = "+BLEDISCONN" /\ Dangling(l.i) -> "double delete"
    [] l.t = "+BLESETPHY" /\ SearchFails(l.address) -> "+BLESETPHY"
    [] OTHER -> "none"

\* What follows the cut is looked for all the same: a number after a comma, an x.
CutFaults(l) == IF l.t = "cut service" THEN {"none", "+BLEGATT"} ELSE {"none"}

Faults(l) ==
  IF CallbackFault(l) = "none" THEN JoinFaults(l) \cup CutFaults(l) ELSE {CallbackFault(l)}

\* A bug would be to be done with a line that was joined as a second row.
CallbackElse(l) ==
  LET joined == scanline # 0
  IN  /\ owed' = IF joined THEN owed - 1 ELSE owed
      /\ scanline' = IF l.t = "+BLESCAN" /\ ~joined THEN l.i ELSE 0
      /\ \/ ~joined /\ l.t = "+BLECONN" /\ Connected(l)
         \/ ~joined /\ l.t = "+BLEDISCONN" /\ Disconnected(l)
         \/ (joined \/ ~AboutSlot(l)) /\ UNCHANGED table

\* A bug would be to note that the second row has come after the line was looked at.
CallbackResetsLast(l) ==
  /\ owed' = IF scanline # 0 THEN owed - 1 ELSE owed
  /\ scanline' = IF l.t = "+BLESCAN" /\ scanline = 0 THEN l.i ELSE 0
  /\ \/ l.t = "+BLECONN" /\ Connected(l)
     \/ l.t = "+BLEDISCONN" /\ Disconnected(l)
     \/ ~AboutSlot(l) /\ UNCHANGED table

(* The line after +BLESCAN is joined to it, whatever it is, and the result  *)
(* given to the sketch; then the line is treated like any other.  The       *)
(* values in +BLECFGMTU, +BLECONNPARAM (treated the same) and +BLESETPHY    *)
(* and the lists of GATT services are not modelled.                         *)
Callback(l) ==
  /\ owed' = IF scanline # 0 THEN owed - 1 ELSE owed
  /\ scanline' = IF l.t = "+BLESCAN" THEN l.i ELSE 0
  /\ \/ l.t = "+BLECONN" /\ Connected(l)
     \/ l.t = "+BLEDISCONN" /\ Disconnected(l)
     \/ ~AboutSlot(l) /\ UNCHANGED table

\* The callback returns TRUE.
Claims(l) ==
  \/ scanline # 0
  \/ l.t \in {"+BLESCAN", "claimed", "cut service", "+BLECONN", "+BLEDISCONN", "+BLESETPHY"}
  \/ l.t = "+BLECFGMTU" /\ bleConnections[l.i] # NULL

----------------------------------------------------------------------------
(* The calls of the manager. *)

Idle == call = NoCall /\ fault = "none"
In(name, step) == call.name = name /\ call.step = step

\* A command that comes while the firmware works on another one is dropped.
SendCommand(c) == fw' = IF fw.command.t = "none" THEN [fw EXCEPT !.command = c] ELSE fw

Enter(name, c) ==
  /\ Idle
  /\ call' = [name |-> name, step |-> 1, index |-> 0] /\ SendCommand(c)
  /\ UNCHANGED <<scan, role, lines, held, intact, fault>>

\* begin() again, setPublicBdAddr, setDeviceName, stopScan, stopAdvertising
Simple == Enter("simple", Answer("set")) /\ UNCHANGED table

\* A call that uses an object that is not there, before it has sent anything
Misuses(name) == Idle /\ fault' = name /\ UNCHANGED <<table, scan, role, call, lines, fw, held, intact>>

\* The parameters of the connection in the slot are sent, or its MTU set and sent; the slot may
\* be empty, also when it was not when the sketch looked.
UpdateConnection(i) == IF bleConnections[i] \notin DOMAIN heap THEN Misuses("updateConnection") ELSE Simple
SetMtu(i) == IF bleConnections[i] \notin DOMAIN heap THEN Misuses("mtu(i, size)") ELSE Simple

(* The scan parameters, then the scan, whatever became of the parameters;   *)
(* advertising parameters, data and start, up to the first that fails.      *)
StartScan == Enter("several", Answer("set")) /\ UNCHANGED table
StartAdvertising == Enter("several", Answer("set")) /\ UNCHANGED table

\* A bug would be not to initialise the new object.
BleConnectUninitialised(i, a) ==
  /\ Enter("bleConnect", Line("connect", i, a))
  /\ \/ bleConnections[i] # NULL /\ UNCHANGED table
     \/ bleConnections[i] = NULL /\ Allocates(i, Object(-1, Unset))

\* The index is what the sketch says; the new object has no address yet.
BleConnect(i, a) ==
  /\ Enter("bleConnect", Line("connect", i, a))
  /\ \/ bleConnections[i] # NULL /\ UNCHANGED table
     \/ bleConnections[i] = NULL /\ Allocates(i, Object(0, Unset))

Mtu == Enter("mtu", Answer("mtu?")) /\ UNCHANGED table
GetDeviceName == Enter("getDeviceName", Answer("name?")) /\ UNCHANGED table
GetPublicBdAddr == Enter("getPublicBdAddr", Answer("addr?")) /\ UNCHANGED table

\* discoverCharacteristicsForService and discoverIncludedServices are the same.
DiscoverGATTServices == role = "client" /\ Enter("simple", Answer("discover")) /\ UNCHANGED table

----------------------------------------------------------------------------
(* Waiting for the answer. *)

Expected ==
  CASE In("mtu", 1) -> "+BLECFGMTU"
    [] In("getDeviceName", 1) -> "+BLENAME"
    [] In("getPublicBdAddr", 1) -> "+BLEADDR"
    [] OTHER -> "OK"

Goes(name, step, index) == call' = [name |-> name, step |-> step, index |-> index]
Stays(index) == Goes(call.name, call.step, index) /\ UNCHANGED fw

(* A call ends with its last command, or sends the next; the OK after the   *)
(* name, the address and the MTU, and the OK of bleConnect, are waited for. *)
Continues(index) ==
  \/ call.name \in {"bleConnect", "getDeviceName", "getPublicBdAddr"} /\ Goes("simple", 1, 0) /\ UNCHANGED fw
  \/ In("mtu", 1) /\ Goes("mtu", 2, index) /\ UNCHANGED fw
  \/ call.name = "several" /\ \E name \in {"several", "simple"} :
       Goes(name, 1, 0) /\ SendCommand(Answer("set"))
  \/ (call.name \in {"simple", "several"} \/ In("mtu", 2)) /\ call' = NoCall /\ UNCHANGED fw

(* The driver's getMtuSize(), getName() and getPublicBdAddr() return NULL   *)
(* when they fail, which is used as a string; of the address, NULL + 1 is   *)
(* given to the sketch.  mtu() takes the slot and the size from the text in *)
(* the driver's buffer, after the OK has been read, and uses the slot; in   *)
(* the text of another line the size may be missing.                        *)
FaultsAtEnd(ok, index) ==
  IF In("mtu", 2) THEN
    IF index \notin Indexes THEN {"none", "mtu"}
    ELSE IF bleConnections'[index] = NULL THEN {"mtu"} ELSE {"none"}
  ELSE IF ~ok /\ call.name \in {"mtu", "getDeviceName", "getPublicBdAddr"} THEN {call.name} ELSE {"none"}

\* The slot that the text in the buffer names after line l; -1 if l is long and names none.
Named(l) ==
  IF call.name # "mtu" \/ l.t \in {"OK", "ERROR"} THEN call.index
  ELSE IF l.t = "+BLECFGMTU" THEN l.i ELSE -1

----------------------------------------------------------------------------
(* Reading. *)

Reads == fault = "none" /\ lines # <<>> /\ lines' = Tail(lines)

\* process(), or the maintain() with which calls of the driver begin.
Poll ==
  /\ call = NoCall /\ Reads
  /\ Callback(Head(lines)) /\ fault' \in Faults(Head(lines))
  /\ UNCHANGED <<role, call, fw, held, intact>>

\* A claimed line ends the wait like the expected one.
Ends(l) == Claims(l) \/ l.t \in {Expected, "ERROR"}

Wait ==
  /\ call # NoCall /\ Reads
  /\ LET l == Head(lines)
         ok == l.t # "ERROR" \/ Claims(l)
     IN  /\ Callback(l)
         /\ \/ Faults(l) # {"none"} /\ fault' \in Faults(l) \ {"none"} /\ UNCHANGED <<call, fw>>
            \/ "none" \in Faults(l) /\ ~Ends(l) /\ Stays(Named(l)) /\ UNCHANGED fault
            \/ /\ "none" \in Faults(l) /\ Ends(l)
               /\ Continues(Named(l)) /\ fault' \in FaultsAtEnd(ok, Named(l))
  /\ UNCHANGED <<role, held, intact>>

\* Nothing comes any more, also not as an answer to '?'.
Silence ==
  /\ call # NoCall /\ fault = "none" /\ lines = <<>>
  /\ UNCHANGED <<table, scan, role, lines, held, intact>>
  /\ Continues(call.index) /\ fault' \in FaultsAtEnd(FALSE, call.index)

(* The sketch, if it does what the comments say (DeletingSpec): it gets the *)
(* object of a slot, and deletes it once when it does not need it any more. *)
GetBleConnection(i) ==
  /\ Idle /\ bleConnections[i] \in DOMAIN heap
  /\ held' = held \cup {bleConnections[i]}
  /\ UNCHANGED <<table, scan, role, call, lines, fw, intact, fault>>

Deletes(o) ==
  /\ Idle /\ o \in held /\ held' = held \ {o}
  /\ IF o \in DOMAIN heap THEN heap' = Without(o) /\ UNCHANGED fault
     ELSE fault' = "double delete" /\ UNCHANGED heap
  /\ UNCHANGED <<bleConnections, scan, role, call, lines, fw, intact>>

Manager ==
  \/ \E i \in Indexes, a \in Addresses : BleConnect(i, a)
  \/ \E i \in Indexes : UpdateConnection(i) \/ SetMtu(i)
  \/ DiscoverGATTServices \/ Simple \/ StartScan \/ StartAdvertising
  \/ Mtu \/ GetDeviceName \/ GetPublicBdAddr
  \/ Poll \/ Wait \/ Silence

Sketch == (\E i \in Indexes : GetBleConnection(i)) \/ \E o \in Objects : Deletes(o)

Next == Manager \/ Firmware

Spec == Init /\ [][Next]_vars
DeletingSpec == Init /\ [][Next \/ Sketch]_vars

----------------------------------------------------------------------------
(* Properties. *)

Pending(ts) == {n \in DOMAIN lines : lines[n].t \in ts}
Settled(i) == \A n \in Pending({"+BLECONN", "+BLEDISCONN"}) : lines[n].i # i
Remote(i) == IF bleConnections[i] = NULL THEN Unset ELSE heap[bleConnections[i]].remote_address

TypeOK ==
  /\ DOMAIN heap \subseteq Objects /\ \A o \in DOMAIN heap : heap[o].conn_index \in Indexes
  /\ bleConnections \in [Indexes -> Objects \cup {NULL}]
  /\ scanline \in 0 .. 3
  /\ Len(lines) <= MaxLines + 1

(* Every slot is empty or holds a live object of its own, also after        *)
(* connections that failed, were replaced or ended.                         *)
SlotsLive ==
  /\ \A i \in Indexes : ~Dangling(i)
  /\ \A i, j \in Indexes : bleConnections[i] = bleConnections[j] => i = j \/ bleConnections[i] = NULL

(* When the lines about a slot have been read, and none of them was lost,   *)
(* the table has the address of the peer the firmware is connected to, and  *)
(* none if there is none, although any line may be joined to a scan result  *)
(* before, and end the wait of any call.                                    *)
TableFollowsFirmware ==
  intact /\ fault = "none" => \A i \in Indexes : Settled(i) => Remote(i) = fw.link[i]

(* Every scan result is given to the sketch once: what is owed is what has  *)
(* not been read, and the one that waits for its second row.                *)
ScanResultsOwed == owed = Cardinality(Pending({"+BLESCAN"})) + (IF scanline = 0 THEN 0 ELSE 1)

(* Memory is misused only so: an empty slot in the search for +BLESETPHY,   *)
(* updateConnection(), mtu(i, size) and mtu(); NULL as a string in mtu(),   *)
(* getDeviceName() and getPublicBdAddr(); text that is not there in joined  *)
(* rows and in lines about GATT services that are cut.  +BLECFGMTU and      *)
(* +BLEDISCONN never do, whichever slot they name.                          *)
OnlyKnownFaults ==
  /\ fault \in {"none", "+BLESCAN", "+BLEGATT", "+BLESETPHY", "updateConnection", "mtu(i, size)",
                "mtu", "getDeviceName", "getPublicBdAddr"}
  /\ fault \in {"+BLESETPHY", "updateConnection", "mtu(i, size)"} => \E i \in Indexes : bleConnections[i] = NULL

(* BLE.cpp:115 "When not needed anymore the user must delete it" and 216    *)
(* "User must delete this and the already created connection object".       *)
(* Violated: +BLEDISCONN deletes the object in the slot, too.               *)
DeletedOnce == fault # "double delete"
=============================================================================
