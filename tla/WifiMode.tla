------------------------------ MODULE WifiMode ------------------------------
(***************************************************************************)
(* Wi-Fi modes and what the module keeps in its flash: the part of the       *)
(* driver that turns station and SoftAP on and off, joins and leaves         *)
(* networks, and decides whether the firmware stores what it is told.        *)
(*                                                                          *)
(* The driver caches three things of the firmware: persistent (are settings *)
(* stored?), wifiMode (the mode) and wifiModeDef (the stored mode).  A call   *)
(* is a row of AT commands; each may be carried out, refused, or left        *)
(* without an answer, and the module may restart or change its connection   *)
(* between any two of them.  One step of the driver is the code from one      *)
(* answer to the next.                                                      *)
(***************************************************************************)
EXTENDS Integers

CONSTANTS
  Networks,   \* access points the sketch may join
  MaxFaults   \* bound: commands without an answer, restarts of the module

ASSUME FaultsAssumption == MaxFaults \in Nat

VARIABLES
  at1,          \* the build: AT firmware 1, or 2
  persistent,   \* EspAtDrvClass::persistent
  wifiMode,     \* EspAtDrvClass::wifiMode, as the set of roles that are on
  wifiModeDef,  \* EspAtDrvClass::wifiModeDef
  call,         \* the running call and its locals; when idle, the last one
  fw,           \* the firmware
  faults,       \* ghost: count of faults
  doubt         \* ghost: what has made the caches untrustworthy

drv == <<persistent, wifiMode, wifiModeDef>>
vars == <<at1, persistent, wifiMode, wifiModeDef, call, fw, faults, doubt>>

STA == "STA"
SAP == "SAP"
Modes == SUBSET {STA, SAP}
Unset == {"unset"} \* wifiModeDef == -1

NoAP == "none"
Stored == "stored" \* begin() without a name
ASSUME NetworksAssumption == NoAP \notin Networks /\ Stored \notin Networks

(* Switches: the calls that are setWifiMode and nothing after it. *)
Switches == {"endSoftAP", "wifiOff"}
Ops == {"reset", "sysPersistent", "listAP", "joinAP", "quitAP", "staAutoConnect",
        "staStaticIp", "softApIp", "beginSoftAP"} \cup Switches

Pcs == {"idle", "rst", "setup", "nostore", "cwmode?", "sysstore", "mode", "store", "cwmode",
        "restore", "body", "autoconn", "qstore", "qauto", "qrestore", "cwqap"}

(* The outcomes of a command: OK, ERROR, or no answer. *)
Answers == {"OK", "ERROR", "silence"}

Flash == [mode : Modes, ap : Networks \cup {NoAP}, auto : BOOLEAN, conf : BOOLEAN]
Firmware == [store : BOOLEAN, mode : Modes, wanted : BOOLEAN, up : BOOLEAN, flash : Flash]

Calls == [op : Ops, pc : Pcs, mode : Modes, save : BOOLEAN, orig : Modes, back : BOOLEAN,
          net : Networks \cup {NoAP, Stored}, arg : BOOLEAN, sent : BOOLEAN, ok : BOOLEAN]

Doubts == {"silence", "reset", "store"}

TypeOK ==
  /\ at1 \in BOOLEAN
  /\ persistent \in BOOLEAN
  /\ wifiMode \in Modes
  /\ wifiModeDef \in Modes \cup {Unset}
  /\ call \in Calls
  /\ fw \in Firmware
  /\ faults \in 0 .. MaxFaults
  /\ doubt \subseteq Doubts
  /\ at1 => ~fw.store

----------------------------------------------------------------------------
(* The firmware.  wanted says that the station is to be in a network, up      *)
(* whether it is; conf, that addresses or parameters of the SoftAP were      *)
(* stored.                                                                  *)

Station(b) == [fw EXCEPT !.wanted = b, !.up = b]

(* A restart takes the settings from flash and stores by default. *)
Restarted(f) ==
  [f EXCEPT !.store = ~at1, !.mode = f.flash.mode, !.up = FALSE,
            !.wanted = f.flash.auto /\ f.flash.ap # NoAP]

(* Is what is sent now stored?  AT1 says so in each command (..._CUR), AT2    *)
(* goes by SYSSTORE.                                                        *)
Stores(saved) == IF at1 THEN saved ELSE fw.store

CWMODE(mode, saved) ==
  LET f == [fw EXCEPT !.mode = mode, !.up = @ /\ STA \in mode]
  IN IF Stores(saved) THEN [f EXCEPT !.flash.mode = mode] ELSE f

CWJAP(net) ==
  IF Stores(persistent) /\ net # Stored
  THEN [Station(TRUE) EXCEPT !.flash.ap = net]
  ELSE Station(TRUE)

CWQAP == Station(FALSE)

Settings == IF Stores(persistent) THEN [fw EXCEPT !.flash.conf = TRUE] ELSE fw

SYSSTORE(b) == [fw EXCEPT !.store = b]

CWAUTOCONN(b) == [fw EXCEPT !.flash.auto = b]

(* A command and its answer.  Without an answer nobody knows whether the      *)
(* command arrived.                                                         *)
Exchange(effect, answer) ==
  \/ answer = "OK" /\ fw' = effect /\ UNCHANGED <<faults, doubt>>
  \/ answer = "ERROR" /\ UNCHANGED <<fw, faults, doubt>>
  \/ /\ answer = "silence" /\ faults < MaxFaults
     /\ fw' \in {fw, effect}
     /\ faults' = faults + 1
     /\ doubt' = doubt \cup {"silence"}

(* The network comes and goes. *)
StationUp ==
  /\ ~fw.up /\ fw.wanted /\ STA \in fw.mode
  /\ fw' = [fw EXCEPT !.up = TRUE]

StationDown == fw.up /\ fw' = [fw EXCEPT !.up = FALSE]

(* The module restarts on its own: brown-out, watchdog. *)
SelfRestart ==
  /\ faults < MaxFaults
  /\ fw' = Restarted(fw)
  /\ faults' = faults + 1
  /\ doubt' = doubt \cup {"silence"}
  /\ UNCHANGED <<at1, drv, call>>

Network == (StationUp \/ StationDown) /\ UNCHANGED <<at1, drv, call, faults, doubt>>

----------------------------------------------------------------------------
(* The sketch.  init() comes first: before it there is no serial line. *)

Idle == call.pc = "idle"

Local == [op |-> "reset", pc |-> "rst", mode |-> {}, save |-> FALSE, orig |-> {}, back |-> FALSE,
          net |-> NoAP, arg |-> FALSE, sent |-> FALSE, ok |-> FALSE]

Init ==
  /\ at1 \in BOOLEAN
  /\ persistent = FALSE /\ wifiMode = {} /\ wifiModeDef = Unset
  /\ call = Local
  /\ \E f \in [mode : Modes, ap : Networks \cup {NoAP}, auto : BOOLEAN, conf : {FALSE}] :
       fw = Restarted([store |-> FALSE, mode |-> {}, wanted |-> FALSE, up |-> FALSE, flash |-> f])
  /\ faults = 0 /\ doubt = {}

(* A call that begins with setWifiMode(mode, save). *)
Switching(op, mode, save) == [Local EXCEPT !.op = op, !.pc = "mode", !.mode = mode, !.save = save]

Enter(c) == Idle /\ call' = c /\ UNCHANGED <<at1, drv, fw, faults, doubt>>

Start(op, pc) == Enter([Local EXCEPT !.op = op, !.pc = pc])
ListAP == Enter(Switching("listAP", wifiMode \cup {STA}, FALSE))
StaStaticIp == Enter(Switching("staStaticIp", wifiMode \cup {STA}, FALSE))
JoinAP(n) == Enter([Switching("joinAP", wifiMode \cup {STA}, persistent) EXCEPT !.net = n])
BeginSoftAP == Enter(Switching("beginSoftAP", wifiMode \cup {SAP}, FALSE))
SoftApIp == Enter([Switching("softApIp", wifiMode \cup {SAP}, FALSE) EXCEPT !.orig = wifiMode])
EndSoftAP(save) == Enter(Switching("endSoftAP", {}, persistent \/ save))
WifiOff(save) == Enter(Switching("wifiOff", {}, save))
SysPersistent(b) == Enter([Local EXCEPT !.op = "sysPersistent", !.pc = "sysstore", !.arg = b])
StaAutoConnect(b) == Enter([Local EXCEPT !.op = "staAutoConnect", !.pc = "autoconn", !.arg = b])

Goto(pc) == call' = [call EXCEPT !.pc = pc]

(* Of a call that has ended only this is remembered. *)
Ended(ok) == [Local EXCEPT !.op = call.op, !.pc = "idle", !.net = call.net, !.ok = ok]

Return(ok) == call' = Ended(ok)

----------------------------------------------------------------------------
(* EspAtDrvClass::setWifiMode(call.mode, call.save). *)

(* What follows it in the caller. *)
ModeReturn(ok) ==
  IF call.back THEN Return(call.ok)    \* softApIp ignores the second result
  ELSE IF ok /\ call.op \notin Switches THEN Goto("body") ELSE Return(ok)

(* Wrong: a mode that is set already is taken to be stored too. *)
NoChangeEver == call.mode = wifiMode

NoChange == call.mode = wifiMode /\ (~call.save \/ call.mode = wifiModeDef)

(* Wrong: the bracket is not left out of the AT1 build. *)
BracketsInAT1 == persistent # call.save

(* AT2 brackets a command with SYSSTORE when it is to be stored otherwise than *)
(* settings are.                                                            *)
Brackets == ~at1 /\ persistent # call.save

ModeStart ==
  /\ call.pc = "mode"
  /\ \/ wifiModeDef = Unset /\ ModeReturn(FALSE)
     \/ wifiModeDef # Unset /\ NoChange /\ ModeReturn(TRUE)
     \/ wifiModeDef # Unset /\ ~NoChange /\ Goto(IF Brackets THEN "store" ELSE "cwmode")
  /\ UNCHANGED <<at1, drv, fw, faults, doubt>>

ModeStore ==
  /\ call.pc = "store"
  /\ \E answer \in Answers :
       /\ Exchange(SYSSTORE(call.save), answer)
       /\ IF answer = "OK" THEN Goto("cwmode") ELSE ModeReturn(FALSE)
  /\ UNCHANGED <<at1, drv>>

(* Wrong: the mode is believed to be set before the answer is looked at. *)
ModeDoneUnchecked(sent) ==
  /\ wifiMode' = call.mode
  /\ wifiModeDef' = IF call.save THEN call.mode ELSE wifiModeDef
  /\ ModeReturn(sent)

(* Wrong: every mode is taken to be the stored one. *)
ModeDoneStored(sent) ==
  /\ IF sent THEN wifiMode' = call.mode /\ wifiModeDef' = call.mode
             ELSE UNCHANGED <<wifiMode, wifiModeDef>>
  /\ ModeReturn(sent)

(* The end of setWifiMode: sent says whether CWMODE was carried out. *)
ModeDone(sent) ==
  /\ IF sent THEN /\ wifiMode' = call.mode
                  /\ wifiModeDef' = IF call.save THEN call.mode ELSE wifiModeDef
             ELSE UNCHANGED <<wifiMode, wifiModeDef>>
  /\ ModeReturn(sent)

ModeSet ==
  /\ call.pc = "cwmode"
  /\ \E answer \in Answers :
       /\ Exchange(CWMODE(call.mode, call.save), answer)
       /\ IF Brackets
          THEN /\ call' = [call EXCEPT !.pc = "restore", !.sent = answer = "OK"]
               /\ UNCHANGED <<wifiMode, wifiModeDef>>
          ELSE ModeDone(answer = "OK")
  /\ UNCHANGED <<at1, persistent>>

(* Wrong: the flag is kept. *)
RestoredAnyway(answer) == persistent' = persistent

(* SYSSTORE=persistent.  If it fails, the flag follows the firmware. *)
Restored(answer) == persistent' = IF answer = "OK" THEN persistent ELSE call.save

ModeRestore ==
  /\ call.pc = "restore"
  /\ \E answer \in Answers : Exchange(SYSSTORE(persistent), answer) /\ Restored(answer)
  /\ ModeDone(call.sent)
  /\ UNCHANGED at1

----------------------------------------------------------------------------
(* What the callers of setWifiMode do next. *)

ListAPBody ==
  /\ call.op = "listAP"
  /\ \E answer \in Answers : Exchange(fw, answer) /\ Return(answer = "OK")

(* staStaticIp, staEnableDHCP and setHostname. *)
StaStaticIpBody ==
  /\ call.op = "staStaticIp"
  /\ \E answer \in Answers : Exchange(Settings, answer) /\ Return(answer = "OK")

(* Without a name the SoftAP starts as it is configured. *)
BeginSoftAPBody ==
  /\ call.op = "beginSoftAP"
  /\ \/ \E answer \in Answers : Exchange(Settings, answer) /\ Return(answer = "OK")
     \/ UNCHANGED <<fw, faults, doubt>> /\ Return(TRUE)

(* softApIp goes on to take the SoftAP down again. *)
SoftApIpBody ==
  /\ call.op = "softApIp"
  /\ \E answer \in Answers :
       /\ Exchange(Settings, answer)
       /\ call' = [call EXCEPT !.pc = "mode", !.mode = call.orig, !.back = TRUE, !.ok = answer = "OK"]

(* joinAP.  There is nothing to join without a name and a stored network. *)
JoinAPBody ==
  /\ call.op = "joinAP"
  /\ \E answer \in Answers :
       /\ answer = "OK" => ~(call.net = Stored /\ fw.flash.ap = NoAP)
       /\ Exchange(CWJAP(call.net), answer)
       /\ IF answer = "OK" /\ persistent THEN Goto("autoconn") ELSE Return(answer = "OK")

Body ==
  /\ call.pc = "body"
  /\ ListAPBody \/ StaStaticIpBody \/ BeginSoftAPBody \/ SoftApIpBody \/ JoinAPBody
  /\ UNCHANGED <<at1, drv>>

(* AT+CWAUTOCONN: the end of a persistent joinAP, which ignores the answer,   *)
(* and all of staAutoConnect.                                               *)
AutoConnect ==
  /\ call.pc = "autoconn"
  /\ \E answer \in Answers :
       /\ Exchange(CWAUTOCONN(call.op = "joinAP" \/ call.arg), answer)
       /\ Return(call.op = "joinAP" \/ answer = "OK")
  /\ UNCHANGED <<at1, drv>>

----------------------------------------------------------------------------
(* EspAtDrvClass::quitAP(save). *)

QuitAP(save) ==
  Enter([Local EXCEPT !.op = "quitAP", !.save = save,
                      !.pc = CASE STA \notin wifiMode -> "idle"    \* refused at once
                               [] STA \in wifiMode /\ ~at1 /\ persistent # save -> "qstore"
                               [] STA \in wifiMode /\ (at1 \/ persistent = save) ->
                                    IF persistent \/ save THEN "qauto" ELSE "cwqap"])

QuitStore ==
  /\ call.pc = "qstore"
  /\ \E answer \in Answers :
       /\ Exchange(SYSSTORE(call.save), answer)
       /\ IF answer = "OK" THEN Goto("qauto") ELSE Return(FALSE)
  /\ UNCHANGED <<at1, drv>>

(* The answer is ignored. *)
QuitAuto ==
  /\ call.pc = "qauto"
  /\ \E answer \in Answers : Exchange(CWAUTOCONN(FALSE), answer)
  /\ Goto(IF Brackets THEN "qrestore" ELSE "cwqap")
  /\ UNCHANGED <<at1, drv>>

QuitRestore ==
  /\ call.pc = "qrestore"
  /\ \E answer \in Answers : Exchange(SYSSTORE(persistent), answer) /\ Restored(answer)
  /\ Goto("cwqap")
  /\ UNCHANGED <<at1, wifiMode, wifiModeDef>>

Quit ==
  /\ call.pc = "cwqap"
  /\ \E answer \in Answers : Exchange(CWQAP, answer) /\ Return(answer = "OK")
  /\ UNCHANGED <<at1, drv>>

----------------------------------------------------------------------------
(* EspAtDrvClass::reset, by command or over a pin.  Nothing tells whether the *)
(* module really restarted: "ready" can be missed, and is not waited for       *)
(* with any consequence.                                                    *)

Reset == Start("reset", "rst")

Rst ==
  /\ call.pc = "rst"
  /\ \/ /\ fw' = Restarted(fw)
        /\ doubt' = {"reset"} /\ UNCHANGED faults
     \/ /\ faults < MaxFaults
        /\ faults' = faults + 1
        /\ doubt' = doubt \cup {"silence", "reset"} /\ UNCHANGED fw
  /\ Goto("setup")
  /\ UNCHANGED <<at1, drv>>

(* ATE0, CIPMUX, CIPRECVMODE. *)
Setup ==
  /\ call.pc = "setup"
  /\ \E answer \in Answers :
       /\ Exchange(fw, answer)
       /\ IF answer = "OK" THEN Goto(IF at1 THEN "cwmode?" ELSE "nostore") ELSE Return(FALSE)
  /\ UNCHANGED <<at1, drv>>

(* The flag is set when the firmware cannot be told; it is never cleared. *)
NoStore ==
  /\ call.pc = "nostore"
  /\ \E answer \in Answers :
       /\ Exchange(SYSSTORE(FALSE), answer)
       /\ persistent' = (answer # "OK" \/ persistent)
  /\ Goto("cwmode?")
  /\ UNCHANGED <<at1, wifiMode, wifiModeDef>>

ReadMode ==
  /\ call.pc = "cwmode?"
  /\ \/ /\ wifiMode' = fw.mode /\ wifiModeDef' = fw.mode
        /\ doubt' = (doubt \ {"reset"}) \cup (IF ~at1 /\ persistent # fw.store THEN {"store"} ELSE {})
        /\ UNCHANGED <<fw, faults>>
        /\ Return(TRUE)
     \/ \E answer \in Answers \ {"OK"} :
          /\ Exchange(fw, answer)
          /\ wifiMode' \in {wifiMode, fw.mode} /\ UNCHANGED wifiModeDef
          /\ Return(FALSE)
  /\ UNCHANGED <<at1, persistent>>

----------------------------------------------------------------------------
(* EspAtDrvClass::sysPersistent. *)
SetPersistent ==
  /\ call.pc = "sysstore"
  /\ \/ /\ at1 /\ persistent' = call.arg /\ Return(TRUE)
        /\ UNCHANGED <<fw, faults, doubt>>
     \/ /\ ~at1
        /\ \E answer \in Answers :
             /\ Exchange(SYSSTORE(call.arg), answer)
             /\ persistent' = IF answer = "OK" THEN call.arg ELSE persistent
             /\ Return(answer = "OK")
  /\ UNCHANGED <<at1, wifiMode, wifiModeDef>>

----------------------------------------------------------------------------
Sketch ==
  \/ Reset \/ ListAP \/ StaStaticIp \/ BeginSoftAP \/ SoftApIp
  \/ \E b \in BOOLEAN : \/ EndSoftAP(b) \/ WifiOff(b) \/ QuitAP(b)
                        \/ SysPersistent(b) \/ StaAutoConnect(b)
  \/ \E n \in Networks : JoinAP(n)
  \/ ~at1 /\ JoinAP(Stored)

Driver ==
  \/ Rst \/ Setup \/ NoStore \/ ReadMode
  \/ ModeStart \/ ModeStore \/ ModeSet \/ ModeRestore \/ Body \/ AutoConnect
  \/ QuitStore \/ QuitAuto \/ QuitRestore \/ Quit
  \/ SetPersistent

Next == Sketch \/ Driver \/ Network \/ SelfRestart

Spec == Init /\ [][Next]_vars

----------------------------------------------------------------------------
(* While every command is answered and no reset() failed halfway, the driver *)
(* knows the mode at the end of every call, whatever was refused in it:       *)
(* wifiMode is what joinAP, quitAP and setWifiMode decide by.                *)
ModeKnown == Idle /\ doubt \subseteq {"store"} => wifiMode = fw.mode

(* And it knows the stored mode, by which setWifiMode decides whether there  *)
(* is anything to store, unless a reset() left persistent behind.            *)
DefaultKnown == Idle /\ doubt = {} => wifiModeDef = fw.flash.mode

(* No temporary setting reaches the flash, and no stored one is changed by a *)
(* call that was not asked to: the mode is written only by a call that is to *)
(* save it, the network and the other settings only in persistent mode, the  *)
(* automatic connection only by the calls that are about it.                *)
AutoConnectAsked ==
  \/ call.op = "staAutoConnect"
  \/ call.op = "joinAP" /\ persistent
  \/ call.op = "quitAP" /\ (persistent \/ call.save)

Asked ==
  /\ fw'.flash.mode # fw.flash.mode => call.save
  /\ (fw'.flash.ap # fw.flash.ap \/ fw'.flash.conf # fw.flash.conf) => persistent
  /\ fw'.flash.auto # fw.flash.auto => AutoConnectAsked

FlashOnlyOnRequest == [][doubt \subseteq {"store"} => Asked]_vars

(* A begin() that succeeded in persistent mode is remembered: after a restart *)
(* the station is on and knows the network, whether or not the mode had been *)
(* set temporarily before.                                                  *)
PersistentJoinRemembered ==
  Idle /\ call.op = "joinAP" /\ call.ok /\ persistent /\ doubt = {}
    => STA \in fw.flash.mode /\ call.net \in {fw.flash.ap, Stored}
=============================================================================
