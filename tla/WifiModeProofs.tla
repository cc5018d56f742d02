--------------------------- MODULE WifiModeProofs ---------------------------
(***************************************************************************)
(* Proofs about WifiMode, for any set of networks and any bound of faults:   *)
(* its types, that the driver knows the mode of the firmware (ModeKnown) and *)
(* the stored one (DefaultKnown), that the flash takes only what was asked   *)
(* for (FlashOnlyOnRequest) and keeps a persistent join                      *)
(* (PersistentJoinRemembered).                                              *)
(***************************************************************************)
EXTENDS WifiMode, TLAPS

(* AT2 alone reaches the steps that send SYSSTORE without looking at at1. *)
OnlyAT2 == call.pc \in {"store", "restore", "qstore", "qrestore", "nostore"} => ~at1

FwOK ==
  /\ at1 \in BOOLEAN
  /\ fw \in Firmware
  /\ faults \in 0 .. MaxFaults
  /\ doubt \subseteq Doubts
  /\ at1 => ~fw.store

DrvOK ==
  /\ persistent \in BOOLEAN
  /\ wifiMode \in Modes
  /\ wifiModeDef \in Modes \cup {Unset}
  /\ call \in Calls

TypeInv == TypeOK /\ OnlyAT2

LEMMA TypeInvParts == TypeInv <=> FwOK /\ DrvOK /\ OnlyAT2
  BY DEF TypeInv, TypeOK, FwOK, DrvOK

LEMMA TypeInvPrimed == FwOK' /\ DrvOK' /\ OnlyAT2' => TypeInv'
  BY DEF TypeInv, TypeOK, FwOK, DrvOK

----------------------------------------------------------------------------
(* What the commands make of the firmware: a state of it, in which all that  *)
(* they do not speak of is as before.                                       *)

LEMMA StationEffect ==
  ASSUME fw \in Firmware, NEW b \in BOOLEAN
  PROVE  /\ Station(b) \in Firmware
         /\ Station(b).store = fw.store /\ Station(b).mode = fw.mode
         /\ Station(b).flash = fw.flash
  BY DEF Firmware, Flash, Station

LEMMA StoreEffect ==
  ASSUME fw \in Firmware, NEW b \in BOOLEAN
  PROVE  /\ SYSSTORE(b) \in Firmware
         /\ SYSSTORE(b).store = b /\ SYSSTORE(b).mode = fw.mode
         /\ SYSSTORE(b).flash = fw.flash
  BY DEF Firmware, Flash, SYSSTORE

LEMMA AutoEffect ==
  ASSUME fw \in Firmware, NEW b \in BOOLEAN
  PROVE  /\ CWAUTOCONN(b) \in Firmware
         /\ CWAUTOCONN(b).store = fw.store /\ CWAUTOCONN(b).mode = fw.mode
         /\ CWAUTOCONN(b).flash = [fw.flash EXCEPT !.auto = b]
  BY DEF Firmware, Flash, CWAUTOCONN

LEMMA ModeEffect ==
  ASSUME fw \in Firmware, NEW m \in Modes, NEW s \in BOOLEAN
  PROVE  /\ CWMODE(m, s) \in Firmware
         /\ CWMODE(m, s).store = fw.store /\ CWMODE(m, s).mode = m
         /\ CWMODE(m, s).flash = IF Stores(s) THEN [fw.flash EXCEPT !.mode = m] ELSE fw.flash
  BY DEF Firmware, Flash, CWMODE, STA

LEMMA JoinEffect ==
  ASSUME fw \in Firmware, NEW n \in Networks \cup {NoAP, Stored}
  PROVE  /\ CWJAP(n) \in Firmware
         /\ CWJAP(n).store = fw.store /\ CWJAP(n).mode = fw.mode
         /\ CWJAP(n).flash \in {fw.flash, [fw.flash EXCEPT !.ap = n]}
         /\ ~Stores(persistent) => CWJAP(n).flash = fw.flash
         /\ Stores(persistent) /\ n # Stored => CWJAP(n).flash.ap = n
  BY StationEffect DEF Firmware, Flash, CWJAP

LEMMA SettingsEffect ==
  ASSUME fw \in Firmware
  PROVE  /\ Settings \in Firmware
         /\ Settings.store = fw.store /\ Settings.mode = fw.mode
         /\ Settings.flash \in {fw.flash, [fw.flash EXCEPT !.conf = TRUE]}
         /\ ~Stores(persistent) => Settings.flash = fw.flash
  BY DEF Firmware, Flash, Settings

LEMMA RestartEffect ==
  ASSUME fw \in Firmware, at1 \in BOOLEAN
  PROVE  /\ Restarted(fw) \in Firmware
         /\ Restarted(fw).store = ~at1 /\ Restarted(fw).mode = fw.flash.mode
         /\ Restarted(fw).flash = fw.flash
  <1> DEFINE w == fw.flash.auto /\ fw.flash.ap # NoAP
  <1>1. w \in BOOLEAN
    OBVIOUS
  <1>2. (~at1) \in BOOLEAN
    OBVIOUS
  <1>3. Restarted(fw) = [fw EXCEPT !.store = ~at1, !.mode = fw.flash.mode, !.up = FALSE, !.wanted = w]
    BY DEF Restarted
  <1> HIDE DEF w
  <1> QED
    BY <1>1, <1>2, <1>3 DEF Firmware, Flash

(* A command leaves the firmware as it was or does its work, and without     *)
(* silence nothing becomes doubtful.                                        *)
LEMMA ExchangeEffect ==
  ASSUME NEW e, NEW answer, Exchange(e, answer)
  PROVE  /\ fw' \in {fw, e}
         /\ answer = "OK" => fw' = e
         /\ answer = "ERROR" => fw' = fw
         /\ answer # "silence" => doubt' = doubt
         /\ doubt' \in {doubt, doubt \cup {"silence"}}
  BY DEF Exchange

LEMMA ExchangeType ==
  ASSUME FwOK, UNCHANGED at1, NEW e \in Firmware, at1 => ~e.store, NEW answer, Exchange(e, answer)
  PROVE  FwOK'
  <1>1. fw' \in {fw, e} /\ doubt' \in {doubt, doubt \cup {"silence"}}
    BY DEF Exchange
  <1>2. faults' \in 0 .. MaxFaults
    BY FaultsAssumption DEF FwOK, Exchange
  <1>3. doubt' \subseteq Doubts
    BY <1>1 DEF FwOK, Doubts
  <1>4. fw' \in Firmware /\ (at1 => ~fw'.store)
    BY <1>1 DEF FwOK
  <1> QED
    BY <1>2, <1>3, <1>4 DEF FwOK

----------------------------------------------------------------------------
(* The running call. *)

LEMMA LocalCall == Local \in Calls
  BY DEF Local, Calls, Ops, Pcs, Modes

LEMMA GotoCall ==
  ASSUME call \in Calls, NEW pc \in Pcs, Goto(pc)
  PROVE  call' \in Calls /\ call'.pc = pc
  BY DEF Calls, Goto

LEMMA ReturnCall ==
  ASSUME call \in Calls, NEW ok \in BOOLEAN, Return(ok)
  PROVE  /\ call' \in Calls /\ call'.pc = "idle" /\ call'.op = call.op
         /\ call'.net = call.net /\ call'.ok = ok
  BY LocalCall DEF Calls, Return, Ended, Local, Pcs

LEMMA ModeReturnCall ==
  ASSUME call \in Calls, NEW ok \in BOOLEAN, ModeReturn(ok)
  PROVE  call' \in Calls /\ call'.pc \in {"idle", "body"} /\ call'.op = call.op
  <1>1. CASE call.back
    <2>1. call.ok \in BOOLEAN
      BY DEF Calls
    <2>2. Return(call.ok)
      BY <1>1 DEF ModeReturn
    <2> QED
      BY <2>1, <2>2, ReturnCall
  <1>2. CASE ~call.back /\ ok /\ call.op \notin Switches
    BY <1>2, GotoCall DEF ModeReturn, Pcs, Goto, Calls
  <1>3. CASE ~call.back /\ ~(ok /\ call.op \notin Switches)
    BY <1>3, ReturnCall DEF ModeReturn
  <1> QED
    BY <1>1, <1>2, <1>3

----------------------------------------------------------------------------
(* Types. *)

LEMMA TypeInit == Init => TypeInv
  <1> SUFFICES ASSUME Init PROVE TypeInv
    OBVIOUS
  <1>1. PICK f \in [mode : Modes, ap : Networks \cup {NoAP}, auto : BOOLEAN, conf : {FALSE}] :
          fw = Restarted([store |-> FALSE, mode |-> {}, wanted |-> FALSE, up |-> FALSE, flash |-> f])
    BY DEF Init
  <1> DEFINE w == f.auto /\ f.ap # NoAP
  <1>2. fw = [store |-> ~at1, mode |-> f.mode, wanted |-> w, up |-> FALSE, flash |-> f]
    BY <1>1 DEF Restarted
  <1>3. w \in BOOLEAN /\ (~at1) \in BOOLEAN
    BY DEF Init
  <1> HIDE DEF w
  <1>4. fw \in Firmware /\ fw.store = ~at1
    BY <1>2, <1>3 DEF Firmware, Flash
  <1>5. FwOK
    <2>1. at1 \in BOOLEAN /\ (at1 => ~fw.store)
      BY <1>4 DEF Init
    <2>2. faults \in 0 .. MaxFaults /\ doubt \subseteq Doubts
      BY FaultsAssumption DEF Init
    <2> QED
      BY <1>4, <2>1, <2>2 DEF FwOK
  <1>6. call.pc = "rst" /\ DrvOK
    BY LocalCall DEF Init, DrvOK, Local, Modes
  <1> QED
    BY <1>5, <1>6, TypeInvParts DEF OnlyAT2

(* How the sketch may start a call: with a step for AT2 alone only in quitAP, *)
(* where the first step goes by the flags, and joinAP with setWifiMode for a  *)
(* mode with the station in it, saved if settings are.                       *)
Opening(c) ==
  /\ \/ c.pc \in {"rst", "mode", "sysstore", "idle", "cwqap"}
     \/ c.pc = "autoconn" /\ c.op = "staAutoConnect"
     \/ c.pc = "qstore" /\ c.op = "quitAP" /\ ~at1 /\ persistent # c.save
     \/ c.pc = "qauto" /\ c.op = "quitAP" /\ (persistent \/ c.save) /\ (at1 \/ persistent = c.save)
  /\ c.op = "joinAP" => c.pc = "mode" /\ STA \in c.mode /\ c.save = persistent /\ ~c.back

LEMMA SwitchingCall ==
  ASSUME NEW op \in Ops, NEW m \in Modes, NEW b \in BOOLEAN
  PROVE  /\ Switching(op, m, b) \in Calls
         /\ Switching(op, m, b).pc = "mode" /\ Switching(op, m, b).op = op
         /\ Switching(op, m, b).mode = m /\ Switching(op, m, b).save = b
         /\ ~Switching(op, m, b).back
  BY DEF Switching, Local, Calls, Pcs, Modes, NoAP

LEMMA SketchEnters ==
  ASSUME TypeInv, Sketch
  PROVE  \E c \in Calls : Enter(c) /\ Opening(c)
  <1> DEFINE Entered == \E c \in Calls : Enter(c) /\ Opening(c)
  <1>1. ASSUME NEW c \in Calls, Enter(c), Opening(c) PROVE Entered
    BY <1>1
  <1> SUFFICES Entered
    BY DEF Entered
  <1> HIDE DEF Entered
  <1>2. /\ wifiMode \cup {STA} \in Modes /\ wifiMode \cup {SAP} \in Modes /\ {} \in Modes
        /\ wifiMode \in Modes
        /\ persistent \in BOOLEAN /\ \A b \in BOOLEAN : (persistent \/ b) \in BOOLEAN
    BY TypeInvParts DEF DrvOK, Modes
  <1>3. CASE Reset
    <2> DEFINE c == [Local EXCEPT !.op = "reset", !.pc = "rst"]
    <2>1. c \in Calls /\ Opening(c)
      BY DEF Local, Calls, Ops, Pcs, Modes, Opening
    <2> QED
      BY <1>1, <1>3, <2>1 DEF Reset, Start
  <1>4. ASSUME NEW op \in Ops \ {"joinAP"}, NEW m \in Modes, NEW s \in BOOLEAN,
                Enter(Switching(op, m, s))
         PROVE  Entered
    <2> DEFINE c == Switching(op, m, s)
    <2>1. c \in Calls /\ c.pc = "mode" /\ c.op = op
      BY SwitchingCall
    <2> HIDE DEF c
    <2>2. Opening(c)
      BY <2>1 DEF Opening
    <2> QED
      BY <1>1, <1>4, <2>1, <2>2 DEF c
  <1>5. CASE ListAP \/ StaStaticIp \/ BeginSoftAP
    <2>1. {"listAP", "staStaticIp", "beginSoftAP"} \subseteq Ops \ {"joinAP"}
      BY DEF Ops
    <2> QED
      BY <1>2, <1>5, <1>4, <2>1 DEF ListAP, StaStaticIp, BeginSoftAP
  <1>6. ASSUME NEW b \in BOOLEAN, EndSoftAP(b) \/ WifiOff(b)
        PROVE  Entered
    BY <1>2, <1>6, <1>4 DEF EndSoftAP, WifiOff, Ops, Switches
  <1>7. ASSUME NEW n \in Networks \cup {Stored}, JoinAP(n)
        PROVE  Entered
    <2>1. PICK op \in Ops : op = "joinAP"
      BY DEF Ops
    <2> DEFINE c == Switching(op, wifiMode \cup {STA}, persistent)
               d == [c EXCEPT !.net = n]
    <2>2. /\ c \in Calls /\ c.pc = "mode" /\ c.op = op /\ ~c.back
          /\ c.mode = wifiMode \cup {STA} /\ c.save = persistent
      BY <1>2, <2>1, SwitchingCall
    <2>3. Enter(d)
      BY <2>1, <1>7 DEF JoinAP
    <2> HIDE DEF c
    <2>4. /\ d \in Calls /\ d.pc = "mode" /\ d.op = op /\ ~d.back
          /\ d.mode = wifiMode \cup {STA} /\ d.save = persistent
      BY <2>2 DEF Calls
    <2> HIDE DEF d
    <2>5. Opening(d)
      BY <2>1, <2>4 DEF Opening
    <2> QED
      BY <1>1, <2>3, <2>4, <2>5
  <1>8. ASSUME NEW b \in BOOLEAN, SysPersistent(b)
        PROVE  Entered
    <2> DEFINE c == [Local EXCEPT !.op = "sysPersistent", !.pc = "sysstore", !.arg = b]
    <2>1. c \in Calls /\ Opening(c)
      BY DEF Local, Calls, Ops, Pcs, Modes, Opening
    <2> QED
      BY <1>1, <1>8, <2>1 DEF SysPersistent
  <1>9. ASSUME NEW b \in BOOLEAN, StaAutoConnect(b)
        PROVE  Entered
    <2> DEFINE c == [Local EXCEPT !.op = "staAutoConnect", !.pc = "autoconn", !.arg = b]
    <2>1. c \in Calls /\ Opening(c)
      BY DEF Local, Calls, Ops, Pcs, Modes, Opening
    <2> QED
      BY <1>1, <1>9, <2>1 DEF StaAutoConnect
  <1>10. ASSUME NEW b \in BOOLEAN, QuitAP(b)
        PROVE  Entered
    <2> DEFINE c(pc) == [Local EXCEPT !.op = "quitAP", !.save = b, !.pc = pc]
    <2>1. \A pc \in {"idle", "qstore", "qauto", "cwqap"} :
            c(pc) \in Calls /\ c(pc).pc = pc /\ c(pc).op = "quitAP" /\ c(pc).save = b
      BY DEF Local, Calls, Ops, Pcs, Modes
    <2>2. CASE STA \notin wifiMode
      <3>1. Enter(c("idle"))
        BY <1>10, <2>2 DEF QuitAP
      <3> HIDE DEF c
      <3>2. Opening(c("idle"))
        BY <2>1 DEF Opening
      <3> QED
        BY <1>1, <2>1, <3>1, <3>2
    <2>3. CASE STA \in wifiMode /\ ~at1 /\ persistent # b
      <3>1. Enter(c("qstore"))
        BY <1>10, <2>3 DEF QuitAP
      <3> HIDE DEF c
      <3>2. Opening(c("qstore"))
        BY <2>1, <2>3 DEF Opening
      <3> QED
        BY <1>1, <2>1, <3>1, <3>2
    <2>4. CASE STA \in wifiMode /\ (at1 \/ persistent = b) /\ (persistent \/ b)
      <3>1. Enter(c("qauto"))
        BY <1>10, <2>4 DEF QuitAP
      <3> HIDE DEF c
      <3>2. Opening(c("qauto"))
        BY <2>1, <2>4 DEF Opening
      <3> QED
        BY <1>1, <2>1, <3>1, <3>2
    <2>5. CASE STA \in wifiMode /\ (at1 \/ persistent = b) /\ ~(persistent \/ b)
      <3>1. Enter(c("cwqap"))
        BY <1>10, <2>5 DEF QuitAP
      <3> HIDE DEF c
      <3>2. Opening(c("cwqap"))
        BY <2>1 DEF Opening
      <3> QED
        BY <1>1, <2>1, <3>1, <3>2
    <2> QED
      BY <2>2, <2>3, <2>4, <2>5
  <1>11. CASE SoftApIp
    <2>1. PICK op \in Ops, save \in BOOLEAN : op = "softApIp" /\ save = FALSE
      BY DEF Ops
    <2> DEFINE c == Switching(op, wifiMode \cup {SAP}, save)
               d == [c EXCEPT !.orig = wifiMode]
    <2>2. c \in Calls /\ c.pc = "mode" /\ c.op = op
      BY <1>2, <2>1, SwitchingCall
    <2>3. Enter(d)
      BY <2>1, <1>11 DEF SoftApIp
    <2> HIDE DEF c
    <2>4. d \in Calls /\ d.pc = "mode" /\ d.op = op
      BY <1>2, <2>2 DEF Calls
    <2> HIDE DEF d
    <2>5. Opening(d)
      BY <2>1, <2>4 DEF Opening
    <2> QED
      BY <1>1, <2>3, <2>4, <2>5
  <1> QED
    BY <1>3, <1>5, <1>6, <1>7, <1>8, <1>9, <1>10, <1>11 DEF Sketch

LEMMA TypeSketch ==
  ASSUME TypeInv, Sketch
  PROVE  TypeInv'
  <1>1. PICK c \in Calls : Enter(c) /\ Opening(c)
    BY SketchEnters
  <1>2. FwOK' /\ DrvOK' /\ OnlyAT2'
    BY <1>1, TypeInvParts DEF Enter, Opening, FwOK, DrvOK, OnlyAT2, drv
  <1> QED
    BY <1>2, TypeInvPrimed

(* What is left to show of a step whose command is an Exchange. *)
LEMMA ExchangeTypeInv ==
  ASSUME TypeInv, UNCHANGED at1, NEW e \in Firmware, at1 => ~e.store,
         NEW answer, Exchange(e, answer), DrvOK', OnlyAT2'
  PROVE  TypeInv'
  BY TypeInvParts, TypeInvPrimed, ExchangeType

LEMMA UnaskedTypeInv ==
  ASSUME TypeInv, UNCHANGED <<at1, fw, faults, doubt>>, DrvOK', OnlyAT2'
  PROVE  TypeInv'
  BY TypeInvParts, TypeInvPrimed DEF FwOK

LEMMA GotoTypeInv ==
  ASSUME TypeInv, NEW pc \in Pcs, Goto(pc), UNCHANGED <<at1, drv>>,
         pc \in {"store", "restore", "qstore", "qrestore", "nostore"} => ~at1
  PROVE  DrvOK' /\ OnlyAT2'
  BY TypeInvParts, GotoCall DEF DrvOK, OnlyAT2, drv

LEMMA ReturnTypeInv ==
  ASSUME TypeInv, NEW ok \in BOOLEAN, Return(ok), UNCHANGED <<at1, drv>>
  PROVE  DrvOK' /\ OnlyAT2'
  BY TypeInvParts, ReturnCall DEF DrvOK, OnlyAT2, drv

LEMMA ModeReturnTypeInv ==
  ASSUME TypeInv, NEW ok \in BOOLEAN, ModeReturn(ok), UNCHANGED <<at1, drv>>
  PROVE  DrvOK' /\ OnlyAT2'
  BY TypeInvParts, ModeReturnCall DEF DrvOK, OnlyAT2, drv

LEMMA ModeDoneTypeInv ==
  ASSUME TypeInv, NEW sent \in BOOLEAN, ModeDone(sent), UNCHANGED at1, persistent' \in BOOLEAN
  PROVE  DrvOK' /\ OnlyAT2'
  <1>1. DrvOK /\ ModeReturn(sent) /\ call.mode \in Modes
    BY TypeInvParts DEF ModeDone, DrvOK, Calls
  <1>2. wifiMode' \in Modes /\ wifiModeDef' \in Modes \cup {Unset}
    BY <1>1 DEF ModeDone, DrvOK
  <1> QED
    BY <1>1, <1>2, ModeReturnCall DEF DrvOK, OnlyAT2

(* setWifiMode. *)
LEMMA TypeMode ==
  ASSUME TypeInv, ModeStart \/ ModeStore \/ ModeSet \/ ModeRestore
  PROVE  TypeInv'
  <1>1. /\ FwOK /\ DrvOK /\ OnlyAT2 /\ fw \in Firmware /\ (at1 => ~fw.store)
        /\ call.mode \in Modes /\ call.save \in BOOLEAN /\ persistent \in BOOLEAN
        /\ call.sent \in BOOLEAN
    BY TypeInvParts DEF FwOK, DrvOK, Calls
  <1>2. CASE ModeStart
    <2>1. CASE ModeReturn(FALSE) \/ ModeReturn(TRUE)
      BY <1>2, <2>1, ModeReturnTypeInv, UnaskedTypeInv DEF ModeStart
    <2>2. CASE Goto(IF Brackets THEN "store" ELSE "cwmode")
      <3>1. (IF Brackets THEN "store" ELSE "cwmode") \in Pcs
        BY DEF Pcs
      <3>2. Brackets => ~at1
        BY DEF Brackets
      <3>3. DrvOK' /\ OnlyAT2'
        BY <1>2, <2>2, <3>1, <3>2, GotoTypeInv DEF ModeStart
      <3> QED
        BY <1>2, <3>3, UnaskedTypeInv DEF ModeStart
    <2> QED
      BY <1>2, <2>1, <2>2 DEF ModeStart
  <1>3. CASE ModeStore
    <2>1. PICK answer \in Answers :
            /\ Exchange(SYSSTORE(call.save), answer)
            /\ IF answer = "OK" THEN Goto("cwmode") ELSE ModeReturn(FALSE)
      BY <1>3 DEF ModeStore
    <2>2. DrvOK' /\ OnlyAT2'
      BY <1>3, <2>1, GotoTypeInv, ModeReturnTypeInv DEF ModeStore, Pcs
    <2>3. SYSSTORE(call.save) \in Firmware /\ ~at1
      BY <1>1, <1>3, StoreEffect DEF ModeStore, OnlyAT2
    <2> QED
      BY <1>3, <2>1, <2>2, <2>3, ExchangeTypeInv DEF ModeStore
  <1>4. CASE ModeSet
    <2>1. PICK answer \in Answers :
            /\ Exchange(CWMODE(call.mode, call.save), answer)
            /\ IF Brackets
               THEN /\ call' = [call EXCEPT !.pc = "restore", !.sent = answer = "OK"]
                    /\ UNCHANGED <<wifiMode, wifiModeDef>>
               ELSE ModeDone(answer = "OK")
      BY <1>4 DEF ModeSet
    <2>2. CWMODE(call.mode, call.save) \in Firmware /\ (at1 => ~CWMODE(call.mode, call.save).store)
      BY <1>1, ModeEffect
    <2>3. CASE Brackets
      <3>1. call' \in Calls
        BY <1>1, <2>1, <2>3 DEF DrvOK, Calls, Pcs
      <3>2. DrvOK' /\ OnlyAT2'
        BY <1>1, <1>4, <2>1, <2>3, <3>1 DEF ModeSet, DrvOK, OnlyAT2, Brackets
      <3> QED
        BY <1>4, <2>1, <2>2, <3>2, ExchangeTypeInv DEF ModeSet
    <2>4. CASE ~Brackets
      <3>1. DrvOK' /\ OnlyAT2'
        BY <1>1, <1>4, <2>1, <2>4, ModeDoneTypeInv DEF ModeSet
      <3> QED
        BY <1>4, <2>1, <2>2, <3>1, ExchangeTypeInv DEF ModeSet
    <2> QED
      BY <2>3, <2>4
  <1>5. CASE ModeRestore
    <2>1. PICK answer \in Answers : Exchange(SYSSTORE(persistent), answer) /\ Restored(answer)
      BY <1>5 DEF ModeRestore
    <2>2. SYSSTORE(persistent) \in Firmware /\ ~at1
      BY <1>1, <1>5, StoreEffect DEF ModeRestore, OnlyAT2
    <2>3. DrvOK' /\ OnlyAT2'
      BY <1>1, <1>5, <2>1, ModeDoneTypeInv DEF ModeRestore, Restored
    <2> QED
      BY <1>5, <2>1, <2>2, <2>3, ExchangeTypeInv DEF ModeRestore
  <1> QED
    BY <1>2, <1>3, <1>4, <1>5

(* What follows setWifiMode in its callers, and AT+CWAUTOCONN. *)
LEMMA TypeBody ==
  ASSUME TypeInv, Body \/ AutoConnect
  PROVE  TypeInv'
  <1>1. /\ FwOK /\ DrvOK /\ OnlyAT2 /\ fw \in Firmware /\ (at1 => ~fw.store)
        /\ call \in Calls /\ call.orig \in Modes /\ call.arg \in BOOLEAN
        /\ call.net \in Networks \cup {NoAP, Stored}
    BY TypeInvParts DEF FwOK, DrvOK, Calls
  <1>2. Settings \in Firmware /\ (at1 => ~Settings.store)
    BY <1>1, SettingsEffect
  <1>3. CASE Body /\ ListAPBody
    BY <1>1, <1>3, ReturnTypeInv, ExchangeTypeInv DEF Body, ListAPBody
  <1>4. CASE Body /\ StaStaticIpBody
    BY <1>2, <1>4, ReturnTypeInv, ExchangeTypeInv DEF Body, StaStaticIpBody
  <1>5. CASE Body /\ BeginSoftAPBody
    <2>1. PICK ok \in BOOLEAN : Return(ok)
      BY <1>5 DEF BeginSoftAPBody
    <2>2. DrvOK' /\ OnlyAT2' /\ UNCHANGED at1
      BY <1>5, <2>1, ReturnTypeInv DEF Body
    <2> QED
      BY <1>2, <1>5, <2>2, ExchangeTypeInv, UnaskedTypeInv DEF BeginSoftAPBody
  <1>6. CASE Body /\ SoftApIpBody
    <2>1. PICK answer \in Answers :
            /\ Exchange(Settings, answer)
            /\ call' = [call EXCEPT !.pc = "mode", !.mode = call.orig, !.back = TRUE, !.ok = answer = "OK"]
      BY <1>6 DEF SoftApIpBody
    <2>2. call' \in Calls /\ call'.pc = "mode"
      BY <1>1, <2>1 DEF Calls, Pcs
    <2>3. DrvOK' /\ OnlyAT2' /\ UNCHANGED at1
      BY <1>1, <1>6, <2>2 DEF Body, DrvOK, OnlyAT2, drv
    <2> QED
      BY <1>2, <2>1, <2>3, ExchangeTypeInv
  <1>7. CASE Body /\ JoinAPBody
    <2>1. PICK answer \in Answers :
            /\ Exchange(CWJAP(call.net), answer)
            /\ IF answer = "OK" /\ persistent THEN Goto("autoconn") ELSE Return(answer = "OK")
      BY <1>7 DEF JoinAPBody
    <2>2. DrvOK' /\ OnlyAT2' /\ UNCHANGED at1
      BY <1>7, <2>1, GotoTypeInv, ReturnTypeInv DEF Body, Pcs
    <2>3. CWJAP(call.net) \in Firmware /\ (at1 => ~CWJAP(call.net).store)
      BY <1>1, JoinEffect
    <2> QED
      BY <2>1, <2>2, <2>3, ExchangeTypeInv
  <1>8. CASE AutoConnect
    <2>1. PICK answer \in Answers :
            /\ Exchange(CWAUTOCONN(call.op = "joinAP" \/ call.arg), answer)
            /\ Return(call.op = "joinAP" \/ answer = "OK")
      BY <1>8 DEF AutoConnect
    <2>2. DrvOK' /\ OnlyAT2' /\ UNCHANGED at1
      BY <1>8, <2>1, ReturnTypeInv DEF AutoConnect
    <2> DEFINE b == call.op = "joinAP" \/ call.arg
    <2>3. CWAUTOCONN(b) \in Firmware /\ (at1 => ~CWAUTOCONN(b).store)
      BY <1>1, AutoEffect
    <2> QED
      BY <2>1, <2>2, <2>3, ExchangeTypeInv
  <1> QED
    BY <1>3, <1>4, <1>5, <1>6, <1>7, <1>8 DEF Body

(* quitAP. *)
LEMMA TypeQuit ==
  ASSUME TypeInv, QuitStore \/ QuitAuto \/ QuitRestore \/ Quit
  PROVE  TypeInv'
  <1>1. /\ FwOK /\ DrvOK /\ OnlyAT2 /\ fw \in Firmware /\ (at1 => ~fw.store)
        /\ call \in Calls /\ call.save \in BOOLEAN /\ persistent \in BOOLEAN
    BY TypeInvParts DEF FwOK, DrvOK, Calls
  <1>2. CASE QuitStore
    <2>1. PICK answer \in Answers :
            /\ Exchange(SYSSTORE(call.save), answer)
            /\ IF answer = "OK" THEN Goto("qauto") ELSE Return(FALSE)
      BY <1>2 DEF QuitStore
    <2>2. DrvOK' /\ OnlyAT2'
      BY <1>2, <2>1, GotoTypeInv, ReturnTypeInv DEF QuitStore, Pcs
    <2>3. SYSSTORE(call.save) \in Firmware /\ ~at1
      BY <1>1, <1>2, StoreEffect DEF QuitStore, OnlyAT2
    <2> QED
      BY <1>2, <2>1, <2>2, <2>3, ExchangeTypeInv DEF QuitStore
  <1>3. CASE QuitAuto
    <2>1. PICK answer \in Answers : Exchange(CWAUTOCONN(FALSE), answer)
      BY <1>3 DEF QuitAuto
    <2>2. (IF Brackets THEN "qrestore" ELSE "cwqap") \in Pcs /\ (Brackets => ~at1)
      BY DEF Pcs, Brackets
    <2>3. DrvOK' /\ OnlyAT2'
      BY <1>3, <2>2, GotoTypeInv DEF QuitAuto
    <2>4. CWAUTOCONN(FALSE) \in Firmware /\ (at1 => ~CWAUTOCONN(FALSE).store)
      BY <1>1, AutoEffect
    <2> QED
      BY <1>3, <2>1, <2>3, <2>4, ExchangeTypeInv DEF QuitAuto
  <1>4. CASE QuitRestore
    <2>1. PICK answer \in Answers : Exchange(SYSSTORE(persistent), answer) /\ Restored(answer)
      BY <1>4 DEF QuitRestore
    <2>2. DrvOK' /\ OnlyAT2'
      BY <1>1, <1>4, <2>1, GotoCall DEF QuitRestore, Restored, DrvOK, OnlyAT2, Pcs
    <2>3. SYSSTORE(persistent) \in Firmware /\ ~at1
      BY <1>1, <1>4, StoreEffect DEF QuitRestore, OnlyAT2
    <2> QED
      BY <1>4, <2>1, <2>2, <2>3, ExchangeTypeInv DEF QuitRestore
  <1>5. CASE Quit
    <2>1. CWQAP \in Firmware /\ (at1 => ~CWQAP.store)
      BY <1>1, StationEffect DEF CWQAP
    <2> QED
      BY <1>5, <2>1, ReturnTypeInv, ExchangeTypeInv DEF Quit
  <1> QED
    BY <1>2, <1>3, <1>4, <1>5

(* reset and sysPersistent. *)
LEMMA TypeReset ==
  ASSUME TypeInv, Rst \/ Setup \/ NoStore \/ ReadMode \/ SetPersistent
  PROVE  TypeInv'
  <1>1. /\ FwOK /\ DrvOK /\ OnlyAT2 /\ fw \in Firmware /\ (at1 => ~fw.store)
        /\ call \in Calls /\ call.arg \in BOOLEAN /\ persistent \in BOOLEAN /\ at1 \in BOOLEAN
        /\ fw.mode \in Modes
    BY TypeInvParts DEF FwOK, DrvOK, Calls, Firmware
  <1>2. CASE Rst
    <2>1. DrvOK' /\ OnlyAT2' /\ UNCHANGED at1
      BY <1>2, GotoTypeInv DEF Rst, Pcs
    <2>2. fw' \in Firmware /\ (at1 => ~fw'.store)
      BY <1>1, <1>2, RestartEffect DEF Rst
    <2>3. faults' \in 0 .. MaxFaults
      BY <1>1, <1>2, FaultsAssumption DEF Rst, FwOK
    <2>4. doubt' \subseteq Doubts
      BY <1>1, <1>2 DEF Rst, FwOK, Doubts
    <2> QED
      BY <1>1, <2>1, <2>2, <2>3, <2>4, TypeInvPrimed DEF FwOK
  <1>3. CASE Setup
    <2>1. PICK answer \in Answers :
            /\ Exchange(fw, answer)
            /\ IF answer = "OK" THEN Goto(IF at1 THEN "cwmode?" ELSE "nostore") ELSE Return(FALSE)
      BY <1>3 DEF Setup
    <2>2. (IF at1 THEN "cwmode?" ELSE "nostore") \in Pcs
      BY DEF Pcs
    <2>3. DrvOK' /\ OnlyAT2'
      BY <1>3, <2>1, <2>2, GotoTypeInv, ReturnTypeInv DEF Setup
    <2> QED
      BY <1>1, <1>3, <2>1, <2>3, ExchangeTypeInv DEF Setup
  <1>4. CASE NoStore
    <2>1. PICK answer \in Answers :
            Exchange(SYSSTORE(FALSE), answer) /\ persistent' = (answer # "OK" \/ persistent)
      BY <1>4 DEF NoStore
    <2>2. DrvOK' /\ OnlyAT2'
      BY <1>1, <1>4, <2>1, GotoCall DEF NoStore, DrvOK, OnlyAT2, Pcs
    <2>3. SYSSTORE(FALSE) \in Firmware /\ ~at1
      BY <1>1, <1>4, StoreEffect DEF NoStore, OnlyAT2
    <2> QED
      BY <1>4, <2>1, <2>2, <2>3, ExchangeTypeInv DEF NoStore
  <1>5. CASE ReadMode
    <2>1. PICK ok \in BOOLEAN : Return(ok)
      BY <1>5 DEF ReadMode
    <2>2. DrvOK' /\ OnlyAT2'
      BY <1>1, <1>5, <2>1, ReturnCall DEF ReadMode, DrvOK, OnlyAT2
    <2>3. CASE doubt' = (doubt \ {"reset"}) \cup (IF ~at1 /\ persistent # fw.store THEN {"store"} ELSE {})
               /\ UNCHANGED <<fw, faults>>
      BY <1>1, <1>5, <2>2, <2>3, TypeInvPrimed DEF ReadMode, FwOK, Doubts
    <2>4. CASE \E answer \in Answers : Exchange(fw, answer)
      BY <1>1, <1>5, <2>2, <2>4, ExchangeTypeInv DEF ReadMode
    <2> QED
      BY <1>5, <2>3, <2>4 DEF ReadMode
  <1>6. CASE SetPersistent
    <2>1. PICK ok \in BOOLEAN : Return(ok)
      BY <1>6 DEF SetPersistent
    <2>2. DrvOK' /\ OnlyAT2'
      BY <1>1, <1>6, <2>1, ReturnCall DEF SetPersistent, DrvOK, OnlyAT2
    <2>3. SYSSTORE(call.arg) \in Firmware
      BY <1>1, StoreEffect
    <2> QED
      BY <1>6, <2>2, <2>3, ExchangeTypeInv, UnaskedTypeInv DEF SetPersistent
  <1> QED
    BY <1>2, <1>3, <1>4, <1>5, <1>6

(* The network and the module by themselves. *)
LEMMA TypeModule ==
  ASSUME TypeInv, Network \/ SelfRestart \/ UNCHANGED vars
  PROVE  TypeInv'
  <1>1. FwOK /\ DrvOK /\ OnlyAT2 /\ fw \in Firmware /\ at1 \in BOOLEAN /\ (at1 => ~fw.store)
    BY TypeInvParts DEF FwOK
  <1>2. DrvOK' /\ OnlyAT2' /\ UNCHANGED at1
    BY <1>1 DEF Network, SelfRestart, vars, drv, DrvOK, OnlyAT2
  <1>3. fw' \in Firmware /\ (at1 => ~fw'.store)
    <2>1. CASE Network
      BY <1>1, <2>1 DEF Network, StationUp, StationDown, Firmware
    <2>2. CASE SelfRestart
      BY <1>1, <2>2, RestartEffect DEF SelfRestart
    <2>3. CASE UNCHANGED vars
      BY <1>1, <2>3 DEF vars
    <2> QED
      BY <2>1, <2>2, <2>3
  <1>4. faults' \in 0 .. MaxFaults
    BY <1>1, FaultsAssumption DEF Network, SelfRestart, vars, FwOK
  <1>5. doubt' \subseteq Doubts
    BY <1>1 DEF Network, SelfRestart, vars, FwOK, Doubts
  <1> QED
    BY <1>1, <1>2, <1>3, <1>4, <1>5, TypeInvPrimed DEF FwOK

LEMMA TypeStep == TypeInv /\ [Next]_vars => TypeInv'
  BY TypeSketch, TypeMode, TypeBody, TypeQuit, TypeReset, TypeModule DEF Next, Driver

(* Every variable keeps its type, and firmware 1 never stores by itself. *)
THEOREM WifiTypeCorrect == Spec => []TypeOK
  <1>1. TypeInv => TypeOK
    BY DEF TypeInv
  <1> QED
    BY <1>1, TypeInit, TypeStep, PTL DEF Spec

----------------------------------------------------------------------------
(* The driver's view of the firmware is right, and the flash takes only what *)
(* was asked for: the proofs of ModeKnown and FlashOnlyOnRequest.            *)
(*                                                                          *)
(* Neither is inductive.  In the middle of a call the cached mode lags        *)
(* behind a CWMODE whose bracket is still open (ModeView), the firmware may   *)
(* store although the flag says no, but then the call is to save (StoreView), *)
(* and a reset() under way makes no promise until its last answer.           *)

(* No command since the last good reset() has been left without an answer. *)
Certain == doubt \subseteq {"store"}

(* Until a reset() restarts the module, the driver's mode is the firmware's;  *)
(* after a CWMODE in brackets, once the bracket is closed.                   *)
ModeView ==
  Certain /\ call.pc # "rst"
    => fw.mode = IF call.pc = "restore" /\ call.sent THEN call.mode ELSE wifiMode

(* From its restart to its last answer a reset() is known to be under way. *)
ResetDoubted == call.pc \in {"setup", "nostore", "cwmode?"} => "reset" \in doubt

(* The firmware stores only if the flag says so or, in a bracket, if the call *)
(* is to save.                                                              *)
Bracketed == {"cwmode", "restore", "qauto", "qrestore"}

StoreView ==
  /\ Certain /\ call.pc # "rst" /\ fw.store
       => IF call.pc \in Bracketed THEN call.save ELSE persistent
  /\ call.pc = "cwmode?" /\ "silence" \notin doubt /\ fw.store => persistent

(* AT+CWAUTOCONN is sent only by the calls that are about it. *)
AutoView ==
  /\ call.pc = "autoconn" => call.op = "staAutoConnect" \/ (call.op = "joinAP" /\ persistent)
  /\ call.pc = "qstore" => call.op = "quitAP" /\ persistent # call.save
  /\ call.pc = "qauto" => call.op = "quitAP" /\ (persistent \/ call.save)

Views == ModeView /\ ResetDoubted /\ StoreView /\ AutoView
SafeInv == TypeInv /\ Views

----------------------------------------------------------------------------
LEMMA ViewsInit == Init => Views
  BY DEF Init, Local, Views, ModeView, ResetDoubted, StoreView, AutoView

(* An answered command did its work or, refused, nothing. *)
LEMMA ExchangeAnswered ==
  ASSUME NEW e, NEW answer \in Answers, Exchange(e, answer)
  PROVE  /\ "silence" \notin doubt' => /\ doubt' = doubt
                                       /\ fw' = IF answer = "OK" THEN e ELSE fw
         /\ Certain' => "silence" \notin doubt'
         /\ doubt \subseteq doubt'
  BY DEF Exchange, Answers, Certain

(* Which parts of a call each way to end or continue it keeps. *)
LEMMA GotoKeeps ==
  ASSUME call \in Calls, NEW pc, Goto(pc)
  PROVE  /\ call'.pc = pc /\ call'.op = call.op /\ call'.save = call.save
         /\ call'.mode = call.mode /\ call'.sent = call.sent /\ call'.net = call.net
  BY DEF Calls, Goto

(* The sketch starts a call. *)
LEMMA ViewsSketch ==
  ASSUME SafeInv, Sketch
  PROVE  Views'
  <1>1. PICK c \in Calls : Enter(c) /\ Opening(c)
    BY SketchEnters DEF SafeInv
  <1>2. UNCHANGED <<at1, persistent, wifiMode, fw, doubt>> /\ call' = c /\ call.pc = "idle"
    BY <1>1 DEF Enter, Idle, drv
  <1>3. at1 => ~fw.store
    BY TypeInvParts DEF SafeInv, FwOK
  <1>4. ModeView'
    BY <1>1, <1>2 DEF SafeInv, Views, ModeView, Certain, Opening
  <1>5. ResetDoubted'
    BY <1>1, <1>2 DEF ResetDoubted, Opening
  <1>6. StoreView'
    BY <1>1, <1>2, <1>3 DEF SafeInv, Views, StoreView, Certain, Bracketed, Opening
  <1>7. AutoView'
    BY <1>1, <1>2 DEF AutoView, Opening
  <1> QED
    BY <1>4, <1>5, <1>6, <1>7 DEF Views

(* setWifiMode. *)
LEMMA ViewsMode ==
  ASSUME SafeInv, ModeStart \/ ModeStore \/ ModeSet \/ ModeRestore
  PROVE  Views'
  <1>1. /\ TypeInv /\ Views /\ fw \in Firmware /\ call \in Calls /\ (at1 => ~fw.store)
        /\ call.mode \in Modes /\ call.save \in BOOLEAN /\ persistent \in BOOLEAN
        /\ call.sent \in BOOLEAN /\ at1 \in BOOLEAN
    BY TypeInvParts DEF SafeInv, FwOK, DrvOK, Calls
  <1>2. CASE ModeStart
    <2>1. UNCHANGED <<at1, persistent, wifiMode, fw, doubt>> /\ call.pc = "mode"
      BY <1>2 DEF ModeStart, drv
    <2>2. CASE ModeReturn(FALSE) \/ ModeReturn(TRUE)
      <3>1. call'.pc \in {"idle", "body"}
        BY <1>1, <2>2, ModeReturnCall
      <3> QED
        BY <1>1, <2>1, <3>1
        DEF Views, ModeView, ResetDoubted, StoreView, AutoView, Certain, Bracketed
    <2>3. CASE ~Brackets /\ Goto("cwmode")
      BY <1>1, <2>1, <2>3, GotoKeeps
      DEF Brackets, Views, ModeView, ResetDoubted, StoreView, AutoView, Certain, Bracketed
    <2>4. CASE Brackets /\ Goto("store")
      BY <1>1, <2>1, <2>4, GotoKeeps
      DEF Views, ModeView, ResetDoubted, StoreView, AutoView, Certain, Bracketed
    <2> QED
      BY <1>2, <2>2, <2>3, <2>4 DEF ModeStart
  <1>3. CASE ModeStore
    <2>1. PICK answer \in Answers :
            /\ Exchange(SYSSTORE(call.save), answer)
            /\ IF answer = "OK" THEN Goto("cwmode") ELSE ModeReturn(FALSE)
      BY <1>3 DEF ModeStore
    <2>2. UNCHANGED <<at1, persistent, wifiMode>> /\ call.pc = "store"
      BY <1>3 DEF ModeStore, drv
    <2>3. SYSSTORE(call.save).store = call.save /\ SYSSTORE(call.save).mode = fw.mode
      BY <1>1, StoreEffect
    <2>4. IF answer = "OK" THEN call'.pc = "cwmode" /\ call'.save = call.save
                           ELSE call'.pc \in {"idle", "body"}
      BY <1>1, <2>1, GotoKeeps, ModeReturnCall
    <2>5. Certain' => Certain /\ fw' = IF answer = "OK" THEN SYSSTORE(call.save) ELSE fw
      BY <2>1, ExchangeAnswered DEF Certain
    <2> QED
      BY <1>1, <2>2, <2>3, <2>4, <2>5
      DEF Views, ModeView, ResetDoubted, StoreView, AutoView, Bracketed
  <1>4. CASE ModeSet
    <2>1. PICK answer \in Answers :
            /\ Exchange(CWMODE(call.mode, call.save), answer)
            /\ IF Brackets
               THEN /\ call' = [call EXCEPT !.pc = "restore", !.sent = answer = "OK"]
                    /\ UNCHANGED <<wifiMode, wifiModeDef>>
               ELSE ModeDone(answer = "OK")
      BY <1>4 DEF ModeSet
    <2> DEFINE e == CWMODE(call.mode, call.save)
    <2>2. UNCHANGED <<at1, persistent>> /\ call.pc = "cwmode"
      BY <1>4 DEF ModeSet
    <2>3. e.store = fw.store /\ e.mode = call.mode
      BY <1>1, ModeEffect
    <2>4. Certain' => Certain /\ fw' = IF answer = "OK" THEN e ELSE fw
      BY <2>1, ExchangeAnswered DEF Certain
    <2>5. CASE Brackets
      <3>1. call'.pc = "restore" /\ call'.save = call.save /\ call'.mode = call.mode
            /\ call'.sent = (answer = "OK") /\ wifiMode' = wifiMode
        BY <1>1, <2>1, <2>5 DEF Calls
      <3> HIDE DEF e
      <3> QED
        BY <1>1, <2>2, <2>3, <2>4, <3>1
        DEF Views, ModeView, ResetDoubted, StoreView, AutoView, Bracketed
    <2>6. CASE ~Brackets
      <3>1. call'.pc \in {"idle", "body"}
        BY <1>1, <2>1, <2>6, ModeReturnCall DEF ModeDone
      <3>2. wifiMode' = IF answer = "OK" THEN call.mode ELSE wifiMode
        BY <2>1, <2>6 DEF ModeDone
      <3>3. at1 \/ persistent = call.save
        BY <2>6 DEF Brackets
      <3> HIDE DEF e
      <3> QED
        BY <1>1, <2>2, <2>3, <2>4, <3>1, <3>2, <3>3
        DEF Views, ModeView, ResetDoubted, StoreView, AutoView, Bracketed
    <2> QED
      BY <2>5, <2>6
  <1>5. CASE ModeRestore
    <2>1. PICK answer \in Answers : Exchange(SYSSTORE(persistent), answer) /\ Restored(answer)
      BY <1>5 DEF ModeRestore
    <2> DEFINE e == SYSSTORE(persistent)
    <2>2. call.pc = "restore" /\ call'.pc \in {"idle", "body"}
      BY <1>1, <1>5, ModeReturnCall DEF ModeRestore, ModeDone
    <2>3. wifiMode' = IF call.sent THEN call.mode ELSE wifiMode
      BY <1>5 DEF ModeRestore, ModeDone
    <2>4. e.store = persistent /\ e.mode = fw.mode
      BY <1>1, StoreEffect
    <2>5. Certain' => Certain /\ fw' = IF answer = "OK" THEN e ELSE fw
      BY <2>1, ExchangeAnswered DEF Certain
    <2>6. persistent' = IF answer = "OK" THEN persistent ELSE call.save
      BY <2>1 DEF Restored
    <2> HIDE DEF e
    <2> QED
      BY <1>1, <2>2, <2>3, <2>4, <2>5, <2>6
      DEF Views, ModeView, ResetDoubted, StoreView, AutoView, Bracketed
  <1> QED
    BY <1>2, <1>3, <1>4, <1>5

(* A step that ends with no promise but those of an idle driver. *)
LEMMA ViewsPlain ==
  ASSUME SafeInv, NEW e, e.store = fw.store, e.mode = fw.mode,
         NEW answer \in Answers, Exchange(e, answer), UNCHANGED <<at1, drv>>,
         call.pc \in {"body", "autoconn", "cwqap"},
         call'.pc \in {"idle", "mode"}
           \/ (call'.pc = "autoconn" /\ call'.op = "joinAP" /\ persistent)
  PROVE  Views'
  <1>1. Certain' => Certain /\ fw'.store = fw.store /\ fw'.mode = fw.mode
    BY ExchangeAnswered DEF Certain
  <1> QED
    BY <1>1 DEF SafeInv, Views, ModeView, ResetDoubted, StoreView, AutoView, Bracketed, drv

LEMMA ViewsBody ==
  ASSUME SafeInv, Body \/ AutoConnect
  PROVE  Views'
  <1>1. /\ TypeInv /\ fw \in Firmware /\ call \in Calls /\ call.arg \in BOOLEAN
        /\ call.net \in Networks \cup {NoAP, Stored}
    BY TypeInvParts DEF SafeInv, FwOK, DrvOK, Calls
  <1>2. Settings.store = fw.store /\ Settings.mode = fw.mode
    BY <1>1, SettingsEffect
  <1>3. CASE Body /\ (ListAPBody \/ StaStaticIpBody)
    BY <1>1, <1>2, <1>3, ReturnCall, ViewsPlain DEF Body, ListAPBody, StaStaticIpBody
  <1>4. CASE Body /\ BeginSoftAPBody
    <2>1. call'.pc = "idle" /\ call.pc = "body" /\ UNCHANGED <<at1, drv>>
      BY <1>1, <1>4, ReturnCall DEF Body, BeginSoftAPBody
    <2>2. CASE UNCHANGED <<fw, faults, doubt>>
      BY <2>1, <2>2
      DEF SafeInv, Views, ModeView, ResetDoubted, StoreView, AutoView, Bracketed, Certain, drv
    <2> QED
      BY <1>2, <1>4, <2>1, <2>2, ViewsPlain DEF BeginSoftAPBody
  <1>5. CASE Body /\ SoftApIpBody
    <2>1. call'.pc = "mode" /\ call.pc = "body" /\ UNCHANGED <<at1, drv>>
      BY <1>1, <1>5 DEF Body, SoftApIpBody, Calls
    <2> QED
      BY <1>2, <1>5, <2>1, ViewsPlain DEF SoftApIpBody
  <1>6. CASE Body /\ JoinAPBody
    <2>1. PICK answer \in Answers :
            /\ Exchange(CWJAP(call.net), answer)
            /\ IF answer = "OK" /\ persistent THEN Goto("autoconn") ELSE Return(answer = "OK")
      BY <1>6 DEF JoinAPBody
    <2>2. call.op = "joinAP" /\ call.pc = "body" /\ UNCHANGED <<at1, drv>>
      BY <1>6 DEF Body, JoinAPBody
    <2>3. call'.pc = "idle" \/ (call'.pc = "autoconn" /\ call'.op = "joinAP" /\ persistent)
      BY <1>1, <2>1, <2>2, ReturnCall, GotoKeeps
    <2>4. CWJAP(call.net).store = fw.store /\ CWJAP(call.net).mode = fw.mode
      BY <1>1, JoinEffect
    <2> QED
      BY <2>1, <2>2, <2>3, <2>4, ViewsPlain
  <1>7. CASE AutoConnect
    <2> DEFINE b == call.op = "joinAP" \/ call.arg
    <2>1. PICK answer \in Answers :
            Exchange(CWAUTOCONN(b), answer) /\ Return(call.op = "joinAP" \/ answer = "OK")
      BY <1>7 DEF AutoConnect
    <2>2. CWAUTOCONN(b).store = fw.store /\ CWAUTOCONN(b).mode = fw.mode
      BY <1>1, AutoEffect
    <2>3. call'.pc = "idle" /\ call.pc = "autoconn" /\ UNCHANGED <<at1, drv>>
      BY <1>1, <1>7, <2>1, ReturnCall DEF AutoConnect
    <2> QED
      BY <2>1, <2>2, <2>3, ViewsPlain
  <1> QED
    BY <1>3, <1>4, <1>5, <1>6, <1>7 DEF Body

(* quitAP. *)
LEMMA ViewsQuit ==
  ASSUME SafeInv, QuitStore \/ QuitAuto \/ QuitRestore \/ Quit
  PROVE  Views'
  <1>1. /\ TypeInv /\ Views /\ fw \in Firmware /\ call \in Calls /\ (at1 => ~fw.store)
        /\ call.save \in BOOLEAN /\ persistent \in BOOLEAN /\ at1 \in BOOLEAN
    BY TypeInvParts DEF SafeInv, FwOK, DrvOK, Calls
  <1>2. CASE QuitStore
    <2> DEFINE e == SYSSTORE(call.save)
    <2>1. PICK answer \in Answers :
            Exchange(e, answer) /\ IF answer = "OK" THEN Goto("qauto") ELSE Return(FALSE)
      BY <1>2 DEF QuitStore
    <2>2. UNCHANGED <<at1, persistent, wifiMode>> /\ call.pc = "qstore"
      BY <1>2 DEF QuitStore, drv
    <2>3. e.store = call.save /\ e.mode = fw.mode
      BY <1>1, StoreEffect
    <2>4. IF answer = "OK" THEN call'.pc = "qauto" /\ call'.save = call.save /\ call'.op = call.op
                           ELSE call'.pc = "idle"
      BY <1>1, <2>1, GotoKeeps, ReturnCall
    <2>5. Certain' => Certain /\ fw' = IF answer = "OK" THEN e ELSE fw
      BY <2>1, ExchangeAnswered DEF Certain
    <2> HIDE DEF e
    <2> QED
      BY <1>1, <2>2, <2>3, <2>4, <2>5
      DEF Views, ModeView, ResetDoubted, StoreView, AutoView, Bracketed
  <1>3. CASE QuitAuto
    <2> DEFINE e == CWAUTOCONN(FALSE)
    <2>1. PICK answer \in Answers : Exchange(e, answer)
      BY <1>3 DEF QuitAuto
    <2>2. UNCHANGED <<at1, persistent, wifiMode>> /\ call.pc = "qauto"
      BY <1>3 DEF QuitAuto, drv
    <2>3. e.store = fw.store /\ e.mode = fw.mode
      BY <1>1, AutoEffect
    <2>4. /\ call'.pc = IF Brackets THEN "qrestore" ELSE "cwqap"
          /\ call'.save = call.save
      BY <1>1, <1>3, GotoKeeps DEF QuitAuto
    <2>5. Certain' => Certain /\ fw'.store = fw.store /\ fw'.mode = fw.mode
      BY <2>1, <2>3, ExchangeAnswered DEF Certain
    <2> QED
      BY <1>1, <2>2, <2>4, <2>5
      DEF Views, ModeView, ResetDoubted, StoreView, AutoView, Bracketed, Brackets
  <1>4. CASE QuitRestore
    <2> DEFINE e == SYSSTORE(persistent)
    <2>1. PICK answer \in Answers : Exchange(e, answer) /\ Restored(answer)
      BY <1>4 DEF QuitRestore
    <2>2. UNCHANGED <<at1, wifiMode>> /\ call.pc = "qrestore" /\ call'.pc = "cwqap"
      BY <1>1, <1>4, GotoKeeps DEF QuitRestore
    <2>3. e.store = persistent /\ e.mode = fw.mode
      BY <1>1, StoreEffect
    <2>4. Certain' => Certain /\ fw' = IF answer = "OK" THEN e ELSE fw
      BY <2>1, ExchangeAnswered DEF Certain
    <2>5. persistent' = IF answer = "OK" THEN persistent ELSE call.save
      BY <2>1 DEF Restored
    <2> HIDE DEF e
    <2> QED
      BY <1>1, <2>2, <2>3, <2>4, <2>5
      DEF Views, ModeView, ResetDoubted, StoreView, AutoView, Bracketed
  <1>5. CASE Quit
    <2>1. PICK answer \in Answers : Exchange(CWQAP, answer) /\ Return(answer = "OK")
      BY <1>5 DEF Quit
    <2>2. CWQAP.store = fw.store /\ CWQAP.mode = fw.mode
      BY <1>1, StationEffect DEF CWQAP
    <2>3. call'.pc = "idle" /\ call.pc = "cwqap" /\ UNCHANGED <<at1, drv>>
      BY <1>1, <1>5, <2>1, ReturnCall DEF Quit
    <2> QED
      BY <2>1, <2>2, <2>3, ViewsPlain
  <1> QED
    BY <1>2, <1>3, <1>4, <1>5

(* reset and sysPersistent. *)
LEMMA ViewsReset ==
  ASSUME SafeInv, Rst \/ Setup \/ NoStore \/ ReadMode \/ SetPersistent
  PROVE  Views'
  <1>1. /\ TypeInv /\ Views /\ fw \in Firmware /\ call \in Calls /\ (at1 => ~fw.store)
        /\ call.arg \in BOOLEAN /\ persistent \in BOOLEAN /\ at1 \in BOOLEAN
    BY TypeInvParts DEF SafeInv, FwOK, DrvOK, Calls
  <1>2. CASE Rst
    <2>1. "reset" \in doubt' /\ ~Certain'
      BY <1>2 DEF Rst, Certain
    <2>2. call'.pc = "setup"
      BY <1>1, <1>2, GotoKeeps DEF Rst
    <2> QED
      BY <2>1, <2>2 DEF Views, ModeView, ResetDoubted, StoreView, AutoView
  <1>3. CASE Setup
    <2>1. PICK answer \in Answers :
            /\ Exchange(fw, answer)
            /\ IF answer = "OK" THEN Goto(IF at1 THEN "cwmode?" ELSE "nostore") ELSE Return(FALSE)
      BY <1>3 DEF Setup
    <2>2. "reset" \in doubt' /\ ~Certain'
      BY <1>1, <1>3, <2>1, ExchangeAnswered DEF Setup, Views, ResetDoubted, Certain
    <2>3. call'.pc \in {"idle", "nostore", "cwmode?"} /\ (call'.pc = "cwmode?" => at1)
      <3>1. CASE answer = "OK" /\ at1
        BY <1>1, <2>1, <3>1, GotoKeeps
      <3>2. CASE answer = "OK" /\ ~at1
        BY <1>1, <2>1, <3>2, GotoKeeps
      <3>3. CASE answer # "OK"
        BY <1>1, <2>1, <3>3, ReturnCall
      <3> QED
        BY <3>1, <3>2, <3>3
    <2>4. fw' = fw
      BY <2>1 DEF Exchange
    <2> QED
      BY <1>1, <2>2, <2>3, <2>4 DEF Views, ModeView, ResetDoubted, StoreView, AutoView
  <1>4. CASE NoStore
    <2>1. PICK answer \in Answers :
            Exchange(SYSSTORE(FALSE), answer) /\ persistent' = (answer # "OK" \/ persistent)
      BY <1>4 DEF NoStore
    <2>2. "reset" \in doubt' /\ ~Certain'
      BY <1>1, <1>4, <2>1, ExchangeAnswered DEF NoStore, Views, ResetDoubted, Certain
    <2>3. call'.pc = "cwmode?"
      BY <1>1, <1>4, GotoKeeps DEF NoStore
    <2>4. SYSSTORE(FALSE).store = FALSE
      BY <1>1, StoreEffect
    <2>5. "silence" \notin doubt' /\ fw'.store => persistent'
      BY <2>1, <2>4, ExchangeAnswered
    <2> QED
      BY <2>2, <2>3, <2>5 DEF Views, ModeView, ResetDoubted, StoreView, AutoView
  <1>5. CASE ReadMode
    <2>1. call.pc = "cwmode?" /\ call'.pc = "idle" /\ persistent' = persistent
      BY <1>1, <1>5, ReturnCall DEF ReadMode
    <2>2. CASE /\ wifiMode' = fw.mode /\ UNCHANGED fw
               /\ doubt' = (doubt \ {"reset"}) \cup (IF ~at1 /\ persistent # fw.store THEN {"store"} ELSE {})
      <3>1. Certain' => "silence" \notin doubt
        BY <2>2 DEF Certain
      <3> QED
        BY <1>1, <2>1, <2>2, <3>1
        DEF Views, ModeView, ResetDoubted, StoreView, AutoView, Bracketed
    <2>3. CASE \E answer \in Answers : Exchange(fw, answer)
      <3>1. ~Certain'
        BY <1>1, <2>1, <2>3, ExchangeAnswered DEF Views, ResetDoubted, Certain
      <3> QED
        BY <2>1, <3>1 DEF Views, ModeView, ResetDoubted, StoreView, AutoView
    <2> QED
      BY <1>5, <2>2, <2>3 DEF ReadMode
  <1>6. CASE SetPersistent
    <2>1. call.pc = "sysstore" /\ call'.pc = "idle" /\ wifiMode' = wifiMode
      BY <1>1, <1>6, ReturnCall DEF SetPersistent
    <2>2. CASE at1 /\ UNCHANGED <<fw, doubt>>
      BY <1>1, <2>1, <2>2
      DEF Views, ModeView, ResetDoubted, StoreView, AutoView, Certain, Bracketed
    <2>3. CASE ~at1
      <3> DEFINE e == SYSSTORE(call.arg)
      <3>1. PICK answer \in Answers :
              Exchange(e, answer) /\ persistent' = IF answer = "OK" THEN call.arg ELSE persistent
        BY <1>6, <2>3 DEF SetPersistent
      <3>2. e.store = call.arg /\ e.mode = fw.mode
        BY <1>1, StoreEffect
      <3>3. Certain' => Certain /\ fw' = IF answer = "OK" THEN e ELSE fw
        BY <3>1, ExchangeAnswered DEF Certain
      <3> HIDE DEF e
      <3> QED
        BY <1>1, <2>1, <3>1, <3>2, <3>3
        DEF Views, ModeView, ResetDoubted, StoreView, AutoView, Bracketed
    <2> QED
      BY <1>6, <2>2, <2>3 DEF SetPersistent
  <1> QED
    BY <1>2, <1>3, <1>4, <1>5, <1>6

(* The network and the module by themselves. *)
LEMMA ViewsModule ==
  ASSUME SafeInv, Network \/ SelfRestart \/ UNCHANGED vars
  PROVE  Views'
  <1>1. Views /\ fw \in Firmware
    BY TypeInvParts DEF SafeInv, FwOK
  <1>2. CASE Network \/ UNCHANGED vars
    <2>1. UNCHANGED <<at1, drv, call, doubt>>
      BY <1>2 DEF Network, vars, drv
    <2>2. fw'.store = fw.store /\ fw'.mode = fw.mode
      BY <1>1, <1>2 DEF Network, StationUp, StationDown, vars, Firmware
    <2> QED
      BY <1>1, <2>1, <2>2
      DEF Views, ModeView, ResetDoubted, StoreView, AutoView, Certain, Bracketed, drv
  <1>3. CASE SelfRestart
    <2>1. "silence" \in doubt' /\ ~Certain' /\ doubt \subseteq doubt'
      BY <1>3 DEF SelfRestart, Certain
    <2>2. UNCHANGED <<drv, call>>
      BY <1>3 DEF SelfRestart
    <2> QED
      BY <1>1, <2>1, <2>2 DEF Views, ModeView, ResetDoubted, StoreView, AutoView, drv
  <1> QED
    BY <1>2, <1>3

LEMMA SafeStep == SafeInv /\ [Next]_vars => SafeInv'
  <1> SUFFICES ASSUME SafeInv, [Next]_vars PROVE SafeInv'
    OBVIOUS
  <1>1. TypeInv'
    BY TypeStep DEF SafeInv
  <1>2. Views'
    BY ViewsSketch, ViewsMode, ViewsBody, ViewsQuit, ViewsReset, ViewsModule DEF Next, Driver
  <1> QED
    BY <1>1, <1>2 DEF SafeInv

LEMMA SafeAlways == Spec => []SafeInv
  <1>1. Init => SafeInv
    BY TypeInit, ViewsInit DEF SafeInv
  <1> QED
    BY <1>1, SafeStep, PTL DEF Spec

(* Whatever was refused, after an answered call the driver's wifiMode is the  *)
(* mode of the firmware.                                                    *)
THEOREM ModeAlwaysKnown == Spec => []ModeKnown
  <1>1. SafeInv => ModeKnown
    BY DEF SafeInv, Views, ModeView, Certain, ModeKnown, Idle
  <1> QED
    BY <1>1, SafeAlways, PTL

----------------------------------------------------------------------------
(* What each command may write. *)

LEMMA FlashSame == fw'.flash = fw.flash => Asked
  BY DEF Asked

LEMMA FlashMode ==
  ASSUME SafeInv, Certain, ModeStore \/ ModeSet \/ ModeRestore
  PROVE  Asked
  <1>1. /\ Views /\ fw \in Firmware /\ (at1 => ~fw.store)
        /\ call.mode \in Modes /\ call.save \in BOOLEAN /\ persistent \in BOOLEAN
    BY TypeInvParts DEF SafeInv, FwOK, DrvOK, Calls
  <1>2. \A b \in BOOLEAN : SYSSTORE(b).flash = fw.flash
    BY <1>1, StoreEffect
  <1>3. CASE ModeStore
    <2>1. fw'.flash = fw.flash
      BY <1>1, <1>2, <1>3, ExchangeEffect DEF ModeStore
    <2> QED
      BY <2>1, FlashSame
  <1>4. CASE ModeSet
    <2> DEFINE e == CWMODE(call.mode, call.save)
    <2>1. PICK answer \in Answers : Exchange(e, answer)
      BY <1>4 DEF ModeSet
    <2>2. fw' \in {fw, e}
      BY <2>1, ExchangeEffect
    <2>3. e.flash = IF Stores(call.save) THEN [fw.flash EXCEPT !.mode = call.mode] ELSE fw.flash
      BY <1>1, ModeEffect
    <2>4. Stores(call.save) => call.save
      BY <1>1, <1>4 DEF ModeSet, Stores, Views, StoreView, Bracketed
    <2>5. fw.flash \in Flash
      BY <1>1 DEF Firmware
    <2> HIDE DEF e
    <2> QED
      BY <2>2, <2>3, <2>4, <2>5 DEF Asked, Flash
  <1>5. CASE ModeRestore
    <2>1. fw'.flash = fw.flash
      BY <1>1, <1>2, <1>5, ExchangeEffect DEF ModeRestore
    <2> QED
      BY <2>1, FlashSame
  <1> QED
    BY <1>3, <1>4, <1>5

LEMMA FlashBody ==
  ASSUME SafeInv, Certain, Body \/ AutoConnect
  PROVE  Asked
  <1>1. /\ Views /\ fw \in Firmware /\ call \in Calls /\ fw.flash \in Flash
        /\ call.net \in Networks \cup {NoAP, Stored} /\ call.arg \in BOOLEAN
    BY TypeInvParts DEF SafeInv, FwOK, DrvOK, Calls, Firmware
  <1>2. CASE Body
    <2>1. Stores(persistent) => persistent
      BY <1>1, <1>2 DEF Body, Stores, Views, StoreView, Bracketed
    <2>2. fw' \in {fw, Settings, CWJAP(call.net)}
      BY <1>2, ExchangeEffect
      DEF Body, ListAPBody, StaStaticIpBody, BeginSoftAPBody, SoftApIpBody, JoinAPBody
    <2>3. /\ Settings.flash \in {fw.flash, [fw.flash EXCEPT !.conf = TRUE]}
          /\ ~persistent => Settings.flash = fw.flash
      BY <1>1, <2>1, SettingsEffect
    <2>4. /\ CWJAP(call.net).flash \in {fw.flash, [fw.flash EXCEPT !.ap = call.net]}
          /\ ~persistent => CWJAP(call.net).flash = fw.flash
      BY <1>1, <2>1, JoinEffect
    <2> QED
      BY <1>1, <2>2, <2>3, <2>4 DEF Asked, Flash
  <1>3. CASE AutoConnect
    <2> DEFINE b == call.op = "joinAP" \/ call.arg
    <2>1. fw' \in {fw, CWAUTOCONN(b)}
      BY <1>3, ExchangeEffect DEF AutoConnect
    <2>2. CWAUTOCONN(b).flash = [fw.flash EXCEPT !.auto = b]
      BY <1>1, AutoEffect
    <2>3. AutoConnectAsked
      BY <1>1, <1>3 DEF AutoConnect, Views, AutoView, AutoConnectAsked
    <2> HIDE DEF b
    <2> QED
      BY <1>1, <2>1, <2>2, <2>3 DEF Asked, Flash
  <1> QED
    BY <1>2, <1>3

LEMMA FlashQuit ==
  ASSUME SafeInv, QuitStore \/ QuitAuto \/ QuitRestore \/ Quit
  PROVE  Asked
  <1>1. /\ Views /\ fw \in Firmware /\ fw.flash \in Flash
        /\ call.save \in BOOLEAN /\ persistent \in BOOLEAN
    BY TypeInvParts DEF SafeInv, FwOK, DrvOK, Calls, Firmware
  <1>2. CASE QuitAuto
    <2>1. fw' \in {fw, CWAUTOCONN(FALSE)}
      BY <1>2, ExchangeEffect DEF QuitAuto
    <2>2. CWAUTOCONN(FALSE).flash = [fw.flash EXCEPT !.auto = FALSE]
      BY <1>1, AutoEffect
    <2>3. AutoConnectAsked
      BY <1>1, <1>2 DEF QuitAuto, Views, AutoView, AutoConnectAsked
    <2> QED
      BY <1>1, <2>1, <2>2, <2>3 DEF Asked, Flash
  <1>3. CASE QuitStore \/ QuitRestore \/ Quit
    <2>1. SYSSTORE(call.save).flash = fw.flash /\ SYSSTORE(persistent).flash = fw.flash
      BY <1>1, StoreEffect
    <2>2. CWQAP.flash = fw.flash
      BY <1>1, StationEffect DEF CWQAP
    <2>3. fw' \in {fw, SYSSTORE(call.save), SYSSTORE(persistent), CWQAP}
      BY <1>3, ExchangeEffect DEF QuitStore, QuitRestore, Quit
    <2> QED
      BY <2>1, <2>2, <2>3, FlashSame
  <1> QED
    BY <1>2, <1>3

LEMMA FlashOther ==
  ASSUME SafeInv, Sketch \/ ModeStart \/ Rst \/ Setup \/ NoStore \/ ReadMode \/ SetPersistent
                    \/ Network \/ SelfRestart \/ UNCHANGED vars
  PROVE  Asked
  <1>1. fw \in Firmware /\ at1 \in BOOLEAN /\ call.arg \in BOOLEAN
    BY TypeInvParts DEF SafeInv, FwOK, DrvOK, Calls
  <1>2. CASE Sketch
    BY <1>2, FlashSame
    DEF Sketch, Reset, Start, ListAP, StaStaticIp, BeginSoftAP, SoftApIp, EndSoftAP, WifiOff,
        QuitAP, SysPersistent, StaAutoConnect, JoinAP, Enter
  <1>3. CASE ModeStart \/ UNCHANGED vars
    BY <1>3, FlashSame DEF ModeStart, vars
  <1>4. CASE Rst \/ SelfRestart
    BY <1>1, <1>4, RestartEffect, FlashSame DEF Rst, SelfRestart
  <1>5. CASE Setup \/ ReadMode
    BY <1>5, ExchangeEffect, FlashSame DEF Setup, ReadMode
  <1>6. CASE NoStore \/ SetPersistent
    <2>1. SYSSTORE(FALSE).flash = fw.flash /\ SYSSTORE(call.arg).flash = fw.flash
      BY <1>1, StoreEffect
    <2>2. fw' \in {fw, SYSSTORE(FALSE), SYSSTORE(call.arg)}
      BY <1>6, ExchangeEffect DEF NoStore, SetPersistent
    <2> QED
      BY <2>1, <2>2, FlashSame
  <1>7. CASE Network
    BY <1>1, <1>7, FlashSame DEF Network, StationUp, StationDown, Firmware
  <1> QED
    BY <1>2, <1>3, <1>4, <1>5, <1>6, <1>7

(* No step writes to the flash what its call was not asked to store, as long  *)
(* as every command since the last good reset() was answered.                *)
THEOREM OnlyRequestsReachFlash == Spec => FlashOnlyOnRequest
  <1>1. SafeInv /\ [Next]_vars => (doubt \subseteq {"store"} => Asked)
    BY FlashMode, FlashBody, FlashQuit, FlashOther DEF Next, Driver, Certain
  <1> QED
    BY <1>1, SafeAlways, PTL DEF Spec, FlashOnlyOnRequest
----------------------------------------------------------------------------
(* The stored mode is known, and a persistent join is remembered: the proofs  *)
(* of DefaultKnown and PersistentJoinRemembered.                             *)
(*                                                                          *)
(* Both need to know when the firmware stores exactly (StoreExact): the       *)
(* StoreView above says only that it does not when it should not.            *)

StoreExact ==
  ~at1 /\ doubt = {} /\ call.pc # "rst"
    => fw.store = IF call.pc \in Bracketed THEN call.save ELSE persistent

(* wifiModeDef is the stored mode, once the bracket is closed. *)
DefaultView ==
  doubt = {} /\ call.pc # "rst"
    => fw.flash.mode = IF call.pc = "restore" /\ call.sent /\ call.save THEN call.mode ELSE wifiModeDef

(* After a restart, until CWMODE? is answered, the mode is the stored one. *)
RestartView ==
  call.pc \in {"setup", "nostore", "cwmode?"} /\ "silence" \notin doubt => fw.flash.mode = fw.mode

Remembered == STA \in fw.flash.mode /\ call.net \in {fw.flash.ap, Stored}

(* A persistent joinAP has the station stored before it joins, and the        *)
(* network after it: its setWifiMode needs no bracket.                       *)
JoinSwitch == call.pc \in {"mode", "cwmode"} => STA \in call.mode /\ call.save = persistent /\ ~call.back

JoinView ==
  call.op = "joinAP" =>
    /\ call.pc \in {"mode", "cwmode", "body", "autoconn", "idle"}
    /\ JoinSwitch
    /\ call.pc = "body" /\ persistent /\ doubt = {} => STA \in fw.flash.mode
    /\ call.pc = "autoconn" /\ doubt = {} => Remembered
    /\ call.pc = "idle" /\ call.ok /\ persistent /\ doubt = {} => Remembered

Known == StoreExact /\ DefaultView /\ RestartView /\ JoinView
KnownInv == SafeInv /\ Known

LEMMA KnownFacts ==
  ASSUME KnownInv
  PROVE  /\ at1 \in BOOLEAN /\ fw \in Firmware /\ call \in Calls /\ persistent \in BOOLEAN
         /\ call.mode \in Modes /\ call.save \in BOOLEAN /\ call.sent \in BOOLEAN
         /\ call.net \in Networks \cup {NoAP, Stored} /\ call.arg \in BOOLEAN /\ fw.store \in BOOLEAN
         /\ at1 => ~fw.store
  BY TypeInvParts DEF KnownInv, SafeInv, FwOK, DrvOK, Calls, Firmware

LEMMA KnownInit == Init => Known
  BY DEF Init, Local, Restarted, Known, StoreExact, DefaultView, RestartView, JoinView

(* What without doubt a command does. *)
LEMMA ExchangeCertain ==
  ASSUME NEW e, NEW answer \in Answers, Exchange(e, answer)
  PROVE  /\ doubt' = {} => doubt = {}
         /\ "silence" \notin doubt' => "silence" \notin doubt
         /\ "silence" \notin doubt' => fw' = IF answer = "OK" THEN e ELSE fw
  BY ExchangeAnswered

(* The end of setWifiMode in a joinAP. *)
LEMMA ModeReturnJoin ==
  ASSUME call \in Calls, call.op = "joinAP", ~call.back, NEW ok \in BOOLEAN, ModeReturn(ok)
  PROVE  IF ok THEN call'.pc = "body" ELSE call'.pc = "idle" /\ ~call'.ok
  <1>1. CASE ok
    BY <1>1, GotoKeeps DEF ModeReturn, Switches
  <1>2. CASE ~ok
    BY <1>2, ReturnCall DEF ModeReturn
  <1> QED
    BY <1>1, <1>2

LEMMA KnownSketch ==
  ASSUME KnownInv, Sketch
  PROVE  Known'
  <1>1. PICK c \in Calls : Enter(c) /\ Opening(c)
    BY SketchEnters DEF KnownInv, SafeInv
  <1>2. UNCHANGED <<at1, persistent, wifiModeDef, fw, doubt>> /\ call' = c /\ call.pc = "idle"
    BY <1>1 DEF Enter, Idle, drv
  <1>3. Known
    BY DEF KnownInv
  <1>4. StoreExact'
    BY <1>1, <1>2, <1>3 DEF Known, StoreExact, Bracketed, Opening
  <1>5. DefaultView'
    BY <1>1, <1>2, <1>3 DEF Known, DefaultView, Opening
  <1>6. RestartView'
    BY <1>1, <1>2 DEF RestartView, Opening
  <1>7. JoinView'
    BY <1>1, <1>2 DEF JoinView, JoinSwitch, Opening
  <1> QED
    BY <1>4, <1>5, <1>6, <1>7 DEF Known

(* setWifiMode. *)
LEMMA KnownModeStart ==
  ASSUME KnownInv, ModeStart
  PROVE  Known'
  <1>1. Known /\ call \in Calls /\ call.save \in BOOLEAN /\ persistent \in BOOLEAN
    BY KnownFacts DEF KnownInv
  <1>2. UNCHANGED <<at1, persistent, wifiModeDef, fw, doubt>> /\ call.pc = "mode"
    BY DEF ModeStart, drv
  <1>3. CASE ModeReturn(FALSE) \/ (ModeReturn(TRUE) /\ NoChange)
    <2>1. call'.pc \in {"idle", "body"} /\ call'.op = call.op
      BY <1>1, <1>3, ModeReturnCall
    <2>2. StoreExact' /\ DefaultView' /\ RestartView'
      BY <1>1, <1>2, <2>1 DEF Known, StoreExact, DefaultView, RestartView, Bracketed
    <2>3. ASSUME call.op = "joinAP", call'.pc = "body", persistent, doubt = {}
          PROVE  STA \in fw.flash.mode
      <3>1. NoChange /\ call.save /\ STA \in call.mode
        BY <1>1, <1>2, <1>3, <2>3, ModeReturnJoin DEF Known, JoinView, JoinSwitch
      <3> QED
        BY <1>1, <1>2, <2>3, <3>1 DEF Known, DefaultView, NoChange
    <2>4. call.op = "joinAP" /\ call'.pc = "idle" => ~call'.ok
      BY <1>1, <1>2, <1>3, ModeReturnJoin DEF Known, JoinView, JoinSwitch
    <2>5. JoinView'
      BY <1>2, <2>1, <2>3, <2>4 DEF JoinView, JoinSwitch
    <2> QED
      BY <2>2, <2>5 DEF Known
  <1>4. CASE ~NoChange /\ Goto(IF Brackets THEN "store" ELSE "cwmode")
    <2>1. /\ call'.pc = IF Brackets THEN "store" ELSE "cwmode"
          /\ call'.op = call.op /\ call'.save = call.save /\ call'.mode = call.mode
          /\ call'.back = call.back
      BY <1>1, <1>4 DEF Goto, Calls
    <2>2. StoreExact' /\ DefaultView' /\ RestartView'
      BY <1>1, <1>2, <2>1 DEF Known, StoreExact, DefaultView, RestartView, Bracketed, Brackets
    <2>3. JoinView'
      BY <1>1, <1>2, <2>1 DEF Known, JoinView, JoinSwitch, Brackets
    <2> QED
      BY <2>2, <2>3 DEF Known
  <1> QED
    BY <1>3, <1>4 DEF ModeStart

LEMMA KnownModeStore ==
  ASSUME KnownInv, ModeStore
  PROVE  Known'
  <1>1. Known /\ call \in Calls /\ call.save \in BOOLEAN /\ persistent \in BOOLEAN /\ fw \in Firmware
    BY KnownFacts DEF KnownInv
  <1> DEFINE e == SYSSTORE(call.save)
  <1>2. PICK answer \in Answers :
          Exchange(e, answer) /\ IF answer = "OK" THEN Goto("cwmode") ELSE ModeReturn(FALSE)
    BY DEF ModeStore
  <1>3. UNCHANGED <<at1, persistent, wifiModeDef>> /\ call.pc = "store"
    BY DEF ModeStore, drv
  <1>4. e.store = call.save /\ e.flash = fw.flash
    BY <1>1, StoreEffect
  <1>5. /\ call'.op = call.op
        /\ IF answer = "OK" THEN call'.pc = "cwmode" /\ call'.save = call.save
                            ELSE call'.pc \in {"idle", "body"}
    BY <1>1, <1>2, GotoKeeps, ModeReturnCall
  <1>6. doubt' = {} => doubt = {} /\ fw' = IF answer = "OK" THEN e ELSE fw
    BY <1>2, ExchangeCertain
  <1> HIDE DEF e
  <1>7. StoreExact' /\ DefaultView' /\ RestartView'
    BY <1>1, <1>3, <1>4, <1>5, <1>6 DEF Known, StoreExact, DefaultView, RestartView, Bracketed
  <1>8. JoinView'
    BY <1>1, <1>3, <1>5 DEF Known, JoinView
  <1> QED
    BY <1>7, <1>8 DEF Known

LEMMA KnownModeSet ==
  ASSUME KnownInv, ModeSet
  PROVE  Known'
  <1>1. /\ Known /\ call \in Calls /\ call.save \in BOOLEAN /\ persistent \in BOOLEAN /\ at1 \in BOOLEAN
        /\ fw \in Firmware /\ call.mode \in Modes
    BY KnownFacts DEF KnownInv
  <1> DEFINE e == CWMODE(call.mode, call.save)
  <1>2. PICK answer \in Answers :
          /\ Exchange(e, answer)
          /\ IF Brackets
             THEN /\ call' = [call EXCEPT !.pc = "restore", !.sent = answer = "OK"]
                  /\ UNCHANGED <<wifiMode, wifiModeDef>>
             ELSE ModeDone(answer = "OK")
    BY DEF ModeSet
  <1>3. UNCHANGED <<at1, persistent>> /\ call.pc = "cwmode"
    BY DEF ModeSet
  <1>4. e.store = fw.store /\ e.flash = IF Stores(call.save) THEN [fw.flash EXCEPT !.mode = call.mode] ELSE fw.flash
    BY <1>1, ModeEffect
  <1>5. doubt' = {} => doubt = {} /\ fw' = IF answer = "OK" THEN e ELSE fw
    BY <1>2, ExchangeCertain
  <1>6. doubt = {} => Stores(call.save) = call.save
    BY <1>1, <1>3 DEF Known, StoreExact, Stores, Bracketed
  <1>7. fw.flash \in Flash
    BY <1>1 DEF Firmware
  <1>8. doubt = {} => e.flash.mode = IF call.save THEN call.mode ELSE fw.flash.mode
    BY <1>4, <1>6, <1>7 DEF Flash
  <1>9. doubt = {} => fw.flash.mode = wifiModeDef
    BY <1>1, <1>3 DEF Known, DefaultView
  <1>10. CASE Brackets
    <2>1. /\ call'.pc = "restore" /\ call'.save = call.save /\ call'.mode = call.mode
          /\ call'.sent = (answer = "OK") /\ call'.op = call.op /\ wifiModeDef' = wifiModeDef
      BY <1>1, <1>2, <1>10 DEF Calls
    <2>2. call.op # "joinAP"
      BY <1>1, <1>3, <1>10 DEF Known, JoinView, JoinSwitch, Brackets
    <2> HIDE DEF e
    <2>3. StoreExact'
      BY <1>1, <1>3, <1>4, <1>5, <2>1 DEF Known, StoreExact, Bracketed
    <2>4. DefaultView'
      BY <1>5, <1>8, <1>9, <2>1 DEF DefaultView
    <2>5. RestartView' /\ JoinView'
      BY <2>1, <2>2 DEF RestartView, JoinView
    <2> QED
      BY <2>3, <2>4, <2>5 DEF Known
  <1>11. CASE ~Brackets
    <2>1. ModeReturn(answer = "OK") /\ (answer = "OK") \in BOOLEAN
      BY <1>2, <1>11 DEF ModeDone
    <2>2. call'.pc \in {"idle", "body"} /\ call'.op = call.op
      BY <1>1, <2>1, ModeReturnCall
    <2>3. wifiModeDef' = IF answer = "OK" /\ call.save THEN call.mode ELSE wifiModeDef
      BY <1>2, <1>11 DEF ModeDone
    <2>4. at1 \/ persistent = call.save
      BY <1>11 DEF Brackets
    <2> HIDE DEF e
    <2>5. StoreExact'
      BY <1>1, <1>3, <1>4, <1>5, <2>2, <2>4 DEF Known, StoreExact, Bracketed
    <2>6. DefaultView'
      BY <1>5, <1>8, <1>9, <2>2, <2>3 DEF DefaultView
    <2>7. JoinView'
      <3>1. SUFFICES ASSUME call.op = "joinAP" PROVE JoinView'
        BY <2>2 DEF JoinView
      <3>2. STA \in call.mode /\ call.save = persistent /\ ~call.back
        BY <1>1, <1>3, <3>1 DEF Known, JoinView, JoinSwitch
      <3>3. IF answer = "OK" THEN call'.pc = "body" ELSE call'.pc = "idle" /\ ~call'.ok
        BY <1>1, <2>1, <3>1, <3>2, ModeReturnJoin
      <3> QED
        BY <1>3, <1>5, <1>8, <2>2, <3>2, <3>3 DEF JoinView, JoinSwitch
    <2> QED
      BY <2>2, <2>5, <2>6, <2>7 DEF Known, RestartView
  <1> QED
    BY <1>10, <1>11

LEMMA KnownModeRestore ==
  ASSUME KnownInv, ModeRestore
  PROVE  Known'
  <1>1. /\ Known /\ call \in Calls /\ call.save \in BOOLEAN /\ persistent \in BOOLEAN /\ fw \in Firmware
        /\ call.sent \in BOOLEAN
    BY KnownFacts DEF KnownInv
  <1> DEFINE e == SYSSTORE(persistent)
  <1>2. PICK answer \in Answers : Exchange(e, answer) /\ Restored(answer)
    BY DEF ModeRestore
  <1>3. at1' = at1 /\ call.pc = "restore"
    BY DEF ModeRestore
  <1>4. e.store = persistent /\ e.flash = fw.flash
    BY <1>1, StoreEffect
  <1>5. call'.pc \in {"idle", "body"} /\ call'.op = call.op
    BY <1>1, ModeReturnCall DEF ModeRestore, ModeDone
  <1>6. doubt' = {} => doubt = {} /\ fw' = IF answer = "OK" THEN e ELSE fw
    BY <1>2, ExchangeCertain
  <1>7. persistent' = IF answer = "OK" THEN persistent ELSE call.save
    BY <1>2 DEF Restored
  <1>8. wifiModeDef' = IF call.sent /\ call.save THEN call.mode ELSE wifiModeDef
    BY DEF ModeRestore, ModeDone
  <1> HIDE DEF e
  <1>9. StoreExact'
    BY <1>1, <1>3, <1>4, <1>5, <1>6, <1>7 DEF Known, StoreExact, Bracketed
  <1>10. DefaultView'
    BY <1>1, <1>3, <1>4, <1>5, <1>6, <1>8 DEF Known, DefaultView
  <1>11. RestartView' /\ JoinView'
    BY <1>1, <1>3, <1>5 DEF Known, RestartView, JoinView
  <1> QED
    BY <1>9, <1>10, <1>11 DEF Known

(* A step that keeps what is stored and whether. *)
LEMMA KnownPlain ==
  ASSUME KnownInv, UNCHANGED <<at1, drv>>, doubt' = {} => doubt = {},
         doubt' = {} => fw'.store = fw.store /\ fw'.flash.mode = fw.flash.mode,
         call.pc \in {"body", "autoconn", "cwqap"}, call'.pc \in {"idle", "mode", "autoconn"}
  PROVE  StoreExact' /\ DefaultView' /\ RestartView'
  <1>1. Known
    BY DEF KnownInv
  <1>2. UNCHANGED <<at1, persistent, wifiModeDef>>
    BY DEF drv
  <1> QED
    BY <1>1, <1>2 DEF Known, StoreExact, DefaultView, RestartView, Bracketed

LEMMA KnownBody ==
  ASSUME KnownInv, Body
  PROVE  Known'
  <1>1. /\ Known /\ fw \in Firmware /\ call \in Calls /\ call.net \in Networks \cup {NoAP, Stored}
        /\ at1 \in BOOLEAN /\ persistent \in BOOLEAN
    BY KnownFacts DEF KnownInv
  <1>2. UNCHANGED <<at1, drv>> /\ call.pc = "body"
    BY DEF Body
  <1>3. fw.flash \in Flash
    BY <1>1 DEF Firmware
  <1>4. Settings.store = fw.store /\ Settings.flash.mode = fw.flash.mode
    BY <1>1, <1>3, SettingsEffect DEF Flash
  <1>5. CASE ListAPBody \/ StaStaticIpBody \/ BeginSoftAPBody \/ SoftApIpBody
    <2>1. doubt' = {} => doubt = {} /\ fw' \in {fw, Settings}
      BY <1>5, ExchangeCertain DEF ListAPBody, StaStaticIpBody, BeginSoftAPBody, SoftApIpBody
    <2>2. call'.pc \in {"idle", "mode"} /\ call'.op = call.op
      <3>1. CASE ListAPBody \/ StaStaticIpBody \/ BeginSoftAPBody
        BY <1>1, <3>1, ReturnCall DEF ListAPBody, StaStaticIpBody, BeginSoftAPBody
      <3>2. CASE SoftApIpBody
        BY <1>1, <3>2 DEF SoftApIpBody, Calls
      <3> QED
        BY <1>5, <3>1, <3>2
    <2>3. call.op # "joinAP"
      BY <1>5 DEF ListAPBody, StaStaticIpBody, BeginSoftAPBody, SoftApIpBody
    <2>4. StoreExact' /\ DefaultView' /\ RestartView'
      BY <1>2, <1>4, <2>1, <2>2, KnownPlain
    <2> QED
      BY <2>2, <2>3, <2>4 DEF Known, JoinView
  <1>6. CASE JoinAPBody
    <2> DEFINE e == CWJAP(call.net)
    <2>1. PICK answer \in Answers :
            /\ Exchange(e, answer)
            /\ IF answer = "OK" /\ persistent THEN Goto("autoconn") ELSE Return(answer = "OK")
      BY <1>6 DEF JoinAPBody
    <2>2. /\ e.store = fw.store
          /\ e.flash \in {fw.flash, [fw.flash EXCEPT !.ap = call.net]}
          /\ Stores(persistent) /\ call.net # Stored => e.flash.ap = call.net
      BY <1>1, JoinEffect
    <2>3. e.flash.mode = fw.flash.mode
      BY <1>3, <2>2 DEF Flash
    <2>4. doubt' = {} => doubt = {} /\ fw' = IF answer = "OK" THEN e ELSE fw
      BY <2>1, ExchangeCertain
    <2>5. /\ call'.op = "joinAP" /\ call'.net = call.net
          /\ IF answer = "OK" /\ persistent THEN call'.pc = "autoconn"
             ELSE call'.pc = "idle" /\ call'.ok = (answer = "OK")
      BY <1>1, <1>6, <2>1, GotoKeeps, ReturnCall DEF JoinAPBody
    <2>6. persistent /\ doubt = {} => Stores(persistent) /\ STA \in fw.flash.mode
      BY <1>1, <1>2, <1>6 DEF Known, StoreExact, JoinView, JoinAPBody, Bracketed, Stores
    <2> HIDE DEF e
    <2>7. StoreExact' /\ DefaultView' /\ RestartView'
      BY <1>2, <2>2, <2>3, <2>4, <2>5, KnownPlain
    <2>8. persistent' = persistent
      BY <1>2 DEF drv
    <2>9. JoinView'
      BY <2>2, <2>3, <2>4, <2>5, <2>6, <2>8 DEF JoinView, JoinSwitch, Remembered
    <2> QED
      BY <2>7, <2>9 DEF Known
  <1> QED
    BY <1>5, <1>6 DEF Body

LEMMA KnownAutoConnect ==
  ASSUME KnownInv, AutoConnect
  PROVE  Known'
  <1> DEFINE b == call.op = "joinAP" \/ call.arg
             e == CWAUTOCONN(b)
  <1>1. Known /\ fw \in Firmware /\ call \in Calls /\ b \in BOOLEAN
    BY KnownFacts DEF KnownInv
  <1>2. UNCHANGED <<at1, drv>> /\ call.pc = "autoconn"
    BY DEF AutoConnect
  <1>3. PICK answer \in Answers : Exchange(e, answer) /\ Return(call.op = "joinAP" \/ answer = "OK")
    BY DEF AutoConnect
  <1>4. e.store = fw.store /\ e.flash = [fw.flash EXCEPT !.auto = b]
    BY <1>1, AutoEffect
  <1>5. e.flash.mode = fw.flash.mode /\ e.flash.ap = fw.flash.ap
    BY <1>1, <1>4 DEF Firmware, Flash
  <1>6. doubt' = {} => doubt = {} /\ fw' = IF answer = "OK" THEN e ELSE fw
    BY <1>3, ExchangeCertain
  <1>7. call'.pc = "idle" /\ call'.op = call.op /\ call'.net = call.net
    BY <1>1, <1>3, ReturnCall
  <1> HIDE DEF e
  <1>8. StoreExact' /\ DefaultView' /\ RestartView'
    BY <1>2, <1>4, <1>5, <1>6, <1>7, KnownPlain
  <1>9. JoinView'
    BY <1>1, <1>2, <1>5, <1>6, <1>7 DEF Known, JoinView, JoinSwitch, Remembered
  <1> QED
    BY <1>8, <1>9 DEF Known

(* quitAP. *)
LEMMA KnownQuit ==
  ASSUME KnownInv, QuitStore \/ QuitAuto \/ QuitRestore \/ Quit
  PROVE  Known'
  <1>1. /\ Known /\ fw \in Firmware /\ call \in Calls /\ at1 \in BOOLEAN
        /\ call.save \in BOOLEAN /\ persistent \in BOOLEAN
    BY KnownFacts DEF KnownInv
  <1>2. fw.flash \in Flash
    BY <1>1 DEF Firmware
  <1>3. wifiModeDef' = wifiModeDef /\ at1' = at1
    BY DEF QuitStore, QuitAuto, QuitRestore, Quit, drv
  <1>4. call'.op = call.op
    BY <1>1, GotoKeeps, ReturnCall DEF QuitStore, QuitAuto, QuitRestore, Quit
  <1>5. call.op # "joinAP"
    BY <1>1 DEF QuitStore, QuitAuto, QuitRestore, Quit, Known, JoinView
  <1>6. JoinView'
    BY <1>4, <1>5 DEF JoinView
  <1>7. CASE QuitStore
    <2> DEFINE e == SYSSTORE(call.save)
    <2>1. PICK answer \in Answers :
            Exchange(e, answer) /\ IF answer = "OK" THEN Goto("qauto") ELSE Return(FALSE)
      BY <1>7 DEF QuitStore
    <2>2. persistent' = persistent /\ call.pc = "qstore"
      BY <1>7 DEF QuitStore, drv
    <2>3. e.store = call.save /\ e.flash = fw.flash
      BY <1>1, StoreEffect
    <2>4. IF answer = "OK" THEN call'.pc = "qauto" /\ call'.save = call.save ELSE call'.pc = "idle"
      BY <1>1, <2>1, GotoKeeps, ReturnCall
    <2>5. doubt' = {} => doubt = {} /\ fw' = IF answer = "OK" THEN e ELSE fw
      BY <2>1, ExchangeCertain
    <2> HIDE DEF e
    <2>6. StoreExact' /\ DefaultView' /\ RestartView'
      BY <1>1, <1>3, <2>2, <2>3, <2>4, <2>5
      DEF Known, StoreExact, DefaultView, RestartView, Bracketed
    <2> QED
      BY <1>6, <2>6 DEF Known
  <1>8. CASE QuitAuto
    <2> DEFINE e == CWAUTOCONN(FALSE)
    <2>1. PICK answer \in Answers : Exchange(e, answer)
      BY <1>8 DEF QuitAuto
    <2>2. persistent' = persistent /\ call.pc = "qauto"
      BY <1>8 DEF QuitAuto, drv
    <2>3. e.store = fw.store /\ e.flash = [fw.flash EXCEPT !.auto = FALSE]
      BY <1>1, AutoEffect
    <2>4. e.flash.mode = fw.flash.mode
      BY <1>2, <2>3 DEF Flash
    <2>5. call'.pc = (IF Brackets THEN "qrestore" ELSE "cwqap") /\ call'.save = call.save
      BY <1>1, <1>8, GotoKeeps DEF QuitAuto
    <2>6. doubt' = {} => doubt = {} /\ fw'.store = fw.store /\ fw'.flash.mode = fw.flash.mode
      BY <2>1, <2>3, <2>4, ExchangeCertain
    <2> HIDE DEF e
    <2>7. StoreExact' /\ DefaultView' /\ RestartView'
      BY <1>1, <1>3, <2>2, <2>5, <2>6
      DEF Known, StoreExact, DefaultView, RestartView, Bracketed, Brackets
    <2> QED
      BY <1>6, <2>7 DEF Known
  <1>9. CASE QuitRestore
    <2> DEFINE e == SYSSTORE(persistent)
    <2>1. PICK answer \in Answers : Exchange(e, answer) /\ Restored(answer)
      BY <1>9 DEF QuitRestore
    <2>2. call.pc = "qrestore" /\ call'.pc = "cwqap"
      BY <1>1, <1>9, GotoKeeps DEF QuitRestore
    <2>3. e.store = persistent /\ e.flash = fw.flash
      BY <1>1, StoreEffect
    <2>4. doubt' = {} => doubt = {} /\ fw' = IF answer = "OK" THEN e ELSE fw
      BY <2>1, ExchangeCertain
    <2>5. persistent' = IF answer = "OK" THEN persistent ELSE call.save
      BY <2>1 DEF Restored
    <2> HIDE DEF e
    <2>6. StoreExact' /\ DefaultView' /\ RestartView'
      BY <1>1, <1>3, <2>2, <2>3, <2>4, <2>5
      DEF Known, StoreExact, DefaultView, RestartView, Bracketed
    <2> QED
      BY <1>6, <2>6 DEF Known
  <1>10. CASE Quit
    <2>1. PICK answer \in Answers : Exchange(CWQAP, answer) /\ Return(answer = "OK")
      BY <1>10 DEF Quit
    <2>2. CWQAP.store = fw.store /\ CWQAP.flash = fw.flash
      BY <1>1, StationEffect DEF CWQAP
    <2>3. call'.pc = "idle" /\ call.pc = "cwqap" /\ UNCHANGED <<at1, drv>>
      BY <1>1, <1>10, <2>1, ReturnCall DEF Quit
    <2>4. doubt' = {} => doubt = {} /\ fw'.store = fw.store /\ fw'.flash = fw.flash
      BY <2>1, <2>2, ExchangeCertain
    <2>5. StoreExact' /\ DefaultView' /\ RestartView'
      BY <2>3, <2>4, KnownPlain
    <2> QED
      BY <1>6, <2>5 DEF Known
  <1> QED
    BY <1>7, <1>8, <1>9, <1>10

(* reset and sysPersistent. *)
LEMMA KnownReset ==
  ASSUME KnownInv, Rst \/ Setup \/ NoStore \/ ReadMode \/ SetPersistent
  PROVE  Known'
  <1>1. /\ Known /\ Views /\ fw \in Firmware /\ call \in Calls /\ (at1 => ~fw.store)
        /\ call.arg \in BOOLEAN /\ persistent \in BOOLEAN /\ at1 \in BOOLEAN
    BY KnownFacts DEF KnownInv, SafeInv
  <1>2. CASE Rst
    <2>1. "reset" \in doubt' /\ doubt' # {}
      BY <1>2 DEF Rst
    <2>2. call'.pc = "setup" /\ call'.op = call.op /\ call.pc = "rst"
      BY <1>1, <1>2, GotoKeeps DEF Rst
    <2>3. "silence" \notin doubt' => fw' = Restarted(fw)
      BY <1>2 DEF Rst
    <2>4. Restarted(fw).mode = fw.flash.mode /\ Restarted(fw).flash = fw.flash
      BY <1>1, RestartEffect
    <2> QED
      BY <1>1, <2>1, <2>2, <2>3, <2>4 DEF Known, StoreExact, DefaultView, RestartView, JoinView
  <1>3. CASE Setup
    <2>1. PICK answer \in Answers :
            /\ Exchange(fw, answer)
            /\ IF answer = "OK" THEN Goto(IF at1 THEN "cwmode?" ELSE "nostore") ELSE Return(FALSE)
      BY <1>3 DEF Setup
    <2>2. "reset" \in doubt' /\ doubt' # {}
      BY <1>1, <1>3, <2>1, ExchangeAnswered DEF Setup, Views, ResetDoubted
    <2>3. call'.op = call.op /\ call.pc = "setup"
      BY <1>1, <1>3, <2>1, GotoKeeps, ReturnCall DEF Setup
    <2>4. fw' = fw /\ ("silence" \notin doubt' => "silence" \notin doubt)
      BY <2>1, ExchangeCertain DEF Exchange
    <2> QED
      BY <1>1, <2>2, <2>3, <2>4 DEF Known, StoreExact, DefaultView, RestartView, JoinView
  <1>4. CASE NoStore
    <2> DEFINE e == SYSSTORE(FALSE)
    <2>1. PICK answer \in Answers : Exchange(e, answer)
      BY <1>4 DEF NoStore
    <2>2. "reset" \in doubt' /\ doubt' # {}
      BY <1>1, <1>4, <2>1, ExchangeAnswered DEF NoStore, Views, ResetDoubted
    <2>3. call'.op = call.op /\ call.pc = "nostore"
      BY <1>1, <1>4, GotoKeeps DEF NoStore
    <2>4. e.mode = fw.mode /\ e.flash = fw.flash
      BY <1>1, StoreEffect
    <2>5. "silence" \notin doubt' => "silence" \notin doubt /\ fw' \in {fw, e}
      BY <2>1, ExchangeCertain
    <2> HIDE DEF e
    <2> QED
      BY <1>1, <2>2, <2>3, <2>4, <2>5 DEF Known, StoreExact, DefaultView, RestartView, JoinView
  <1>5. CASE ReadMode
    <2>1. /\ call.pc = "cwmode?" /\ call'.pc = "idle" /\ call'.op = call.op
          /\ persistent' = persistent /\ at1' = at1
      BY <1>1, <1>5, ReturnCall DEF ReadMode
    <2>2. call.op # "joinAP"
      BY <1>1, <2>1 DEF Known, JoinView
    <2>3. CASE /\ wifiModeDef' = fw.mode /\ UNCHANGED fw
               /\ doubt' = (doubt \ {"reset"}) \cup (IF ~at1 /\ persistent # fw.store THEN {"store"} ELSE {})
      <3>1. doubt' = {} => "silence" \notin doubt /\ (at1 \/ persistent = fw.store)
        BY <2>3
      <3> QED
        BY <1>1, <2>1, <2>2, <2>3, <3>1
        DEF Known, StoreExact, DefaultView, RestartView, JoinView, Bracketed
    <2>4. CASE \E answer \in Answers : Exchange(fw, answer)
      <3>1. doubt' # {}
        BY <1>1, <2>1, <2>4, ExchangeAnswered DEF Views, ResetDoubted
      <3> QED
        BY <2>1, <2>2, <3>1 DEF Known, StoreExact, DefaultView, RestartView, JoinView
    <2> QED
      BY <1>5, <2>3, <2>4 DEF ReadMode
  <1>6. CASE SetPersistent
    <2>1. /\ call.pc = "sysstore" /\ call'.pc = "idle" /\ call'.op = call.op
          /\ at1' = at1 /\ wifiModeDef' = wifiModeDef
      BY <1>1, <1>6, ReturnCall DEF SetPersistent
    <2>2. call.op # "joinAP"
      BY <1>1, <2>1 DEF Known, JoinView
    <2>3. CASE at1 /\ UNCHANGED <<fw, doubt>>
      BY <1>1, <2>1, <2>2, <2>3 DEF Known, StoreExact, DefaultView, RestartView, JoinView
    <2>4. CASE ~at1
      <3> DEFINE e == SYSSTORE(call.arg)
      <3>1. PICK answer \in Answers :
              Exchange(e, answer) /\ persistent' = IF answer = "OK" THEN call.arg ELSE persistent
        BY <1>6, <2>4 DEF SetPersistent
      <3>2. e.store = call.arg /\ e.flash = fw.flash
        BY <1>1, StoreEffect
      <3>3. doubt' = {} => doubt = {} /\ fw' = IF answer = "OK" THEN e ELSE fw
        BY <3>1, ExchangeCertain
      <3> HIDE DEF e
      <3> QED
        BY <1>1, <2>1, <2>2, <3>1, <3>2, <3>3
        DEF Known, StoreExact, DefaultView, RestartView, JoinView, Bracketed
    <2> QED
      BY <1>6, <2>3, <2>4 DEF SetPersistent
  <1> QED
    BY <1>2, <1>3, <1>4, <1>5, <1>6

(* The network and the module by themselves. *)
LEMMA KnownModule ==
  ASSUME KnownInv, Network \/ SelfRestart \/ UNCHANGED vars
  PROVE  Known'
  <1>1. Known /\ fw \in Firmware
    BY KnownFacts DEF KnownInv
  <1>2. CASE Network \/ UNCHANGED vars
    <2>1. UNCHANGED <<at1, persistent, wifiModeDef, call, doubt>>
      BY <1>2 DEF Network, vars, drv
    <2>2. fw'.store = fw.store /\ fw'.mode = fw.mode /\ fw'.flash = fw.flash
      BY <1>1, <1>2 DEF Network, StationUp, StationDown, vars, Firmware
    <2>3. StoreExact' /\ DefaultView' /\ RestartView'
      BY <1>1, <2>1, <2>2 DEF Known, StoreExact, DefaultView, RestartView, Bracketed
    <2>4. JoinView'
      BY <1>1, <2>1, <2>2 DEF Known, JoinView, JoinSwitch, Remembered
    <2> QED
      BY <2>3, <2>4 DEF Known
  <1>3. CASE SelfRestart
    <2>1. "silence" \in doubt' /\ doubt' # {}
      BY <1>3 DEF SelfRestart
    <2>2. UNCHANGED <<persistent, call>>
      BY <1>3 DEF SelfRestart, drv
    <2>3. StoreExact' /\ DefaultView' /\ RestartView'
      BY <2>1 DEF StoreExact, DefaultView, RestartView
    <2>4. JoinView'
      BY <1>1, <2>1, <2>2 DEF Known, JoinView, JoinSwitch
    <2> QED
      BY <2>3, <2>4 DEF Known
  <1> QED
    BY <1>2, <1>3

LEMMA KnownAlways == Spec => []KnownInv
  <1>1. Init => KnownInv
    BY TypeInit, ViewsInit, KnownInit DEF KnownInv, SafeInv
  <1>2. KnownInv /\ [Next]_vars => KnownInv'
    <2>1. ASSUME KnownInv, [Next]_vars PROVE Known'
      BY <2>1, KnownSketch, KnownModeStart, KnownModeStore, KnownModeSet, KnownModeRestore, KnownBody,
         KnownAutoConnect, KnownQuit, KnownReset, KnownModule
      DEF Next, Driver
    <2> QED
      BY <2>1, SafeStep DEF KnownInv
  <1> QED
    BY <1>1, <1>2, PTL DEF Spec

(* After a call, unless a command went unanswered or a reset() left a flag     *)
(* that the firmware does not share, wifiModeDef is the mode in the flash.    *)
THEOREM DefaultAlwaysKnown == Spec => []DefaultKnown
  <1>1. KnownInv => DefaultKnown
    BY DEF KnownInv, Known, DefaultView, DefaultKnown, Idle
  <1> QED
    BY <1>1, KnownAlways, PTL

(* After a joinAP that succeeded in persistent mode the flash holds the        *)
(* station mode and the network.                                            *)
THEOREM JoinsRemembered == Spec => []PersistentJoinRemembered
  <1>1. KnownInv => PersistentJoinRemembered
    BY DEF KnownInv, Known, JoinView, Remembered, PersistentJoinRemembered, Idle
  <1> QED
    BY <1>1, KnownAlways, PTL
=============================================================================
