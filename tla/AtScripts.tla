----------------------------- MODULE AtScripts -----------------------------
(***************************************************************************)
(* The calls of utility/EspAtDrv.cpp that talk to the firmware and keep no  *)
(* state of their own, each as a script: the commands it sends, the answers *)
(* it waits for, when it uses the text of an answer, and where it goes on   *)
(* when a step fails.  AtCommand.tla executes the scripts.                  *)
(*                                                                          *)
(* A script is a sequence of steps.  After a step that succeeds the next    *)
(* one follows, or the step number in "next"; a step that fails continues   *)
(* at "orElse", after setting lastErrorCode to "error".  Conditions on what *)
(* other modules keep (the link table, the Wi-Fi mode, the amount of data)  *)
(* are left open: "require" and "branch" may go either way.                 *)
(***************************************************************************)
EXTENDS Integers, Sequences

Fail == 0      \* orElse: the call returns false, 0 or -1
End == 99      \* next, orElse: the call returns true or a value
Keep == "keep" \* error: lastErrorCode stays what readRX made it

Step(do, what) == [do |-> do, what |-> what, list |-> FALSE, next |-> Fail, orElse |-> Fail, error |-> Keep]

Clear == Step("error", "NO_ERROR")
Error(code) == Step("error", code)
Drain == Step("drain", "")
Send(command) == Step("send", command)
Wait(expected) == Step("wait", expected)
WaitItem(expected) == [Wait(expected) EXCEPT !.list = TRUE]
Parse == Step("parse", "")        \* the text of the line in buffer is used
Data == Step("data", "")          \* bytes that follow the line are read
Verify(line) == Step("verify", line)
Require(error) == [Step("require", "") EXCEPT !.error = error]
Branch(n) == [Step("branch", "") EXCEPT !.orElse = n]
ReturnZero == Step("require", "never")

OrElse(n, step) == [step EXCEPT !.orElse = n]
Then(n, step) == [step EXCEPT !.next = n]
WithError(code, step) == [step EXCEPT !.error = code]

(* Every call begins with maintain(), the steps Clear and Drain.  Most calls *)
(* have one of two shapes.  A query is named by the line that answers it    *)
(* (AT+CIPSTAMAC? by +CIPSTAMAC); the text of that line is used before the  *)
(* next line is read into the same buffer.                                  *)
Maintain == <<Clear, Drain>>
Setting(command) == <<Clear, Drain, Send(command), Wait("OK")>>
\* A bug would be to read the OK before the answer in the buffer is used.
QueryParsesLate(item) == <<Clear, Drain, Send(item), Wait(item), Wait("OK"), Parse>>
Query(item) == <<Clear, Drain, Send(item), Wait(item), Parse, Wait("OK")>>

(* The BLE getters return a pointer into the buffer: the caller uses the    *)
(* text after the OK was read over it.                                      *)
Getter(item) == <<Clear, Drain, Send(item), Wait(item), OrElse(6, Wait("OK")), Parse>>

----------------------------------------------------------------------------
(* Wi-Fi station and SoftAP. *)

FirmwareVersion == Query("AT version:")
StaStatus ==
  <<Clear, Drain, Require("NOT_INITIALIZED"), Send("STATUS"), Wait("STATUS"), Parse, Wait("OK")>>
EthStatus == Maintain
SetDNS == Setting("CIPDNS=")
StaMacQuery == Query("+CIPSTAMAC")

\* Three answers with the same prefix, told apart by their order only.
ThreeLines(item) ==
  <<Clear, Drain, Send(item), Wait(item), Parse, Wait(item), Parse, Wait(item), Parse, Wait("OK")>>

StaIpQuery == ThreeLines("+CIPSTA")

DnsQueryAT1 ==
  <<Clear, Drain, Send("+CIPDNS_CUR"), WaitItem("+CIPDNS_CUR"), Parse,
    OrElse(End, WaitItem("+CIPDNS_CUR")), Parse, Wait("OK")>>
DnsQueryAT2 == Query("+CIPDNS")

(* The mode is changed when it has to be; WifiMode.tla models setWifiMode.  *)
(* A list longer than the caller's array is skipped up to its OK.           *)
ListAP ==
  <<Clear, Drain, Require("NOT_INITIALIZED"), Branch(7), Send("CWMODE="), Wait("OK"),
    Clear, Drain, Send("CWLAPOPT="), Wait("OK"),
    Send("+CWLAP"), OrElse(End, WaitItem("+CWLAP")),
    Parse, Branch(16), OrElse(End, Then(13, WaitItem("+CWLAP"))), OrElse(End, Wait("OK"))>>

\* The station or the SoftAP is off: false, and no error code.
QueryIfOn(item) == <<Clear, Drain, Require(Keep), Send(item), Wait(item), Parse, Wait("OK")>>
ApQuery == QueryIfOn("+CWJAP")
SoftApQuery == QueryIfOn("+CWSAP")
SoftApMacQuery == Query("+CIPAPMAC")
SoftApIpQuery == ThreeLines("+CIPAP")
HostnameQuery == Query("+CWHOSTNAME")
DhcpStateQuery == Query("+CWDHCP")

(* Ethernet. *)

EthSetMac == Setting("CIPETHMAC=")
EthStaticIp == Setting("CIPETH=")
EthEnableDHCP == Setting("CWDHCP=")
EthMacQuery == Query("+CIPETHMAC")
EthIpQuery == ThreeLines("+CIPETH")
SetEthHostname == Setting("CEHOSTNAME=")
EthHostnameQuery == Query("+CEHOSTNAME")

(* Servers, names, time, sleep. *)

ServerBegin ==
  <<Clear, Drain, Send("CIPSERVERMAXCONN="), Wait("OK"), Send("CIPSERVER=1"), Wait("OK"),
    Send("CIPSTO="), Wait("OK")>>
\* Two functions that call maintain(), one inside the other
MaintainTwice(command) == <<Clear, Drain, Clear, Drain, Send(command), Wait("OK")>>
ServerEnd == MaintainTwice("CIPSERVER=0")
MDNS == Setting("MDNS=")
Resolve == Query("+CIPDOMAIN")
SntpCfg == Setting("CIPSNTPCFG=")
SntpTime ==
  <<Clear, Drain, Send("+SYSTIMESTAMP"), Wait("+SYSTIMESTAMP"), Parse, OrElse(End, Wait("OK"))>>
Ping == Setting("PING=")
SleepMode == Setting("SLEEP=")
DeepSleep == MaintainTwice("GSLP=0")

----------------------------------------------------------------------------
(* Data. *)

(* A datagram with its sender, AT2 only.  When the command fails the call   *)
(* goes on as after a success (16) and returns the length it asked for;     *)
(* when the data are cut short it returns 0 (20).  Either way the last      *)
(* command starts with maintain(), which clears the error code.             *)
RecvDataWithInfo ==
  <<Clear, Drain, Require("LINK_NOT_ACTIVE"), Require(Keep), Branch(7), Error("UDP_LARGE"),
    Clear, Drain, Send("CIPDINFO=1"), Wait("OK"),
    Send("+CIPRECVDATA"), WithError("RECEIVE", OrElse(16, Wait("+CIPRECVDATA"))),
    WithError("RECEIVE", OrElse(20, Data)), Parse, OrElse(16, Wait("OK")),
    Clear, Drain, Send("CIPDINFO=0"), Then(End, OrElse(End, Wait("OK"))),
    Clear, Drain, Send("CIPDINFO=0"), OrElse(24, Wait("OK")), ReturnZero>>

\* A bug would be to return without an error code when the data were not sent.
SendStreamSilent ==
  <<Clear, Drain, Require("LINK_NOT_ACTIVE"), Branch(End),
    Send("CIPSEND="), WithError("SEND", Wait(">")), Send("payload"), Wait("Recv "), Parse,
    Wait("SEND "), Then(4, Verify("SEND OK"))>>

\* One CIPSEND for each piece of the stream.
SendStream ==
  <<Clear, Drain, Require("LINK_NOT_ACTIVE"), Branch(End),
    Send("CIPSEND="), WithError("SEND", Wait(">")), Send("payload"), Wait("Recv "), Parse,
    WithError("SEND", Wait("SEND ")), WithError("SEND", Then(4, Verify("SEND OK")))>>

\* A bug would be to take SEND FAIL for success.
SendCallbackTrusts ==
  <<Clear, Drain, Require("LINK_NOT_ACTIVE"), Send("CIPSENDEX="), Wait(">"),
    Send("payload"), Wait("Recv "), Parse, Wait("SEND ")>>

SendCallback ==
  <<Clear, Drain, Require("LINK_NOT_ACTIVE"), Send("CIPSENDEX="), Wait(">"),
    Send("payload"), Wait("Recv "), Parse, Wait("SEND "), WithError("SEND", Verify("SEND OK"))>>

----------------------------------------------------------------------------
(* BLE. *)

BleInit == Setting("BLEINIT=")
SetPublicBdAddr == Setting("BLEADDR=")
GetPublicBdAddr == Getter("+BLEADDR:")
SetName == Setting("BLENAME=")
GetName == Getter("+BLENAME:")
SetScanParams == Setting("BLESCANPARAM=")
StartScan == Setting("BLESCAN=")
SetAdvertisementParams == Setting("BLEADVPARAM=")
SetAdvData == Setting("BLEADVDATA=")
StartAdvertising == MaintainTwice("BLEADVSTART")
StopAdvertising == MaintainTwice("BLEADVSTOP")
StartAdvertisingEx == Setting("BLEADVDATAEX=")
Process == Maintain

\* A bug would be to wait for one line.
BleConnectWaitsOnce == Setting("BLECONN=")

(* The firmware answers OK and +BLECONN, in either order, and the BLE       *)
(* callback makes readRX return at the latter: two waits for two lines.     *)
BleConnect ==
  <<Clear, Drain, Send("BLECONN="), OrElse(6, Then(5, Wait("OK"))),
    OrElse(End, Then(End, Wait("OK"))), OrElse(7, Wait("OK")), ReturnZero>>

UpdateConnParams == Setting("BLECONNPARAM=")
UpdateMtuSize == Setting("BLECFGMTU=")
GetMtuSize == Getter("+BLECFGMTU:")
DiscoverCGATTServices == Setting("BLEGATTCPRIMSRV=")
DiscoverCGATTServicesCharacteristics == Setting("BLEGATTCCHAR=")
DiscoverCGATTIncludedServices == Setting("BLEGATTCINCLSRV=")

----------------------------------------------------------------------------
Scripts ==
  [firmwareVersion |-> FirmwareVersion, staStatus |-> StaStatus, ethStatus |-> EthStatus,
   setDNS |-> SetDNS, staMacQuery |-> StaMacQuery, staIpQuery |-> StaIpQuery,
   dnsQueryAT1 |-> DnsQueryAT1, dnsQueryAT2 |-> DnsQueryAT2, listAP |-> ListAP,
   apQuery |-> ApQuery, softApQuery |-> SoftApQuery, softApMacQuery |-> SoftApMacQuery,
   softApIpQuery |-> SoftApIpQuery, hostnameQuery |-> HostnameQuery,
   dhcpStateQuery |-> DhcpStateQuery, ethSetMac |-> EthSetMac, ethStaticIp |-> EthStaticIp,
   ethEnableDHCP |-> EthEnableDHCP, ethMacQuery |-> EthMacQuery, ethIpQuery |-> EthIpQuery,
   setEthHostname |-> SetEthHostname, ethHostnameQuery |-> EthHostnameQuery,
   serverBegin |-> ServerBegin, serverEnd |-> ServerEnd, mDNS |-> MDNS, resolve |-> Resolve,
   sntpCfg |-> SntpCfg, sntpTime |-> SntpTime, ping |-> Ping, sleepMode |-> SleepMode,
   deepSleep |-> DeepSleep, recvDataWithInfo |-> RecvDataWithInfo, sendStream |-> SendStream,
   sendCallback |-> SendCallback, bleInit |-> BleInit, setPublicBdAddr |-> SetPublicBdAddr,
   getPublicBdAddr |-> GetPublicBdAddr, setName |-> SetName, getName |-> GetName,
   setScanParams |-> SetScanParams, startScan |-> StartScan,
   setAdvertisementParams |-> SetAdvertisementParams, setAdvData |-> SetAdvData,
   startAdvertising |-> StartAdvertising, stopAdvertising |-> StopAdvertising,
   startAdvertisingEx |-> StartAdvertisingEx, process |-> Process, bleConnect |-> BleConnect,
   updateConnParams |-> UpdateConnParams, updateMtuSize |-> UpdateMtuSize,
   getMtuSize |-> GetMtuSize, discoverCGATTServices |-> DiscoverCGATTServices,
   discoverCGATTServicesCharacteristics |-> DiscoverCGATTServicesCharacteristics,
   discoverCGATTIncludedServices |-> DiscoverCGATTIncludedServices]

Getters == {"getPublicBdAddr", "getName", "getMtuSize"}

\* The queries, named by the line that answers them.
Queries ==
  {"AT version:", "+CIPSTAMAC", "+CIPDNS", "+CWSAP", "+CIPAPMAC", "+CWHOSTNAME", "+CWDHCP",
   "+CIPETHMAC", "+CEHOSTNAME", "+CIPDOMAIN", "+SYSTIMESTAMP", "+CIPRECVDATA",
   "+BLEADDR:", "+BLENAME:", "+BLECFGMTU:"}
=============================================================================
