----------------------------- MODULE AtCommand -----------------------------
(***************************************************************************)
(* The command protocol of utility/EspAtDrv.cpp: readRX with its timeouts,  *)
(* the '?' probe and its late answer, the limit of ignored lines, lists,    *)
(* the BLE callback, and the calls of AtScripts.tla that run on it.  What   *)
(* readRX does with the links' events is in EspAtDrv.tla.                   *)
(*                                                                          *)
(* The firmware is external.  It answers a command at once, when it has     *)
(* finished what it is doing, or never; it may drop a command while busy;   *)
(* lines may be lost.  Lines carry a ghost, whom they answer.               *)
(***************************************************************************)
EXTENDS AtScripts, FiniteSets

CONSTANTS
  Ops,            \* the calls considered
  TIMEOUT_COUNT,  \* 3 in the code
  IGNORED_LIMIT,  \* 70 in readRX
  CarryOn,        \* the sketch makes calls also after an answer was left behind
  MaxUart,        \* bound: lines in the serial buffer
  MaxLate         \* bound: lines not yet sent that do not answer the latest command

ASSUME OpsAssumption == Ops \subseteq DOMAIN Scripts
ASSUME LimitsAssumption == TIMEOUT_COUNT \in Nat /\ IGNORED_LIMIT \in Nat
ASSUME BoundsAssumption == MaxUart \in Nat /\ MaxLate \in Nat

VARIABLES
  op,             \* the call that is running, "none" between calls
  at,             \* its step
  timeout,        \* readRX: '?' sent since the firmware was last heard
  ignored,        \* readRX: ignoredCount
  buffer,         \* the line whose text is in buffer
  lastErrorCode,
  refused,        \* ghost: a command of the call failed in the firmware, or was dropped
  last,           \* what the latest call returned
  uart,           \* firmware to host: lines not yet read
  todo,           \* lines the firmware has still to send
  leftBehind      \* ghost: a wait ended before the answer was complete

wire == <<uart, todo>>
counters == <<timeout, ignored>>
call == <<op, at, refused, last>>
vars == <<call, counters, buffer, lastErrorCode, wire, leftBehind>>

(* Whom a line answers: the latest command, an earlier one, a '?', or     *)
(* nobody.                                                                  *)
Sources == {"command", "earlier", "probe", "nobody"}
Line(t, from) == [t |-> t, from |-> from]
Nothing == Line("nothing", "nobody")

\* Links' events are processed, BLE's are claimed by the callback.
Unsolicited == {"event", "noise", "ble"}

NoCall == [op |-> "none", ok |-> TRUE, error |-> "NO_ERROR", refused |-> FALSE]

Init ==
  /\ op = "none" /\ at = 0
  /\ timeout = 0 /\ ignored = 0
  /\ buffer = Nothing
  /\ lastErrorCode = "NO_ERROR"
  /\ refused = FALSE
  /\ last = NoCall
  /\ uart = <<>> /\ todo = <<>>
  /\ leftBehind = FALSE

----------------------------------------------------------------------------
(* The firmware. *)

Discoveries == {"BLEGATTCPRIMSRV=", "BLEGATTCCHAR=", "BLEGATTCINCLSRV="}

Current == Scripts[op][at]
Doing(kinds) == op # "none" /\ Current.do \in kinds
Waiting == Doing({"wait", "drain"})

Times(n, x) == [i \in 1 .. n |-> x]

\* The lines before the OK of a command that succeeds.
Items(command) ==
  CASE command \in {"+CIPSTA", "+CIPAP", "+CIPETH"} -> {Times(3, command)}
    [] command = "+CIPDNS_CUR" -> {Times(n, command) : n \in 1 .. 2}
    [] command = "+CWLAP" -> {Times(n, command) : n \in 0 .. 2}
    [] command = "+CWJAP" -> {<<command>>, <<"No AP">>}
    [] command = "STATUS" -> {<<command>>, <<command, "+CIPSTATUS">>}
    [] command \in Queries -> {<<command>>}
    [] command \in Discoveries -> {Times(n, "+BLEGATT") : n \in 0 .. 2}
    [] OTHER -> {<<>>}

AnswersTo(command) ==
  CASE command \in {"CIPSEND=", "CIPSENDEX="} -> {<<"OK", ">">>, <<"ERROR">>}
    [] command = "payload" -> {<<"Recv ", "SEND OK">>, <<"Recv ", "SEND FAIL">>}
    [] command = "BLECONN=" -> {<<"OK", "+BLECONN">>, <<"+BLECONN", "OK">>, <<"ERROR">>}
    [] OTHER -> {Append(items, "OK") : items \in Items(command)} \cup {<<"ERROR">>}

Refusal(texts) == texts[Len(texts)] \in {"ERROR", "SEND FAIL"}

Lines(texts) == [i \in DOMAIN texts |-> Line(texts[i], "command")]

\* A new command makes the lines under way answers to an earlier one.
Aged(lines) ==
  [i \in DOMAIN lines |-> [lines[i] EXCEPT !.from = IF @ = "command" THEN "earlier" ELSE @]]

Latest(lines) == IF Len(lines) > MaxLate THEN Tail(SubSeq(lines, Len(lines) - MaxLate, Len(lines))) ELSE lines
Late(lines) == Cardinality({i \in DOMAIN lines : lines[i].from # "command"})

\* A command is answered after what is pending, or dropped as busy, or never answered.
Answers(answer, pending) == todo' = pending \o answer /\ Late(todo') <= MaxLate
Drops(pending) ==
  \/ pending # <<>> /\ todo' = <<Line("busy p...", "nobody")>> \o pending /\ Late(todo') <= MaxLate
  \/ todo' = pending

SendsLine ==
  /\ todo # <<>> /\ Len(uart) < MaxUart
  /\ uart' = Append(uart, Head(todo)) /\ todo' = Tail(todo)

\* A line is lost, as when the serial buffer overflows.
LineLost == todo # <<>> /\ todo' = Tail(todo) /\ UNCHANGED uart

SaysUnasked(t) ==
  /\ Len(uart) < MaxUart
  /\ uart' = Append(uart, Line(t, "nobody")) /\ UNCHANGED todo

Firmware ==
  /\ Waiting  \* a line that arrives earlier is read there
  /\ SendsLine \/ LineLost \/ \E t \in Unsolicited : SaysUnasked(t)
  /\ UNCHANGED <<call, counters, buffer, lastErrorCode, leftBehind>>

----------------------------------------------------------------------------
(* Control flow of a call. *)

\* Every readRX starts with fresh counters.
Goto(n) ==
  /\ timeout' = 0 /\ ignored' = 0
  /\ IF n \in 1 .. Len(Scripts[op])
       THEN at' = n /\ UNCHANGED <<op, last>>
       ELSE /\ op' = "none" /\ at' = 0
            /\ last' = [op |-> op, ok |-> n # Fail, error |-> lastErrorCode', refused |-> refused']

Proceed ==
  Goto(IF Current.next # Fail THEN Current.next ELSE IF at = Len(Scripts[op]) THEN End ELSE at + 1)
Otherwise(code) ==
  lastErrorCode' = (IF Current.error = Keep THEN code ELSE Current.error) /\ Goto(Current.orElse)

Begin(o) ==
  /\ op = "none" /\ (leftBehind => CarryOn)
  /\ op' = o /\ at' = 1 /\ refused' = FALSE
  /\ last' = NoCall
  /\ UNCHANGED <<counters, buffer, lastErrorCode, wire, leftBehind>>

SetError ==
  /\ Doing({"error"})
  /\ lastErrorCode' = Current.what
  /\ UNCHANGED <<refused, buffer, wire, leftBehind>>
  /\ Proceed

SendCommand ==
  /\ Doing({"send"})
  /\ LET pending == Aged(Latest(todo))
     IN  \/ \E answer \in AnswersTo(Current.what) :
              Answers(Lines(answer), pending) /\ refused' = (refused \/ Refusal(answer))
         \/ Drops(pending) /\ refused' = TRUE
  /\ uart' = Aged(uart)
  /\ buffer' = [buffer EXCEPT !.from = IF @ = "command" THEN "earlier" ELSE @]
  /\ UNCHANGED <<lastErrorCode, leftBehind>>
  /\ Proceed

UseText ==
  /\ Doing({"parse"})
  /\ UNCHANGED <<refused, buffer, lastErrorCode, wire, leftBehind>>
  /\ Proceed

\* strcmp of the rest of the line in buffer
CompareText ==
  /\ Doing({"verify"})
  /\ UNCHANGED <<refused, buffer, wire, leftBehind>>
  /\ IF buffer.t = Current.what THEN UNCHANGED lastErrorCode /\ Proceed ELSE Otherwise(lastErrorCode)

\* Conditions on what other modules keep.
Decide ==
  /\ Doing({"require", "branch"})
  /\ UNCHANGED <<refused, buffer, wire, leftBehind>>
  /\ \/ Current.what # "never" /\ UNCHANGED lastErrorCode /\ Proceed
     \/ Otherwise(lastErrorCode)

----------------------------------------------------------------------------
(* readRX *)

Owed(lines) == \E i \in DOMAIN lines : lines[i].from \in {"command", "earlier"}
AnythingOwed == Owed(uart) \/ Owed(todo)
GivesUp == leftBehind' = (leftBehind \/ AnythingOwed')

Same == UNCHANGED <<op, at, last>>
Silence == Waiting /\ uart = <<>>
Reading == Waiting /\ uart # <<>>
Draining == Current.do = "drain"
NextLine == Head(uart)

(* A line replaces the text in buffer, but OK and ERROR are too short to    *)
(* reach what a caller kept a pointer to.  Of what is nobody's answer only  *)
(* that matters.                                                            *)
Receive ==
  /\ uart' = Tail(uart)
  /\ buffer' = IF NextLine.t \in {"OK", "ERROR", ">"} THEN buffer
               ELSE IF NextLine.from = "command" THEN NextLine ELSE Nothing
  /\ UNCHANGED <<refused, todo>>

\* maintain() ignores what readRX returns.
EndsWith(code) ==
  IF Draining THEN lastErrorCode' = code /\ Proceed ELSE Otherwise(code)

Drained == Silence /\ Draining /\ UNCHANGED <<refused, buffer, lastErrorCode, wire, leftBehind>> /\ Proceed

\* A bug would be an off-by-one in the number of '?'.
ProbeOnceMore ==
  /\ Silence /\ ~Draining
  /\ timeout <= TIMEOUT_COUNT /\ timeout' = timeout + 1
  /\ Answers(<<Line("ERROR", "probe")>>, todo) \/ Drops(todo)
  /\ UNCHANGED <<call, ignored, buffer, lastErrorCode, uart, leftBehind>>

Probe ==
  /\ Silence /\ ~Draining
  /\ timeout < TIMEOUT_COUNT /\ timeout' = timeout + 1
  /\ Answers(<<Line("ERROR", "probe")>>, todo) \/ Drops(todo)
  /\ UNCHANGED <<call, ignored, buffer, lastErrorCode, uart, leftBehind>>

NotResponding ==
  /\ Silence /\ ~Draining
  /\ timeout = TIMEOUT_COUNT
  /\ UNCHANGED <<refused, buffer, wire>>
  /\ Otherwise("AT_NOT_RESPONDIG")
  /\ GivesUp

\* startsWith
StartsWith(t, prefix) ==
  \/ t = prefix
  \/ <<t, prefix>> \in {<<"+CIPSTAMAC", "+CIPSTA">>, <<"+CIPSTATUS", "+CIPSTA">>, <<"+CIPAPMAC", "+CIPAP">>,
                        <<"+CIPETHMAC", "+CIPETH">>, <<"+CIPDNS_CUR", "+CIPDNS">>,
                        <<"SEND OK", "SEND ">>, <<"SEND FAIL", "SEND ">>}

Claimed == Reading /\ NextLine.t \in {"ble", "+BLECONN", "+BLEGATT"}
Matched == Reading /\ ~Claimed /\ ~Draining /\ StartsWith(NextLine.t, Current.what)
Refused == Reading /\ ~Matched /\ NextLine.t = "ERROR"
NoAP == Reading /\ NextLine.t = "No AP"
ListEnds == Reading /\ ~Matched /\ Current.list /\ NextLine.t = "OK"
Processed == Reading /\ NextLine.t = "event"
Unexpected == Reading /\ ~(Claimed \/ Matched \/ Refused \/ NoAP \/ ListEnds \/ Processed)

\* The callback returned true: so does readRX, whatever it waits for.
RxClaimed ==
  /\ Claimed /\ Receive
  /\ UNCHANGED lastErrorCode /\ Proceed
  /\ IF Draining \/ NextLine.t = "+BLECONN" THEN UNCHANGED leftBehind ELSE leftBehind' = TRUE

RxMatched == Matched /\ Receive /\ UNCHANGED <<lastErrorCode, leftBehind>> /\ Proceed

\* Without an expected answer it is only a late response to '?'.
RxError ==
  /\ Refused /\ Receive
  /\ IF Draining
       THEN timeout' = 0 /\ Same /\ UNCHANGED <<ignored, lastErrorCode, leftBehind>>
       ELSE /\ Otherwise("AT_ERROR")
            /\ IF NextLine.from = "command" THEN UNCHANGED leftBehind ELSE GivesUp

RxNoAP == NoAP /\ Receive /\ EndsWith("NO_AP") /\ GivesUp

RxListEnds == ListEnds /\ Receive /\ UNCHANGED <<lastErrorCode, leftBehind>> /\ Goto(Current.orElse)

RxProcessed ==
  Processed /\ Receive /\ timeout' = 0 /\ Same /\ UNCHANGED <<ignored, lastErrorCode, leftBehind>>

\* A bug would be not to count them.
RxIgnoredUncounted ==
  /\ Unexpected /\ Receive
  /\ timeout' = 0 /\ Same /\ UNCHANGED <<ignored, lastErrorCode, leftBehind>>

RxIgnored ==
  /\ Unexpected /\ Receive
  /\ IF ignored + 1 > IGNORED_LIMIT
       THEN EndsWith("AT_NOT_RESPONDIG") /\ GivesUp
       ELSE timeout' = 0 /\ ignored' = ignored + 1 /\ Same /\ UNCHANGED <<lastErrorCode, leftBehind>>

\* The bytes of +CIPRECVDATA, complete or cut short.
ReadData ==
  /\ Doing({"data"})
  /\ UNCHANGED <<refused, buffer, wire>>
  /\ \/ UNCHANGED <<lastErrorCode, leftBehind>> /\ Proceed
     \/ Otherwise(lastErrorCode) /\ GivesUp

ReadRX ==
  \/ Drained \/ Probe \/ NotResponding \/ RxClaimed \/ RxMatched \/ RxError \/ RxNoAP
  \/ RxListEnds \/ RxProcessed \/ RxIgnored

Host == SetError \/ SendCommand \/ UseText \/ CompareText \/ Decide \/ ReadData \/ ReadRX

Next == Host \/ Firmware \/ \E o \in Ops : Begin(o)

Spec == Init /\ [][Next]_vars
(* The loop over a list or a stream ends: the array and the stream are      *)
(* finite.                                                                  *)
LoopEnds == Doing({"branch"}) /\ Decide /\ at' # at + 1
\* The sketch's thread always runs on; nothing is promised of the firmware.
FairSpec == Spec /\ WF_vars(Host) /\ SF_vars(LoopEnds)

----------------------------------------------------------------------------
(* Properties. *)

(* The types, and the limits readRX puts on '?' and on ignored lines.       *)
TypeOK ==
  /\ op \in Ops \cup {"none"}
  /\ at \in (IF op = "none" THEN {0} ELSE DOMAIN Scripts[op])
  /\ timeout \in 0 .. TIMEOUT_COUNT /\ ignored \in 0 .. IGNORED_LIMIT
  /\ buffer.from \in Sources
  /\ Len(uart) <= MaxUart

(* A call takes all it has asked for: when it returns, and before it sends  *)
(* its next command or data, no line that answers a command is left to be   *)
(* read, unless a wait was given up before.  Else the next wait would take  *)
(* that line for its own.                                                   *)
NothingOwed == ~leftBehind /\ (op = "none" \/ Doing({"send"})) => ~AnythingOwed

(* The text a call uses is the answer to its own latest command, whatever   *)
(* else arrives; all waits share one buffer.  Not so for the getters, which *)
(* hand out the buffer itself.                                              *)
ParsesOwnAnswer == Doing({"parse"}) /\ ~leftBehind /\ op \notin Getters => buffer.from = "command"

(* A call that fails says why in lastErrorCode, which README.md:306 tells   *)
(* the sketch to ask.  Exceptions: a mode query while the station or SoftAP *)
(* is off, a list that ends early, and the receive functions, for which no  *)
(* data is not an error.                                                    *)
Unexplained == {"apQuery", "softApQuery", "listAP", "dnsQueryAT1", "recvDataWithInfo"}
FailureExplained == ~last.ok /\ last.op \notin Unexplained => last.error # "NO_ERROR"

(* A call of which the firmware refused or dropped a command does not       *)
(* return success, unless a BLE line has ended a wait (SuccessIsReal).      *)
(* listAP returns an empty list then, and recvDataWithInfo the length it    *)
(* asked for.                                                               *)
RefusalReported ==
  last.ok /\ last.refused => leftBehind \/ last.op \in {"listAP", "recvDataWithInfo"}

(* README.md:306, "The library functions with bool as return type return    *)
(* false in case of fail".  Violated: a line that the BLE callback claims   *)
(* makes readRX return true, whatever it waits for.                         *)
SuccessIsReal == last.ok => ~last.refused

(* Every call returns, whatever the firmware says or does not say.  The one *)
(* way to hold it up are link events without end: they reset the timeout    *)
(* and are not counted as ignored.                                          *)
EveryCallReturns == []<><<SaysUnasked("event")>>_vars \/ (op # "none" ~> op = "none")
=============================================================================
