# A TLA+ model of iLabs EspAT

The library lets an Arduino sketch use the Wi-Fi, network and BLE functions of an
Espressif module that runs the ESP AT firmware and is attached over a serial
line. The library is single threaded: every call of the sketch sends AT commands
and blocks until their answers arrive. The concurrency is at the other end of
the line. The firmware accepts connections, receives data and notices that a
peer has hung up on its own time, and says so with unsolicited lines that arrive
between, before and inside the answers. What is hard in this code is to keep
two tables in step over that line, and to keep the many copies of a `WiFiClient`
from acting on a connection that is no longer theirs.

Paths below are relative to the root of the repository.

## Inventory

| Component | Source | State | Operations |
|---|---|---|---|
| AT firmware and serial line | not in the repository | links, unread data, endpoint kinds, the FIFO of lines to the host, the command under way | network events; execution of AT commands |
| Link driver | `src/utility/EspAtDrv.cpp/.h` | `linkInfo[5]` (flags, serialId, available), `lastErrorCode`, `lastSyncMillis` | connect, close/abort, newClientLinkId, connected, availData (+ syncLinkInfo, checkLinks, recvLenQuery), recvData, sendData, remoteParamsQuery, localPortQuery, reset, maintain |
| Command protocol | same file, `readRX`, `sendCommand` | timeout and ignored-line counters, the one `buffer` | send, wait for the expected line, apply events, hand lines to the BLE callback, probe with `?` on a timeout; 54 calls made of these |
| BuffStream | `src/WiFiEspAtBuffStream.cpp` | serialId, refCount, linkId, RX and TX buffer, write error | write (byte, data, file, callback), flush, availableForWrite, available, read, peek, connected, free, close |
| Buffer pool | `src/WiFiEspAtBuffManager.cpp` | `pool[5]`, serialId | getBuffStream, nextSerialId, freeUnused |
| Shared pointer | `src/WiFiEspAtSharedBuffStreamPtr.h` | ptr, serialId | copy/move construction and assignment, destruction, operator bool |
| WiFiClient | `src/WiFiClient.cpp`, `src/WiFiSSLClient.cpp` | a shared pointer | connect, stop, abort, connected, status, read/write/flush |
| WiFiServer | `src/WiFiServer.cpp` | port, state | begin, beginSSL, end, accept |
| WiFiUDP | `src/WiFiUdp.cpp` | linkId, listening, two shared pointers | begin, beginMulticast, beginPacket, write, endPacket, parsePacket, read, available, stop, AT1 data callback |
| Wi-Fi modes and persistence | `src/utility/EspAtDrv.cpp` | persistent, wifiMode, wifiModeDef | setWifiMode, sysPersistent, joinAP, joinEAP, quitAP, staAutoConnect, listAP, staStaticIp, softApIp, beginSoftAP, endSoftAP, wifiOff, reset |
| WiFiClass | `src/WiFi.cpp` | state | init, begin, disconnect, status, queries |
| BLE manager | `src/BLE.cpp` | connection table, scan line, service lists, callbacks | unsolicitedMessage, scans, connections, discovery |
| BLE formatting | `src/BLE.cpp` | none | UUID, BD_ADDR, advertising data to and from text |
| Plain commands | `src/utility/EspAtDrv.cpp` | none in the library | DNS, SNTP, mDNS, ping, sleep, Ethernet settings |

How they interact: a `WiFiClient` holds a shared pointer to a BuffStream of the
pool, the BuffStream holds a linkId (index and serialId bits of the driver's
link), the driver holds `linkInfo` and speaks to the firmware. A `WiFiUDP` holds
two such pointers, one to the message being composed and one to the datagram
received, and takes its streams from the same pool. `lastErrorCode` is
shared by all of them: a BuffStream decides by it whether its link is gone. The
AT1 UDP callback and the BLE callback run from inside `readRX`, in whatever call
is reading.

What makes each component correct:

* driver: `linkInfo` agrees with the firmware's links as far as the driver was
  told; a handle never acts on another connection than its own; lost events are
  made up for by a sync; every call returns;
* protocol: an answer goes to the command it belongs to, a refusal is reported,
  and no silence or chatter of the firmware holds the sketch;
* client layer: reference counts are exact; a connection is open only while
  some client refers to it; a client never reaches a later connection through a
  reused BuffStream; buffers come back to the pool;
* BuffStream: a byte stream in each direction;
* WiFiUDP: every stream and link has one owner; a message never ends its
  listener; a datagram is not replaced before it is read;
* Wi-Fi modes: the library's idea of the current and the stored mode is the
  firmware's, and the flash changes only on request;
* BLE: a slot of the connection table stands for the connection the firmware
  means by that index, and its object is alive.

The behaviours that are hard to test are listed one by one, with their lines,
as "hazards" in `PROJECT.json`.

## Modules

| Module | Models | Extends |
|---|---|---|
| `AtFirmware` | firmware and serial line, from how the driver uses them (external) | |
| `EspAtDrv` | the driver's link table and every blocking call on links | `AtFirmware` |
| `EspAtDrvProofs` | types of the driver; old handles are refused; what `linkInfo` says and what is on the line make the firmware's links; nothing is accepted twice | `EspAtDrv`, `TLAPS` |
| `EspAtDrvData` | what `linkInfo` counts and what is on the line make the firmware's counts | `EspAtDrvProofs` |
| `AtScripts` | the calls of the driver that keep no state, as scripts of commands and waits | |
| `AtCommand` | `sendCommand`, `readRX` with timeouts, and the execution of the scripts | `AtScripts` |
| `AtCommandProofs` | types; a call takes its own answers, explains failures, reports refusals | `AtCommand`, `TLAPS` |
| `WiFiClients` | clients, shared pointers, BuffStreams, pool | |
| `WiFiClientsProofs` | types, exact reference counts, no connection is forgotten or mixed up | `WiFiClients`, `TLAPS` |
| `Pipe` | abstract: what a buffer between two parties promises | |
| `BuffStream` | both buffers of a stream and the calls on them | two instances of `Pipe` |
| `BuffStreamProofs` | types, the refinement of `Pipe`, unread data are kept | `BuffStream`, `TLAPS` |
| `WiFiUdp` | WiFiUDP objects, the pool with streams of three sizes, the AT1 callback | an instance of `WiFiClients` for the pointers and streams |
| `WiFiUdpProofs` | types; every stream and link has its owner, a listener stays, no datagram is replaced | `WiFiUdp`, `TLAPS` |
| `WifiMode` | the Wi-Fi modes, and what the firmware stores in flash | |
| `WifiModeProofs` | types; the driver knows both modes; the flash takes what was asked for, and only that | `WifiMode`, `TLAPS` |
| `Ble` | the BLE manager's callback, connection table and scan | |
| `BleProofs` | types, live pointers, known faults, the table follows the firmware | `Ble`, `TLAPS` |
| `MC...` | instances for TLC of `EspAtDrv`, `AtCommand`, `WiFiClients`, `BuffStream`, `WiFiUdp`, `WifiMode`, `Ble` | each its module |

Each module has the code below it as its environment, in the form in which that
code can behave: `WiFiClients` and `WiFiUdp` over the driver's connections,
`BuffStream` over what `sendData` and `recvData` may report, `EspAtDrv` and
`AtCommand` over the serial line. `EspAtDrv` and `AtCommand` divide `readRX`
between them: the first has the events of links and answers that always come,
the second has everything that goes wrong with answers, and of an event only
that it is one.

### AtFirmware

`open[l]` is the connection on link `l`. Connections are numbered over the whole
behaviour, so that the properties can tell two connections on one link apart;
the numbers travel in the messages as ghosts, since the real lines carry only
the link. `uart` is the FIFO of lines to the host, `request` the command under
way. `PeerConnects`, `DataArrives` and `PeerCloses` each produce one event, or
lose it (`Notify`). One `Exec...` action per command changes the links and
appends the whole answer.

What the model assumes of the firmware: an answer is never lost, and its lines
are not interleaved with events (events before and after it are); a link with
unread data is not given to a new connection; AT1 says `CLOSED` at once and
keeps the unread data, AT2 says it when they have been read (the comment at
`src/utility/EspAtDrv.cpp:2048`); AT1 answers CIPCLOSE of a closed link with
UNLINK.

### EspAtDrv

The variables are the fields of `linkInfo` (`flags`, `serialId`, `available`),
`lastErrorCode`, and what the C++ stack holds: `call`, the running operation with
its arguments, and `pc`, the line that `readRX` waits for. A call begins with
`maintain()` (`pc = "drain"`): events are applied one by one until the line is
silent. Then the body runs up to its first command, and so on. So an action is
the code between two points where `readRX` reads, and events come in exactly
where the code lets them in. The three builds (AT1; AT2 with polling; AT2 with
`ESPATDRV_ASSUME_FLOW_CONTROL`) are a value chosen once (`build`).

A handle is the `uint8_t` that the driver returns, index and serialId bits, with
ghosts for the connection and the use of the link it was given out for
(`epoch` counts the uses without wrapping around).

Simplifications: two `maintain()` in a row are one; the 500 ms limit of
`syncLinkInfo` is a free choice; the sketch's server listens all the time, and
`WIFIESPAT_MULTISERVER` is off; the three variants of `sendData` are one; the
set-up commands of `reset()` are one round; AT1's datagram callback is a choice
between success and `UDP_BUSY` (`WiFiUdp` has the rest); the `?` probes and the
limit of ignored lines are in `AtCommand`, because answers are never late here. An outgoing
UDP link without a local port is not distinguished from TCP.

### WiFiClients

Here the driver is the environment: `live` are the connections that
`EspAtDrv.connected()` would confirm, `incoming` those not accepted yet, `data`
those with unread data; a connection number stands for a linkId with its
serialId bits. An operation of the sketch is one action; the calls it is made
of are operators from worlds to worlds (a record of the objects and the
driver's connections), named as in the code: `Free`, `Close`, `CheckValid`,
`DecreaseRefCount`, `CopyAssign`, ... The temporaries that C++ creates are
modelled: `stream = getBuffStream(...)` makes a pointer that counts a reference,
move-assigns it and destroys it (`TakeOver`). A peer may hang up between two
actions, and inside an operation wherever it makes a second call of the driver
(`HangUp`).

Simplifications: the receive buffer is only empty or not (`rx`), and whatever
flushes the transmit buffer may find it empty or not (`BuffStream` has the
bytes); `close()` takes effect; all streams have the size of a TCP client's
(`WiFiUdp` has the sizes). `freeUnused()` deletes objects that clients may still
point to; nothing in the repository calls it, and the model lets a sketch call it
only when no client points to a deleted object.

### WifiMode

`persistent`, `wifiMode` and `wifiModeDef` are the driver's fields, the mode as the
set of roles that are on. `fw` is what they are about: whether the firmware stores
(`SYSSTORE`), its mode, whether the station is to be in a network and is, and what is
in flash. `call` holds the running call and its locals, `pc` the AT command it is
at. An action is one command with its answer and the code up to the next command;
`setWifiMode` is a row of four such steps that all its callers share and that
returns to them through `ModeReturn`.

Every command may be carried out, refused (`ERROR`), or stay without an answer, in
which case it may have been carried out or not; the module may restart by itself
between any two commands. `doubt` is a ghost that names what has made the caches
untrustworthy since the last good `reset()`: a silent command, a `reset()` that
failed halfway, or a flag that `reset()` left behind. The properties speak of
behaviours without the first two, because nothing in the code could tell.

Simplifications: `joinEAP` is `joinAP`, which has the same control; addresses, host
name and SoftAP parameters are one stored setting (`conf`); the commands of one
settings call whose results are ignored, and the two commands of `listAP`, are one;
`init()` is not repeated; `WiFiClass::state` is not modelled. AT1 and
AT2 builds are a value chosen once (`at1`).

### AtScripts and AtCommand

Fifty-four calls of the driver change nothing that it keeps: they send
commands, wait for lines, use the text of a line and return. `AtScripts` has
each as a sequence of steps (`Send`, `Wait`, `Parse`, ...) with the place where it
goes on when a step fails; most are instances of two shapes, `Setting` and
`Query`. `AtCommand` executes them: `op` and `at` are the call and its step,
`timeout` and `ignored` the counters in `readRX`, `buffer` the line whose text is in
the one buffer that all waits share. `Probe`, `NotResponding` and the `Rx...`
actions are the branches of `readRX`'s loop in their order.

The firmware answers a command at once, after what it had still to say (late), or
never; it may drop a command as busy; any line may be lost; lines that nobody asked
for come whenever the host reads. A `?` is answered with ERROR when the firmware
gets to it. Every line carries a ghost that says whose answer it is (`command`,
`earlier`, `probe`, `nobody`). A wait that ends although lines are still to come
sets the ghost `leftBehind`: from there on the code has no means to tell whose
answer a line is, and the properties speak of the time before.

Simplifications: conditions on what other modules keep (a valid link, the mode, how
much data there is) may go either way (`Require`, `Branch`); a list has up to two
items; a line that the callback claims is one of three (`ble`, `+BLECONN`,
`+BLEGATT`).

### BuffStream and Pipe

`w` is the stream with its two buffers, its write error, and as ghosts what went in
and came out of each buffer since it was taken for its connection. The calls
are built of parts that give the set of worlds they may lead to, named as in the
code (`Free`, `CheckLink`, `Flushed`, `Wrote`, `NoneAvailable`, ...). `write` and
`read` call themselves for the rest of the data; a step is one level, and the peer
may send or close between levels.
`Pipe` is the abstract specification of a buffer: what was given is what was
passed followed by what is held. `Transmit` and `Receive` are its two instances.

A stream whose buffered data could not be sent, or which sent a file in part, is
`broken` for good: `flush()` throws the data away and only sets the write error,
which nothing ever clears.

### WiFiUdp

The pointers and streams are those of `WiFiClients`, by INSTANCE; here the
streams have the sizes of their users, and `getBuffStream` only takes a free one
of the right size (`Candidates`). A call is a row of steps (`flush`, `release`,
`open`, `listen`, `unlisten`, `receive`, `maintain`), each with at most one call of the driver;
`stop()` and `begin()` are made of the steps of `endPacket()`. `ReadRxData` is the AT1
callback: it happens in every step in which the driver reads, of any call. AT1
datagrams are a queue in the serial line; AT2 datagrams wait in the firmware until
`parsePacket` asks for them. Of a read that fails in AT2 there are three ends: it says so
before it has a stream, it says so and the stream is freed (`Waste`), or AT+CIPRECVDATA is
refused and the length is returned all the same (`Stale`): the stream then holds unread bytes that
are no datagram.

Simplifications: addresses and ports are left out; a datagram is an identity and its
link; the driver's link is live until it is closed or lost; a client takes a stream
and gives it back, and nothing more. A stream is only taken while `serialId` is below
`SERIALS - 1` (`Pooled`): as in `WiFiClients`, an old pointer may look valid again after
it has gone round. There are at least as many addresses as links, so that `new` finds one.

### Ble

`bleConnections` holds the object of each slot, `heap` the objects that live,
`scanline` whether the last line was the first row of a scan result. `Callback` is
`unsolicitedMessage`, which sees every line of every call before anybody else:
an odd line completes a scan result, a line about a slot changes the table.
`Wait`, `Silence` and `Continues` are the calls of the manager, seen as rows of
commands whose waits end with the answer, with a line that the callback claims,
or in silence. `fault` records a use of memory that C++ does not define (a null or
deleted object, a missing piece of text); the program stops there. The calls with an
index, `updateConnection` and `mtu(i, size)`, may be made for every slot, the empty ones
too, for a slot may be emptied by any line read after the sketch has looked.

Simplifications: +BLECONNPARAM is treated as +BLECFGMTU, the three discovery calls
are one, and of the lines they get those matter that the driver's buffer cuts in two
(`Services`); an index that is no slot is the sketch's own error; a line is
lost as a whole. The lists of services and characteristics, advertising data and the
texts of scan results are left out, and so is the flag `isScanning`. `DeletingSpec`
adds a sketch that deletes the objects as the comments tell it to.

## Runs

| Run | Shows |
|---|---|
| `drv_safety` | the eight safety properties of the driver, in all builds, with loss and restarts |
| `drv_liveness` | every call on links returns |
| `drv_revival` | violation: an AT2 sync adopts a connection under the old serialId |
| `at_safety` | answers go to their own command, refusals are reported, failures explained, for all 54 calls with lost, late, busy and unexpected lines |
| `at_liveness` | calls of every shape return, whatever the firmware does, but for link events without end |
| `at_claim` | violation: a line claimed by the BLE callback makes a refused command succeed |
| `cli_safety` | reference counts, ownership of connections, release of streams |
| `stream` | both directions of a BuffStream implement `Pipe`; unread data are kept |
| `udp_safety` | streams, links and datagrams of a WiFiUDP next to clients, in AT1 and AT2 builds |
| `wifi_safety` | the cached modes are right, and only what was asked for is stored, under refused commands and one fault |
| `ble_safety` | the connection table follows the firmware, scan results are given out once, memory is misused only in the known ways |
| `ble_delete` | violation: +BLEDISCONN and the sketch both delete the object |

### Properties of the driver

* `HandleMeansConnection`: without loss, a handle that passes `checkLinkId()` in a
  quiet moment stands for the connection it was given out for. `OldHandleRefused`
  is its half that holds under loss too: once `linkInfo` has seen the link closed
  or reused, the old handle is refused for good. Both leave out AT2 with polling,
  for which `drv_revival` shows that it is not so.
* `AvailableExact`: without loss, flags and available of a connected link are the
  firmware's, in whatever order +IPD, CIPRECVDATA, CLOSED and CONNECT cross.
* `ClosingEnds`: no link is left half closed. `AcceptedOnce`: no connection is
  given to two `accept()`s, not even when a sync lists it again.
* `ViewBehindWire`: without loss, a wrong entry has its CLOSED still in the line.
  So the only way to send a command to a wrong connection is the race with a line
  that is already on its way.
* `SyncRestoresView`: after loss, or a restart of the firmware, one sync makes the
  flags and the available of all links right.
* `EveryCallReturns`: liveness, below.

### Properties of the command protocol

* `NothingOwed`: when a call returns, and before it sends its next command or data, no line
  that answers a command of its own is left to be read, on any path through the
  call, the failing ones included. Else the next call would take it for its own.
* `ParsesOwnAnswer`: whatever lines arrive, the text that a call takes apart is the
  answer to its own latest command, although every line is read into the same
  buffer. The three BLE getters that hand out a pointer into it are excepted.
* `RefusalReported`: a call one of whose commands was refused or dropped does not
  return success; `listAP` and `recvDataWithInfo` do, and are named.
* `FailureExplained`: a failing call leaves its reason in `lastErrorCode`, although
  each further command clears it; the five calls that do not are named.

### Properties of the client layer, of streams and of WiFiUDP

* `RefCountExact`, `ConnectionReferenced`: a stream counts exactly the pointers that
  are valid for it, and a connection is open only while a client refers to it.
  `ClientKeepsConnection`: a client never comes to refer to another connection than
  the one it was given. `ReleasedWhenRead`: a client that asks `connected()` after its
  peer is gone and everything is read gives its stream back.
* `TransmitIsPipe`, `ReceiveIsPipe`: what is counted as written is sent once and
  in order or still in the buffer, whichever of the three ways (buffered, direct,
  file) it takes; the same for what is read. `NothingUnreadDropped`: a stream that
  loses its link keeps what is left to read, in whatever call the loss shows.
* `StreamsAccounted`: every stream in use has one holder, which uses it as what its
  buffers were made for. `LinksAccounted`: every UDP link that is open is a
  listener's or has a message on it. Excepted is `begin()` between `beginPacket()`
  and `endPacket()`, which loses the link (`mixed`).
* `ListenerStays`: neither a message that is sent nor a client that stops ends a
  listener. `NothingOverwritten`: the callback never replaces a datagram that is
  not read. `OwnPackets`: in AT2, a datagram that can be read was sent to the present
  listener, and was not kept over `stop()`, `begin()` or a lost link; besides datagrams there are only
  the bytes that a refused AT+CIPRECVDATA leaves, which may be another listener's.

### Properties of the Wi-Fi modes

* `ModeKnown`: after every answered call `wifiMode` is the firmware's mode, although
  `setWifiMode` is up to three commands any of which may be refused, and softApIp
  calls it twice. `DefaultKnown`: the same of `wifiModeDef` and the stored mode.
* `FlashOnlyOnRequest`: no command of a call reaches the flash that the call was not
  asked to store. The hard part is the bracket SYSSTORE=save ... SYSSTORE=persistent
  around CWMODE and around `quitAP`'s command: when the closing command is refused
  the flag must follow the firmware, or the next settings are stored silently.
* `PersistentJoinRemembered`: a persistent `begin()` that succeeds leaves the network
  and a mode with the station in flash, also after the same mode had been set
  temporarily, where `setWifiMode` has a shortcut for "no change".

### Properties of the BLE manager

* `TableFollowsFirmware`: once the lines about a slot are read, and none was lost, the
  table has the peer that the firmware has, although any line may first be joined to
  a scan result and may end the wait of any call.
* `SlotsLive`: a slot never points to a deleted object, nor two slots to the same.
  `ScanResultsOwed`: every scan result is given out exactly once.
* `OnlyKnownFaults`: memory is misused nowhere but in the places listed under "Found
  while modelling", which the model has as faults, and a slot there only when it is empty.

### Bounds

Two links are the least with a choice (the driver takes the highest free link,
`accept` the lowest) and with a link that an operation must leave alone; no
operation relates three. `MaxConn = 2` in `drv_safety` gives a link a second
connection after its first, `MaxData = 2` lets a read leave data, `MaxUart = 2`
lets two events cross one command; answers are never held back by that bound.
`drv_revival` needs a third connection. `drv_safety` explores
the operations that change `linkInfo` beyond clearing a closed link (about
2.9 million states; `abort` is `close` with one more wait);
`drv_liveness` has all operations, with one connection.
serialId has its real 32 values, which the bounds never exhaust; the wrap is
stated in `OldHandleRefused` (`epoch[l] < SERIALS`).

In `at_safety`, `TIMEOUT_COUNT = 2` and `IGNORED_LIMIT = 1` stand for 3 and 70: a wait
that survives one probe and one that gives up after the second, a line that is
ignored and one that is too many; the loop does the same at every further one. `MaxLate = 2` lets
the rest of an answer and the ERROR to a `?` be under way behind a new command.
`MaxUart = 1` is enough because the firmware and the host take turns at every line.
The sketch makes no call after an answer was left behind (`CarryOn = FALSE`), of
which nothing is promised; in `at_liveness` it does.

In the client layer two links and a pool of two are the least in which one
BuffStream is reused while another is in use. Three clients allow two copies
and a third client that takes over the stream; three connections allow a
connection, its successor in the same stream and another one. `SERIALS = 8` stands
for 256: at most three allocations happen, so that nothing wraps. Clients are
interchangeable, and `cli_safety` uses that symmetry.

`stream` has buffers of two bytes, the least in which one byte neither fills nor
empties a buffer, writes of up to four bytes and reads of up to three: less than a
buffer, as much and more, also behind a byte that is in it already. Over a connection go 6 bytes out and 3 in, enough to use each
buffer again after it was full.

`udp_safety` has one WiFiUDP next to clients on two links with a pool of two: enough to be
short of links and of streams, of the right size and altogether. Three connections are a
listener, the link of a message and one after them; two datagrams are one that is
held and one that wants to replace it. Behaviours end before the pool's serialId
would wrap (`SERIALS = 5`), whose effect is described below.

`wifi_safety` has one network besides the stored one and the absent one, which is
all that `ap` and `net` distinguish, both roles in all combinations, any number of calls and
refused commands, and `MaxFaults = 1`. After a fault the properties promise nothing
until the next good `reset()`, so a second one would repeat the first
(3.3 million states).

`ble_safety` has two slots, the least in which a search passes one over, two
addresses (interchangeable), and two lines not yet read besides the rows of a scan
result: a result whose second row is another line, and an answer behind it. The OK of a discovery
may come on top of that, so that a service line and its cut rest can stand before it.
Two objects are as many as can be pointed to at a time.

### Fairness and liveness

`FairSpec` of `EspAtDrv` has weak fairness of the driver's own steps (a blocking call
reads what is there and goes on) and of the firmware's execution of the command it
was sent. Nothing is assumed of the network or the sketch. The bounds on connections
and data make the events finite, which stands for the fact that events are rarer
than the reading of them; with it, every wait gets the line it is for.

`FairSpec` of `AtCommand` assumes less: only that the sketch's thread runs on (weak
fairness of `Host`) and that a list or a stream has an end, for the array and the
stream are finite (strong fairness of `LoopEnds`). The firmware may be silent for good, answer
late, or talk without end. Each call returns all the same, because probes and
ignored lines are counted. The one exception is in the property: link events
without end, which `readRX` neither counts nor lets time out.

### Violations

Each of these shows a behaviour of the code that a doc or a comment excludes;
`PROJECT.json` ("findings") quotes both.

* `drv_revival`: `checkLinks` (AT1) renews the serialId for a connection it
  adopts, `recvLenQuery` (AT2) does not, so that an old client acts on a new
  connection (`README.md:8`).
* `at_claim`: `readRX` returns true as soon as the BLE callback has used a line,
  whatever it waits for; a command that the firmware refuses is reported as done,
  and the ERROR is read by the next call (`README.md:306`).
* `ble_delete`: the comments tell the sketch to delete the connection object
  (`src/BLE.cpp:115`, `src/BLE.cpp:216`), which stays in its slot and is deleted again
  by +BLEDISCONN.

## Found while modelling

These were met while translating the code. They are in the models as they are
in the code, or lie in what the models leave out; no run is about them.

Links and the driver:

* On CLOSED, AT1 keeps `available` but clears the flags that `checkLinkId()` asks for
  (`src/utility/EspAtDrv.cpp:2046`): the data that `README.md:296` says are "still
  available to read" cannot be read.
* A peer may take the link that `connect()` has marked (`src/utility/EspAtDrv.cpp:964`);
  its CONNECT is ignored, CIPSTART fails and clears the flags, and with flow control,
  that is without polling, nobody ever finds that connection.
* `abort` does not look at the link again between the answer to CIPCLOSEMODE and
  CIPCLOSE (`src/utility/EspAtDrv.cpp:1037`): a new peer's connection may be the one
  that is closed.
* `localPortQuery` passes the bare index where a handle is checked
  (`src/utility/EspAtDrv.cpp:1055`), so it refuses nearly every valid one.

Answers:

* A wait that gave up has sent `?`; the ERROR that answers it late ends the wait of the
  next command, although the comment at `src/utility/EspAtDrv.cpp:1940` foresees it only
  for the current one. "No AP" ends a wait and leaves its OK unread.
* `recvDataWithInfo` returns the length asked for when AT+CIPRECVDATA fails
  (`src/utility/EspAtDrv.cpp:1246`, `:1289`), and its UDP_LARGE is cleared at once. `parsePacket()`
  (`src/WiFiUdp.cpp:197`) then reports a datagram and gives the sketch the bytes that the
  reused buffer had, of an earlier datagram, maybe another listener's.
* `listAP` writes before it looks at the size of the array, and returns 0 when refused;
  AT1's `dnsQuery` returns false without an error code if the list ends early.
* The BLE getters return a pointer into the buffer, which a later line overwrites. The
  discovery calls return at the first service line, because the callback claims it,
  and leave the rest and the OK to the next call.
* `joinEAP` omits a closing quote; `beginEnterprise` swaps passphrase and user name
  (`src/WiFi.cpp:101`); `apMacAddress` clears five bytes of six.

Pool, pointers and streams:

* `nextSerialId()` can return 0, the mark of a free stream, after 255 allocations
  (`src/WiFiEspAtBuffManager.cpp:121`); `free()` ignores that stream.
* `operator=` needs pointer and serialId to differ (`src/WiFiEspAtSharedBuffStreamPtr.h:56`):
  after `a = std::move(b)`, `b = a` does nothing, for `b` kept its serialId. After 256
  allocations the same happens to an empty pointer, and the temporary's end closes
  the new connection.
* The write error is never cleared: a reused stream's `write(b)` returns 0 at every
  full buffer although the bytes were sent. A large direct send that fails sets no
  write error; `write(file)` returns 0 after some pieces were sent; `peek()`
  returns a stale byte when `recvData` fails.
* The size of a pool object is fixed for good, so the peaks of different uses add
  up (`src/WiFiEspAtBuffManager.cpp:41`). `freeUnused()` deletes streams that are still
  pointed to; nothing calls it.

WiFiUDP and WiFiServer:

* `endPacket` returns `!getWriteError()` of a `Print` that never sets it: always 1
  (`src/WiFiUdp.cpp:62`). `begin()` between `beginPacket()` and `endPacket()` leaves the
  message's link open. `beginPacket(IPAddress)` overwrites the address before the
  previous message is flushed, which then goes to the new one.
* AT1: `stop()` frees the receive stream first; the callback may fill a new one in
  the rest of `stop()`, which a later `begin()` hands out. A datagram that is refused as
  too large stays in the line and is read as lines to ignore (`README.md:290` says it
  is dropped). A WiFiUDP that is destroyed without `stop()` leaves its callback behind.
* `beginSSL(port, ca, ...)` calls `begin(ca, ...)` (`src/WiFiServer.cpp:47`): a plain server
  whose port is the value of `ca`.

Wi-Fi modes:

* `reset()` turns storing off in the firmware ("our default is persistent false",
  `src/utility/EspAtDrv.cpp:110`) but never clears the flag: a later persistent
  `begin()` stores nothing. The properties name this as the doubt `store`.
* `endSoftAP` sends mode 0 with the comment "0 sets STA mode"
  (`src/utility/EspAtDrv.cpp:682`); `wifiOff` sends the same, so the station goes too.

BLE (the first three are the faults of `OnlyKnownFaults`):

* Empty slots are used: +BLESETPHY searches them too, and `updateConnection(i)`,
  `mtu(i, size)` (`src/BLE.cpp:616`, `:624`) and `mtu()` do not look whether there is an object.
* `getMtuSize()`, `getName()` and the driver's `getPublicBdAddr()` return NULL when they fail; the
  first two are used as strings, and the third is given to the sketch as NULL + 1
  (`src/BLE.cpp:428`).
* Text is read that is not there: a scan result in one or three rows, or with a wrong
  second row, lacks the field at `src/BLE.cpp:91`; a +BLEGATTC line of more than 63 characters
  is cut by the driver's buffer, and its missing fields are NULL for `strtol` (`src/BLE.cpp:346`).
* `adv_data[32] = 0` writes past the array; `bleConnect` leaks the object it puts
  into the slot and, when refused, waits for a second OK; `mtu(i, size)` stores the size
  before the command succeeds; a late +BLESCANDONE clears the flag of the new scan.
* `BD_ADDR::setAddress` assigns its type to itself; the callback for discovered
  services is registered by a function that is not a member, and is never called.

## Proofs

TLAPS checks these for every value of the constants that the ASSUMEs allow: any
finite set of links, any builds, any bounds, any number of serial values.

* `TypeCorrect` (`EspAtDrvProofs`): `Spec => [](TypeOK /\ CallOK)`. The types alone
  are not inductive. A step reads `call.h.link` as an index and appends answers
  whose type depends on the command, so the invariant adds `CallOK`: while a call
  on a handle is under way its handle is a real one, while a call waits for
  CIPSTART its link is chosen, and the command under way is about a link. There
  is one lemma per group of actions, and the firmware's and the network's actions
  have their own.
* `OldHandlesRefused` (`EspAtDrvProofs`): `Spec => []OldHandleRefused`. The
  inductive invariant `HandleInv` says that until the serialId bits of a link wrap
  around they are the count of its uses (`SerialCountsUses`), that a handle holds
  the count of the time it was given out, never a later one (`HandlesDated`), that
  a handle of the present use of a connected link stands for the entry's
  connection (`HandlesCurrent`), and that a sync runs only in the builds that have
  it (`SyncGuarded`). It is needed because the property compares two ghosts, while
  the code compares serialIds: the first two conjuncts carry one to the other.
  Every step either starts a new use of a link (`Renewed`) or keeps the use it has
  (`Kept`), and while a use is kept the entry can stop being connected but not
  stand for another connection; the proof sorts the actions so (`LinksStep`,
  `HandlesStep`) and shows once that such steps preserve the invariant.
* `DriverNeverWrongInSilence`, `ClosingAlwaysEnds` and `HandlesMeanConnections`
  (`EspAtDrvProofs`): `Spec => []ViewBehindWire`, `Spec => []ClosingEnds` and
  `Spec => [](NotWrapped => HandleMeansConnection)`, where `NotWrapped` says that no link was used
  more often than serialId has values. Without it the last is false, and `OldHandleRefused` has
  it in its guard. None is inductive: the driver's tables lag behind the firmware by
  what is on the line, and a list that is on its way was made from a state between the two. The
  invariant `WireInv` therefore speaks of positions in the line. `Holds(i, l, c)` says that who
  has read up to line `i` may believe that link `l` carries `c`: unless lines were lost, the
  firmware has `c` there or a CLOSED for `l` is behind `i`, and what a line behind `i` starts on
  `l` is newer than `c`. The driver's entries hold at 0
  (`EntryView`), and so does the list it has just read (`ListView`); whatever a line says of a
  link holds where the line stands (`Sayings`); no connection has a number that was not given
  yet (`OpenKnown`), and a CONNECT, the answer to `connect()` and a connected entry do name a
  connection (`Named`). The conjuncts of `Dialogue` say which
  answers may be on the line while which command waits. Reading a line shifts every claim
  down by one; a step of the firmware only appends (`FirmwareStep`), and of each of its steps
  it is shown that it says what it did to its links; a step of the driver keeps an entry,
  drops it or takes what a line told (`EntryStep`).
* `NothingAcceptedTwice` (`EspAtDrvProofs`): `Spec => []AcceptedOnce`, with lines lost and serialIds
  wrapped too. A link becomes incoming again by a CONNECT or by a list that has a connection
  the entry does not hold (`MissedIncoming`), so what must not happen is that such a line names
  a connection already handed out. `OnceInv` says of each connection that was accepted
  (`Claimed`): the CONNECT and OK that are still on the line are about newer ones (`Older`);
  as long as the firmware has it, the entry holds it, nothing on the line ends it and every list
  there has it (`StillOpen`); a list on the line, or one just read, that still has it finds the
  entry holding it (`StillListed`, `StillRead`), for at most one list is under way (`OneList`).
  An entry that is CLOSING holds its connection only while CIPCLOSE is under way
  (`ClosingUnderWay`), which is why `abort` needs no second look at the link here: no list is
  read in between. The proof gives one of seven shapes to what a step does to an entry
  (`OwnerStep`) and then looks at the shapes only.
* `AvailableAlwaysExact` (`EspAtDrvData`): `Spec => []AvailableExact`. Again a claim about positions
  in the line, now about data: `Told(a, i, l)` says that who has read up to line `i` and counts `a`
  on link `l` counts right at the end of the line. Lines either set the count (`Sets`: IPD, unless AT1
  pushes the datagram, and the answer to CIPRECVLEN) or lessen it (`Reads`: the answer to
  CIPRECVDATA), so the last one that sets it must be right but for a read behind it, of which there
  is at most one (`Awaited`). `DataInv` has this of the driver's own count for every entry
  that stands for the firmware's connection (`DataView`), of 0 at each CONNECT (`ConnectTells`), of a
  list where it stands (`ListTells`), and of 0 at an ERROR that answers CIPRECVDATA
  (`RefusalTells`). Between `checkLinks()` and CIPRECVLEN the count may be that of another
  connection, which is why the code asks for both (`Refreshing`). Three things turned out to be
  needed besides. When `connect()` reads its OK the link must have count 0 although
  events were read since the link was chosen (`StartInv`: no IPD for it can be before the OK). AT1
  decides by the flag `UDP_LISTENER` whether an IPD is counted, so that flag must agree with the firmware's
  endpoint while the entry stands for it, and the entry must stand for it as long as it listens
  (`EndpointInv`). And `recvData()` is never called for 0 bytes (`Sized`), whose answer would look
  like that to an empty link. Of each step of the firmware the proof states what it says about
  data (`News`) and shows once that such news keep the invariant; a read moves every claim down
  by one line; the driver's steps are sorted by what they do to an entry.
* `WifiTypeCorrect` (`WifiModeProofs`): `Spec => []TypeOK` for any set of networks
  and any number of faults. `TypeOK` says that AT1 firmware never stores by itself,
  so the invariant adds `OnlyAT2`: the steps that send SYSSTORE are not reached in
  an AT1 build.
* `ModeAlwaysKnown` and `OnlyRequestsReachFlash` (`WifiModeProofs`):
  `Spec => []ModeKnown` and `Spec => FlashOnlyOnRequest`. Neither is inductive. In a
  call the cache lags behind a CWMODE whose bracket is open (`ModeView`); the
  firmware may store although the flag says no, but then the running call is to
  save (`StoreView`), which at the end of `reset()` needs that the flag is set when
  SYSSTORE=0 was refused; a `reset()` under way is in `doubt` (`ResetDoubted`); and
  CWAUTOCONN is only reached by calls that may send it (`AutoView`). The proof has a
  lemma per group of actions, with one step per action, and first states what each
  command changes (`ModeEffect`, `StoreEffect`, ...) so that records with nested
  EXCEPT are expanded nowhere else.
* `DefaultAlwaysKnown` and `JoinsRemembered` (`WifiModeProofs`): `Spec => []DefaultKnown` and
  `Spec => PersistentJoinRemembered`. The invariant `KnownInv` adds `Known` to the one before:
  the flag says exactly whether the firmware stores, except inside a bracket
  (`StoreExact`); `wifiModeDef` lags behind the stored mode only while a bracket is open
  (`DefaultView`); after a restart the firmware runs in its stored mode until CWMODE? is
  answered (`RestartView`), which is why the answer may be taken for the stored mode;
  and a join that is to be remembered needs no bracket and is sent when station mode is stored
  already (`JoinView`). Every start of a sketch is an `Opening` of this state, whatever the
  firmware and the flash hold from before.

* `StreamTypeCorrect`, `TransmitImplementsPipe`, `ReceiveImplementsPipe`, `UnreadKept`
  (`BuffStreamProofs`): `Spec => []TypeOK`, `Spec => TransmitIsPipe`, `Spec => ReceiveIsPipe`
  and `Spec => NothingUnreadDropped`, for buffers of any size above 0 and any data.
  The invariant `Inv` has, besides types and the limits of the buffers, that what was
  given is what was passed and what is held, and that `write(file)` finds the transmit
  buffer empty, which it needs because a file does not go through the buffer.
  A call is a composition of parts, so the proof shows of each part (`Free`,
  `CheckLink`, `Flushed`, `Wrote`, ...) that it keeps a stream `Good` and that it is a
  `Step`, the relation between two worlds that lets data go in and come out, the stream break
  and be freed. `Step` is reflexive and transitive, and a `Step` from one invariant state to
  another, or the taking of a free stream (`Opened`), is a step or a stutter of each
  `Pipe`. Inside a part the transmit buffer may be full; between them it may not,
  which is what lets `write(b)` put a byte in before it looks. For `UnreadKept` the parts
  are shown to leave a stream with unread bytes, and those bytes, alone (`Kept`).

* `BleTypeCorrect`, `SlotsAlwaysLive`, `FaultsKnown`, `TableAlwaysFollows`, `ScanResultsAlwaysOwed`
  (`BleProofs`): `Spec => []P` for `TypeOK`, `SlotsLive`, `OnlyKnownFaults`,
  `TableFollowsFirmware` and `ScanResultsOwed`, for any
  number of slots, objects and addresses and any number of lines not yet read. The table is behind the
  firmware by the lines that are on their way, so the invariant `BInv` says of these
  lines that the last one about each slot has the peer that the firmware has
  there (`LastSays`), and of the slots without such a line that the table has it
  (`Follows`). Saying a line (`SaidOne`, `SaidNothing`) and reading one (`ReadOne`) keep
  this, and calls that misuse a slot say nothing and stop (`SlotUseKeeps`);
  the callback does to the table what the line says and keeps all slots alive and apart
  (`CallbackTable`), whichever call it interrupts. `ScanResultsOwed` is inductive once the
  lines are known to be well formed (a scan result names one row or more, or it would count as
  none); its proof counts the scan results of lines put together and taken apart (`ScansSaid`,
  `ScansRead`).

* `TypeCorrect`, `ReferencesCounted`, `ConnectionsReferenced`, `ClientsKeepConnections`
  (`WiFiClientsProofs`): `Spec => [](NotWrapped => P)` for `TypeOK`, `RefCountExact`,
  `ConnectionReferenced` and `ClientKeepsConnection`, and `ReleasedAtEnd`:
  `Spec /\ []NotWrapped => ReleasedWhenRead`; for any finite set of clients, any links and
  objects. `NotWrapped` says that fewer connections were made than serialId has values.
  It is no convenience: a client may keep a pointer to a BuffStream it has lost, and once
  serialId has gone round that pointer looks valid again. With three values and four
  connections TLC finds each of the four invariants violated. `nextSerialId()`
  has 255 values to give and only skips those of BuffStreams in use.
  The invariant `IInv` has, besides types, that counts are exact (`Counted`), that a connection that
  is not incoming has a client with a valid pointer (`Referenced`), that a valid pointer
  leads to the connection the client was given (`Faithful`), that the slots of the pool are filled
  from the first on and hold different objects (`PoolOK`), that an incoming connection has no
  BuffStream (`ConnsOK`), and that the serialIds given so far were given in order, so that
  the next one is on no pointer (`SerialsOK`). An operation is a composition of calls on
  objects, so the proof shows of each call that it only lets objects go (`Shrinks`), that
  pointers only move to where some pointer was (`Within`), or both with the rest of the invariant
  (`Leads`), and composes these. The hard calls are the two that make the count wrong
  for a moment: `TakeOver`, where the new pointer counts before the old one has let go,
  and `freeUnused()`, which deletes objects while it moves the slots of others together.
  Its loop is shown to keep the pool by ranking the slots (`Ranks`).

* `TypeCorrect`, `StreamsAlwaysAccounted`, `LinksAlwaysAccounted`, `PacketsAlwaysOwn`,
  `ListenersStay`, `NothingIsOverwritten` (`WiFiUdpProofs`): `Spec => []P` for `TypeOK`,
  `StreamsAccounted`, `LinksAccounted` and `OwnPackets`, and `Spec => ListenerStays` and
  `Spec => NothingOverwritten`; for any WiFiUDPs, any number of links, objects, connections and
  datagrams, in AT1 and AT2 builds, as long as serialId has not gone round.
  The invariant `IInv` has, besides types and the rows of steps that calls are made of
  (`Fields`), what pointers mean (`StreamsOK`): one that is not null leads to an object of the pool
  with buffers of its kind and has a serialId that was given out; no two are the same; and a
  stream in use is some pointer's. The last is `StreamsAccounted` turned round, and is what is
  inductive, for a step changes pointers. `LinksOK` says who may be on a
  link: two WiFiUDPs never listen on one, and the only stream on a listener's link is its own
  transmit stream. `CallOK` says what the running call has done already, which makes the steps of
  `stop()` and `begin()` safe after a `flush` that failed. Every step is sorted into one
  that touches a receive stream (`RxStep`) or a transmit stream and a link (`LinkStep`), and
  for both it is shown once that pointers follow what happens to their objects
  (`Follows`). `readRxData()` is a part of every step that talks to the firmware, and takes a
  receive stream of its own; `RequestIs` is the pool's promise that it is nobody else's.
  `LinksAccounted` is inductive beside the others. For the two action properties, lemmas
  say of each call of the driver what it does to the links, and of each step which WiFiUDP's
  datagrams it spares (`Spares`). `PacketsAlwaysOwn` needs `Owned`: that, also in the middle of a
  call, unread bytes came to the link of the listener that holds them or are no datagram.

* `TypeCorrect`, `NothingIsOwed`, `OwnAnswerParsed`, `FailuresExplained`, `RefusalsReported`
  (`AtCommandProofs`): `Spec => []P` for `TypeOK`, `NothingOwed`, `ParsesOwnAnswer`,
  `FailureExplained` and `RefusalReported`; for any of the calls, any limits of `readRX`, any
  length of the serial buffer and any number of late lines. The proof has two halves. The
  first is about scripts alone: a step of a script fits the next (`Fits`: a command is
  waited for, and a wait for a line that does not end its answer leads into a step that
  still reads), has a reason to give when it fails (`Explains`), uses a text before the
  next line is read over it (`Owns`), and leads to failure when the firmware refused
  (`Reports`). There is a lemma for each kind of step, and one for each of the sixteen shapes of
  scripts, which go through its steps; `ScriptFacts` collects them. What the proof found there
  are the exceptions that the properties name: the getters do not own their text,
  `listAP` and `recvDataWithInfo` do not report. The second half runs the scripts
  and uses no more of them than `ScriptFacts`. Its invariant `Inv` says which answers
  may be on the wire at each step of a call (`Wired`) and what a call's past
  obliges it to there (`Placed`): outside an answer nothing is owed; inside, what is
  on the wire are answers to the latest command only, each in its order and none
  behind the line that ends it; after a refusal every line is a refusing one and the
  step is `Doomed`. It is needed because the properties look at a call's end, while
  what decides is the order of lines in two queues, from both of which lines get
  lost: so the invariant speaks of what is on them and what `Precedes` what, and each
  thing that can happen to the wire is shown to bring nothing new (`NoNews`).
  BLECONN, which is answered by two lines in either order, has cases of its own.

Assumptions: only the ASSUMEs in `AtFirmware`, `EspAtDrv`, `AtCommand`, `WiFiClients`,
`WiFiUdp`, `WifiMode`, `BuffStream` and `Ble`, which TLC evaluates in every run of those modules.

Only model-checked: of the safety properties that hold, `SyncRestoresView` of the driver alone, whose proof is
planned. Liveness stays with TLC for good (`EveryCallReturns`, twice: fairness needs ENABLED, which
the provers do not handle).

## Not modelled

* `WiFiServer.begin`, `beginSSL` and `end`: what they send is in `AtScripts` (`serverBegin`,
  `serverEnd`), `accept` is in `EspAtDrv` and `WiFiClients`; the two fields, port and
  state, are not modelled.
* `WiFiClass::state`, which `status()`, `begin()` and `disconnect()` set from the answers of
  the driver; the commands are in `AtScripts` and `WifiMode`.
* BLE's lists of services and characteristics, advertising data, and all
  conversions between text and values (UUID, addresses, MAC, IP): sequential text
  processing, which unit tests reach.
* Logging, compile-time configuration, examples.

## Plan

Done: the driver against the firmware and its proofs; the client layer and its proofs; the
Wi-Fi modes and their proofs; the command protocol and its proofs; BuffStream as an implementation of `Pipe`
with its proofs; WiFiUDP and its proofs; the BLE manager and its proofs.

Left, in this order:

1. `Links`: an abstract specification of what the driver promises to the layer
   above (connections that are open, incoming, with data; handles that mean one
   connection), in the form in which `WiFiClients` uses it; `EspAtDrv` without
   loss shown to implement it by a refinement mapping.
2. `SyncRestoresView` of the driver: the claims of `EspAtDrvData` from the position of a list on.
3. `WiFiServer`'s and `WiFiClass`'s state.
