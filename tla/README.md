# Verification of the OCPP 1.6j microservice

The program is a NestJS server that charging stations connect to over WebSocket. This directory holds TLA+ models
of the code that carries its protocol, the TLC runs that check them, and TLAPS proofs about them. Paths are relative
to the repository; `charging-station.service.ts` and the like are under `src/modules/`.

## 1. Inventory

### Components

| Component | State | Operations | Model |
| --- | --- | --- | --- |
| `PrismaService` (`prisma/prisma.service.ts`) | `connected`, `connecting`, reconnect timer, listeners | first attempt, retry every 5 s, notify listeners, clean up at the end | `PrismaConnection` |
| `ChargingStationService` (`ocpp/services/charging-station.service.ts`) | `memoryStations`, `memoryTransactions`, `nextFallbackTransactionId`; tables `charging_stations`, `charging_connectors`, `transactions` | seven handlers in two modes, promotion of what memory buffered | `StationStatus`, `ChargingStation` |
| Database (`prisma/schema.prisma`, the migration) | tables, id sequences, row locks, uncommitted rows | statements, interactive transactions | part of `ChargingStation` |
| `ConnectionManager` (`ocpp/connection/`) | context per identity, identity per socket | register, associate, activity, disconnect, shutdown | `ConnectionManager` |
| `StationMessageService` (`ocpp/services/station-message.service.ts`) | queues in memory, table `station_messages` | enqueue, list, mark dispatched or failed | `StationMessages` |
| `OcppWebSocketServer` (`ocpp/ocpp.websocket.ts`) | `SocketContext` per socket: identity, buffer | upgrade, `handleFrame`, flush, socket events, shutdown; `extractFrame`, `buildFrame` | `OcppServer`, `StationSocket`, `FrameCodec` |
| `OcppService` (`ocpp/ocpp.service.ts`) | none | parse, route, answer | `OcppMessages`, and as outcomes in `OcppServer` |
| Message schemas (`ocpp/messages/schemas.ts`) | none | guards, six parse functions | `OcppMessages` |
| Application shell, configuration, common helpers, scripts | none of the protocol's | wiring | not modelled (section 9) |

### How they interact

A socket's `data` event starts a run of `handleFrame`, which takes frames off the socket's buffer and awaits
`OcppService.handleMessage` for each text frame. The router calls a handler of `ChargingStationService`. Every
handler asks `PrismaService.isConnected()` which mode it is in. Until the first connection it works on maps in memory
and awaits nothing; afterwards it is a chain of database statements. When the connection comes up, `PrismaService`
calls the listener of `ChargingStationService`, which writes every buffered station to the database
(`promoteAllMemoryStations`); a connected handler does the same for its own station before anything else.
A BootNotification, and a new socket of a station whose id is known, flush the station's pending messages.

### What is hard

* *Interleaving.* Handlers, promotions and flushes are interrupted at every await. Two promotions of one station, two
  runs of `handleFrame` on one buffer and two flushes of one queue overlap.
* *State read before an await and used after it.* The mapping in `handleStopTransaction`, the captured station in
  `promoteMemoryStation`, the socket in a flush.
* *Failures half way.* A transaction that rolls back after its ids reached memory; a COMMIT whose answer is lost; a
  message that was written but cannot be marked.
* *Change of mode.* Everything a process learned without a database has to survive the moment it gets one.
* *Data nobody can store.* What the guards accept and the columns refuse is acknowledged without a database and fails later.
* *Bytes.* Chunks end anywhere, lengths have three encodings, and what is wrong with a text decides between an answer and
  the end of the connection.
* *Processes that end.* By a signal, or by a promise nobody handles.

### What makes them correct

* Sessions: one begun in memory is in memory or in the database until it was stopped; its mapping names its own row;
  a stop or meter value reaches the session of the station that sent it.
* Stations: a station whose boot was accepted is known; what was buffered of it arrives in the tables.
* Progress: the process connects, the buffer drains, each call is answered.
* Connections: a replaced socket does no harm to its successor.
* Queue: messages keep their order, leave PENDING only when written, and are lost only with the memory they are in.
* Frames: those that arrive are those that were sent; none is handled twice, none is left in the buffer.
* Texts: each gets one answer with its own id; handlers get payloads of the types they were written for.

`PROJECT.json` lists under `hazards` each place in the code where one of these could break.

## 2. Modules

| Module | Contents |
| --- | --- |
| `StationStatus` | the status enums and the pure functions `resolveConnectorStatus`, `deriveStationStatus`, `updateStationStatusFromConnectors` |
| `PrismaConnection` | the connection, its attempts and its timer |
| `ChargingStation` | extends both: all handlers, promotion, listener, tables, locks, faults |
| `SessionHandover` | the abstract life of a fallback session |
| `ChargingStationProps` | properties of `ChargingStation`, and the inductive invariants `IndInv` and `RowInv` |
| `MCChargingStation` | instances for TLC |
| `ChargingStation_proofs` | types; what a connected step may do; `IndInv`, and what follows from it about sessions |
| `ChargingStationRows_proofs` | `RowInv`, and what follows from it about rows, mappings, tables and statuses |
| `ChargingStationHandover_proofs` | `ChargingStation` implements `SessionHandover` |
| `ConnectionManager` | contexts and sockets |
| `StationMessages` | the message queue |
| `OcppServer` | composes the last two with `PrismaConnection`: sockets, runs of `handleFrame`, flushes |
| `Outbox` | the abstract queue of calls to stations |
| `OcppServerProps`, `MCOcppServer` | the properties of `OcppServer`, its inductive invariant `ServerInv`, and its instances |
| `OcppServer_proofs` | types; what a step may do to each aspect of the server; `ServerInv`, and what follows from it |
| `OcppServerOutbox_proofs` | `OcppServer` implements `Outbox` |
| `FrameCodec` | `extractFrame` and `buildFrame` over bytes |
| `OcppMessages` | the guards and parse functions, the router, the CALLERROR of what was thrown |
| `StationSocket` | composes the last two: one socket from handshake to answers |
| `StationSocketProps`, `MCStationSocket` | its properties with its inductive invariant `SocketInv`, and the dialogues TLC tries |
| `FrameCodec_proofs` | what `extractFrame` finds at the beginning of a stream of bytes, and that it reads what `buildFrame` writes |
| `StationSocket_proofs` | the bytes of a sequence of frames; what a step may do to a socket; `SocketInv`, and what follows from it |
| `OcppMessages_proofs` | the tables of guards against the interfaces, and what follows for handlers and refusals |

Some definitions come with a variant whose comment says "Wrong:". Each is what a plausible bug would make of the definition
below it. No run uses a variant: `PROJECT.json` says for each property which of them violates it.

## 3. How the models correspond to the code

### ChargingStation

`memoryStations[s]` and `memoryTransactions[id]` are the two maps of the service; a record with `live = FALSE`, or
`NoMapping`, stands for a missing entry. `dbStations`, `dbConnectors` and `rows` are the tables: the first two hold what is
committed; a row of `transactions` carries the task that wrote it until that task commits. `job[p]` is a handler in
flight: `at` is the statement it awaits, the other fields are the local variables that live across awaits. The connection listener is
one more task, with the identities it has left in `queue`.

*Fallback mode* (`FallbackBoot`, `FallbackHeartbeat`, `FallbackStatus`, `FallbackStart`, `FallbackStop`): a handler
without a database reaches no await that waits, so it is one atomic step. A refused stop and a MeterValues call change nothing and are stutters.

*Connected mode*: `Receive...` is the handler up to its first statement, each further action is the answer of a
statement together with the code up to the next one. The statements between the locks of a promotion are `UpsertStation`,
`UpsertConnectors`, `CreateRow` (once per session), `Commit`, and the map deletions after it: `ForgetThenFind` when
the handler goes on, `ForgetThenNext` for the listener, `ForgetThenReject` for a stop. Row locks are derived from who
is inside a transaction. Statements outside one see committed rows only. `Fault(p)` fails whatever `p` awaits: an open transaction is rolled back; a statement whose
effect took place although its answer was lost is the fault of the following step. The answer to a stop may get lost on its way to the station
as well (`StopAnswered`), which counts as a fault; the station then repeats the stop.

*Refused data*: the guards accept every number, the columns are `Int`. A connector above `LargestNumber` stands for a number no column
holds: memory buffers it, a statement that would write it is refused (`ConnectorRefused`, `PromotionRefused`), every time. The constant is
small because TLC counts connectors; what counts is that some are beyond it.

*Earlier runs*: `Registered` are stations that may have a row and a boot from an earlier process. `OldRows` is what earlier processes left in
`transactions`: rows that are over, rows that were rolled back and whose ids are used up, rows still open. The ids of new rows
count on from them, a look-up by id finds them whosever they are, and the connectors show what they left.

`openIds[s]` are the ids a station was given in answers and was not told the stop of, the open rows of earlier runs included: the ids it uses. `booted` and the fields `origin`,
`stoppedBy`, `meteredBy` of a row are histories that only properties read.

Abstractions: `identified` stands for vendor, model, serial and firmware; `heard` for the age of the last heartbeat;
meter readings, timestamps, reasons and tags are left out. The listener visits stations in any order. The event log, whose failures the code
swallows, is only the await it puts before `Unmap`. Statements on one station that do not conflict are not ordered beyond the locks.
Lost connections between station and server belong to `OcppServer`. Fallback ids that a station remembers from an earlier process, of sessions
that died with it, are left out.

### OcppServer

`contexts[k]` is the `SocketContext` of a socket with what became of the socket: `ended` when the server ended its half, `destroyed` until the
`close` event came. `loops[l]` is a run of `handleFrame`, or the flush that `registerSocket` starts. In `next` it takes a
frame or finds the buffer empty; `calling`, `listing`, `marking` and `failing` are its awaits. Node empties the queue
of microtasks before it turns to the next event, so no event happens while some run is in `next` (`Quiet`): this is what makes a
chain of handler turns without a database one piece, and what allows two runs to meet on one buffer when there is one.

A process that is asked to stop (`Terminate`) first lets `PrismaService` clean up; the framework then stops listening and waits until the
sockets are gone, and only then calls `onApplicationShutdown` (`Shutdown`).

A handler of `ChargingStationService` is what its caller sees of it: it answers or throws, in the same turn or after an await.
`tableId[s]` is the id of a station's row: `memory` when a promotion created it from the memory station, whose random
UUID it then takes over, `table` otherwise: for a new process, which draws UUIDs of its own, it is the table's. Without a database a boot makes a
memory station, and any other call may (a refused stop does not). `enqueueMessage` has no caller in the repository; `Enqueue` lets anybody call it who
knows the station's id. `docker-compose.yml` restarts the process (`NewProcess`).

Abstractions: a chunk completes one frame or two, an incomplete frame being a chunk that has not come yet; payloads are left
out (`StationSocket` has the bytes and the texts); a pong is not recorded; the write to a socket never throws, as in Node.

### StationSocket

`dialogue` is what a station does with one socket: a request, a sequence of frames, and the offsets at which a chunk may end. The bytes are a
function of their offset (`Stream`), computed where they are read, so that a frame of 65536 bytes costs as much as a short one; a payload is
its length and seven of its bytes, enough to see a mask that is out of step. `arrived` and `taken` are the two ends of
`context.buffer`. `runs[r]` is a run of `handleFrame`: in `next` it takes a frame, in `awaiting` it waits for a handler, in `flushing` for the
flush that follows the answer to a boot, inside the same `try`: if it is rejected, the catch answers a second time. A handler ends with a result, with
an error, or with an `OcppCallError` of its own (`ThrownBy`: a stop that finds no transaction, a caller that is not known).
The listener for socket errors (`SocketError`, or a write to a socket that was ended) destroys the socket at any time between two turns; it is `failed`
then, and its runs go on with what is left in the buffer. `destroyed` is what `handleUpgrade` or `handleFrame` gave up. `ExtractFrame` and
`BuildFrame` are the code's; the station's own encoding (`SentHeader`, `SentByte`) is RFC 6455's and external.

A text is what decides about it: whether it is JSON, an array, long enough, a call; its uniqueId; its action; and its payload
as a record of JSON values of twelve kinds, the kinds the guards tell apart. The parse functions are tables of fields and guards in the order
of the code, because the first guard that throws decides the code of the CALLERROR. `Interface` has the TypeScript types of the same
file, against which the tables are checked.

Abstractions: answers are as long as the text they answer; the messages a flush writes are `OcppServer`'s; a date is what has the shape of
`ISO_DATE_REGEX`, so that 2024-99-99T99:99:99Z is one, as for the code; what is kept of a meter value beyond its validity is left out; a run of handlers without a database in one
turn is one of the interleavings with one.

## 4. Runs

| Run | Instance | Question and result |
| --- | --- | --- |
| `MCSessions` | 1 station, 1 connector, 2 handlers and the listener, 1 old row, 1 fallback session, 1 connected one, 1 fault | Do sessions survive every interleaving of promotions and stops, and can what is open be stopped? `TypeOK`, `LiveSessionKept`, `MappingFaithful`, `OpenRowsReachable`, `IndInv`, `UnmappedOnlyWhenDone`, `HandoverSpec` hold |
| `MCFaults` | 2 stations, one of them known to the database, 2 old rows, 2 fallback sessions, 1 handler and the listener, 2 faults | Do they when statements fail, transactions roll back and answers of COMMIT are lost? `LiveSessionKept`, `UnsavedIsBuffered`, `MappingFaithful`, `RowInv`, `UnmappedOnlyWhenDone`, `BufferReachesDatabase`, `HandoverSpec` hold |
| `MCIds` | 2 stations, a finished old row under a fallback id and an open one, 1 fallback session, 1 connected one, starts, stops and meter values, 1 fault | Whose rows do ids reach? `RowsTouchedByOwnId` holds |
| `MCBoots` | 2 handlers, boots, heartbeats, statuses of 2 connectors, one beyond the column's numbers, 1 fault | `BootedIsKnown`, `BufferReachesDatabase`, `ChargingShown` hold; deadlock is checked |
| `MCProgress` | 2 stations, 1 handler and the listener, one connector beyond the column's numbers, fairness | `ConnectsEventually`, `BufferDrains`, `CallsAnswered` hold |
| `MCServer` | 1 station, 2 sockets, 2 runs, 2 messages, 1 fault, 1 restart or shutdown | Do replaced sockets, overlapping flushes, restarts and failing marks harm what is shown or queued? `TypeOK`, `DisconnectedIsGone`, `MarkedWasWritten`, `ServerInv`, `OutboxSpec` hold |
| `MCServerProgress` | 1 socket, 3 frames of all kinds, 2 runs, fairness | `AnsweredOnce`, `FramesAnswered`, `BootFlushes` hold |
| `MCIntake` | 745 dialogues on one socket, 2 runs | Bytes, texts, answers, handshake: `FramesAsSent`, `WholeFramesTaken`, `WrittenIsReadable`, `SocketKept`, `AnswersDue`, `InOrderWithinChunk`, `NothingBehind`, `HandlersGetTyped`, `RefusedIsFaulty`, `OpenedAsAsked` hold |
| `DocOneRow`, `DocOwnMeters`, `DocQueue`, `DocValidation` | the smallest that suffice | the documentation is contradicted (section 7) |

### Bounds, and why they are enough

* Two handlers beside the listener: each hazard of section 1 needs two actors on one station, and the third may interfere with both.
* One or two fallback sessions: one is promoted by several tasks (`MCSessions`), two make a promotion with several rows that fails
  between them, and have two owners (`MCFaults`). Two faults are a failed promotion and another, or a lost answer, after it.
* `MaxRows` bounds the arrival of connected StartTransactions only: promotions always may create their rows.
  `OldRows` has as many rows as there are fallback sessions, so that each fallback id is also the id of an old row, rolled back or finished by
  another station, and in `MCIds` an open row whose id is nobody's fallback id; in `DocOwnMeters` the table is empty, and BIGSERIAL starts at 1.
* `LargestNumber = 1` with connectors 1 and 2 has one connector that can be stored and one that cannot (`MCBoots`, `MCProgress`); elsewhere
  it is above every connector.
* Two sockets are a connection and its replacement; a chunk of two frames and another chunk put two runs on one buffer.
* One fault strikes at every statement of every interleaving, retries included; `PromotionRefused` is a fault that never stops.
* `MCIntake` tries each kind of text alone, with each of twelve kinds of value in each field of each payload; each pair of frames out of
  fourteen headers (no, short, 16-bit and 64-bit lengths; masked or not; pings, closes, fragments) with chunks that end at every byte of a
  header, before the last byte of a payload and at its end; and triples of frames, a boot with its flush among them, where two runs share the buffer
  and a third frame waits.
  A field's guard sees one value and the order of guards is fixed, so more faults in one payload add no outcome but the first. `Endless` is
  an announced length nobody reaches.
* Symmetry is used for handlers, stations, sockets and runs in runs without liveness properties, where they are interchangeable.
* `CHECK_DEADLOCK FALSE` is set where the bounds exhaust the inputs: nothing is sent any more, and the system rests.
  `MCBoots` has inputs without end and checks for deadlock.

### Fairness

* `WF(AttemptConnection)`: the interval timer ticks.
* `SF(EstablishConnection)`: a database that can be reached again and again is reached in the end.
* `SF(UpsertStation)` per task: Postgres grants a row lock in the order of requests, so a task that waits for a station gets it although
  others take it again and again. Without it a station whose promotion is always refused, and which keeps calling, could starve the listener.
* `WF` on each task of `ChargingStation`, on each run of `OcppServer`: what is awaited comes back, as a result or a
  rejection, and a turn that is due is taken. For `OcppServer` this is what `CallsAnswered` shows of the handlers it awaits.

Stations are never obliged to send anything, nor do faults have to happen or stop.

## 5. Abstract specifications

`SessionHandover` knows four sets: ids not begun, ids buffered under a station, ids stored in the database, ids
closed. It allows a session to begin before the connection, to move from buffer to table, to be closed in memory before the connection
and only in the table after it. `HandoverSpec` maps the four sets to what `ChargingStation` has in memory and in committed rows; two runs check
that `ChargingStation` implements it. The steps of a promotion all map to stutters but `Commit`, and a second promotion of the
same station maps to a stutter altogether: it writes nothing of a session the first did not.

`Outbox` knows of each message its line, whether it was sent and what became of it. It allows a message to be sent behind those ahead of it in its
line, to be sent again, to be settled once it was sent, and all volatile messages to be lost at once. `OutboxSpec` maps the statuses and the two
stores of `OcppServer` to it: `DISPATCHED` and `FAILED` are settled, a message in memory is lost when the database is connected, as no flush lists it
any more. Overlapping flushes, failing marks, restarts and a handover of sockets all map to sending, settling or stuttering.

## 6. Proofs

For every set of stations, connectors, handlers, sockets and runs and every bound, from the assumptions the modules
state: `OldRowsAssumption` (old rows are nobody's work in progress, and their stations are registered), `NamesAssumption` and `SocketsAssumption` (the listener and the null values are nobody else), `NumbersAssumption` and
`ServerAssumption` (bounds and connectors are naturals, ids start above 0, the kinds of calls and frames are known ones), and
`DialoguesAssumption`: a station may send any frames with any lengths below `Endless`, in chunks that end anywhere within them, texts
with any values in any fields, and any request for a handshake. What it says of texts is only that a `meterValue` parsed as an array, and the
`sampledValue` of an entry, is a sequence (an empty one where the JSON has something else).

| Theorem | States | Module |
| --- | --- | --- |
| `Invariant` | `Spec => []IndInv` | `ChargingStation_proofs` |
| `TypeCorrect` | `Spec => []TypeOK` | |
| `SessionsKept` | `Spec => []LiveSessionKept` | |
| `UnsavedBuffered` | `Spec => []UnsavedIsBuffered` | |
| `MappingsFaithful` | `Spec => []MappingFaithful` | |
| `BootedStationsKnown` | `Spec => []BootedIsKnown` | |
| `RowInvariant` | `Spec => []RowInv` | `ChargingStationRows_proofs` |
| `UnmappedWhenDone` | `Spec => UnmappedOnlyWhenDone` | |
| `BufferIsSaved` | `Spec => BufferReachesDatabase` | |
| `ChargingIsShown` | `Spec => ChargingShown` | |
| `RowsTouched` | `SequenceIsPast` implies `Spec => []RowsTouchedByOwnId` | |
| `RowsReachable` | `SequenceIsPast` implies `Spec => []OpenRowsReachable` | |
| `HandsOver` | `Spec => HandoverSpec` | `ChargingStationHandover_proofs` |
| `ServerInvariant` | `Spec => []ServerInv` | `OcppServer_proofs` |
| `TypeInvariant` | `Spec => []TypeOK` | |
| `SettledWasWritten` | `Spec => []MarkedWasWritten` | |
| `ShownAsGoneIsGone` | `Spec => []DisconnectedIsGone` | |
| `NoSecondAnswer` | `Spec => []AnsweredOnce` | |
| `QueueIsOutbox` | `Spec => OutboxSpec` | `OcppServerOutbox_proofs` |
| `SocketInvariant` | `Spec => []SocketInv` | `StationSocket_proofs` |
| `FramesStay` | `Spec => []FramesAsSent` | |
| `NothingWaits` | `Spec => []WholeFramesTaken` | |
| `WrittenFramesAreRead` | `Spec => []WrittenIsReadable` | |
| `ConnectionsStay` | `Spec => []SocketKept` | |
| `AnswersMatch` | `Spec => []AnswersDue` | |
| `AnswersInOrder` | `Spec => []InOrderWithinChunk` | |
| `HandshakesAreDue` | `Spec => []OpenedAsAsked` | |
| `NothingIsBehind` | `Spec => []NothingBehind` | |
| `HandlersAreGivenTypes` | `Spec => []HandlersGetTyped` | `OcppMessages_proofs` |
| `RefusalsAreDue` | `Spec => []RefusedIsFaulty` | |

### Sessions

`LiveSessionKept` is not inductive. That the deletion at the end of a promotion is safe depends on what its
transaction committed, which depends on what was captured when it began, and on no other task having changed the buffer
meanwhile. `IndInv` adds those links: a captured image covers the buffer (`ImageCoversMemory`), a task about to forget has everything
in the database (`ForgetIsSafe`), nothing an image holds is lost (`ImageIsKept`), an uncommitted row belongs to a task inside its transaction (`WriterIsWriting`),
a session with a row has no row-less mapping (`RowedIsNotUnsaved`). `MCSessions` checks `IndInv` on a small instance.

The argument does not treat the twenty-odd connected actions one by one. `ChargingStation_proofs` shows first that each is an `OnlineStep` of
its task: what it may do to rows, owners of rows, memory, mappings, the task's job and the tables; then, once for all, that an `OnlineStep` keeps the invariant, and likewise for a `FallbackStep` of a station; establishing the
connection and the reconnect timer are cases of their own.

### Rows

`IndInv` does not know whose session an id names, nor what a stop has done by the time it drops a mapping. `RowInv` does:

* `Holds(s, id)` is every way in which station `s` still has to do with session `id`: the mapping, the buffer, a row, an image under promotion.
  At most one station holds a session (`OneHolder`), and only of ids that were given out (`HeldHasBegun`).
* The row a handler works on is the one its call is about, and past `closeRow` it is completed (`CallsAreOK`). This gives `UnmappedOnlyWhenDone`.
* An image lacks nothing that was reported of its station, and what is about to be forgotten is in the tables
  (`ImageCoversStation`, `ForgetIsComplete`). This gives `BufferReachesDatabase`.
* The rows of earlier runs stay, and what was over among them stays over (`OldRowsStay`).
* If the sequence is past the fallback ids, a station is only ever given ids that are its own (`IdsAreOwn`) and forgets none of its open old rows
  before the connection (`OpenIdsStay`). This gives `RowsTouchedByOwnId` and, with the faults counted, `OpenRowsReachable`.

`SequenceIsPast` says that earlier runs have used up the ids that fallback sessions get again, by transactions of whatever station that are over by
now. It is a hypothesis of the last two theorems, not an assumption of the model: BIGSERIAL starts at 1 and nothing in the code keeps the ids apart.
In a database that has had more transactions than a process hands out fallback ids it is what one expects; `DocOwnMeters` shows what
happens in a fresh one. Even then rows are not touched by their owners alone. The old rows lie under the fallback ids, and once the mapping of such
an id is gone, because its stop went through, the station's next message with that id, a meter value or the repetition of a stop whose answer was
lost, is about the old row, and overwrites what another station's finished transaction has. `RowsTouchedByOwnId` says that this is all
that happens: a row touched by another station is one that was there before the process, under the id of that station's own fallback session, and by
`OldRowsStay` it was over and is over. A row made since, promoted or connected, is only touched by its own station.

A connected step is a `TaskStep`: `RowStep`, `CallStep`, `IdStep` and `BufferStep` say what it may do to rows, to the call,
to the ids stations know, and to the buffer. A fallback step is an `OfflineStep` of one station, taken while there are no new rows and no calls.

### The refinement of SessionHandover

`Commit` is the abstract move: the rows it makes visible are those of its image, and each session of the buffer either is among
them or was committed before (`CommitRecords`). Closing a row is `StopInDatabase`; a start and a stop in fallback mode are `Begin` and
`StopInMemory`; establishing the connection is `GoOnline`. Everything else, forgetting the buffer and rolling back included, changes none of the four
sets (`RestStutters`). It rests on both invariants: that a completed row's session has no other holder makes `closed` grow by one id only.

### The server

`ServerInv` has a clause for each of the aspects of a step, and `OcppServer_proofs` shows for each aspect what a turn of a
run, the return of an await and an event may do to it.

* Sockets: the context of a station points to a socket that was opened for it (`SocketOK`), so the close of an older socket finds
  another socket in the context and changes nothing (`DisconnectedIsGone`).
* Runs: what a run is doing decides which of its locals are set (`LoopOK`).
* Messages: a run that marks a message has written it, all it has yet to send is in the table, and what was queued before those is
  written or still in the same run's list (`FlushOK`). The last part is what keeps lines in order when flushes overlap.
* Frames: a frame is in one place of one buffer or with one run (`BufferedOK`, `HeldOK`), and was not answered before (`FreshOK`).
  This is why two runs on one buffer answer no call twice.

`Outbox` is implemented step by step: `Enqueue` joins, whatever writes or marks serves, and the first connection and the start of a new process
give up the memory queue. `ConnectingOK` is needed here: if a later attempt could fail, `connected` would go back and a lost message would be
queued again.

### One socket, byte by byte

`SocketInv` holds together what the socket, its buffer, its runs and its answers have to do with each other:

* Place: `taken` is where the last frame that was taken ends, and what was taken are the frames sent (`PlaceOK`). A run that resumes after an
  await finds the buffer at the beginning of a frame, whatever another run took meanwhile; hence `FramesAsSent`.
* Rest: when no run is left on an open socket, the next frame is incomplete (`OpenOK`), which is `WholeFramesTaken`.
* Runs: no two runs await the handler of one text, or the flush of one boot (`AwaitingOK`), so that each text gets the answer that is due and only a
  rejected flush adds one (`AnswersDue`); the runs of the first chunk are one run, which awaits the frame taken last and ends with the first
  frame that ends the connection (`ChunksOK`), so that answers keep their order and nothing behind such a frame is taken. Behind a call
  whose socket failed meanwhile the run does go on, and `NothingBehind` does not say otherwise.
* Ends: a socket that `handleFrame` destroyed took a frame that explains it (`DestroyedOK`), and an open one none (`OpenOK`).
* Answers: what is written is about a frame that was taken, with a payload that `buildFrame` can frame (`WrittenOK`).

TLC found no violation of `SocketInv` with a part of the dialogues of `MCIntake`, explored completely. The run itself does not list it: its
evaluation takes longer than that of all the other properties together.

`PlaceOK` rests on the reading of the stream (`NextFrame`): for every sequence of frames and every number of bytes that have arrived,
`extractFrame` finds nothing at the beginning of the k-th frame until all of it has arrived, and then that frame. `FrameCodec_proofs` has the one
frame: for each of the three encodings of a length, the header that was sent is the one that is read, and unmasking undoes masking
(`Xor` is defined by its eight bits, whose involution is a matter of parity). The place of the k-th frame is a recursive function, about which only
its equation and the natural numbers are needed. The other direction is `BuiltIsRead`: `extractFrame` applied to the frame of `buildFrame` returns
opcode, payload and size, for every length below `Endless`.

`OcppMessages_proofs` compares two tables that the code writes twice: the interfaces of `schemas.ts` and the guards of its parse functions.
`Guarding` says that each field has a guard, of its own type, and no guard stands alone; it is shown for each interface. A guard is decided by
twelve kinds of values: what it keeps has its type, and what it refuses no station may send (`GuardIs`). All else follows for every payload,
with meter values of any number of entries and samples: what is thrown is the first refusal of the sequence (`ThrownIs`).

### Only model-checked

* Liveness: `ConnectsEventually`, `BufferDrains`, `CallsAnswered`, `FramesAnswered`, `BootFlushes`. The prover treats neither fairness nor ENABLED.

## 7. Where documentation and code differ

Shown by a run:

* `DocOneRow`: two overlapping promotions write one session twice; only the row written last is ever stopped.
* `DocOwnMeters`: fallback ids and row ids both count from 1, and StopTransaction names no station: a station may stop another's session.
* `DocValidation`: the guards accept numbers the columns refuse. Without a database such a StartTransaction is acknowledged and buffered; when
  the database is connected, the promotion of its station fails, and the session stays in memory for ever.
* `DocQueue`: a message flushed to a socket that has closed is marked DISPATCHED and never sent again.

Known from the models, without a run of their own:

* A stop that promotes its own station is refused as "not found" although the session is open and stored, because the mapping it
  read before the promotion still says that there is no row. The station has to repeat the call.
* A fallback id whose mapping is gone names an old row, whosever it is (section 6, Rows).
* The promotion of a station that only sent a heartbeat erases its stored vendor, model, serial number and firmware; a BootNotification
  that arrives during a promotion is overwritten by older data, the heartbeat included.
* A session that ends in fallback mode is never written to the database.
* A connected StatusNotification never lowers the station's status, and a stop sets it AVAILABLE although another connector charges.
* A failed promotion by the listener is tried again only when the station calls.
* Messages queued in memory are not moved to the table. A message queued while the station is online waits for its next boot or
  connection. Overlapping flushes send a message twice.
* The station id a context keeps from fallback mode is not the table's when the station was known before; until the next boot
  a reconnection flushes nothing.
* A flush that is rejected after a boot was answered sends a CALLERROR for the same call; one that is rejected at a registration is an
  unhandled rejection and ends the process.
* A handler that answers after its socket closed shows the station as CONNECTED again.
* A station's answer to a call of the server is refused with a CALLERROR.
* A CALL with the uniqueId "" is answered when it succeeds; when it fails the connection is closed.
* A run that awaits a handler while another run, or an error of the socket, destroys it goes on with the frames that follow in its buffer: calls
  of a dead socket are handled, and their station is shown as CONNECTED.
* `onApplicationShutdown` comes after the framework has waited for all sockets to end, so the close frames of the connection manager's
  "graceful shutdown" find no socket open.
* The receive buffer of a socket has no limit: an announced length is waited for, whatever it is.

## 8. Plan

Everything in section 2 is written, and every safety and action property of the runs is proved as well as checked. What may follow:
theorems about the pure functions of `StationStatus` by themselves, and a refinement that relates `OcppServer` to `StationSocket`, which now
share a reading of `handleFrame` but no formal link.

## 9. Not modelled

* The key and digest of the WebSocket handshake, and JSON itself: which bytes are which text.
* `main.ts`, the Nest modules, `configurations/`: wiring and environment. The order in which the framework runs shutdown
  hooks is its own, and `Terminate` and `Shutdown` follow it.
* `common/`, `enum/`, `types/`: REST scaffolding no OCPP path uses.
* Fallback ids of an earlier process, the memory of which is gone, that a station may still send.
* Hypertables, aggregates and archives of the database: no code path reads them.
* `prisma/seed.ts` and the scripts at the root: developer tools.
