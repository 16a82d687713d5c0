--------------------------- MODULE ChargingStation ---------------------------
(***************************************************************************)
(* ChargingStationService and the database it writes.  The process starts  *)
(* with or without a database.  While the first connection is missing the  *)
(* handlers run against memory and, having nothing to wait for, each is    *)
(* one atomic step.  Once connected, a handler is a chain of database      *)
(* statements with an await between them, so handlers interleave with each *)
(* other and with the promotion of what memory had buffered.               *)
(*                                                                         *)
(* Every connected handler is a task with a `job': the statement it awaits *)
(* (field `at') and the local variables that live across the await.  The   *)
(* connection listener is one more task.  Postgres contributes row locks   *)
(* held until commit, and reads that see committed rows only.              *)
(***************************************************************************)
EXTENDS Integers, Sequences, StationStatus, PrismaConnection

CONSTANTS
    Stations,      \* OCPP identities
    Registered,    \* those an earlier run of the process may have registered
    Connectors,    \* connector numbers, 0 being the station itself
    Calls,         \* slots for handlers in flight
    Listener,      \* the task that runs promoteAllMemoryStations
    Nobody,        \* neither a station nor a task
    Kinds,         \* the calls stations make
    RawStatuses,   \* the status spellings stations send
    OldRows,       \* the transactions that earlier runs of the process left
    LargestNumber, \* what a connector number may be for the Int columns to hold it
    MaxSessions,   \* bound: sessions started in fallback mode
    MaxRows,       \* bound: a connected StartTransaction arrives below it
    MaxFaults      \* bound: database statements that fail, answers that get lost

AllKinds == {"Boot", "Heartbeat", "Status", "Start", "Stop", "Meter"}

ASSUME NamesAssumption ==
    /\ Listener \notin Calls
    /\ Nobody \notin Stations \cup Calls \cup {Listener}
    /\ Kinds \subseteq AllKinds
    /\ Registered \subseteq Stations

ASSUME NumbersAssumption ==
    /\ Connectors \subseteq Nat
    /\ LargestNumber \in Nat
    /\ MaxSessions \in Nat /\ MaxRows \in Nat /\ MaxFaults \in Nat

Tasks       == Calls \cup {Listener}
FallbackIds == 1..MaxSessions
Session     == [id : FallbackIds, connector : Connectors]

VARIABLES
    memoryStations,             \* per identity the buffered station, or the null one
    memoryTransactions,         \* per fallback id its mapping, or NoMapping
    nextFallbackTransactionId,
    dbStations,                 \* charging_stations, committed
    dbConnectors,               \* charging_connectors, committed
    rows,                       \* transactions: the row of id n is rows[n]
    job,                        \* per task what it is doing
    queue,                      \* the identities the listener has not visited yet
    openIds,                    \* per station the ids it has and was not told the stop of
    booted,                     \* history: stations whose BootNotification was accepted
    faults                      \* statements that have failed and answers that got lost

memoryVars == <<memoryStations, memoryTransactions, nextFallbackTransactionId>>
dbVars     == <<dbStations, dbConnectors, rows>>
taskVars   == <<job, queue>>
vars       == <<connectionVars, memoryVars, dbVars, taskVars, openIds, booted, faults>>

------------------------------------------------------------------------------
(* Records and their null forms. *)

\* MemoryStationState.  `identified' stands for the vendor, model, serial and
\* firmware fields, null until a BootNotification fills them; `heard' is the
\* age of lastHeartbeatAt: taken before the database connected, or after.
MemoryStation ==
    [live : BOOLEAN, identified : BOOLEAN, heard : {"never", "buffered", "live"},
     status : StationStatusOf,
     connectors : [Connectors -> ConnectorStatus \cup {Absent}],
     sessions : SUBSET Session]

NoMemoryStation ==
    [live |-> FALSE, identified |-> FALSE, heard |-> "never", status |-> "AVAILABLE",
     connectors |-> [c \in Connectors |-> Absent], sessions |-> {}]

DbStation ==
    [live : BOOLEAN, identified : BOOLEAN, heard : {"never", "buffered", "live"},
     status : StationStatusOf]

\* MemoryTransactionIndex; row 0 is an undefined dbTransactionId.
Mapping   == [station : Stations \cup {Nobody}, row : Nat]
NoMapping == [station |-> Nobody, row |-> 0]

\* A row carries its uncommitted writer (`tx') and three histories: the
\* fallback id it was promoted from (0 if none), and who stopped and metered it.
Row ==
    [station : Stations, connector : Connectors,
     status : {"STARTED", "COMPLETED", "ROLLEDBACK"}, tx : Tasks \cup {Nobody},
     origin : FallbackIds \cup {0},
     stoppedBy : Stations \cup {Nobody}, meteredBy : SUBSET Stations]

PromotionSteps == {"upsertStation", "upsertConnectors", "createRows", "forget"}
CallSteps ==
    {"bootUpsert", "find", "touch", "writeConnector", "insertRow", "writeStation",
     "meter", "findRow", "closeRow", "freeConnector", "freeStation", "unmap"}

Job ==
    [at : {"idle"} \cup PromotionSteps \cup CallSteps, kind : AllKinds \cup {"none"},
     station : Stations \cup {Nobody}, connector : Connectors \cup {0},
     status : ConnectorStatus \cup {Absent}, id : Nat,
     mapping : Mapping, row : Nat,
     target : Stations \cup {Nobody}, image : MemoryStation]

Idle ==
    [at |-> "idle", kind |-> "none", station |-> Nobody, connector |-> 0,
     status |-> Absent, id |-> 0, mapping |-> NoMapping, row |-> 0,
     target |-> Nobody, image |-> NoMemoryStation]

TypeOK ==
    /\ ConnectionTypeOK
    /\ memoryStations \in [Stations -> MemoryStation]
    /\ memoryTransactions \in [FallbackIds -> Mapping]
    /\ nextFallbackTransactionId \in 1..(MaxSessions + 1)
    /\ dbStations \in [Stations -> DbStation]
    /\ dbConnectors \in [Stations -> [Connectors -> ConnectorStatus \cup {Absent}]]
    /\ rows \in Seq(Row)
    /\ job \in [Tasks -> Job]
    /\ queue \in SUBSET Stations
    /\ openIds \in [Stations -> SUBSET Nat]
    /\ booted \in SUBSET Stations
    /\ faults \in 0..MaxFaults

------------------------------------------------------------------------------
(* What the handlers read. *)

\* The server listens once the first connection attempt is over: it succeeded
\* or it left the reconnect timer behind.
Fallback  == ~connected /\ reconnectTimer
Online    == connected

\* getOrCreateMemoryStation: a missing entry starts blank, heard from just now.
GetOrCreateMemoryStation(s) ==
    IF memoryStations[s].live THEN memoryStations[s]
    ELSE [NoMemoryStation EXCEPT !.live  = TRUE,
                                 !.heard = IF connected THEN "live" ELSE "buffered"]

Known(m) == m.station # Nobody

\* memoryTransactions.get(id)
MappingOf(id) == IF id \in FallbackIds THEN memoryTransactions[id] ELSE NoMapping

RowIds    == DOMAIN rows
NextRowId == Len(rows) + 1

Committed(row) == row.tx = Nobody /\ row.status # "ROLLEDBACK"
Visible(r)     == r \in RowIds /\ Committed(rows[r])

NewRow(s, c, owner, from) ==
    [station |-> s, connector |-> c, status |-> "STARTED", tx |-> owner,
     origin |-> from, stoppedBy |-> Nobody, meteredBy |-> {}]

\* A promotion holds the station's row from its first upsert to its end, and
\* the connectors' rows from the second on.
\* Wrong: it has the row from the moment it asks for it.
StationLockedByWaiters(s) ==
    \E q \in Tasks : job[q].at \in {"upsertStation", "upsertConnectors", "createRows"}
                     /\ job[q].target = s
StationLocked(s) ==
    \E q \in Tasks : job[q].at \in {"upsertConnectors", "createRows"} /\ job[q].target = s
ConnectorsLocked(s) ==
    \E q \in Tasks : job[q].at = "createRows" /\ job[q].target = s

\* The columns for connector numbers are Int.  A number beyond it stands for
\* all that the guards of messages/schemas.ts accept and a column refuses.
Storable(c) == c <= LargestNumber

\* What earlier runs of the process left: transactions that are over, that were
\* rolled back, or that are open still, in which case their station knows the
\* id and will stop them.  Ids count on from them.
OldRow ==
    {row \in Row : /\ row.station \in Registered /\ Storable(row.connector)
                   /\ row.tx = Nobody /\ row.origin = 0
                   /\ row.stoppedBy = Nobody /\ row.meteredBy = {}}
ASSUME OldRowsAssumption == OldRows \in Seq(OldRow)

OldRowsOf(s) == {n \in DOMAIN OldRows : OldRows[n].station = s /\ Committed(OldRows[n])}
OpenIdsLeft(s) == {n \in OldRowsOf(s) : OldRows[n].status = "STARTED"}
ConnectorLeft(s, c) ==
    IF \E n \in OpenIdsLeft(s) : OldRows[n].connector = c THEN "CHARGING"
    ELSE IF \E n \in OldRowsOf(s) : OldRows[n].connector = c THEN "AVAILABLE"
    ELSE Absent

------------------------------------------------------------------------------
(* Handlers in fallback mode: one atomic step each.  A rejected Stop and a   *)
(* MeterValues call, which is acknowledged and dropped, change nothing.      *)

SetMemoryStation(s, station) == memoryStations' = [memoryStations EXCEPT ![s] = station]

FallbackBoot(s) ==
    /\ Fallback /\ "Boot" \in Kinds
    /\ SetMemoryStation(s, [GetOrCreateMemoryStation(s) EXCEPT
           !.identified = TRUE, !.heard = "buffered", !.status = "AVAILABLE"])
    /\ booted' = booted \cup {s}
    /\ UNCHANGED <<connectionVars, memoryTransactions, nextFallbackTransactionId,
                   dbVars, taskVars, openIds, faults>>

\* handleHeartbeat and handleAuthorize
FallbackHeartbeat(s) ==
    /\ Fallback /\ "Heartbeat" \in Kinds
    /\ SetMemoryStation(s, [GetOrCreateMemoryStation(s) EXCEPT !.heard = "buffered"])
    /\ UNCHANGED <<connectionVars, memoryTransactions, nextFallbackTransactionId,
                   dbVars, taskVars, openIds, booted, faults>>

\* The status a StatusNotification of connector c leaves the station in.
StatusAfterNotification(c, status, connectors, current) ==
    CASE c = 0                             -> DeriveStationStatus(status)
      [] c # 0 /\ status = "CHARGING"      -> "CHARGING"
      [] OTHER                             -> StatusFromConnectors(connectors, current)

FallbackStatus(s, c, raw) ==
    /\ Fallback /\ "Status" \in Kinds
    /\ LET station    == GetOrCreateMemoryStation(s)
           status     == ResolveConnectorStatus(raw)
           connectors == [station.connectors EXCEPT ![c] = status]
       IN  SetMemoryStation(s, [station EXCEPT
               !.connectors = connectors,
               !.status = StatusAfterNotification(c, status, connectors, station.status)])
    /\ UNCHANGED <<connectionVars, memoryTransactions, nextFallbackTransactionId,
                   dbVars, taskVars, openIds, booted, faults>>

\* nextFallbackTransactionId += 1, and two ways to get it wrong.
NextTransactionIdStuck(id) == id
NextTransactionIdSkips(id) == id + 2
NextTransactionId(id)      == id + 1

FallbackStart(s, c) ==
    /\ Fallback /\ "Start" \in Kinds
    /\ nextFallbackTransactionId <= MaxSessions
    /\ LET id == nextFallbackTransactionId
       IN  /\ SetMemoryStation(s, [GetOrCreateMemoryStation(s) EXCEPT
                  !.connectors[c] = "CHARGING", !.status = "CHARGING",
                  !.sessions = @ \cup {[id |-> id, connector |-> c]}])
           /\ memoryTransactions' =
                  [memoryTransactions EXCEPT ![id] = [station |-> s, row |-> 0]]
           /\ nextFallbackTransactionId' = NextTransactionId(id)
           /\ openIds' = [openIds EXCEPT ![s] = @ \cup {id}]
    /\ UNCHANGED <<connectionVars, dbVars, taskVars, booted, faults>>

\* A station that is told of its stop does not repeat it; if the answer got lost
\* on the way, it does.
StopAnswered(s, id) ==
    \/ openIds' = [openIds EXCEPT ![s] = @ \ {id}] /\ UNCHANGED faults
    \/ faults < MaxFaults /\ faults' = faults + 1 /\ UNCHANGED openIds

\* A completed session is deleted from memory, and with it its stop meter.  The
\* mapping tells whose it is; who sent the stop is not looked at.
FallbackStop(s, id) ==
    /\ Fallback /\ "Stop" \in Kinds
    /\ Known(MappingOf(id))
    /\ LET t       == MappingOf(id).station
           station == GetOrCreateMemoryStation(t)
       IN  /\ \E e \in station.sessions :
                  /\ e.id = id
                  /\ LET connectors == [station.connectors EXCEPT
                                 ![e.connector] = IF @ = Absent THEN @ ELSE "AVAILABLE"]
                     IN  SetMemoryStation(t, [station EXCEPT
                             !.connectors = connectors,
                             !.sessions   = @ \ {e},
                             !.status     = StatusFromConnectors(connectors, @)])
    /\ StopAnswered(s, id)
    /\ memoryTransactions' = [memoryTransactions EXCEPT ![id] = NoMapping]
    /\ UNCHANGED <<connectionVars, nextFallbackTransactionId, dbVars, taskVars, booted>>

------------------------------------------------------------------------------
(* The tasks. *)

Goto(p, step)    == job' = [job EXCEPT ![p].at = step]
GotoRow(p, step, r) == job' = [job EXCEPT ![p].at = step, ![p].row = r]

\* The handler answered or threw.
Answered(p) == job' = [job EXCEPT ![p] = Idle]

\* promoteMemoryStation(s) as called by a task whose other locals are in
\* `caller': with a buffered station in `memory' the task awaits the first
\* upsert, without one it goes straight on at `after'.  The captured station
\* is the map's own object; nothing mutates it once the database is connected.
Promoting(caller, s, memory, after) ==
    IF memory[s].live
    THEN [caller EXCEPT !.at = "upsertStation", !.target = s, !.image = memory[s]]
    ELSE [caller EXCEPT !.at = after]

\* promoteAllMemoryStations goes on to an identity it has not visited.  Their
\* order is the Map's insertion order, of which no property here depends.
ListenerTurn(identities, memory) ==
    \/ \E s \in identities :
           /\ memory[s].live
           /\ job' = [job EXCEPT ![Listener] = Promoting(Idle, s, memory, "idle")]
           /\ queue' = identities \ {s}
    \/ /\ \A s \in identities : ~memory[s].live
       /\ job' = [job EXCEPT ![Listener] = Idle]
       /\ queue' = {}

\* The first connection.  tryConnect notifies the listener in the same turn
\* of the event loop, which runs it up to its first await.
EstablishConnection ==
    /\ ConnectOk
    /\ ListenerTurn({s \in Stations : memoryStations[s].live}, memoryStations)
    /\ UNCHANGED <<memoryVars, dbVars, openIds, booted, faults>>

AttemptConnection ==
    /\ ReconnectTick
    /\ UNCHANGED <<memoryVars, dbVars, taskVars, openIds, booted, faults>>

AttemptFails ==
    /\ ConnectFail
    /\ UNCHANGED <<memoryVars, dbVars, taskVars, openIds, booted, faults>>

------------------------------------------------------------------------------
(* Calls that arrive once the database is connected. *)

Receive(p, call) ==
    /\ Online
    /\ job[p].at = "idle"
    /\ call.kind \in Kinds
    /\ job' = [job EXCEPT ![p] = call]
    /\ UNCHANGED <<connectionVars, memoryVars, dbVars, queue, openIds, booted, faults>>

\* handleBootNotification alone of all handlers does not promote.
ReceiveBoot(p, s) ==
    Receive(p, [Idle EXCEPT !.at = "bootUpsert", !.kind = "Boot", !.station = s])

\* The other handlers promote their station, then look it up.
ReceiveHeartbeat(p, s) ==
    Receive(p, Promoting([Idle EXCEPT !.kind = "Heartbeat", !.station = s],
                         s, memoryStations, "find"))

ReceiveStatus(p, s, c, raw) ==
    Receive(p, Promoting([Idle EXCEPT !.kind = "Status", !.station = s, !.connector = c,
                                      !.status = ResolveConnectorStatus(raw)],
                         s, memoryStations, "find"))

ReceiveStart(p, s, c) ==
    /\ Len(rows) < Len(OldRows) + MaxRows
    /\ Receive(p, Promoting([Idle EXCEPT !.kind = "Start", !.station = s, !.connector = c,
                                         !.status = "CHARGING"],
                            s, memoryStations, "find"))

ReceiveMeter(p, s, id) ==
    Receive(p, Promoting([Idle EXCEPT !.kind = "Meter", !.station = s, !.id = id],
                         s, memoryStations, "find"))

\* handleStopTransaction is given no identity: all it goes by is the id.  It
\* reads the mapping once, before the await.  A mapping without a row always
\* has its station buffered (UnsavedIsBuffered), so the promotion does await.
ReceiveStop(p, s, id) ==
    LET mapping == MappingOf(id)
        call    == [Idle EXCEPT !.kind = "Stop", !.station = s, !.id = id, !.mapping = mapping]
    IN  Receive(p, IF Known(mapping) /\ mapping.row = 0
                   THEN Promoting(call, mapping.station, memoryStations, "upsertStation")
                   ELSE [call EXCEPT !.at  = "findRow",
                                     !.row = IF Known(mapping) THEN mapping.row ELSE id])

------------------------------------------------------------------------------
(* promoteMemoryStation: one interactive transaction, then the forgetting. *)

\* Wrong: the buffer is dropped before the transaction.
UpsertStationForgetting(p) ==
    /\ job[p].at = "upsertStation"
    /\ ~StationLocked(job[p].target)
    /\ Goto(p, "upsertConnectors")
    /\ memoryStations' = [memoryStations EXCEPT ![job[p].target] = NoMemoryStation]
    /\ UNCHANGED <<connectionVars, memoryTransactions, nextFallbackTransactionId,
                   dbVars, queue, openIds, booted, faults>>

UpsertStation(p) ==
    /\ job[p].at = "upsertStation"
    /\ ~StationLocked(job[p].target)
    /\ Goto(p, "upsertConnectors")
    /\ UNCHANGED <<connectionVars, memoryVars, dbVars, queue, openIds, booted, faults>>

Reported(station) == {c \in Connectors : station.connectors[c] # Absent}

UpsertConnectors(p) ==
    /\ job[p].at = "upsertConnectors"
    /\ \A c \in Reported(job[p].image) : Storable(c)
    /\ Goto(p, "createRows")
    /\ UNCHANGED <<connectionVars, memoryVars, dbVars, queue, openIds, booted, faults>>

CreatedBy(p, e) ==
    \E n \in DOMAIN rows : rows[n].tx = p /\ rows[n].origin = e.id
Uncreated(p) == {e \in job[p].image.sessions : ~CreatedBy(p, e)}

\* What memoryTransactions.set stores for the row just created; wrong: the
\* session's own id where the row's belongs.
CreatedMappingOwnId(s, id, created) == [station |-> s, row |-> id]
CreatedMapping(s, id, created)      == [station |-> s, row |-> created]

\* transaction.create, in the order of the sessions, and the mapping that the
\* same turn stores although the transaction has not committed.
CreateRow(p) ==
    /\ job[p].at = "createRows"
    /\ \E e \in Uncreated(p) :
           /\ \A f \in Uncreated(p) : e.id <= f.id
           /\ rows' = Append(rows, NewRow(job[p].target, e.connector, p, e.id))
           /\ memoryTransactions' = [memoryTransactions EXCEPT
                  ![e.id] = CreatedMapping(job[p].target, e.id, NextRowId)]
    /\ UNCHANGED <<connectionVars, memoryStations, nextFallbackTransactionId,
                   dbStations, dbConnectors, taskVars, openIds, booted, faults>>

WrittenBack(p) ==
    [n \in DOMAIN rows |->
        IF rows[n].tx = p THEN [rows[n] EXCEPT !.tx = Nobody] ELSE rows[n]]

\* COMMIT takes effect: the image is in the tables and the locks are free.
Commit(p) ==
    /\ job[p].at = "createRows"
    /\ Uncreated(p) = {}
    /\ LET s == job[p].target  image == job[p].image
       IN  /\ dbStations' = [dbStations EXCEPT ![s] =
                  [live |-> TRUE, identified |-> image.identified,
                   heard |-> image.heard, status |-> image.status]]
           /\ dbConnectors' = [dbConnectors EXCEPT ![s] =
                  [c \in Connectors |-> IF image.connectors[c] = Absent
                                        THEN @[c] ELSE image.connectors[c]]]
    /\ rows' = WrittenBack(p)
    /\ Goto(p, "forget")
    /\ UNCHANGED <<connectionVars, memoryVars, queue, openIds, booted, faults>>

\* memoryStations.delete(identity): the entry, whatever it holds by now.
\* Wrong: memoryStations.clear().
ForgottenAll(p) == [s \in Stations |-> NoMemoryStation]
Forgotten(p) == [memoryStations EXCEPT ![job[p].target] = NoMemoryStation]

\* The answer of COMMIT: forget the buffered station and go on.
ForgetThenFind(p) ==
    /\ job[p].at = "forget" /\ job[p].kind \in {"Heartbeat", "Status", "Start", "Meter"}
    /\ memoryStations' = Forgotten(p)
    /\ Goto(p, "find")
    /\ UNCHANGED <<connectionVars, memoryTransactions, nextFallbackTransactionId,
                   dbVars, queue, openIds, booted, faults>>

ForgetThenNext ==
    /\ job[Listener].at = "forget"
    /\ memoryStations' = Forgotten(Listener)
    /\ ListenerTurn(queue, memoryStations')
    /\ UNCHANGED <<connectionVars, memoryTransactions, nextFallbackTransactionId,
                   dbVars, openIds, booted, faults>>

\* handleStopTransaction still holds the mapping from before the promotion and
\* takes the memory branch: it finds no buffered station, creates a blank one,
\* does not find the session in it and rejects the call.
ForgetThenReject(p) ==
    /\ job[p].at = "forget" /\ job[p].kind = "Stop"
    /\ memoryStations' = [Forgotten(p) EXCEPT ![job[p].target] =
           [NoMemoryStation EXCEPT !.live = TRUE, !.heard = "live"]]
    /\ Answered(p)
    /\ UNCHANGED <<connectionVars, memoryTransactions, nextFallbackTransactionId,
                   dbVars, queue, openIds, booted, faults>>
------------------------------------------------------------------------------
(* The statements of the connected handlers. *)

BootUpsert(p) ==
    /\ job[p].at = "bootUpsert"
    /\ ~StationLocked(job[p].station)
    /\ dbStations' = [dbStations EXCEPT ![job[p].station] =
           [live |-> TRUE, identified |-> TRUE, heard |-> "live", status |-> "AVAILABLE"]]
    /\ booted' = booted \cup {job[p].station}
    /\ Answered(p)
    /\ UNCHANGED <<connectionVars, memoryVars, dbConnectors, rows, queue, openIds, faults>>

\* getStationByIdentity; MeterValues resolves its transaction in the same turn.
Find(p) ==
    /\ job[p].at = "find"
    /\ dbStations[job[p].station].live
    /\ \/ job[p].kind = "Heartbeat" /\ Goto(p, "touch")
       \/ job[p].kind \in {"Status", "Start"} /\ Goto(p, "writeConnector")
       \/ /\ job[p].kind = "Meter"
          /\ LET m == MappingOf(job[p].id)
             IN  GotoRow(p, "meter", IF m.row # 0 THEN m.row ELSE job[p].id)
    /\ UNCHANGED <<connectionVars, memoryVars, dbVars, queue, openIds, booted, faults>>

\* ensureStation: SecurityError, `has not completed a BootNotification'.
FindMissing(p) ==
    /\ job[p].at = "find"
    /\ ~dbStations[job[p].station].live
    /\ Answered(p)
    /\ UNCHANGED <<connectionVars, memoryVars, dbVars, queue, openIds, booted, faults>>

\* lastHeartbeatAt of handleHeartbeat and handleAuthorize
Touch(p) ==
    /\ job[p].at = "touch"
    /\ ~StationLocked(job[p].station)
    /\ dbStations' = [dbStations EXCEPT ![job[p].station].heard = "live"]
    /\ Answered(p)
    /\ UNCHANGED <<connectionVars, memoryVars, dbConnectors, rows, queue, openIds, booted, faults>>

\* The connector upsert of a StatusNotification or a StartTransaction.  The
\* former goes on to the station only for connector 0 or a CHARGING connector.
WriteConnector(p) ==
    /\ job[p].at = "writeConnector"
    /\ Storable(job[p].connector)
    /\ ~ConnectorsLocked(job[p].station)
    /\ dbConnectors' = [dbConnectors EXCEPT ![job[p].station][job[p].connector] = job[p].status]
    /\ \/ job[p].kind = "Start" /\ Goto(p, "insertRow")
       \/ /\ job[p].kind = "Status"
          /\ job[p].connector = 0 \/ job[p].status = "CHARGING"
          /\ Goto(p, "writeStation")
       \/ /\ job[p].kind = "Status"
          /\ job[p].connector # 0 /\ job[p].status # "CHARGING"
          /\ Answered(p)
    /\ UNCHANGED <<connectionVars, memoryVars, dbStations, rows, queue, openIds, booted, faults>>

\* The database or its client refuses the number: an InternalError.
ConnectorRefused(p) ==
    /\ job[p].at = "writeConnector"
    /\ ~Storable(job[p].connector)
    /\ Answered(p)
    /\ UNCHANGED <<connectionVars, memoryVars, dbVars, queue, openIds, booted, faults>>

InsertRow(p) ==
    /\ job[p].at = "insertRow"
    /\ rows' = Append(rows, NewRow(job[p].station, job[p].connector, Nobody, 0))
    /\ GotoRow(p, "writeStation", NextRowId)
    /\ UNCHANGED <<connectionVars, memoryVars, dbStations, dbConnectors, queue,
                   openIds, booted, faults>>

\* A StartTransaction answers with the id of its row.  (Wrong: of the last row.)
WriteStationLast(p) ==
    /\ job[p].at = "writeStation"
    /\ ~StationLocked(job[p].station)
    /\ dbStations' = [dbStations EXCEPT ![job[p].station].status =
           DeriveStationStatus(job[p].status)]
    /\ openIds' = [openIds EXCEPT ![job[p].station] =
           IF job[p].kind = "Start" THEN @ \cup {NextRowId - 1} ELSE @]
    /\ Answered(p)
    /\ UNCHANGED <<connectionVars, memoryVars, dbConnectors, rows, queue, booted, faults>>

WriteStation(p) ==
    /\ job[p].at = "writeStation"
    /\ ~StationLocked(job[p].station)
    /\ dbStations' = [dbStations EXCEPT ![job[p].station].status =
           DeriveStationStatus(job[p].status)]
    /\ openIds' = [openIds EXCEPT ![job[p].station] =
           IF job[p].kind = "Start" THEN @ \cup {job[p].row} ELSE @]
    /\ Answered(p)
    /\ UNCHANGED <<connectionVars, memoryVars, dbConnectors, rows, queue, booted, faults>>

\* meterValue.createMany; its foreign key refuses a row it cannot see.
Meter(p) ==
    /\ job[p].at = "meter"
    /\ Visible(job[p].row)
    /\ rows' = [rows EXCEPT ![job[p].row].meteredBy = @ \cup {job[p].station}]
    /\ Answered(p)
    /\ UNCHANGED <<connectionVars, memoryVars, dbStations, dbConnectors, queue,
                   openIds, booted, faults>>

MeterRefused(p) ==
    /\ job[p].at = "meter"
    /\ ~Visible(job[p].row)
    /\ Answered(p)
    /\ UNCHANGED <<connectionVars, memoryVars, dbVars, queue, openIds, booted, faults>>

\* handleStopTransaction: find the row, complete it, free its connector and its
\* station, log, and only then drop the mapping, if there was one.
\* (Wrong: drop it as soon as the row is found.)
FindRowUnmapping(p) ==
    /\ job[p].at = "findRow"
    /\ Visible(job[p].row)
    /\ Goto(p, "closeRow")
    /\ memoryTransactions' = [id \in FallbackIds |->
           IF id = job[p].id THEN NoMapping ELSE memoryTransactions[id]]
    /\ UNCHANGED <<connectionVars, memoryStations, nextFallbackTransactionId, dbVars,
                   queue, openIds, booted, faults>>

FindRow(p) ==
    /\ job[p].at = "findRow"
    /\ Visible(job[p].row)
    /\ Goto(p, "closeRow")
    /\ UNCHANGED <<connectionVars, memoryVars, dbVars, queue, openIds, booted, faults>>

FindRowMissing(p) ==
    /\ job[p].at = "findRow"
    /\ ~Visible(job[p].row)
    /\ Answered(p)
    /\ UNCHANGED <<connectionVars, memoryVars, dbVars, queue, openIds, booted, faults>>

CloseRow(p) ==
    /\ job[p].at = "closeRow"
    /\ rows' = [rows EXCEPT ![job[p].row].status    = "COMPLETED",
                            ![job[p].row].stoppedBy = job[p].station]
    /\ Goto(p, "freeConnector")
    /\ UNCHANGED <<connectionVars, memoryVars, dbStations, dbConnectors, queue,
                   openIds, booted, faults>>

FreeConnector(p) ==
    /\ job[p].at = "freeConnector"
    /\ LET row == rows[job[p].row]
       IN  /\ ~ConnectorsLocked(row.station)
           /\ dbConnectors' = [dbConnectors EXCEPT ![row.station][row.connector] = "AVAILABLE"]
    /\ Goto(p, "freeStation")
    /\ UNCHANGED <<connectionVars, memoryVars, dbStations, rows, queue, openIds, booted, faults>>

FreeStation(p) ==
    /\ job[p].at = "freeStation"
    /\ LET s == rows[job[p].row].station
       IN  /\ ~StationLocked(s)
           /\ dbStations' = [dbStations EXCEPT ![s].status = "AVAILABLE"]
    /\ Goto(p, "unmap")
    /\ UNCHANGED <<connectionVars, memoryVars, dbConnectors, rows, queue, openIds,
                   booted, faults>>

Unmap(p) ==
    /\ job[p].at = "unmap"
    /\ memoryTransactions' = IF Known(job[p].mapping)
                             THEN [memoryTransactions EXCEPT ![job[p].id] = NoMapping]
                             ELSE memoryTransactions
    /\ StopAnswered(job[p].station, job[p].id)
    /\ Answered(p)
    /\ UNCHANGED <<connectionVars, memoryStations, nextFallbackTransactionId, dbVars,
                   queue, booted>>

------------------------------------------------------------------------------
(* A statement fails, or its answer is lost: the same thing at the step that *)
(* awaited it, the effect being there or not.  The handler throws; the       *)
(* listener logs it and turns to the next identity.  An open transaction is  *)
(* rolled back: its rows are gone, their ids are not handed out again, and   *)
(* the mappings that point at them stay.                                     *)

RolledBack(p) ==
    [n \in DOMAIN rows |->
        IF rows[n].tx = p THEN [rows[n] EXCEPT !.tx = Nobody, !.status = "ROLLEDBACK"]
        ELSE rows[n]]

\* Wrong: the buffer is dropped although the transaction failed.
FaultForgetting(p) ==
    /\ job[p].at \in PromotionSteps
    /\ faults < MaxFaults
    /\ faults' = faults + 1
    /\ rows' = RolledBack(p)
    /\ memoryStations' = Forgotten(p)
    /\ IF p = Listener THEN ListenerTurn(queue, memoryStations')
       ELSE Answered(p) /\ UNCHANGED queue
    /\ UNCHANGED <<connectionVars, memoryTransactions, nextFallbackTransactionId,
                   dbStations, dbConnectors, openIds, booted>>

\* Wrong: the first identity that fails ends promoteAllMemoryStations.
GivesUpAll(p) ==
    /\ rows' = RolledBack(p)
    /\ Answered(p)
    /\ queue' = IF p = Listener THEN {} ELSE queue
    /\ UNCHANGED <<connectionVars, memoryVars, dbStations, dbConnectors, openIds, booted>>

GivesUp(p) ==
    /\ rows' = RolledBack(p)
    /\ IF p = Listener THEN ListenerTurn(queue, memoryStations)
       ELSE Answered(p) /\ UNCHANGED queue
    /\ UNCHANGED <<connectionVars, memoryVars, dbStations, dbConnectors, openIds, booted>>

Fault(p) ==
    /\ job[p].at # "idle"
    /\ faults < MaxFaults
    /\ faults' = faults + 1
    /\ GivesUp(p)

\* The buffer holds what a column refuses, and so does every later attempt.
PromotionRefused(p) ==
    /\ job[p].at = "upsertConnectors"
    /\ \E c \in Reported(job[p].image) : ~Storable(c)
    /\ GivesUp(p)
    /\ UNCHANGED faults

------------------------------------------------------------------------------
Init ==
    /\ ConnectionInit
    /\ memoryStations = [s \in Stations |-> NoMemoryStation]
    /\ memoryTransactions = [id \in FallbackIds |-> NoMapping]
    /\ nextFallbackTransactionId = 1
    /\ booted \in SUBSET Registered
    /\ \A n \in DOMAIN OldRows : OldRows[n].station \in booted
    /\ dbStations = [s \in Stations |-> [live |-> s \in booted, identified |-> s \in booted,
                                         heard |-> "never", status |-> "AVAILABLE"]]
    /\ dbConnectors = [s \in Stations |-> [c \in Connectors |-> ConnectorLeft(s, c)]]
    /\ rows = OldRows
    /\ job = [p \in Tasks |-> Idle]
    /\ queue = {}
    /\ openIds = [s \in Stations |-> OpenIdsLeft(s)]
    /\ faults = 0

FallbackNext ==
    \E s \in Stations :
        \/ FallbackBoot(s)
        \/ FallbackHeartbeat(s)
        \/ \E c \in Connectors : FallbackStart(s, c) \/ \E raw \in RawStatuses : FallbackStatus(s, c, raw)
        \/ \E id \in openIds[s] : FallbackStop(s, id)

\* A station stops and meters the transactions it was given an id for, and
\* repeats a stop that was refused, whose handler threw or whose answer it lost.
ReceiveNext(p) ==
    \E s \in Stations :
        \/ ReceiveBoot(p, s)
        \/ ReceiveHeartbeat(p, s)
        \/ \E c \in Connectors : ReceiveStart(p, s, c) \/ \E raw \in RawStatuses : ReceiveStatus(p, s, c, raw)
        \/ \E id \in openIds[s] : ReceiveStop(p, s, id) \/ ReceiveMeter(p, s, id)

PromotionNext(p) ==
    \/ UpsertStation(p) \/ UpsertConnectors(p) \/ CreateRow(p) \/ Commit(p)
    \/ ForgetThenFind(p) \/ ForgetThenReject(p)
    \/ p = Listener /\ ForgetThenNext

StatementNext(p) ==
    \/ BootUpsert(p) \/ Find(p) \/ FindMissing(p) \/ Touch(p)
    \/ WriteConnector(p) \/ ConnectorRefused(p) \/ InsertRow(p) \/ WriteStation(p)
    \/ Meter(p) \/ MeterRefused(p)
    \/ FindRow(p) \/ FindRowMissing(p) \/ CloseRow(p)
    \/ FreeConnector(p) \/ FreeStation(p) \/ Unmap(p)

ConnectionNext == EstablishConnection \/ AttemptConnection \/ AttemptFails

Next ==
    \/ ConnectionNext
    \/ FallbackNext
    \/ \E p \in Calls : ReceiveNext(p)
    \/ \E p \in Tasks : PromotionNext(p) \/ StatementNext(p) \/ PromotionRefused(p) \/ Fault(p)

Spec == Init /\ [][Next]_vars

\* The timer ticks, a database that is up is reached in the end, and every
\* statement is answered in the end (or fails, which ends its task too).  A
\* row that is locked again and again is had in the end: waiters queue for it.
Fairness ==
    /\ WF_vars(AttemptConnection)
    /\ SF_vars(EstablishConnection)
    /\ \A p \in Tasks :
           /\ SF_vars(UpsertStation(p))
           /\ WF_vars(PromotionNext(p) \/ StatementNext(p) \/ PromotionRefused(p))

FairSpec == Spec /\ Fairness
==============================================================================
