------------------------ MODULE ChargingStation_proofs ------------------------
(***************************************************************************)
(* Proofs about ChargingStation for every value of its constants: its      *)
(* types, IndInv, and the invariants about sessions that follow from it.   *)
(* Offline steps are few and see no rows and no running task.  Online,     *)
(* every step is a step of one task p, and what the invariants need to     *)
(* know of it is gathered in OnlineStep(p): one group of lemmas shows that *)
(* each action is such a step, the other that such a step keeps each       *)
(* invariant.                                                              *)
(***************************************************************************)
EXTENDS ChargingStationProps, TLAPS

USE NamesAssumption, NumbersAssumption

------------------------------------------------------------------------------
(* Status operators *)

\* Whatever a station reports, the connector gets a status of the enum.
LEMMA ResolveType ==
    ASSUME NEW raw
    PROVE  ResolveConnectorStatus(raw) \in ConnectorStatus
BY DEF ResolveConnectorStatus, connectorStatusMap, ConnectorStatus

LEMMA DeriveType ==
    ASSUME NEW status
    PROVE  DeriveStationStatus(status) \in StationStatusOf
BY DEF DeriveStationStatus, StationStatusOf

LEMMA FromConnectorsType ==
    ASSUME NEW connectors, NEW current
    PROVE  StatusFromConnectors(connectors, current) \in StationStatusOf
BY DeriveType DEF StatusFromConnectors, StationStatusOf

LEMMA NotificationType ==
    ASSUME NEW c, NEW status, NEW connectors, NEW current
    PROVE  StatusAfterNotification(c, status, connectors, current) \in StationStatusOf
BY DeriveType, FromConnectorsType DEF StatusAfterNotification, StationStatusOf

------------------------------------------------------------------------------
(* One column of a station row *)

LEMMA HeardWritten ==
    ASSUME dbStations \in [Stations -> DbStation], NEW s
    PROVE  [dbStations EXCEPT ![s].heard = "live"] \in [Stations -> DbStation]
<1>1. ASSUME s \in Stations
      PROVE  [dbStations[s] EXCEPT !.heard = "live"] \in DbStation
  BY <1>1, dbStations[s] \in DbStation DEF DbStation
<1> QED BY <1>1

LEMMA StatusWritten ==
    ASSUME dbStations \in [Stations -> DbStation], NEW s, NEW status \in StationStatusOf
    PROVE  [dbStations EXCEPT ![s].status = status] \in [Stations -> DbStation]
<1>1. ASSUME s \in Stations
      PROVE  [dbStations[s] EXCEPT !.status = status] \in DbStation
  BY <1>1, dbStations[s] \in DbStation DEF DbStation
<1> QED BY <1>1

------------------------------------------------------------------------------
(* Null records *)

LEMMA NullTypes ==
    /\ NoMemoryStation \in MemoryStation
    /\ NoMapping \in Mapping
    /\ Idle \in Job
<1>1. NoMemoryStation \in MemoryStation
  BY DEF NoMemoryStation, MemoryStation, StationStatusOf, Absent
<1>2. NoMapping \in Mapping
  BY DEF NoMapping, Mapping
<1>3. Idle \in Job
  BY <1>1, <1>2 DEF Idle, Job
<1> QED BY <1>1, <1>2, <1>3

------------------------------------------------------------------------------
(* What earlier runs left *)

LEMMA LeftRows ==
    /\ OldRows \in Seq(Row) /\ DOMAIN OldRows \subseteq Nat
    /\ \A n \in DOMAIN OldRows :
           /\ OldRows[n].tx = Nobody /\ OldRows[n].origin = 0
           /\ OldRows[n].stoppedBy = Nobody /\ OldRows[n].meteredBy = {}
           /\ OldRows[n].status \in {"STARTED", "COMPLETED", "ROLLEDBACK"}
<1>1. OldRows \in Seq(OldRow)
  BY OldRowsAssumption
<1>2. \A n \in DOMAIN OldRows : OldRows[n] \in OldRow
  BY <1>1
<1>3. DOMAIN OldRows = 1..Len(OldRows) /\ Len(OldRows) \in Nat
  BY <1>1
<1>4. OldRow \subseteq Row
  BY DEF OldRow
<1>5. OldRows \in Seq(Row)
  BY <1>1, <1>4
<1> QED BY <1>2, <1>3, <1>5 DEF OldRow, Row

LEMMA LeftTypes ==
    /\ \A s \in Stations : OpenIdsLeft(s) \subseteq Nat
    /\ \A s \in Stations, c \in Connectors : ConnectorLeft(s, c) \in ConnectorStatus \cup {Absent}
<1>1. \A s \in Stations : OpenIdsLeft(s) \subseteq Nat
  BY LeftRows DEF OpenIdsLeft, OldRowsOf
<1>2. \A s \in Stations, c \in Connectors : ConnectorLeft(s, c) \in ConnectorStatus \cup {Absent}
  BY DEF ConnectorLeft, ConnectorStatus
<1> QED BY <1>1, <1>2

------------------------------------------------------------------------------
(* Type correctness.  TypeOK alone is not inductive: a statement uses the     *)
(* locals its job was given when the call arrived, which is what JobOK says.  *)

TypeInv == TypeOK /\ JobOK

LEMMA GetOrCreateType ==
    ASSUME TypeOK, NEW s \in Stations
    PROVE  GetOrCreateMemoryStation(s) \in MemoryStation
BY NullTypes DEF TypeOK, GetOrCreateMemoryStation, MemoryStation

LEMMA TypeInit == Init => TypeInv
<1> SUFFICES ASSUME Init PROVE TypeInv
  OBVIOUS
<1>1. ConnectionTypeOK
  BY DEF Init, ConnectionInit, ConnectionTypeOK
<1>2. /\ memoryStations \in [Stations -> MemoryStation]
      /\ memoryTransactions \in [FallbackIds -> Mapping]
      /\ job \in [Tasks -> Job]
  BY NullTypes DEF Init
<1>3. /\ nextFallbackTransactionId \in 1..(MaxSessions + 1)
      /\ rows \in Seq(Row)
      /\ queue \in SUBSET Stations
      /\ openIds \in [Stations -> SUBSET Nat]
      /\ booted \in SUBSET Stations
      /\ faults \in 0..MaxFaults
  BY LeftRows, LeftTypes DEF Init
<1>4. dbStations \in [Stations -> DbStation]
  BY DEF Init, DbStation, StationStatusOf
<1>5. dbConnectors \in [Stations -> [Connectors -> ConnectorStatus \cup {Absent}]]
  BY LeftTypes DEF Init
<1>6. JobOK
  BY DEF Init, JobOK, Idle, PromotionSteps, CallSteps
<1> QED BY <1>1, <1>2, <1>3, <1>4, <1>5, <1>6 DEF TypeInv, TypeOK

\* The answer of a stop arrives or is lost.
LEMMA AnsweredStop ==
    ASSUME TypeOK, NEW s, NEW id, StopAnswered(s, id)
    PROVE  openIds' \in [Stations -> SUBSET Nat] /\ faults' \in 0..MaxFaults
BY DEF StopAnswered, TypeOK

\* A fallback handler leaves one entry of each map changed, to typed values.
LEMMA FallbackType ==
    ASSUME TypeInv, FallbackNext
    PROVE  TypeInv'
<1> USE DEF TypeInv
<1>1. PICK s \in Stations :
        \/ FallbackBoot(s)
        \/ FallbackHeartbeat(s)
        \/ \E c \in Connectors : FallbackStart(s, c) \/ \E raw \in RawStatuses : FallbackStatus(s, c, raw)
        \/ \E id \in openIds[s] : FallbackStop(s, id)
  BY DEF FallbackNext
<1>2. GetOrCreateMemoryStation(s) \in MemoryStation
  BY GetOrCreateType
<1>3. CASE FallbackBoot(s)
  <2>1. memoryStations' \in [Stations -> MemoryStation]
    BY <1>2, <1>3 DEF FallbackBoot, SetMemoryStation, TypeOK, MemoryStation, StationStatusOf
  <2> QED BY <2>1, <1>3 DEF FallbackBoot, TypeOK, connectionVars, dbVars, taskVars,
                            ConnectionTypeOK, JobOK
<1>4. CASE FallbackHeartbeat(s)
  <2>1. memoryStations' \in [Stations -> MemoryStation]
    BY <1>2, <1>4 DEF FallbackHeartbeat, SetMemoryStation, TypeOK, MemoryStation
  <2> QED BY <2>1, <1>4 DEF FallbackHeartbeat, TypeOK, connectionVars, dbVars, taskVars,
                            ConnectionTypeOK, JobOK
<1>5. ASSUME NEW c \in Connectors, FallbackStart(s, c)
      PROVE  TypeInv'
  <2> DEFINE id == nextFallbackTransactionId
  <2>1. id \in FallbackIds
    BY <1>5 DEF FallbackStart, TypeOK, FallbackIds
  <2>2. memoryStations' \in [Stations -> MemoryStation]
    <3> DEFINE station == GetOrCreateMemoryStation(s)
               session == [id |-> id, connector |-> c]
               started == [station EXCEPT !.connectors[c] = "CHARGING", !.status = "CHARGING",
                                          !.sessions = @ \cup {session}]
    <3>1. session \in Session
      BY <2>1 DEF Session
    <3>2. "CHARGING" \in StationStatusOf /\ "CHARGING" \in ConnectorStatus
      BY DEF StationStatusOf, ConnectorStatus
    <3>3. started \in MemoryStation
      <4> HIDE DEF session, station
      <4>1. station \in MemoryStation
        BY <1>2 DEF station
      <4> QED BY <3>1, <3>2, <4>1 DEF MemoryStation
    <3>4. memoryStations' = [memoryStations EXCEPT ![s] = started]
      BY <1>5 DEF FallbackStart, SetMemoryStation
    <3> HIDE DEF started
    <3> QED BY <3>3, <3>4 DEF TypeOK
  <2>3. memoryTransactions' \in [FallbackIds -> Mapping]
    BY <1>5, <2>1 DEF FallbackStart, TypeOK, Mapping
  <2>4. nextFallbackTransactionId' \in 1..(MaxSessions + 1)
    BY <1>5 DEF FallbackStart, TypeOK, NextTransactionId
  <2>5. openIds' \in [Stations -> SUBSET Nat]
    BY <1>5, <2>1 DEF FallbackStart, TypeOK, FallbackIds
  <2> QED BY <1>5, <2>2, <2>3, <2>4, <2>5 DEF FallbackStart, TypeOK, connectionVars,
             dbVars, taskVars, ConnectionTypeOK, JobOK
<1>6. ASSUME NEW c \in Connectors, NEW raw \in RawStatuses, FallbackStatus(s, c, raw)
      PROVE  TypeInv'
  <2>1. memoryStations' \in [Stations -> MemoryStation]
    BY <1>2, <1>6, ResolveType, NotificationType
       DEF FallbackStatus, SetMemoryStation, TypeOK, MemoryStation
  <2> QED BY <2>1, <1>6 DEF FallbackStatus, TypeOK, connectionVars, dbVars, taskVars,
                            ConnectionTypeOK, JobOK
<1>7. ASSUME NEW id \in openIds[s], FallbackStop(s, id)
      PROVE  TypeInv'
  <2> DEFINE t == MappingOf(id).station
  <2>1. t \in Stations /\ id \in FallbackIds
    BY <1>7 DEF FallbackStop, MappingOf, Known, NoMapping, TypeOK, Mapping
  <2>2. GetOrCreateMemoryStation(t) \in MemoryStation
    BY <2>1, GetOrCreateType
  <2>3. PICK e \in GetOrCreateMemoryStation(t).sessions :
          LET station    == GetOrCreateMemoryStation(t)
              connectors == [station.connectors EXCEPT
                                 ![e.connector] = IF @ = Absent THEN @ ELSE "AVAILABLE"]
          IN  SetMemoryStation(t, [station EXCEPT
                             !.connectors = connectors,
                             !.sessions   = @ \ {e},
                             !.status     = StatusFromConnectors(connectors, @)])
    BY <1>7 DEF FallbackStop
  <2>4. memoryStations' \in [Stations -> MemoryStation]
    BY <2>1, <2>2, <2>3, FromConnectorsType
       DEF SetMemoryStation, TypeOK, MemoryStation, ConnectorStatus
  <2>5. memoryTransactions' \in [FallbackIds -> Mapping]
    BY <1>7, <2>1, NullTypes DEF FallbackStop, TypeOK
  <2>6. openIds' \in [Stations -> SUBSET Nat] /\ faults' \in 0..MaxFaults
    BY <1>7, <2>1, AnsweredStop DEF FallbackStop
  <2> QED BY <1>7, <2>4, <2>5, <2>6 DEF FallbackStop, TypeOK, connectionVars,
             dbVars, taskVars, ConnectionTypeOK, JobOK
<1> QED BY <1>1, <1>3, <1>4, <1>5, <1>6, <1>7

------------------------------------------------------------------------------
(* Tasks: a new value for one task's job. *)

Steps == {"idle"} \cup PromotionSteps \cup CallSteps

\* What JobOK asks of one task's job.
JobIsOK(p, j) ==
    /\ j.at = "idle" => j = Idle
    /\ j.at \in PromotionSteps => j.target \in Stations
    /\ j.at \in CallSteps => j.kind # "none"
    /\ j.kind # "none" => p \in Calls /\ j.station \in Stations
    /\ j.kind \in {"Status", "Start"} => j.connector \in Connectors
    /\ j.at = "insertRow" => j.kind = "Start"
    /\ j.at \in PromotionSteps /\ j.kind \notin {"none", "Stop"} => j.target = j.station

LEMMA JobUpdate ==
    ASSUME TypeInv, NEW p \in Tasks, NEW j \in Job, JobIsOK(p, j),
           job' = [job EXCEPT ![p] = j]
    PROVE  job' \in [Tasks -> Job] /\ JobOK'
<1>1. job' \in [Tasks -> Job]
  BY DEF TypeInv, TypeOK
<1>2. \A q \in Tasks : job'[q] = IF q = p THEN j ELSE job[q]
  BY DEF TypeInv, TypeOK
<1>3. JobOK'
  BY <1>2 DEF TypeInv, JobOK, JobIsOK
<1> QED BY <1>1, <1>3

LEMMA IdleIsOK == \A p : JobIsOK(p, Idle)
BY DEF JobIsOK, Idle, PromotionSteps, CallSteps

LEMMA AnsweredType ==
    ASSUME TypeInv, NEW p \in Tasks, Answered(p)
    PROVE  job' \in [Tasks -> Job] /\ JobOK'
BY JobUpdate, IdleIsOK, NullTypes DEF Answered

LEMMA JobFields ==
    ASSUME NEW k \in Job, NEW step \in Steps, NEW r \in Nat
    PROVE  /\ [k EXCEPT !.at = step] \in Job
           /\ [k EXCEPT !.at = step, !.row = r] \in Job
<1>1. step \in {"idle"} \cup PromotionSteps \cup CallSteps
  BY DEF Steps
<1>2. [k EXCEPT !.at = step] \in Job
  BY <1>1 DEF Job
<1>3. [[k EXCEPT !.at = step] EXCEPT !.row = r] \in Job
  BY <1>2 DEF Job
<1>4. [k EXCEPT !.at = step, !.row = r] = [[k EXCEPT !.at = step] EXCEPT !.row = r]
  BY DEF Job
<1> QED BY <1>2, <1>3, <1>4

\* Moving on within a handler keeps its locals.
LEMMA GotoType ==
    ASSUME TypeInv, NEW p \in Tasks, NEW step \in Steps \ {"idle"},
           job[p].at # "idle", Goto(p, step),
           step \in PromotionSteps => job[p].at \in PromotionSteps,
           step \in CallSteps => job[p].kind # "none",
           step = "insertRow" => job[p].kind = "Start"
    PROVE  job' \in [Tasks -> Job] /\ JobOK'
<1> DEFINE j == [job[p] EXCEPT !.at = step]
<1>0. job[p] \in Job
  BY DEF TypeInv, TypeOK
<1>1. j \in Job
  BY <1>0, JobFields DEF Steps
<1>2. /\ j.at = step /\ j.kind = job[p].kind /\ j.station = job[p].station
      /\ j.connector = job[p].connector /\ j.target = job[p].target
  BY DEF TypeInv, TypeOK, Job
<1>3. JobIsOK(p, j)
  <2> HIDE DEF j
  <2> QED BY <1>2 DEF TypeInv, JobOK, JobIsOK
<1>4. job' = [job EXCEPT ![p] = j]
  BY DEF Goto
<1> QED BY <1>1, <1>3, <1>4, JobUpdate

LEMMA GotoRowType ==
    ASSUME TypeInv, NEW p \in Calls, NEW step \in CallSteps, NEW r \in Nat,
           job[p].at # "idle", job[p].kind # "none", step # "insertRow", GotoRow(p, step, r)
    PROVE  job' \in [Tasks -> Job] /\ JobOK'
<1> DEFINE j == [job[p] EXCEPT !.at = step, !.row = r]
<1>0. p \in Tasks /\ step # "idle" /\ step \notin PromotionSteps
  BY DEF Tasks, CallSteps, PromotionSteps
<1>1. j \in Job
  <2>1. job[p] \in Job
    BY <1>0 DEF TypeInv, TypeOK
  <2> QED BY <2>1, JobFields, 0 \in Nat DEF Steps
<1>2. /\ j.at = step /\ j.kind = job[p].kind /\ j.station = job[p].station
      /\ j.connector = job[p].connector /\ j.target = job[p].target
  BY <1>0 DEF TypeInv, TypeOK, Job
<1>3. JobIsOK(p, j)
  <2> HIDE DEF j
  <2> QED BY <1>0, <1>2 DEF TypeInv, JobOK, JobIsOK
<1>4. job' = [job EXCEPT ![p] = j]
  BY <1>0 DEF GotoRow, TypeInv, TypeOK, Job
<1> QED BY <1>0, <1>1, <1>3, <1>4, JobUpdate

\* A promotion begins with a target and its image; without a buffer the
\* caller goes on.
LEMMA PromotingType ==
    ASSUME NEW caller \in Job, NEW s \in Stations, NEW memory \in [Stations -> MemoryStation],
           NEW after \in Steps
    PROVE  Promoting(caller, s, memory, after) \in Job
BY DEF Promoting, Job, Steps, PromotionSteps

LEMMA ListenerTurnType ==
    ASSUME TypeInv, NEW ids \in SUBSET Stations, NEW memory \in [Stations -> MemoryStation],
           ListenerTurn(ids, memory)
    PROVE  job' \in [Tasks -> Job] /\ JobOK' /\ queue' \in SUBSET Stations
<1>1. Listener \in Tasks
  BY DEF Tasks
<1>2. CASE \E s \in ids :
              /\ memory[s].live
              /\ job' = [job EXCEPT ![Listener] = Promoting(Idle, s, memory, "idle")]
              /\ queue' = ids \ {s}
  <2>1. PICK s \in ids :
              /\ memory[s].live
              /\ job' = [job EXCEPT ![Listener] = Promoting(Idle, s, memory, "idle")]
              /\ queue' = ids \ {s}
    BY <1>2
  <2> DEFINE j == Promoting(Idle, s, memory, "idle")
  <2>2. j \in Job
    BY NullTypes, PromotingType DEF Steps
  <2>3. JobIsOK(Listener, j)
    BY <2>1, NullTypes DEF Job, JobIsOK, Promoting, Idle, CallSteps
  <2> QED BY <1>1, <2>1, <2>2, <2>3, JobUpdate
<1>3. CASE job' = [job EXCEPT ![Listener] = Idle] /\ queue' = {}
  BY <1>1, <1>3, NullTypes, IdleIsOK, JobUpdate
<1> QED BY <1>2, <1>3 DEF ListenerTurn

------------------------------------------------------------------------------
(* Type correctness of the task actions. *)

LEMMA ConnectionType ==
    ASSUME TypeInv, ConnectionNext
    PROVE  TypeInv'
<1>1. CASE EstablishConnection
  <2>1. /\ job' \in [Tasks -> Job] /\ JobOK' /\ queue' \in SUBSET Stations
    BY <1>1, ListenerTurnType DEF EstablishConnection, TypeInv, TypeOK
  <2>2. ConnectionTypeOK'
    BY <1>1 DEF EstablishConnection, ConnectOk, ConnectionTypeOK
  <2> QED BY <1>1, <2>1, <2>2 DEF EstablishConnection, TypeInv, TypeOK, memoryVars, dbVars
<1>2. CASE AttemptConnection
  BY <1>2 DEF AttemptConnection, ReconnectTick, TypeInv, TypeOK, JobOK, ConnectionTypeOK,
     memoryVars, dbVars, taskVars
<1>3. CASE AttemptFails
  BY <1>3 DEF AttemptFails, ConnectFail, TypeInv, TypeOK, JobOK, ConnectionTypeOK,
     memoryVars, dbVars, taskVars
<1> QED BY <1>1, <1>2, <1>3 DEF ConnectionNext

\* Whatever a call's first job is, receiving it keeps the types.
LEMMA ReceiveOne ==
    ASSUME TypeInv, NEW p \in Calls, NEW call \in Job, JobIsOK(p, call), Receive(p, call)
    PROVE  TypeInv'
<1>1. p \in Tasks
  BY DEF Tasks
<1>2. job' \in [Tasks -> Job] /\ JobOK'
  BY <1>1, JobUpdate DEF Receive
<1> QED BY <1>2 DEF Receive, TypeInv, TypeOK, ConnectionTypeOK, connectionVars, memoryVars, dbVars

LEMMA PromotingIsOK ==
    ASSUME NEW p \in Calls, NEW caller \in Job, NEW s \in Stations,
           NEW memory \in [Stations -> MemoryStation], NEW after \in {"find", "upsertStation"},
           caller.station \in Stations, caller.kind # "none",
           caller.kind \in {"Status", "Start"} => caller.connector \in Connectors,
           caller.kind # "Stop" => s = caller.station,
           after = "upsertStation" => memory[s].live
    PROVE  JobIsOK(p, Promoting(caller, s, memory, after))
<1> DEFINE j == Promoting(caller, s, memory, after)
<1>1. /\ j.kind = caller.kind /\ j.station = caller.station /\ j.connector = caller.connector
  BY DEF Promoting, Job
<1>2. \/ j.at = "upsertStation" /\ j.target = s
      \/ j.at = "find"
  BY DEF Promoting, Job
<1> SUFFICES JobIsOK(p, j)
  OBVIOUS
<1> HIDE DEF j
<1>3. CASE j.at = "upsertStation" /\ j.target = s
  BY <1>1, <1>3 DEF JobIsOK, CallSteps
<1>4. CASE j.at = "find"
  BY <1>1, <1>4 DEF JobIsOK, PromotionSteps
<1> QED BY <1>2, <1>3, <1>4

LEMMA ReceiveType ==
    ASSUME TypeInv, UnsavedIsBuffered, NEW p \in Calls, ReceiveNext(p)
    PROVE  TypeInv'
<1>0. /\ memoryStations \in [Stations -> MemoryStation]
      /\ memoryTransactions \in [FallbackIds -> Mapping]
      /\ "find" \in CallSteps /\ "find" \in Steps
  BY DEF TypeInv, TypeOK, CallSteps, Steps
<1>1. PICK s \in Stations :
        \/ ReceiveBoot(p, s)
        \/ ReceiveHeartbeat(p, s)
        \/ \E c \in Connectors : ReceiveStart(p, s, c) \/ \E raw \in RawStatuses : ReceiveStatus(p, s, c, raw)
        \/ \E id \in openIds[s] : ReceiveStop(p, s, id) \/ ReceiveMeter(p, s, id)
  BY DEF ReceiveNext
<1>2. CASE ReceiveBoot(p, s)
  <2> DEFINE call == [Idle EXCEPT !.at = "bootUpsert", !.kind = "Boot", !.station = s]
  <2>1. call \in Job
    BY NullTypes DEF Job, Idle, AllKinds, CallSteps
  <2>2. JobIsOK(p, call)
    BY DEF JobIsOK, Idle, PromotionSteps, CallSteps
  <2> QED BY <1>2, <2>1, <2>2, ReceiveOne DEF ReceiveBoot
<1>3. CASE ReceiveHeartbeat(p, s)
  <2> DEFINE call == [Idle EXCEPT !.kind = "Heartbeat", !.station = s]
  <2>1. call \in Job /\ call.station = s /\ call.kind = "Heartbeat"
    BY NullTypes DEF Job, Idle, AllKinds
  <2>2. /\ Promoting(call, s, memoryStations, "find") \in Job
        /\ JobIsOK(p, Promoting(call, s, memoryStations, "find"))
    <3> HIDE DEF call
    <3> QED BY <1>0, <2>1, PromotingType, PromotingIsOK
  <2> QED BY <1>3, <2>2, ReceiveOne DEF ReceiveHeartbeat
<1>4. ASSUME NEW c \in Connectors, ReceiveStart(p, s, c)
      PROVE  TypeInv'
  <2> DEFINE call == [Idle EXCEPT !.kind = "Start", !.station = s, !.connector = c,
                                  !.status = "CHARGING"]
  <2>1. call \in Job /\ call.station = s /\ call.kind = "Start" /\ call.connector = c
    BY NullTypes DEF Job, Idle, AllKinds, ConnectorStatus
  <2>2. /\ Promoting(call, s, memoryStations, "find") \in Job
        /\ JobIsOK(p, Promoting(call, s, memoryStations, "find"))
    <3> HIDE DEF call
    <3> QED BY <1>0, <2>1, PromotingType, PromotingIsOK
  <2> QED BY <1>4, <2>2, ReceiveOne DEF ReceiveStart
<1>5. ASSUME NEW c \in Connectors, NEW raw \in RawStatuses, ReceiveStatus(p, s, c, raw)
      PROVE  TypeInv'
  <2> DEFINE call == [Idle EXCEPT !.kind = "Status", !.station = s, !.connector = c,
                                  !.status = ResolveConnectorStatus(raw)]
  <2>1. call \in Job /\ call.station = s /\ call.kind = "Status" /\ call.connector = c
    BY NullTypes, ResolveType DEF Job, Idle, AllKinds
  <2>2. /\ Promoting(call, s, memoryStations, "find") \in Job
        /\ JobIsOK(p, Promoting(call, s, memoryStations, "find"))
    <3> HIDE DEF call
    <3> QED BY <1>0, <2>1, PromotingType, PromotingIsOK
  <2> QED BY <1>5, <2>2, ReceiveOne DEF ReceiveStatus
<1>6. ASSUME NEW id \in openIds[s], ReceiveMeter(p, s, id)
      PROVE  TypeInv'
  <2> DEFINE call == [Idle EXCEPT !.kind = "Meter", !.station = s, !.id = id]
  <2>1. call \in Job /\ call.station = s /\ call.kind = "Meter"
    BY NullTypes DEF Job, Idle, AllKinds, TypeInv, TypeOK
  <2>2. /\ Promoting(call, s, memoryStations, "find") \in Job
        /\ JobIsOK(p, Promoting(call, s, memoryStations, "find"))
    <3> HIDE DEF call
    <3> QED BY <1>0, <2>1, PromotingType, PromotingIsOK
  <2> QED BY <1>6, <2>2, ReceiveOne DEF ReceiveMeter
<1>7. ASSUME NEW id \in openIds[s], ReceiveStop(p, s, id)
      PROVE  TypeInv'
  <2> DEFINE mapping == MappingOf(id)
             call == [Idle EXCEPT !.kind = "Stop", !.station = s, !.id = id, !.mapping = mapping]
             found == [call EXCEPT !.at  = "findRow",
                                   !.row = IF Known(mapping) THEN mapping.row ELSE id]
  <2>0. id \in Nat
    BY DEF TypeInv, TypeOK
  <2>1. mapping \in Mapping
    BY <1>0, NullTypes DEF MappingOf
  <2>2. mapping.row \in Nat /\ mapping.station \in Stations \cup {Nobody}
    BY <2>1 DEF Mapping
  <2>3. call \in Job /\ call.station = s /\ call.kind = "Stop"
    BY <2>0, <2>1, NullTypes DEF Job, Idle, AllKinds
  <2>4. CASE Known(mapping) /\ mapping.row = 0
    <3>1. mapping.station \in Stations /\ memoryStations[mapping.station].live
      BY <2>2, <2>4 DEF UnsavedIsBuffered, MappingOf, NoMapping, Known
    <3>2. /\ Promoting(call, mapping.station, memoryStations, "upsertStation") \in Job
          /\ JobIsOK(p, Promoting(call, mapping.station, memoryStations, "upsertStation"))
      <4> HIDE DEF call, mapping
      <4> QED BY <1>0, <2>3, <3>1, PromotingType, PromotingIsOK DEF Steps, PromotionSteps
    <3> QED BY <1>7, <2>4, <3>2, ReceiveOne DEF ReceiveStop
  <2>5. CASE ~(Known(mapping) /\ mapping.row = 0)
    <3>1. found \in Job /\ found.at = "findRow" /\ found.station = s /\ found.kind = "Stop"
      <4> DEFINE row == IF Known(mapping) THEN mapping.row ELSE id
      <4>1. row \in Nat /\ "findRow" \in Steps
        BY <2>0, <2>2 DEF Steps, CallSteps
      <4>2. found = [call EXCEPT !.at = "findRow", !.row = row]
        OBVIOUS
      <4> HIDE DEF call, mapping, row, found
      <4>3. found \in Job
        BY <2>3, <4>1, <4>2, JobFields
      <4> QED BY <2>3, <4>2, <4>3 DEF Job
    <3>2. JobIsOK(p, found)
      <4> HIDE DEF found
      <4> QED BY <3>1 DEF JobIsOK, PromotionSteps, CallSteps
    <3> QED BY <1>7, <2>5, <3>1, <3>2, ReceiveOne DEF ReceiveStop
  <2> QED BY <2>4, <2>5
<1> QED BY <1>1, <1>2, <1>3, <1>4, <1>5, <1>6, <1>7

\* Rows: indices, and what appending and rewriting does to their type.
LEMMA NewRowType ==
    ASSUME NEW s \in Stations, NEW c \in Connectors, NEW owner \in Tasks \cup {Nobody},
           NEW from \in FallbackIds \cup {0}
    PROVE  NewRow(s, c, owner, from) \in Row
BY DEF NewRow, Row

LEMMA AppendRow ==
    ASSUME rows \in Seq(Row), NEW r \in Row, rows' = Append(rows, r)
    PROVE  /\ rows' \in Seq(Row)
           /\ Len(rows') = Len(rows) + 1 /\ Len(rows) \in Nat
           /\ DOMAIN rows = 1..Len(rows) /\ DOMAIN rows' = 1..(Len(rows) + 1)
           /\ \A n \in 1..Len(rows) : rows'[n] = rows[n]
           /\ rows'[Len(rows) + 1] = r
OBVIOUS

\* Rewriting rows in place.
LEMMA RewriteRows ==
    ASSUME rows \in Seq(Row), NEW R \in [DOMAIN rows -> Row]
    PROVE  R \in Seq(Row) /\ Len(R) = Len(rows) /\ DOMAIN R = DOMAIN rows
<1>1. DOMAIN rows = 1..Len(rows) /\ Len(rows) \in Nat
  OBVIOUS
<1>2. R \in [1..Len(rows) -> Row]
  BY <1>1
<1> QED BY <1>1, <1>2

LEMMA SettledRows ==
    ASSUME rows \in Seq(Row), NEW p
    PROVE  /\ WrittenBack(p) \in [DOMAIN rows -> Row]
           /\ RolledBack(p) \in [DOMAIN rows -> Row]
<1>1. \A n \in DOMAIN rows : rows[n] \in Row
  OBVIOUS
<1>2. \A row \in Row : /\ [row EXCEPT !.tx = Nobody] \in Row
                        /\ [row EXCEPT !.tx = Nobody, !.status = "ROLLEDBACK"] \in Row
  BY DEF Row
<1>3. WrittenBack(p) \in [DOMAIN rows -> Row]
  BY <1>1, <1>2 DEF WrittenBack
<1>4. RolledBack(p) \in [DOMAIN rows -> Row]
  BY <1>1, <1>2 DEF RolledBack
<1> QED BY <1>3, <1>4

LEMMA RowFields ==
    ASSUME NEW row \in Row, NEW s \in Stations
    PROVE  /\ [row EXCEPT !.meteredBy = @ \cup {s}] \in Row
           /\ [row EXCEPT !.status = "COMPLETED", !.stoppedBy = s] \in Row
BY DEF Row

LEMMA MeteredRow ==
    ASSUME rows \in Seq(Row), NEW n, NEW s \in Stations
    PROVE  [rows EXCEPT ![n].meteredBy = @ \cup {s}] \in [DOMAIN rows -> Row]
<1> DEFINE R == [rows EXCEPT ![n].meteredBy = @ \cup {s}]
<1>0. \A i \in DOMAIN rows : rows[i] \in Row
  OBVIOUS
<1>1. \A i \in DOMAIN rows : [rows[i] EXCEPT !.meteredBy = @ \cup {s}] \in Row /\ rows[i] \in Row
  BY <1>0, RowFields
<1>2. R = [i \in DOMAIN rows |-> IF i = n THEN [rows[i] EXCEPT !.meteredBy = @ \cup {s}]
                                 ELSE rows[i]]
  OBVIOUS
<1> QED BY <1>1, <1>2

LEMMA ClosedRow ==
    ASSUME rows \in Seq(Row), NEW n, NEW s \in Stations
    PROVE  [rows EXCEPT ![n].status = "COMPLETED", ![n].stoppedBy = s] \in [DOMAIN rows -> Row]
<1> DEFINE R == [rows EXCEPT ![n].status = "COMPLETED", ![n].stoppedBy = s]
<1>0. \A i \in DOMAIN rows : rows[i] \in Row
  OBVIOUS
<1>1. \A i \in DOMAIN rows :
         [rows[i] EXCEPT !.status = "COMPLETED", !.stoppedBy = s] \in Row /\ rows[i] \in Row
  BY <1>0, RowFields
<1>2. R = [i \in DOMAIN rows |->
              IF i = n THEN [rows[i] EXCEPT !.status = "COMPLETED", !.stoppedBy = s]
              ELSE rows[i]]
  OBVIOUS
<1> QED BY <1>1, <1>2

LEMMA PromotionType ==
    ASSUME TypeInv, NEW p \in Tasks, PromotionNext(p)
    PROVE  TypeInv'
<1>0. /\ job[p] \in Job
      /\ memoryStations \in [Stations -> MemoryStation]
      /\ rows \in Seq(Row)
  BY DEF TypeInv, TypeOK
<1>1. CASE UpsertStation(p)
  <2>1. job' \in [Tasks -> Job] /\ JobOK'
    BY <1>1, GotoType DEF UpsertStation, PromotionSteps, CallSteps, Steps
  <2> QED BY <1>1, <2>1 DEF UpsertStation, TypeInv, TypeOK, ConnectionTypeOK, connectionVars,
             memoryVars, dbVars
<1>2. CASE UpsertConnectors(p)
  <2>1. job' \in [Tasks -> Job] /\ JobOK'
    BY <1>2, GotoType DEF UpsertConnectors, PromotionSteps, CallSteps, Steps
  <2> QED BY <1>2, <2>1 DEF UpsertConnectors, TypeInv, TypeOK, ConnectionTypeOK,
             connectionVars, memoryVars, dbVars
<1>3. CASE CreateRow(p)
  <2>1. PICK e \in Uncreated(p) :
          /\ rows' = Append(rows, NewRow(job[p].target, e.connector, p, e.id))
          /\ memoryTransactions' = [memoryTransactions EXCEPT
                 ![e.id] = CreatedMapping(job[p].target, e.id, NextRowId)]
    BY <1>3 DEF CreateRow
  <2>2. job[p].target \in Stations
    BY <1>3 DEF CreateRow, TypeInv, JobOK, PromotionSteps
  <2>3. e \in Session
    BY <1>0 DEF Uncreated, Job, MemoryStation
  <2>4. e.id \in FallbackIds /\ e.connector \in Connectors
    BY <2>3 DEF Session
  <2>5. rows' \in Seq(Row)
    BY <1>0, <2>1, <2>2, <2>4, NewRowType, AppendRow
  <2>6. NextRowId \in Nat
    BY <1>0, AppendRow, Len(rows) \in Nat DEF NextRowId
  <2>7. memoryTransactions' \in [FallbackIds -> Mapping]
    BY <2>1, <2>2, <2>4, <2>6 DEF TypeInv, TypeOK, CreatedMapping, Mapping
  <2> QED BY <1>3, <2>5, <2>7 DEF CreateRow, TypeInv, TypeOK, ConnectionTypeOK, connectionVars,
             taskVars, JobOK
<1>4. CASE Commit(p)
  <2>1. job' \in [Tasks -> Job] /\ JobOK'
    BY <1>4, GotoType DEF Commit, PromotionSteps, CallSteps, Steps
  <2>2. rows' \in Seq(Row)
    BY <1>0, <1>4, SettledRows, RewriteRows DEF Commit
  <2>3. job[p].image \in MemoryStation
    BY <1>0 DEF Job
  <2>4. dbStations' \in [Stations -> DbStation]
    BY <1>4, <2>3 DEF Commit, TypeInv, TypeOK, DbStation, MemoryStation
  <2>5. dbConnectors' \in [Stations -> [Connectors -> ConnectorStatus \cup {Absent}]]
    <3> DEFINE s == job[p].target
               merged == [c \in Connectors |-> IF job[p].image.connectors[c] = Absent
                                               THEN dbConnectors[s][c]
                                               ELSE job[p].image.connectors[c]]
    <3>1. dbConnectors \in [Stations -> [Connectors -> ConnectorStatus \cup {Absent}]]
      BY DEF TypeInv, TypeOK
    <3>2. s \in Stations
      BY <1>4 DEF Commit, TypeInv, JobOK, PromotionSteps
    <3>3. job[p].image.connectors \in [Connectors -> ConnectorStatus \cup {Absent}]
      BY <2>3 DEF MemoryStation
    <3>4. merged \in [Connectors -> ConnectorStatus \cup {Absent}]
      BY <3>1, <3>2, <3>3
    <3>5. dbConnectors' = [dbConnectors EXCEPT ![s] = merged]
      BY <1>4 DEF Commit
    <3> HIDE DEF merged
    <3> QED BY <3>1, <3>2, <3>4, <3>5
  <2> QED BY <1>4, <2>1, <2>2, <2>4, <2>5 DEF Commit, TypeInv, TypeOK, ConnectionTypeOK,
             connectionVars, memoryVars
<1>5. Forgotten(p) \in [Stations -> MemoryStation]
  BY <1>0, NullTypes DEF Forgotten
<1>6. CASE ForgetThenFind(p)
  <2>1. p \in Calls
    BY <1>6 DEF ForgetThenFind, TypeInv, JobOK, Tasks
  <2>2. job' \in [Tasks -> Job] /\ JobOK'
    BY <1>6, <2>1, GotoType DEF ForgetThenFind, PromotionSteps, CallSteps, Steps
  <2> QED BY <1>5, <1>6, <2>2 DEF ForgetThenFind, TypeInv, TypeOK, ConnectionTypeOK,
             connectionVars, dbVars
<1>7. CASE ForgetThenReject(p)
  <2>1. job' \in [Tasks -> Job] /\ JobOK'
    BY <1>7, AnsweredType DEF ForgetThenReject
  <2>2. [NoMemoryStation EXCEPT !.live = TRUE, !.heard = "live"] \in MemoryStation
    BY NullTypes DEF MemoryStation
  <2>3. memoryStations' \in [Stations -> MemoryStation]
    BY <1>5, <1>7, <2>2 DEF ForgetThenReject
  <2> QED BY <1>7, <2>1, <2>3 DEF ForgetThenReject, TypeInv, TypeOK, ConnectionTypeOK,
             connectionVars, dbVars
<1>8. CASE p = Listener /\ ForgetThenNext
  <2>1. memoryStations' \in [Stations -> MemoryStation]
    BY <1>5, <1>8 DEF ForgetThenNext
  <2>2. /\ job' \in [Tasks -> Job] /\ JobOK' /\ queue' \in SUBSET Stations
    BY <1>8, <2>1, ListenerTurnType DEF ForgetThenNext, TypeInv, TypeOK
  <2> QED BY <1>8, <2>1, <2>2 DEF ForgetThenNext, TypeInv, TypeOK, ConnectionTypeOK,
             connectionVars, dbVars
<1> QED BY <1>1, <1>2, <1>3, <1>4, <1>6, <1>7, <1>8 DEF PromotionNext

LEMMA StatementType ==
    ASSUME TypeInv, NEW p \in Tasks, StatementNext(p)
    PROVE  TypeInv'
<1> USE DEF ConnectionTypeOK, connectionVars, memoryVars, dbVars
<1>0. /\ job[p] \in Job
      /\ rows \in Seq(Row)
      /\ dbStations \in [Stations -> DbStation]
      /\ dbConnectors \in [Stations -> [Connectors -> ConnectorStatus \cup {Absent}]]
  BY DEF TypeInv, TypeOK
<1>1. job[p].at \in CallSteps /\ job[p].at # "idle"
  BY DEF StatementNext, BootUpsert, Find, FindMissing, Touch, WriteConnector, ConnectorRefused,
     InsertRow, WriteStation, Meter, MeterRefused, FindRow, FindRowMissing, CloseRow, FreeConnector,
     FreeStation, Unmap, CallSteps
<1>2. p \in Calls /\ job[p].kind # "none" /\ job[p].station \in Stations
  BY <1>1 DEF TypeInv, JobOK
<1>3. \A step \in CallSteps :
         Goto(p, step) /\ (step = "insertRow" => job[p].kind = "Start")
         => job' \in [Tasks -> Job] /\ JobOK'
  BY <1>1, <1>2, GotoType DEF Steps, PromotionSteps, CallSteps
<1>4. Answered(p) => job' \in [Tasks -> Job] /\ JobOK'
  BY AnsweredType
<1>5. \A step \in {"meter", "writeStation"}, r \in Nat :
         GotoRow(p, step, r) => job' \in [Tasks -> Job] /\ JobOK'
  BY <1>1, <1>2, GotoRowType DEF CallSteps
<1>6. /\ "touch" \in CallSteps /\ "writeConnector" \in CallSteps /\ "insertRow" \in CallSteps
      /\ "writeStation" \in CallSteps /\ "meter" \in CallSteps /\ "closeRow" \in CallSteps
      /\ "freeConnector" \in CallSteps /\ "freeStation" \in CallSteps /\ "unmap" \in CallSteps
  BY DEF CallSteps
<1>7. CASE BootUpsert(p)
  <2>1. dbStations' \in [Stations -> DbStation]
    BY <1>0, <1>7 DEF BootUpsert, DbStation, StationStatusOf
  <2>2. booted' \in SUBSET Stations
    BY <1>2, <1>7 DEF BootUpsert, TypeInv, TypeOK
  <2> QED BY <1>4, <1>7, <2>1, <2>2 DEF BootUpsert, TypeInv, TypeOK
<1>8. CASE Find(p)
  <2>1. job' \in [Tasks -> Job] /\ JobOK'
    <3>1. CASE job[p].kind = "Heartbeat"
      BY <1>3, <1>6, <1>8, <3>1 DEF Find
    <3>2. CASE job[p].kind \in {"Status", "Start"}
      BY <1>3, <1>6, <1>8, <3>2 DEF Find
    <3>3. CASE job[p].kind = "Meter"
      <4> DEFINE m == MappingOf(job[p].id)
                 r == IF m.row # 0 THEN m.row ELSE job[p].id
      <4>1. m \in Mapping
        BY NullTypes DEF MappingOf, TypeInv, TypeOK
      <4>2. r \in Nat
        BY <1>0, <4>1 DEF Mapping, Job
      <4>3. GotoRow(p, "meter", r)
        BY <1>8, <3>3 DEF Find
      <4> QED BY <1>5, <1>6, <4>2, <4>3
    <3> QED BY <1>8, <3>1, <3>2, <3>3 DEF Find
  <2> QED BY <1>8, <2>1 DEF Find, TypeInv, TypeOK
<1>9. CASE FindMissing(p)
  BY <1>4, <1>9 DEF FindMissing, TypeInv, TypeOK
<1>10. CASE Touch(p)
  <2>1. dbStations' \in [Stations -> DbStation]
    BY <1>0, <1>10, HeardWritten DEF Touch
  <2> QED BY <1>4, <1>10, <2>1 DEF Touch, TypeInv, TypeOK
<1>11. CASE WriteConnector(p)
  <2>1. job' \in [Tasks -> Job] /\ JobOK'
    BY <1>3, <1>4, <1>6, <1>11 DEF WriteConnector
  <2>2. job[p].status \in ConnectorStatus \cup {Absent}
    BY <1>0 DEF Job
  <2>3. dbConnectors' \in [Stations -> [Connectors -> ConnectorStatus \cup {Absent}]]
    BY <1>0, <1>11, <2>2 DEF WriteConnector
  <2> QED BY <1>11, <2>1, <2>3 DEF WriteConnector, TypeInv, TypeOK
<1>12. CASE InsertRow(p)
  <2>1. NextRowId \in Nat
    BY <1>0, Len(rows) \in Nat DEF NextRowId
  <2>2. job' \in [Tasks -> Job] /\ JobOK'
    BY <1>5, <1>6, <1>12, <2>1 DEF InsertRow
  <2>3. job[p].connector \in Connectors
    BY <1>12 DEF InsertRow, TypeInv, JobOK
  <2>4. rows' \in Seq(Row)
    BY <1>0, <1>2, <1>12, <2>3, NewRowType, AppendRow DEF InsertRow
  <2> QED BY <1>12, <2>2, <2>4 DEF InsertRow, TypeInv, TypeOK
<1>13. CASE WriteStation(p)
  <2>1. dbStations' \in [Stations -> DbStation]
    BY <1>0, <1>13, DeriveType, StatusWritten DEF WriteStation
  <2>2. job[p].row \in Nat
    BY <1>0 DEF Job
  <2>3. openIds' \in [Stations -> SUBSET Nat]
    BY <1>13, <2>2 DEF WriteStation, TypeInv, TypeOK
  <2> QED BY <1>4, <1>13, <2>1, <2>3 DEF WriteStation, TypeInv, TypeOK
<1>14. CASE Meter(p)
  <2> DEFINE n == job[p].row
  <2>1. rows' = [rows EXCEPT ![n].meteredBy = @ \cup {job[p].station}]
    BY <1>14 DEF Meter
  <2>2. rows' \in [DOMAIN rows -> Row]
    BY <1>0, <1>2, <2>1, MeteredRow
  <2>3. rows' \in Seq(Row)
    BY <1>0, <2>2, RewriteRows
  <2> QED BY <1>4, <1>14, <2>3 DEF Meter, TypeInv, TypeOK
<1>22. CASE ConnectorRefused(p)
  BY <1>4, <1>22 DEF ConnectorRefused, TypeInv, TypeOK
<1>15. CASE MeterRefused(p)
  BY <1>4, <1>15 DEF MeterRefused, TypeInv, TypeOK
<1>16. CASE FindRow(p)
  BY <1>3, <1>6, <1>16 DEF FindRow, TypeInv, TypeOK
<1>17. CASE FindRowMissing(p)
  BY <1>4, <1>17 DEF FindRowMissing, TypeInv, TypeOK
<1>18. CASE CloseRow(p)
  <2> DEFINE n == job[p].row
  <2>1. rows' = [rows EXCEPT ![n].status = "COMPLETED", ![n].stoppedBy = job[p].station]
    BY <1>18 DEF CloseRow
  <2>2. rows' \in [DOMAIN rows -> Row]
    BY <1>0, <1>2, <2>1, ClosedRow
  <2>3. rows' \in Seq(Row)
    BY <1>0, <2>2, RewriteRows
  <2>4. job' \in [Tasks -> Job] /\ JobOK'
    BY <1>3, <1>6, <1>18 DEF CloseRow
  <2> QED BY <1>18, <2>3, <2>4 DEF CloseRow, TypeInv, TypeOK
<1>19. CASE FreeConnector(p)
  <2>1. job' \in [Tasks -> Job] /\ JobOK'
    BY <1>3, <1>6, <1>19 DEF FreeConnector
  <2>2. dbConnectors' \in [Stations -> [Connectors -> ConnectorStatus \cup {Absent}]]
    BY <1>0, <1>19 DEF FreeConnector, ConnectorStatus
  <2> QED BY <1>19, <2>1, <2>2 DEF FreeConnector, TypeInv, TypeOK
<1>20. CASE FreeStation(p)
  <2>1. job' \in [Tasks -> Job] /\ JobOK'
    BY <1>3, <1>6, <1>20 DEF FreeStation
  <2>2. dbStations' \in [Stations -> DbStation]
    <3>1. "AVAILABLE" \in StationStatusOf
      BY DEF StationStatusOf
    <3> QED BY <1>0, <1>20, <3>1, StatusWritten DEF FreeStation
  <2> QED BY <1>20, <2>1, <2>2 DEF FreeStation, TypeInv, TypeOK
<1>21. CASE Unmap(p)
  <2>1. memoryTransactions' \in [FallbackIds -> Mapping]
    BY <1>21, NullTypes DEF Unmap, TypeInv, TypeOK
  <2>2. openIds' \in [Stations -> SUBSET Nat] /\ faults' \in 0..MaxFaults
    BY <1>21, AnsweredStop DEF Unmap, TypeInv
  <2> QED BY <1>4, <1>21, <2>1, <2>2 DEF Unmap, TypeInv, TypeOK
<1> QED BY <1>7, <1>8, <1>9, <1>10, <1>11, <1>12, <1>13, <1>14, <1>15, <1>16, <1>17, <1>18,
           <1>19, <1>20, <1>21, <1>22 DEF StatementNext

\* A task that gives up, because a statement failed or was refused.
LEMMA GivesUpType ==
    ASSUME TypeInv, NEW p \in Tasks, GivesUp(p), faults' \in 0..MaxFaults
    PROVE  TypeInv'
<1>1. rows' \in Seq(Row)
  BY SettledRows, RewriteRows DEF GivesUp, TypeInv, TypeOK
<1>2. job' \in [Tasks -> Job] /\ JobOK' /\ queue' \in SUBSET Stations
  BY ListenerTurnType, AnsweredType DEF GivesUp, TypeInv, TypeOK
<1> QED BY <1>1, <1>2 DEF GivesUp, TypeInv, TypeOK, ConnectionTypeOK, connectionVars, memoryVars

LEMMA GivingUpIsEither ==
    ASSUME TypeInv, NEW p \in Tasks, Fault(p) \/ PromotionRefused(p)
    PROVE  GivesUp(p) /\ faults' \in 0..MaxFaults /\ job[p].at # "idle"
BY NumbersAssumption DEF Fault, PromotionRefused, TypeInv, TypeOK

\* One step keeps the types, given that unsaved sessions are buffered.
LEMMA TypeStep ==
    ASSUME TypeInv, UnsavedIsBuffered, [Next]_vars
    PROVE  TypeInv'
<1>1. CASE UNCHANGED vars
  BY <1>1 DEF vars, connectionVars, memoryVars, dbVars, taskVars, TypeInv, TypeOK, JobOK,
     ConnectionTypeOK
<1>2. CASE \E p \in Calls : ReceiveNext(p)
  BY <1>2, ReceiveType
<1>3. CASE \E p \in Tasks : PromotionNext(p) \/ StatementNext(p)
  BY <1>3, PromotionType, StatementType
<1>4. CASE \E p \in Tasks : PromotionRefused(p) \/ Fault(p)
  BY <1>4, GivingUpIsEither, GivesUpType
<1> QED BY <1>1, <1>2, <1>3, <1>4, ConnectionType, FallbackType DEF Next

------------------------------------------------------------------------------
(* What a step of a task may do, aspect by aspect *)

\* Rows are never removed, and keep their session; a commit is for ever.
RowsKept ==
    \A n \in DOMAIN rows :
        /\ n \in DOMAIN rows'
        /\ rows'[n].origin = rows[n].origin
        /\ rows'[n].station = rows[n].station
        /\ Committed(rows[n]) => Committed(rows'[n])

\* A row that is uncommitted after the step was so before, or was written by p.
RowsOwned(p) ==
    \A n \in DOMAIN rows' : rows'[n].tx # Nobody =>
        /\ rows'[n].status # "ROLLEDBACK"
        /\ \/ rows'[n].tx = p /\ job'[p].at = "createRows"
           \/ rows'[n].tx # p /\ n \in DOMAIN rows /\ rows[n].tx = rows'[n].tx

\* Memory lets go of one station at most, the one p is about to forget.
MemoryStep(p) ==
    \A s \in Stations :
        \/ memoryStations'[s] = memoryStations[s]
        \/ /\ job[p].at = "forget" /\ s = job[p].target
           /\ memoryStations'[s].sessions = {}
           /\ memoryStations'[s].live \/ memoryStations'[s] = NoMemoryStation

\* The mapping of id now names the row just made from a session p promotes.
Mapped(p, id) ==
    /\ job[p].at = "createRows"
    /\ \E e \in job[p].image.sessions : e.id = id
    /\ memoryTransactions'[id] = [station |-> job[p].target, row |-> NextRowId]
    /\ Len(rows) + 1 \in DOMAIN rows'
    /\ rows'[Len(rows) + 1].origin = id
    /\ rows'[Len(rows) + 1].station = job[p].target

MappingStep(p) ==
    /\ \A id \in FallbackIds :
           \/ memoryTransactions'[id] = memoryTransactions[id]
           \/ memoryTransactions'[id] = NoMapping
           \/ Mapped(p, id)
    /\ \A n \in DOMAIN rows' :
           n \in DOMAIN rows \/ rows'[n].origin = 0 \/ Mapped(p, rows'[n].origin)

\* p begins a promotion with the image of now, goes on with one, or has none.
JobStep(p) ==
    /\ \A q \in Tasks \ {p} : job'[q] = job[q]
    /\ \/ job'[p].at \notin PromotionSteps
       \/ /\ job'[p].at = "upsertStation"
          /\ job'[p].image = memoryStations'[job'[p].target]
       \/ /\ job[p].at \in PromotionSteps \ {"forget"}
          /\ job'[p].image = job[p].image /\ job'[p].target = job[p].target
          /\ job'[p].at = "forget" =>
                 /\ \A e \in job[p].image.sessions : Recorded(e.id)'
                 /\ dbStations'[job[p].target].live

StationStep(p) ==
    /\ \A s \in Stations : dbStations[s].live => dbStations'[s].live
    /\ \A s \in booted' : s \in booted \/ dbStations'[s].live
    /\ job'[p].at = "find" /\ job'[p].station \in booted'
       => dbStations'[job'[p].station].live

OnlineStep(p) ==
    /\ connected /\ connected' /\ ~connecting'
    /\ RowsKept /\ RowsOwned(p)
    /\ MemoryStep(p) /\ MappingStep(p)
    /\ JobStep(p) /\ StationStep(p)

------------------------------------------------------------------------------
(* An online step keeps the invariants. *)

LEMMA Types ==
    ASSUME TypeInv
    PROVE  /\ memoryStations \in [Stations -> MemoryStation]
           /\ memoryTransactions \in [FallbackIds -> Mapping]
           /\ rows \in Seq(Row)
           /\ job \in [Tasks -> Job]
           /\ \A p \in Tasks : job[p].at \in PromotionSteps => job[p].target \in Stations
           /\ \A p \in Tasks : job[p].image \in MemoryStation
           /\ booted \in SUBSET Stations
BY DEF TypeInv, TypeOK, JobOK, Job

LEMMA RecordedKept ==
    ASSUME RowsKept, NEW id, Recorded(id)
    PROVE  Recorded(id)'
BY DEF RowsKept, Recorded

\* What is in memory or in the database stays in one of them.
LEMMA SessionKept ==
    ASSUME TypeInv, ForgetIsSafe, NEW p \in Tasks, OnlineStep(p),
           NEW id, InMemory(id) \/ Recorded(id)
    PROVE  InMemory(id)' \/ Recorded(id)'
<1>1. CASE Recorded(id)
  BY <1>1, RecordedKept DEF OnlineStep
<1>2. CASE InMemory(id)
  <2>1. PICK s \in Stations : \E e \in memoryStations[s].sessions : e.id = id
    BY <1>2 DEF InMemory
  <2>2. CASE memoryStations'[s] = memoryStations[s]
    BY <2>1, <2>2 DEF InMemory
  <2>3. CASE job[p].at = "forget" /\ s = job[p].target
    <3>1. Recorded(id)
      BY <2>1, <2>3 DEF ForgetIsSafe
    <3> QED BY <3>1, RecordedKept DEF OnlineStep
  <2> QED BY <2>2, <2>3 DEF OnlineStep, MemoryStep
<1> QED BY <1>1, <1>2

LEMMA OnlineKeepsJobs ==
    ASSUME TypeInv, TypeInv', SessionInv, NEW p \in Tasks, OnlineStep(p)
    PROVE  ImageCoversMemory' /\ ImageIsKept' /\ ForgetIsSafe' /\ WriterIsWriting'
<1> USE DEF OnlineStep
<1>0. /\ \A s \in Stations : memoryStations'[s].sessions \subseteq memoryStations[s].sessions
      /\ ForgetIsSafe /\ ImageCoversMemory /\ ImageIsKept /\ WriterIsWriting
  BY DEF MemoryStep, SessionInv
<1>1. ImageCoversMemory'
  <2> SUFFICES ASSUME NEW q \in Tasks,
                      job'[q].at \in {"upsertStation", "upsertConnectors", "createRows"}
               PROVE  memoryStations'[job'[q].target].sessions \subseteq job'[q].image.sessions
    BY DEF ImageCoversMemory
  <2>0. job'[q].target \in Stations
    BY DEF TypeInv, JobOK, PromotionSteps
  <2>1. CASE q # p
    BY <1>0, <2>0, <2>1 DEF JobStep, ImageCoversMemory
  <2>2. CASE q = p /\ job'[p].image = memoryStations'[job'[p].target]
    BY <2>2
  <2>3. CASE /\ q = p /\ job[p].at \in PromotionSteps \ {"forget"}
             /\ job'[p].image = job[p].image /\ job'[p].target = job[p].target
    BY <1>0, <2>0, <2>3 DEF ImageCoversMemory, PromotionSteps
  <2> QED BY <2>1, <2>2, <2>3 DEF JobStep, PromotionSteps
<1>2. ImageIsKept'
  <2> SUFFICES ASSUME NEW q \in Tasks, job'[q].at \in PromotionSteps,
                      NEW e \in job'[q].image.sessions
               PROVE  InMemory(e.id)' \/ Recorded(e.id)'
    BY DEF ImageIsKept
  <2>0. job'[q].target \in Stations
    BY DEF TypeInv, JobOK
  <2>1. CASE q # p
    <3>1. InMemory(e.id) \/ Recorded(e.id)
      BY <1>0, <2>1 DEF JobStep, ImageIsKept
    <3> QED BY <1>0, <3>1, SessionKept
  <2>2. CASE q = p /\ job'[p].image = memoryStations'[job'[p].target]
    BY <2>0, <2>2 DEF InMemory
  <2>3. CASE /\ q = p /\ job[p].at \in PromotionSteps \ {"forget"}
             /\ job'[p].image = job[p].image /\ job'[p].target = job[p].target
    <3>1. InMemory(e.id) \/ Recorded(e.id)
      BY <1>0, <2>3 DEF ImageIsKept
    <3> QED BY <1>0, <3>1, SessionKept
  <2> QED BY <2>1, <2>2, <2>3 DEF JobStep
<1>3. ForgetIsSafe'
  <2> SUFFICES ASSUME NEW q \in Tasks, job'[q].at = "forget"
               PROVE  /\ \A e \in memoryStations'[job'[q].target].sessions : Recorded(e.id)'
                      /\ dbStations'[job'[q].target].live
    BY DEF ForgetIsSafe
  <2>0. job'[q].target \in Stations
    BY DEF TypeInv, JobOK, PromotionSteps
  <2>1. CASE q # p
    <3>1. job[q].at = "forget" /\ job[q].target = job'[q].target
      BY <2>1 DEF JobStep
    <3>2. \A e \in memoryStations'[job'[q].target].sessions : Recorded(e.id)
      BY <1>0, <2>0, <3>1 DEF ForgetIsSafe
    <3>3. dbStations[job'[q].target].live
      BY <1>0, <3>1 DEF ForgetIsSafe
    <3> QED BY <2>0, <3>2, <3>3, RecordedKept DEF StationStep
  <2>2. CASE q = p
    <3>1. /\ job[p].at \in PromotionSteps \ {"forget"}
          /\ job'[p].target = job[p].target
          /\ \A e \in job[p].image.sessions : Recorded(e.id)'
          /\ dbStations'[job[p].target].live
      BY <2>2 DEF JobStep, PromotionSteps
    <3>2. memoryStations'[job[p].target].sessions \subseteq job[p].image.sessions
      BY <1>0, <2>0, <2>2, <3>1 DEF ImageCoversMemory, PromotionSteps
    <3> QED BY <2>2, <3>1, <3>2
  <2> QED BY <2>1, <2>2
<1>4. WriterIsWriting'
  <2> SUFFICES ASSUME NEW n \in DOMAIN rows', rows'[n].tx # Nobody
               PROVE  job'[rows'[n].tx].at = "createRows" /\ rows'[n].status # "ROLLEDBACK"
    BY DEF WriterIsWriting
  <2>1. rows'[n].tx \in Tasks
    <3>1. rows' \in Seq(Row)
      BY DEF TypeInv, TypeOK
    <3>2. rows'[n] \in Row
      BY <3>1
    <3> QED BY <3>2 DEF Row
  <2>2. CASE rows'[n].tx = p
    BY <2>2 DEF RowsOwned
  <2>3. CASE rows'[n].tx # p
    BY <1>0, <2>1, <2>3 DEF RowsOwned, JobStep, WriterIsWriting
  <2> QED BY <2>2, <2>3
<1> QED BY <1>1, <1>2, <1>3, <1>4

LEMMA OnlineKeepsMappings ==
    ASSUME TypeInv, TypeInv', SessionInv, NEW p \in Tasks, OnlineStep(p)
    PROVE  LiveSessionKept' /\ RowedIsNotUnsaved' /\ UnsavedIsBuffered' /\ MappingFaithful'
<1>0. /\ ForgetIsSafe /\ ImageIsKept /\ LiveSessionKept /\ RowedIsNotUnsaved
      /\ UnsavedIsBuffered /\ MappingFaithful
      /\ RowsKept /\ MemoryStep(p) /\ MappingStep(p)
  BY DEF SessionInv, OnlineStep
<1>1. rows \in Seq(Row) /\ rows' \in Seq(Row) /\ Len(rows) \in Nat /\ DOMAIN rows = 1..Len(rows)
  BY DEF TypeInv, TypeOK
<1>2. NextRowId \in Nat /\ NextRowId # 0 /\ NextRowId = Len(rows) + 1
  BY <1>1 DEF NextRowId
<1>3. \A id \in FallbackIds : Mapped(p, id) => memoryTransactions'[id].row # 0
  BY <1>2 DEF Mapped
<1>4. LiveSessionKept'
  <2> SUFFICES ASSUME NEW id \in FallbackIds, Known(memoryTransactions'[id])
               PROVE  InMemory(id)' \/ Recorded(id)'
    BY DEF LiveSessionKept
  <2>1. CASE memoryTransactions'[id] = memoryTransactions[id]
    <3>1. InMemory(id) \/ Recorded(id)
      BY <1>0, <2>1 DEF LiveSessionKept
    <3> QED BY <1>0, <3>1, SessionKept
  <2>2. CASE memoryTransactions'[id] = NoMapping
    BY <2>2 DEF Known, NoMapping
  <2>3. CASE Mapped(p, id)
    <3>1. InMemory(id) \/ Recorded(id)
      BY <1>0, <2>3 DEF Mapped, ImageIsKept, PromotionSteps
    <3> QED BY <1>0, <3>1, SessionKept
  <2> QED BY <1>0, <2>1, <2>2, <2>3 DEF MappingStep
<1>5. RowedIsNotUnsaved'
  <2> SUFFICES ASSUME NEW n \in DOMAIN rows', rows'[n].origin # 0
               PROVE  LET m == memoryTransactions'[rows'[n].origin] IN ~(Known(m) /\ m.row = 0)
    BY DEF RowedIsNotUnsaved
  <2> DEFINE id == rows'[n].origin
  <2>1. id \in FallbackIds
    <3>1. rows'[n] \in Row
      BY <1>1
    <3> QED BY <3>1 DEF Row
  <2>2. CASE Mapped(p, id)
    BY <1>3, <2>1, <2>2
  <2>3. CASE n \in DOMAIN rows
    <3>1. rows[n].origin = id
      BY <1>0, <2>3 DEF RowsKept
    <3>2. ~(Known(memoryTransactions[id]) /\ memoryTransactions[id].row = 0)
      BY <1>0, <2>3, <3>1 DEF RowedIsNotUnsaved
    <3> QED BY <1>0, <1>3, <2>1, <3>2 DEF MappingStep, Known, NoMapping
  <2> QED BY <1>0, <2>2, <2>3 DEF MappingStep
<1>6. UnsavedIsBuffered'
  <2> SUFFICES ASSUME NEW id \in FallbackIds,
                      Known(memoryTransactions'[id]), memoryTransactions'[id].row = 0
               PROVE  LET m == memoryTransactions'[id]
                      IN  /\ memoryStations'[m.station].live
                          /\ \E e \in memoryStations'[m.station].sessions : e.id = id
    BY DEF UnsavedIsBuffered
  <2> DEFINE m == memoryTransactions[id]
  <2>1. memoryTransactions'[id] = m
    BY <1>0, <1>3 DEF MappingStep, Known, NoMapping
  <2>2. m.station \in Stations
    BY <2>1 DEF TypeInv, TypeOK, Mapping, Known
  <2>3. /\ memoryStations[m.station].live
        /\ \E e \in memoryStations[m.station].sessions : e.id = id
    BY <1>0, <2>1 DEF UnsavedIsBuffered
  <2>4. memoryStations'[m.station] = memoryStations[m.station]
    <3>1. ~(job[p].at = "forget" /\ m.station = job[p].target)
      <4> SUFFICES ASSUME job[p].at = "forget", m.station = job[p].target PROVE FALSE
        OBVIOUS
      <4>1. Recorded(id)
        BY <1>0, <2>3 DEF ForgetIsSafe
      <4>2. PICK n \in DOMAIN rows : rows[n].origin = id
        BY <4>1 DEF Recorded
      <4>3. id # 0
        BY DEF FallbackIds
      <4> QED BY <1>0, <2>1, <4>2, <4>3 DEF RowedIsNotUnsaved
    <3> QED BY <1>0, <2>2, <3>1 DEF MemoryStep
  <2> QED BY <2>1, <2>3, <2>4
<1>7. MappingFaithful'
  <2> SUFFICES ASSUME NEW id \in FallbackIds, memoryTransactions'[id].row # 0
               PROVE  LET m == memoryTransactions'[id]
                          n == m.row
                      IN  n \in DOMAIN rows' /\ rows'[n].origin = id /\ rows'[n].station = m.station
    BY DEF MappingFaithful
  <2>1. CASE memoryTransactions'[id] = memoryTransactions[id]
    <3> DEFINE m == memoryTransactions[id]
               n == m.row
    <3>1. n \in DOMAIN rows /\ rows[n].origin = id /\ rows[n].station = m.station
      BY <1>0, <2>1 DEF MappingFaithful
    <3> QED BY <1>0, <2>1, <3>1 DEF RowsKept
  <2>2. CASE Mapped(p, id)
    BY <1>2, <2>2 DEF Mapped
  <2>3. memoryTransactions'[id] # NoMapping
    BY DEF NoMapping
  <2> QED BY <1>0, <2>1, <2>2, <2>3 DEF MappingStep
<1> QED BY <1>4, <1>5, <1>6, <1>7

LEMMA OnlineKeepsStations ==
    ASSUME TypeInv, TypeInv', SessionInv, NEW p \in Tasks, OnlineStep(p)
    PROVE  MissingIsBlank' /\ BootedIsSomewhere' /\ BootedIsKnown'
<1>0. /\ ForgetIsSafe /\ MissingIsBlank /\ BootedIsSomewhere /\ BootedIsKnown
      /\ MemoryStep(p) /\ StationStep(p) /\ JobStep(p)
  BY DEF SessionInv, OnlineStep
<1>1. MissingIsBlank'
  BY <1>0 DEF MissingIsBlank, MemoryStep, NoMemoryStation
<1>2. BootedIsSomewhere'
  <2> SUFFICES ASSUME NEW s \in booted'
               PROVE  memoryStations'[s].live \/ dbStations'[s].live
    BY DEF BootedIsSomewhere
  <2>0. s \in Stations
    BY DEF TypeInv, TypeOK
  <2>1. CASE s \in booted
    BY <1>0, <2>0, <2>1 DEF BootedIsSomewhere, MemoryStep, StationStep, ForgetIsSafe
  <2> QED BY <1>0, <2>0, <2>1 DEF StationStep
<1>3. BootedIsKnown'
  <2> SUFFICES ASSUME NEW q \in Calls, job'[q].at = "find", job'[q].station \in booted'
               PROVE  dbStations'[job'[q].station].live
    BY DEF BootedIsKnown
  <2>0. q \in Tasks /\ job'[q].station \in Stations
    BY DEF TypeInv, TypeOK, Tasks
  <2>1. CASE q = p
    BY <1>0, <2>1 DEF StationStep
  <2>2. CASE q # p
    BY <1>0, <2>0, <2>2 DEF StationStep, JobStep, BootedIsKnown
  <2> QED BY <2>1, <2>2
<1> QED BY <1>1, <1>2, <1>3

LEMMA OnlineKeeps ==
    ASSUME TypeInv, TypeInv', SessionInv, NEW p \in Tasks, OnlineStep(p)
    PROVE  SessionInv'
<1>1. AttemptsEnd' /\ QuietOffline'
  BY DEF OnlineStep, AttemptsEnd, QuietOffline
<1> QED BY <1>1, OnlineKeepsJobs, OnlineKeepsMappings, OnlineKeepsStations DEF SessionInv

------------------------------------------------------------------------------
(* Each action of a task is an online step of that task. *)

\* Only a connected process has a task that is not idle.
LEMMA Connected ==
    ASSUME SessionInv, NEW p \in Tasks, job[p].at # "idle", UNCHANGED connectionVars
    PROVE  connected /\ connected' /\ ~connecting'
BY DEF SessionInv, QuietOffline, AttemptsEnd, connectionVars

\* The job of p is replaced by one that promotes nothing.
LEMMA LeavesPromotion ==
    ASSUME TypeInv, NEW p \in Tasks, NEW j, j.at \notin PromotionSteps,
           job' = [job EXCEPT ![p] = j]
    PROVE  JobStep(p) /\ job'[p] = j
BY DEF TypeInv, TypeOK, JobStep

\* The job of p moves on within a promotion, or leaves it.
LEMMA MovesOn ==
    ASSUME TypeInv, NEW p \in Tasks, NEW step, Goto(p, step),
           \/ step \notin PromotionSteps
           \/ job[p].at \in PromotionSteps \ {"forget"} /\ step \in PromotionSteps \ {"forget"}
    PROVE  JobStep(p) /\ job'[p].at = step /\ job'[p].station = job[p].station
BY DEF TypeInv, TypeOK, JobStep, Goto, Job

\* Rows left alone, or rewritten in place: what p had not committed it settles,
\* and the rows of others stay theirs.
RowsInPlace(p) ==
    /\ DOMAIN rows' = DOMAIN rows
    /\ \A n \in DOMAIN rows :
           /\ rows'[n].origin = rows[n].origin
           /\ rows'[n].station = rows[n].station
           /\ rows'[n].tx = IF rows[n].tx = p THEN Nobody ELSE rows[n].tx
           /\ rows[n].tx # p /\ rows[n].status # "ROLLEDBACK" => rows'[n].status # "ROLLEDBACK"

LEMMA RewrittenRows ==
    ASSUME TypeInv, SessionInv, NEW p \in Tasks, RowsInPlace(p)
    PROVE  RowsKept /\ RowsOwned(p)
<1>1. p # Nobody
  BY NamesAssumption DEF Tasks
<1> QED BY <1>1 DEF RowsInPlace, RowsKept, RowsOwned, Committed, SessionInv, WriterIsWriting

LEMMA SameRows ==
    ASSUME SessionInv, NEW p \in Tasks, job[p].at # "createRows", rows' = rows
    PROVE  RowsInPlace(p)
<1>1. p # Nobody
  BY NamesAssumption DEF Tasks
<1> QED BY <1>1 DEF RowsInPlace, SessionInv, WriterIsWriting

\* A step of p that leaves memory and the mappings alone and adds no row.
LEMMA QuietStep ==
    ASSUME TypeInv, SessionInv, NEW p \in Tasks,
           connected, UNCHANGED connectionVars, UNCHANGED memoryVars,
           RowsInPlace(p), JobStep(p), StationStep(p)
    PROVE  OnlineStep(p)
<1>1. RowsKept /\ RowsOwned(p)
  BY RewrittenRows
<1>2. MemoryStep(p) /\ MappingStep(p)
  BY DEF memoryVars, RowsInPlace, MemoryStep, MappingStep
<1> QED BY <1>1, <1>2 DEF OnlineStep, SessionInv, AttemptsEnd, connectionVars

\* A promotion begins with the image of now; without anything to promote the
\* caller goes on.
LEMMA PromotionBegins ==
    ASSUME TypeInv, NEW p \in Tasks, NEW caller \in Job, NEW s \in Stations, NEW memory, NEW after,
           memory = memoryStations',
           memory \in [Stations -> MemoryStation],
           job' = [job EXCEPT ![p] = Promoting(caller, s, memory, after)],
           after \notin PromotionSteps \/ memory[s].live
    PROVE  JobStep(p)
<1> DEFINE j == Promoting(caller, s, memory, after)
<1>0. job' = [job EXCEPT ![p] = j]
  OBVIOUS
<1>1. CASE memory[s].live
  <2>1. j.at = "upsertStation" /\ j.image = memory[s] /\ j.target = s
    BY <1>1 DEF Promoting, Job
  <2> HIDE DEF j
  <2>2. job'[p] = j /\ \A q \in Tasks \ {p} : job'[q] = job[q]
    BY <1>0 DEF TypeInv, TypeOK
  <2> QED BY <2>1, <2>2 DEF JobStep, PromotionSteps
<1>2. CASE ~memory[s].live
  <2>1. j.at = after
    BY <1>2 DEF Promoting, Job
  <2> HIDE DEF j
  <2>2. job'[p] = j /\ \A q \in Tasks \ {p} : job'[q] = job[q]
    BY <1>0 DEF TypeInv, TypeOK
  <2> QED BY <1>2, <2>1, <2>2 DEF JobStep
<1> QED BY <1>1, <1>2

LEMMA ListenerStep ==
    ASSUME TypeInv, NEW ids \in SUBSET Stations, NEW memory \in [Stations -> MemoryStation],
           memory = memoryStations', ListenerTurn(ids, memory)
    PROVE  /\ JobStep(Listener)
           /\ job'[Listener].at \in {"idle", "upsertStation"}
<1>1. Listener \in Tasks
  BY DEF Tasks
<1>2. CASE \E s \in ids :
              /\ memory[s].live
              /\ job' = [job EXCEPT ![Listener] = Promoting(Idle, s, memory, "idle")]
  <2>1. PICK s \in ids :
              /\ memory[s].live
              /\ job' = [job EXCEPT ![Listener] = Promoting(Idle, s, memory, "idle")]
    BY <1>2
  <2>2. JobStep(Listener)
    BY <1>1, <2>1, NullTypes, PromotionBegins
  <2>3. Promoting(Idle, s, memory, "idle").at = "upsertStation"
    BY <2>1, NullTypes DEF Promoting, Job
  <2> QED BY <1>1, <2>1, <2>2, <2>3 DEF TypeInv, TypeOK
<1>3. CASE job' = [job EXCEPT ![Listener] = Idle]
  <2>1. Idle.at = "idle" /\ "idle" \notin PromotionSteps
    BY DEF Idle, PromotionSteps
  <2>2. JobStep(Listener)
    BY <1>1, <1>3, <2>1, LeavesPromotion
  <2> QED BY <1>1, <1>3, <2>1, <2>2 DEF TypeInv, TypeOK
<1> QED BY <1>2, <1>3 DEF ListenerTurn

\* A call that promotes station s first and then looks it up.
LEMMA ReceivePromoting ==
    ASSUME TypeInv, SessionInv, NEW p \in Calls, NEW s \in Stations, NEW caller \in Job,
           caller.station = s, Receive(p, Promoting(caller, s, memoryStations, "find"))
    PROVE  OnlineStep(p)
<1> DEFINE j == Promoting(caller, s, memoryStations, "find")
<1>0. /\ p \in Tasks /\ job[p].at # "createRows"
      /\ memoryStations \in [Stations -> MemoryStation]
      /\ memoryStations' = memoryStations
      /\ job' = [job EXCEPT ![p] = j]
  BY DEF Receive, Tasks, TypeInv, TypeOK, memoryVars
<1>1. JobStep(p)
  <2>1. "find" \notin PromotionSteps
    BY DEF PromotionSteps
  <2> QED BY <1>0, <2>1, PromotionBegins
<1>2. StationStep(p)
  <2>1. j.station = s /\ (j.at = "find" => ~memoryStations[s].live)
    BY DEF Promoting, Job
  <2>2. job'[p] = j
    <3> HIDE DEF j
    <3> QED BY <1>0 DEF TypeInv, TypeOK
  <2>3. j.at = "find" /\ s \in booted => dbStations[s].live
    BY <2>1 DEF SessionInv, BootedIsSomewhere
  <2> HIDE DEF j
  <2> QED BY <2>1, <2>2, <2>3 DEF Receive, StationStep, dbVars
<1>3. RowsInPlace(p)
  BY <1>0, SameRows DEF Receive, dbVars
<1> QED BY <1>0, <1>1, <1>2, <1>3, QuietStep DEF Receive, Online

\* A call that promotes nothing and does not look its station up.
LEMMA ReceivePlain ==
    ASSUME TypeInv, SessionInv, NEW p \in Calls, NEW call,
           call.at \in {"bootUpsert", "findRow"}, Receive(p, call)
    PROVE  OnlineStep(p)
<1>1. p \in Tasks /\ job[p].at # "createRows" /\ job' = [job EXCEPT ![p] = call]
  BY DEF Tasks, Receive
<1>2. JobStep(p) /\ job'[p] = call
  BY <1>1, LeavesPromotion DEF PromotionSteps
<1>3. StationStep(p)
  BY <1>2 DEF StationStep, Receive, dbVars
<1>4. RowsInPlace(p)
  BY <1>1, SameRows DEF Receive, dbVars
<1> QED BY <1>1, <1>2, <1>3, <1>4, QuietStep DEF Receive, Online

LEMMA ReceiveIsOnline ==
    ASSUME TypeInv, SessionInv, NEW p \in Calls, ReceiveNext(p)
    PROVE  OnlineStep(p)
<1>1. PICK s \in Stations :
        \/ ReceiveBoot(p, s)
        \/ ReceiveHeartbeat(p, s)
        \/ \E c \in Connectors : ReceiveStart(p, s, c) \/ \E raw \in RawStatuses : ReceiveStatus(p, s, c, raw)
        \/ \E id \in openIds[s] : ReceiveStop(p, s, id) \/ ReceiveMeter(p, s, id)
  BY DEF ReceiveNext
<1>2. CASE ReceiveBoot(p, s)
  <2> DEFINE call == [Idle EXCEPT !.at = "bootUpsert", !.kind = "Boot", !.station = s]
  <2>1. call.at = "bootUpsert"
    BY DEF Idle
  <2>2. Receive(p, call)
    BY <1>2 DEF ReceiveBoot
  <2> HIDE DEF call
  <2> QED BY <2>1, <2>2, ReceivePlain
<1>3. CASE ReceiveHeartbeat(p, s)
  <2> DEFINE caller == [Idle EXCEPT !.kind = "Heartbeat", !.station = s]
  <2>1. caller \in Job /\ caller.station = s
    BY NullTypes DEF Job, AllKinds
  <2> QED BY <1>3, <2>1, ReceivePromoting DEF ReceiveHeartbeat
<1>4. ASSUME NEW c \in Connectors, ReceiveStart(p, s, c)
      PROVE  OnlineStep(p)
  <2> DEFINE caller == [Idle EXCEPT !.kind = "Start", !.station = s, !.connector = c,
                                    !.status = "CHARGING"]
  <2>1. caller \in Job /\ caller.station = s
    BY NullTypes DEF Job, AllKinds, ConnectorStatus
  <2> QED BY <1>4, <2>1, ReceivePromoting DEF ReceiveStart
<1>5. ASSUME NEW c \in Connectors, NEW raw \in RawStatuses, ReceiveStatus(p, s, c, raw)
      PROVE  OnlineStep(p)
  <2> DEFINE caller == [Idle EXCEPT !.kind = "Status", !.station = s, !.connector = c,
                                    !.status = ResolveConnectorStatus(raw)]
  <2>1. caller \in Job /\ caller.station = s
    BY NullTypes, ResolveType DEF Job, AllKinds
  <2> QED BY <1>5, <2>1, ReceivePromoting DEF ReceiveStatus
<1>6. ASSUME NEW id \in openIds[s], ReceiveMeter(p, s, id)
      PROVE  OnlineStep(p)
  <2> DEFINE caller == [Idle EXCEPT !.kind = "Meter", !.station = s, !.id = id]
  <2>0. id \in Nat
    BY DEF TypeInv, TypeOK
  <2>1. caller \in Job /\ caller.station = s
    BY <2>0, NullTypes DEF Job, AllKinds
  <2> QED BY <1>6, <2>1, ReceivePromoting DEF ReceiveMeter
<1>7. ASSUME NEW id \in openIds[s], ReceiveStop(p, s, id)
      PROVE  OnlineStep(p)
  <2> DEFINE mapping == MappingOf(id)
             call    == [Idle EXCEPT !.kind = "Stop", !.station = s, !.id = id,
                                     !.mapping = mapping]
             found   == [call EXCEPT !.at = "findRow",
                                     !.row = IF Known(mapping) THEN mapping.row ELSE id]
             j       == Promoting(call, mapping.station, memoryStations, "upsertStation")
  <2>0. mapping \in Mapping
    BY NullTypes DEF MappingOf, TypeInv, TypeOK
  <2>1. CASE ~(Known(mapping) /\ mapping.row = 0)
    <3>1. found.at = "findRow"
      BY DEF Idle
    <3>2. Receive(p, found)
      BY <1>7, <2>1 DEF ReceiveStop
    <3> HIDE DEF found
    <3> QED BY <3>1, <3>2, ReceivePlain
  <2>2. CASE Known(mapping) /\ mapping.row = 0
    <3>1. mapping.station \in Stations
      BY <2>0, <2>2 DEF Mapping, Known
    <3>2. memoryStations[mapping.station].live
      BY <2>2 DEF MappingOf, NoMapping, Known, SessionInv, UnsavedIsBuffered
    <3>3. call \in Job
      <4>1. id \in Nat
        BY DEF TypeInv, TypeOK
      <4> QED BY <2>0, <4>1, NullTypes DEF Job, AllKinds
    <3>4. Receive(p, j)
      BY <1>7, <2>2 DEF ReceiveStop
    <3>5. j.at = "upsertStation"
      BY <3>2, <3>3 DEF Promoting, Job
    <3>6. /\ p \in Tasks /\ job[p].at # "createRows"
          /\ memoryStations \in [Stations -> MemoryStation]
          /\ memoryStations' = memoryStations
          /\ job' = [job EXCEPT ![p] = j]
      BY <3>4 DEF Receive, Tasks, TypeInv, TypeOK, memoryVars
    <3>7. JobStep(p)
      <4> HIDE DEF mapping, call
      <4> QED BY <3>1, <3>2, <3>3, <3>6, PromotionBegins
    <3> HIDE DEF j
    <3>8. job'[p] = j
      BY <3>6 DEF TypeInv, TypeOK
    <3>9. StationStep(p)
      BY <3>4, <3>5, <3>8 DEF StationStep, Receive, dbVars
    <3>10. RowsInPlace(p)
      BY <3>4, <3>6, SameRows DEF Receive, dbVars
    <3> QED BY <3>4, <3>6, <3>7, <3>9, <3>10, QuietStep DEF Receive, Online
  <2> QED BY <2>1, <2>2
<1> QED BY <1>1, <1>2, <1>3, <1>4, <1>5, <1>6, <1>7

\* A statement of a handler: no promotion, no memory; only Unmap touches a
\* mapping, which it drops, and only InsertRow adds a row, which it commits.
LEMMA StatementIsOnline ==
    ASSUME TypeInv, SessionInv, NEW p \in Tasks, StatementNext(p)
    PROVE  OnlineStep(p)
<1>1. /\ job[p].at \in CallSteps /\ job[p].at # "createRows" /\ job[p].at # "idle"
      /\ p \in Calls /\ job[p].station \in Stations
      /\ UNCHANGED connectionVars /\ memoryStations' = memoryStations
  <2>1. job[p].at \in CallSteps /\ UNCHANGED connectionVars /\ memoryStations' = memoryStations
    BY DEF StatementNext, BootUpsert, Find, FindMissing, Touch, WriteConnector, InsertRow,
       WriteStation, Meter, MeterRefused, ConnectorRefused, FindRow, FindRowMissing, CloseRow, FreeConnector,
       FreeStation, Unmap, CallSteps, memoryVars
  <2> QED BY <2>1 DEF CallSteps, TypeInv, JobOK
<1>2. connected /\ connected' /\ ~connecting'
  BY <1>1, Connected
<1>3. JobStep(p) /\ job'[p].at # "find" /\ job'[p].at \notin PromotionSteps
  <2>1. ASSUME Answered(p)
        PROVE  JobStep(p) /\ job'[p].at # "find" /\ job'[p].at \notin PromotionSteps
    <3>1. Idle.at = "idle" /\ "idle" \notin PromotionSteps
      BY DEF Idle, PromotionSteps
    <3> QED BY <2>1, <3>1, LeavesPromotion DEF Answered
  <2>2. ASSUME NEW step \in CallSteps \ {"find"}, Goto(p, step)
        PROVE  JobStep(p) /\ job'[p].at # "find" /\ job'[p].at \notin PromotionSteps
    BY <2>2, MovesOn DEF CallSteps, PromotionSteps
  <2>3. ASSUME NEW step \in CallSteps \ {"find"}, NEW r, GotoRow(p, step, r)
        PROVE  JobStep(p) /\ job'[p].at # "find" /\ job'[p].at \notin PromotionSteps
    <3> DEFINE j == [job[p] EXCEPT !.at = step, !.row = r]
    <3>1. j.at = step
      BY DEF TypeInv, TypeOK, Job
    <3>2. job' = [job EXCEPT ![p] = j]
      BY <2>3 DEF GotoRow
    <3> HIDE DEF j
    <3> QED BY <3>1, <3>2, LeavesPromotion DEF CallSteps, PromotionSteps
  <2>4. /\ "touch" \in CallSteps /\ "writeConnector" \in CallSteps /\ "insertRow" \in CallSteps
        /\ "writeStation" \in CallSteps /\ "meter" \in CallSteps /\ "closeRow" \in CallSteps
        /\ "freeConnector" \in CallSteps /\ "freeStation" \in CallSteps /\ "unmap" \in CallSteps
    BY DEF CallSteps
  <2>5. \/ Answered(p)
        \/ \E step \in CallSteps \ {"find"} : Goto(p, step) \/ \E r : GotoRow(p, step, r)
    BY <2>4 DEF StatementNext, BootUpsert, Find, FindMissing, Touch, WriteConnector, InsertRow,
       WriteStation, Meter, MeterRefused, ConnectorRefused, FindRow, FindRowMissing, CloseRow, FreeConnector,
       FreeStation, Unmap
  <2> QED BY <2>1, <2>2, <2>3, <2>5
<1>4. StationStep(p)
  <2>0. dbStations \in [Stations -> DbStation]
    BY DEF TypeInv, TypeOK
  <2>1. \A s \in Stations : dbStations[s].live => dbStations'[s].live
    <3>1. CASE dbStations' = dbStations
      BY <3>1
    <3>2. CASE BootUpsert(p)
      BY <2>0, <3>2 DEF BootUpsert
    <3>3. CASE \E x, heard : dbStations' = [dbStations EXCEPT ![x].heard = heard]
      BY <2>0, <3>3 DEF DbStation
    <3>4. CASE \E x, status : dbStations' = [dbStations EXCEPT ![x].status = status]
      BY <2>0, <3>4 DEF DbStation
    <3>5. CASE Touch(p)
      BY <3>3, <3>5 DEF Touch
    <3>6. CASE WriteStation(p) \/ FreeStation(p)
      BY <3>4, <3>6 DEF WriteStation, FreeStation
    <3> QED
      BY <3>1, <3>2, <3>5, <3>6
      DEF StatementNext, Find, FindMissing, WriteConnector, InsertRow, Meter, MeterRefused,
          ConnectorRefused, FindRow, FindRowMissing, CloseRow, FreeConnector, Unmap, dbVars
  <2>2. \A s \in booted' : s \in booted \/ dbStations'[s].live
    <3>1. CASE BootUpsert(p)
      BY <1>1, <2>0, <3>1 DEF BootUpsert, DbStation
    <3>2. CASE ~BootUpsert(p)
      BY <1>1, <3>2 DEF StatementNext, Find, FindMissing, Touch, WriteConnector, InsertRow,
         WriteStation, Meter, MeterRefused, ConnectorRefused, FindRow, FindRowMissing, CloseRow,
         FreeConnector, FreeStation, Unmap, dbVars
    <3> QED BY <3>1, <3>2
  <2> QED BY <1>3, <2>1, <2>2 DEF StationStep
<1>0. p # Nobody /\ \A n \in DOMAIN rows : rows[n] \in Row /\ rows[n].tx # p
  <2>1. p # Nobody
    BY NamesAssumption DEF Tasks
  <2>2. \A n \in DOMAIN rows : rows[n] \in Row
    BY DEF TypeInv, TypeOK
  <2> QED BY <1>1, <2>1, <2>2 DEF SessionInv, WriterIsWriting
<1>5. CASE InsertRow(p)
  <2> DEFINE r == NewRow(job[p].station, job[p].connector, Nobody, 0)
  <2>1. r \in Row
    BY <1>1, <1>5, NewRowType DEF InsertRow, TypeInv, JobOK
  <2>2. rows \in Seq(Row) /\ rows' = Append(rows, r)
    BY <1>5 DEF InsertRow, TypeInv, TypeOK
  <2>3. r.tx = Nobody /\ r.origin = 0
    BY DEF NewRow
  <2> HIDE DEF r
  <2>4. /\ DOMAIN rows = 1..Len(rows) /\ DOMAIN rows' = 1..(Len(rows) + 1) /\ Len(rows) \in Nat
        /\ \A n \in 1..Len(rows) : rows'[n] = rows[n]
        /\ rows'[Len(rows) + 1] = r
    BY <2>1, <2>2, AppendRow
  <2>5. RowsKept
    BY <2>4 DEF RowsKept, Committed
  <2>6. RowsOwned(p)
    BY <1>1, <2>3, <2>4 DEF RowsOwned, SessionInv, WriterIsWriting
  <2>7. MappingStep(p) /\ MemoryStep(p)
    BY <1>5, <2>3, <2>4 DEF InsertRow, memoryVars, MappingStep, MemoryStep
  <2> QED BY <1>2, <1>3, <1>4, <2>5, <2>6, <2>7 DEF OnlineStep
<1>6. CASE Unmap(p)
  <2>1. RowsInPlace(p)
    BY <1>1, <1>6, SameRows DEF Unmap, dbVars
  <2>2. RowsKept /\ RowsOwned(p)
    BY <2>1, RewrittenRows
  <2>3. MappingStep(p)
    BY <1>6, <2>1 DEF Unmap, RowsInPlace, MappingStep, TypeInv, TypeOK
  <2> QED BY <1>1, <1>2, <1>3, <1>4, <2>2, <2>3 DEF OnlineStep, MemoryStep
<1>7. CASE rows' = rows /\ UNCHANGED memoryVars
  BY <1>1, <1>2, <1>3, <1>4, <1>7, SameRows, QuietStep
<1>8. CASE Meter(p)
  <2> DEFINE n == job[p].row
  <2>1. rows' = [rows EXCEPT ![n].meteredBy = @ \cup {job[p].station}]
    BY <1>8 DEF Meter
  <2>2. DOMAIN rows' = DOMAIN rows
    BY <2>1
  <2>3. \A i \in DOMAIN rows :
           rows'[i] = IF i = n THEN [rows[i] EXCEPT !.meteredBy = @ \cup {job[p].station}]
                      ELSE rows[i]
    BY <2>1
  <2>4. RowsInPlace(p)
    BY <1>0, <2>2, <2>3 DEF RowsInPlace, Row
  <2> QED BY <1>1, <1>2, <1>3, <1>4, <1>8, <2>4, QuietStep DEF Meter
<1>9. CASE CloseRow(p)
  <2> DEFINE n == job[p].row
  <2>1. rows' = [rows EXCEPT ![n].status = "COMPLETED", ![n].stoppedBy = job[p].station]
    BY <1>9 DEF CloseRow
  <2>2. DOMAIN rows' = DOMAIN rows
    BY <2>1
  <2>3. \A i \in DOMAIN rows :
           rows'[i] = IF i = n
                      THEN [rows[i] EXCEPT !.status = "COMPLETED", !.stoppedBy = job[p].station]
                      ELSE rows[i]
    BY <2>1
  <2>4. \A i \in DOMAIN rows :
           /\ rows'[i].origin = rows[i].origin
           /\ rows'[i].station = rows[i].station
           /\ rows'[i].tx = rows[i].tx
           /\ rows'[i].status \in {rows[i].status, "COMPLETED"}
    <3> SUFFICES ASSUME NEW i \in DOMAIN rows
                 PROVE  /\ rows'[i].origin = rows[i].origin
                        /\ rows'[i].station = rows[i].station
                        /\ rows'[i].tx = rows[i].tx
                        /\ rows'[i].status \in {rows[i].status, "COMPLETED"}
      OBVIOUS
    <3>1. CASE i # n
      BY <2>3, <3>1
    <3>2. CASE i = n
      <4>1. rows'[i] = [rows[i] EXCEPT !.status = "COMPLETED", !.stoppedBy = job[p].station]
        BY <2>3, <3>2
      <4>2. rows[i] \in Row
        BY <1>0
      <4> HIDE DEF n
      <4> QED BY <4>1, <4>2 DEF Row
    <3> QED BY <3>1, <3>2
  <2>5. RowsInPlace(p)
    BY <1>0, <2>2, <2>4 DEF RowsInPlace
  <2> QED BY <1>1, <1>2, <1>3, <1>4, <1>9, <2>5, QuietStep DEF CloseRow
<1> QED
  BY <1>5, <1>6, <1>7, <1>8, <1>9
  DEF StatementNext, BootUpsert, Find, FindMissing, Touch, WriteConnector, WriteStation,
      MeterRefused, ConnectorRefused, FindRow, FindRowMissing, FreeConnector, FreeStation, dbVars

\* CreateRow adds the row of one session of the image and maps the session to it.
LEMMA CreateRowIsOnline ==
    ASSUME TypeInv, SessionInv, NEW p \in Tasks, CreateRow(p)
    PROVE  OnlineStep(p)
<1>1. /\ job[p].at = "createRows" /\ job[p].at # "idle" /\ job' = job
      /\ UNCHANGED connectionVars /\ memoryStations' = memoryStations
      /\ dbStations' = dbStations /\ booted' = booted
  BY DEF CreateRow, taskVars
<1>2. connected /\ connected' /\ ~connecting'
  BY <1>1, Connected
<1>3. PICK e \in Uncreated(p) :
        /\ rows' = Append(rows, NewRow(job[p].target, e.connector, p, e.id))
        /\ memoryTransactions' = [memoryTransactions EXCEPT
               ![e.id] = CreatedMapping(job[p].target, e.id, NextRowId)]
  BY DEF CreateRow
<1>4. e \in job[p].image.sessions /\ e.id \in FallbackIds /\ e.connector \in Connectors
  <2>1. e \in job[p].image.sessions /\ job[p].image \in MemoryStation
    BY Types DEF Uncreated
  <2> QED BY <2>1 DEF MemoryStation, Session
<1>5. job[p].target \in Stations
  BY <1>1 DEF TypeInv, JobOK, PromotionSteps
<1> DEFINE r == NewRow(job[p].target, e.connector, p, e.id)
<1>6. /\ DOMAIN rows = 1..Len(rows) /\ DOMAIN rows' = 1..(Len(rows) + 1) /\ Len(rows) \in Nat
      /\ \A n \in 1..Len(rows) : rows'[n] = rows[n]
      /\ rows'[Len(rows) + 1] = r
  <2>1. r \in Row
    BY <1>4, <1>5, NewRowType
  <2>2. rows \in Seq(Row) /\ rows' = Append(rows, r)
    BY <1>3 DEF TypeInv, TypeOK
  <2> HIDE DEF r
  <2> QED BY <2>1, <2>2, AppendRow
<1>7. r.tx = p /\ r.origin = e.id /\ r.station = job[p].target /\ r.status = "STARTED"
  BY DEF NewRow
<1> HIDE DEF r
<1>8. RowsKept
  BY <1>6 DEF RowsKept, Committed
<1>9. RowsOwned(p)
  BY <1>1, <1>6, <1>7 DEF RowsOwned, SessionInv, WriterIsWriting
<1>10. Mapped(p, e.id)
  <2>1. memoryTransactions'[e.id] = [station |-> job[p].target, row |-> NextRowId]
    BY <1>3, <1>4 DEF CreatedMapping, TypeInv, TypeOK
  <2> QED BY <1>1, <1>4, <1>6, <1>7, <2>1 DEF Mapped
<1>11. MappingStep(p)
  BY <1>3, <1>4, <1>6, <1>7, <1>10 DEF MappingStep, TypeInv, TypeOK
<1>12. MemoryStep(p) /\ StationStep(p)
  BY <1>1 DEF MemoryStep, StationStep
<1>13. JobStep(p)
  BY <1>1 DEF JobStep, PromotionSteps
<1> QED BY <1>2, <1>8, <1>9, <1>11, <1>12, <1>13 DEF OnlineStep

\* Commit settles the rows of the image, so that all its sessions are recorded.
LEMMA CommitIsOnline ==
    ASSUME TypeInv, SessionInv, NEW p \in Tasks, Commit(p)
    PROVE  OnlineStep(p)
<1>1. /\ job[p].at = "createRows" /\ job[p].at # "idle"
      /\ UNCHANGED connectionVars /\ UNCHANGED memoryVars
      /\ rows' = WrittenBack(p) /\ booted' = booted /\ job[p].target \in Stations
  BY DEF Commit, TypeInv, JobOK, PromotionSteps
<1>2. connected
  BY <1>1, Connected
<1>3. /\ DOMAIN rows' = DOMAIN rows
      /\ \A n \in DOMAIN rows :
             rows'[n] = IF rows[n].tx = p THEN [rows[n] EXCEPT !.tx = Nobody] ELSE rows[n]
  BY <1>1 DEF WrittenBack
<1>4. \A n \in DOMAIN rows :
         /\ rows'[n].origin = rows[n].origin /\ rows'[n].station = rows[n].station
         /\ rows'[n].status = rows[n].status
         /\ rows'[n].tx = IF rows[n].tx = p THEN Nobody ELSE rows[n].tx
  <2>1. \A n \in DOMAIN rows : rows[n] \in Row
    BY DEF TypeInv, TypeOK
  <2> QED BY <1>3, <2>1 DEF Row
<1>5. RowsInPlace(p)
  BY <1>3, <1>4 DEF RowsInPlace
<1>6. \A e \in job[p].image.sessions : Recorded(e.id)'
  <2> SUFFICES ASSUME NEW e \in job[p].image.sessions PROVE Recorded(e.id)'
    OBVIOUS
  <2>1. PICK n \in DOMAIN rows : rows[n].tx = p /\ rows[n].origin = e.id
    BY DEF Commit, Uncreated, CreatedBy
  <2>2. rows[n].status # "ROLLEDBACK"
    <3>1. p # Nobody
      BY NamesAssumption DEF Tasks
    <3> QED BY <2>1, <3>1 DEF SessionInv, WriterIsWriting
  <2> QED BY <1>3, <1>4, <2>1, <2>2 DEF Recorded, Committed
<1>7. /\ dbStations'[job[p].target].live
      /\ \A s \in Stations : dbStations[s].live => dbStations'[s].live
  <2>1. dbStations \in [Stations -> DbStation]
    BY DEF TypeInv, TypeOK
  <2>2. \E v : dbStations' = [dbStations EXCEPT ![job[p].target] = v] /\ v.live
    <3> DEFINE v == [live |-> TRUE, identified |-> job[p].image.identified,
                     heard |-> job[p].image.heard, status |-> job[p].image.status]
    <3>1. dbStations' = [dbStations EXCEPT ![job[p].target] = v] /\ v.live
      BY DEF Commit
    <3> HIDE DEF v
    <3> QED BY <3>1
  <2> QED BY <1>1, <2>1, <2>2
<1>8. /\ job'[p].at = "forget" /\ job'[p].image = job[p].image /\ job'[p].target = job[p].target
      /\ \A q \in Tasks \ {p} : job'[q] = job[q]
  BY DEF Commit, Goto, TypeInv, TypeOK, Job
<1>9. JobStep(p)
  BY <1>1, <1>6, <1>7, <1>8 DEF JobStep, PromotionSteps
<1>10. StationStep(p)
  BY <1>1, <1>7, <1>8 DEF StationStep
<1> QED BY <1>1, <1>2, <1>5, <1>9, <1>10, QuietStep

\* Forgetting drops what the commit has recorded, and nothing else.
LEMMA Forgets ==
    ASSUME TypeInv, SessionInv, NEW p \in Tasks, job[p].at = "forget",
           \/ memoryStations' = Forgotten(p)
           \/ memoryStations' = [Forgotten(p) EXCEPT ![job[p].target] =
                  [NoMemoryStation EXCEPT !.live = TRUE, !.heard = "live"]],
           UNCHANGED connectionVars, memoryTransactions' = memoryTransactions, UNCHANGED dbVars,
           booted' = booted, JobStep(p),
           job'[p].at = "find" => job'[p].station = job[p].target
    PROVE  OnlineStep(p)
<1>1. connected /\ connected' /\ ~connecting'
  BY Connected
<1>2. job[p].target \in Stations
  BY DEF TypeInv, JobOK, PromotionSteps
<1>3. MemoryStep(p)
  <2>1. CASE memoryStations' = Forgotten(p)
    BY <1>2, <2>1 DEF MemoryStep, Forgotten, NoMemoryStation, TypeInv, TypeOK
  <2>2. CASE memoryStations' = [Forgotten(p) EXCEPT ![job[p].target] =
                                   [NoMemoryStation EXCEPT !.live = TRUE, !.heard = "live"]]
    <3> DEFINE blank == [NoMemoryStation EXCEPT !.live = TRUE, !.heard = "live"]
    <3>1. blank.live /\ blank.sessions = {}
      BY DEF NoMemoryStation
    <3>2. memoryStations' = [[memoryStations EXCEPT ![job[p].target] = NoMemoryStation]
                                EXCEPT ![job[p].target] = blank]
      BY <2>2 DEF Forgotten
    <3> HIDE DEF blank
    <3> QED BY <1>2, <3>1, <3>2 DEF MemoryStep, TypeInv, TypeOK
  <2> QED BY <2>1, <2>2
<1>4. RowsInPlace(p)
  BY SameRows DEF dbVars
<1>5. RowsKept /\ RowsOwned(p)
  BY <1>4, RewrittenRows
<1>6. MappingStep(p)
  BY DEF MappingStep, dbVars
<1>7. StationStep(p)
  BY DEF StationStep, dbVars, SessionInv, ForgetIsSafe
<1> QED BY <1>1, <1>3, <1>5, <1>6, <1>7 DEF OnlineStep

LEMMA PromotionIsOnline ==
    ASSUME TypeInv, SessionInv, TypeInv', NEW p \in Tasks, PromotionNext(p)
    PROVE  OnlineStep(p)
<1>1. CASE UpsertStation(p) \/ UpsertConnectors(p)
  <2>1. PICK step \in {"upsertConnectors", "createRows"} : Goto(p, step)
    BY <1>1 DEF UpsertStation, UpsertConnectors
  <2>2. /\ job[p].at \in PromotionSteps \ {"forget"} /\ job[p].at \notin {"idle", "createRows"}
        /\ UNCHANGED <<connectionVars, memoryVars, dbVars, booted>>
    BY <1>1 DEF UpsertStation, UpsertConnectors, PromotionSteps
  <2>3. JobStep(p) /\ job'[p].at = step
    BY <2>1, <2>2, MovesOn DEF PromotionSteps
  <2>4. StationStep(p) /\ RowsInPlace(p)
    BY <2>2, <2>3, SameRows DEF StationStep, dbVars
  <2> QED BY <2>2, <2>3, <2>4, Connected, QuietStep
<1>2. CASE ForgetThenFind(p)
  <2>1. JobStep(p) /\ job'[p].station = job[p].station
    BY <1>2, MovesOn DEF ForgetThenFind, PromotionSteps
  <2>2. job[p].station = job[p].target
    BY <1>2 DEF ForgetThenFind, TypeInv, JobOK, PromotionSteps
  <2> QED BY <1>2, <2>1, <2>2, Forgets DEF ForgetThenFind
<1>3. CASE ForgetThenReject(p)
  <2>1. Idle.at = "idle" /\ "idle" \notin PromotionSteps
    BY DEF Idle, PromotionSteps
  <2>2. JobStep(p) /\ job'[p] = Idle
    BY <1>3, <2>1, LeavesPromotion DEF ForgetThenReject, Answered
  <2> QED BY <1>3, <2>1, <2>2, Forgets DEF ForgetThenReject
<1>4. CASE p = Listener /\ ForgetThenNext
  <2>1. /\ memoryStations' \in [Stations -> MemoryStation]
        /\ queue \in SUBSET Stations
    BY DEF TypeInv, TypeOK
  <2>2. JobStep(p) /\ job'[p].at # "find"
    BY <1>4, <2>1, ListenerStep DEF ForgetThenNext
  <2> QED BY <1>4, <2>2, Forgets DEF ForgetThenNext
<1> QED BY <1>1, <1>2, <1>3, <1>4, CreateRowIsOnline, CommitIsOnline DEF PromotionNext

\* A failure rolls the rows of p back and ends its job; memory stays.
LEMMA GivesUpIsOnline ==
    ASSUME TypeInv, SessionInv, NEW p \in Tasks, Fault(p) \/ PromotionRefused(p)
    PROVE  OnlineStep(p)
<1>1. /\ job[p].at # "idle" /\ UNCHANGED connectionVars /\ UNCHANGED memoryVars
      /\ rows' = RolledBack(p) /\ dbStations' = dbStations /\ booted' = booted
  BY GivingUpIsEither DEF GivesUp
<1>2. RowsInPlace(p)
  <2>1. \A n \in DOMAIN rows : rows[n] \in Row
    BY DEF TypeInv, TypeOK
  <2> QED BY <1>1, <2>1 DEF RowsInPlace, RolledBack, Row
<1>3. JobStep(p) /\ job'[p].at # "find"
  <2>1. CASE p = Listener
    <3>1. memoryStations \in [Stations -> MemoryStation] /\ queue \in SUBSET Stations
      BY DEF TypeInv, TypeOK
    <3> QED BY <1>1, <2>1, <3>1, ListenerStep, GivingUpIsEither DEF GivesUp, memoryVars
  <2>2. CASE p # Listener
    <3>1. Idle.at = "idle" /\ "idle" \notin PromotionSteps
      BY DEF Idle, PromotionSteps
    <3> QED BY <2>2, <3>1, LeavesPromotion, GivingUpIsEither DEF GivesUp, Answered
  <2> QED BY <2>1, <2>2
<1>4. StationStep(p)
  BY <1>1, <1>3 DEF StationStep
<1> QED BY <1>1, <1>2, <1>3, <1>4, Connected, QuietStep

------------------------------------------------------------------------------
(* Steps before the database is connected. *)

\* What a fallback handler for station s does to sessions: the buffered station
\* is rewritten, and an id keeps its mapping and its session, gets both, or
\* loses its mapping.
FallbackStep(s) ==
    /\ ~connected /\ UNCHANGED <<connectionVars, dbVars, taskVars>>
    /\ \E x \in MemoryStation :
           /\ memoryStations' = [memoryStations EXCEPT ![s] = x]
           /\ x.live
           /\ \A id \in FallbackIds :
                  \/ memoryTransactions'[id] = NoMapping
                  \/ /\ memoryTransactions'[id] = [station |-> s, row |-> 0]
                     /\ \E e \in x.sessions : e.id = id
                  \/ /\ memoryTransactions'[id] = memoryTransactions[id]
                     /\ \A e \in memoryStations[s].sessions : e.id = id => e \in x.sessions
    /\ booted' \subseteq booted \cup {s}

LEMMA FallbackKeeps ==
    ASSUME TypeInv, SessionInv, NEW s \in Stations, FallbackStep(s)
    PROVE  SessionInv'
<1>1. PICK x \in MemoryStation :
        /\ memoryStations' = [memoryStations EXCEPT ![s] = x]
        /\ x.live
        /\ \A id \in FallbackIds :
               \/ memoryTransactions'[id] = NoMapping
               \/ /\ memoryTransactions'[id] = [station |-> s, row |-> 0]
                  /\ \E e \in x.sessions : e.id = id
               \/ /\ memoryTransactions'[id] = memoryTransactions[id]
                  /\ \A e \in memoryStations[s].sessions : e.id = id => e \in x.sessions
  BY DEF FallbackStep
<1>2. /\ \A t \in Stations : memoryStations'[t] = IF t = s THEN x ELSE memoryStations[t]
      /\ job' = job /\ rows' = rows /\ rows = OldRows /\ dbStations' = dbStations
      /\ connected' = connected /\ connecting' = connecting
      /\ \A p \in Tasks : job[p].at = "idle"
  BY <1>1 DEF FallbackStep, TypeInv, TypeOK, taskVars, dbVars, connectionVars, SessionInv,
     QuietOffline
<1>3. AttemptsEnd' /\ QuietOffline' /\ MissingIsBlank'
  BY <1>1, <1>2 DEF SessionInv, AttemptsEnd, QuietOffline, MissingIsBlank
<1>4. \A n \in DOMAIN rows : rows[n].tx = Nobody /\ rows[n].origin = 0
  BY <1>2, LeftRows
<1>5. WriterIsWriting' /\ RowedIsNotUnsaved'
  BY <1>2, <1>4 DEF WriterIsWriting, RowedIsNotUnsaved
<1>6. ImageCoversMemory' /\ ImageIsKept' /\ ForgetIsSafe' /\ BootedIsKnown'
  BY <1>2 DEF ImageCoversMemory, ImageIsKept, ForgetIsSafe, BootedIsKnown, PromotionSteps, Tasks
<1>7. \A id \in FallbackIds : memoryTransactions[id].row = 0
  BY <1>4 DEF SessionInv, MappingFaithful, FallbackIds
<1>8. MappingFaithful'
  <2>1. \A id \in FallbackIds : memoryTransactions'[id].row = 0
    BY <1>1, <1>7 DEF NoMapping
  <2> QED BY <2>1 DEF MappingFaithful
<1>9. UnsavedIsBuffered'
  <2> SUFFICES ASSUME NEW id \in FallbackIds, Known(memoryTransactions'[id])
               PROVE  LET m == memoryTransactions'[id]
                      IN  /\ memoryStations'[m.station].live
                          /\ \E e \in memoryStations'[m.station].sessions : e.id = id
    BY DEF UnsavedIsBuffered
  <2>1. memoryTransactions'[id] # NoMapping
    BY DEF Known, NoMapping
  <2>2. CASE /\ memoryTransactions'[id] = [station |-> s, row |-> 0]
             /\ \E e \in x.sessions : e.id = id
    BY <1>1, <1>2, <2>2
  <2>3. CASE /\ memoryTransactions'[id] = memoryTransactions[id]
             /\ \A e \in memoryStations[s].sessions : e.id = id => e \in x.sessions
    <3> DEFINE m == memoryTransactions[id]
    <3>1. m.station \in Stations
      BY <2>3 DEF TypeInv, TypeOK, Mapping, Known
    <3>2. /\ memoryStations[m.station].live
          /\ \E e \in memoryStations[m.station].sessions : e.id = id
      BY <1>7, <2>3 DEF SessionInv, UnsavedIsBuffered
    <3> QED BY <1>1, <1>2, <2>3, <3>1, <3>2
  <2> QED BY <1>1, <2>1, <2>2, <2>3
<1>10. LiveSessionKept'
  <2> SUFFICES ASSUME NEW id \in FallbackIds, Known(memoryTransactions'[id])
               PROVE  InMemory(id)'
    BY DEF LiveSessionKept
  <2>1. memoryTransactions'[id].row = 0
    BY <1>1, <1>7 DEF NoMapping
  <2>2. \E e \in memoryStations'[memoryTransactions'[id].station].sessions : e.id = id
    BY <1>9, <2>1 DEF UnsavedIsBuffered
  <2>3. memoryTransactions'[id].station \in Stations
    <3>1. memoryTransactions'[id] # NoMapping
      BY DEF Known, NoMapping
    <3>2. memoryTransactions[id] \in Mapping
      BY DEF TypeInv, TypeOK
    <3> QED BY <1>1, <3>1, <3>2 DEF Mapping, Known
  <2> QED BY <2>2, <2>3 DEF InMemory
<1>11. BootedIsSomewhere'
  <2> SUFFICES ASSUME NEW t \in booted'
               PROVE  memoryStations'[t].live \/ dbStations'[t].live
    BY DEF BootedIsSomewhere
  <2>1. CASE t = s
    BY <1>1, <1>2, <2>1
  <2>2. CASE t # s
    <3>1. t \in booted /\ t \in Stations
      BY <2>2 DEF FallbackStep, TypeInv, TypeOK
    <3> QED BY <1>2, <2>2, <3>1 DEF SessionInv, BootedIsSomewhere
  <2> QED BY <2>1, <2>2
<1> QED BY <1>3, <1>5, <1>6, <1>8, <1>9, <1>10, <1>11 DEF SessionInv

\* Taking the buffered station, or a blank one, is taking its sessions.
LEMMA GetOrCreateKeeps ==
    ASSUME TypeInv, SessionInv, NEW s \in Stations
    PROVE  /\ GetOrCreateMemoryStation(s) \in MemoryStation
           /\ GetOrCreateMemoryStation(s).live
           /\ GetOrCreateMemoryStation(s).sessions = memoryStations[s].sessions
<1>1. GetOrCreateMemoryStation(s) \in MemoryStation
  BY GetOrCreateType DEF TypeInv
<1>2. CASE memoryStations[s].live
  BY <1>1, <1>2 DEF GetOrCreateMemoryStation
<1>3. CASE ~memoryStations[s].live
  BY <1>1, <1>3 DEF GetOrCreateMemoryStation, SessionInv, MissingIsBlank, NoMemoryStation
<1> QED BY <1>1, <1>2, <1>3

\* A handler that keeps the sessions of its station and the mappings.
LEMMA FallbackPlain ==
    ASSUME TypeInv, SessionInv, NEW s \in Stations, NEW x \in MemoryStation,
           ~connected, UNCHANGED <<connectionVars, dbVars, taskVars, memoryTransactions>>,
           SetMemoryStation(s, x), x.live, x.sessions = memoryStations[s].sessions,
           booted' \subseteq booted \cup {s}
    PROVE  FallbackStep(s)
BY DEF FallbackStep, SetMemoryStation

LEMMA FallbackIsStep ==
    ASSUME TypeInv, SessionInv, FallbackNext
    PROVE  \E s \in Stations : FallbackStep(s)
<1>1. PICK s \in Stations :
        \/ FallbackBoot(s)
        \/ FallbackHeartbeat(s)
        \/ \E c \in Connectors : FallbackStart(s, c) \/ \E raw \in RawStatuses : FallbackStatus(s, c, raw)
        \/ \E id \in openIds[s] : FallbackStop(s, id)
  BY DEF FallbackNext
<1> DEFINE station == GetOrCreateMemoryStation(s)
<1>2. station \in MemoryStation /\ station.live /\ station.sessions = memoryStations[s].sessions
  BY GetOrCreateKeeps
<1> HIDE DEF station
<1>3. CASE FallbackBoot(s)
  <2> DEFINE x == [station EXCEPT !.identified = TRUE, !.heard = "buffered",
                                  !.status = "AVAILABLE"]
  <2>1. x \in MemoryStation /\ x.live /\ x.sessions = memoryStations[s].sessions
    BY <1>2 DEF MemoryStation, StationStatusOf
  <2>2. SetMemoryStation(s, x)
    BY <1>3 DEF FallbackBoot, station
  <2> HIDE DEF x
  <2> QED BY <1>3, <2>1, <2>2, FallbackPlain DEF FallbackBoot, Fallback
<1>4. CASE FallbackHeartbeat(s)
  <2> DEFINE x == [station EXCEPT !.heard = "buffered"]
  <2>1. x \in MemoryStation /\ x.live /\ x.sessions = memoryStations[s].sessions
    BY <1>2 DEF MemoryStation
  <2>2. SetMemoryStation(s, x)
    BY <1>4 DEF FallbackHeartbeat, station
  <2> HIDE DEF x
  <2> QED BY <1>4, <2>1, <2>2, FallbackPlain DEF FallbackHeartbeat, Fallback
<1>5. ASSUME NEW c \in Connectors, NEW raw \in RawStatuses, FallbackStatus(s, c, raw)
      PROVE  FallbackStep(s)
  <2> DEFINE status     == ResolveConnectorStatus(raw)
             connectors == [station.connectors EXCEPT ![c] = status]
             after      == StatusAfterNotification(c, status, connectors, station.status)
             x          == [station EXCEPT !.connectors = connectors, !.status = after]
  <2>1. x \in MemoryStation /\ x.live /\ x.sessions = memoryStations[s].sessions
    <3>1. connectors \in [Connectors -> ConnectorStatus \cup {Absent}]
      BY <1>2, ResolveType DEF MemoryStation
    <3>2. after \in StationStatusOf
      BY NotificationType
    <3> HIDE DEF connectors, after
    <3> QED BY <1>2, <3>1, <3>2 DEF MemoryStation
  <2>2. SetMemoryStation(s, x)
    BY <1>5 DEF FallbackStatus, station
  <2> HIDE DEF x
  <2> QED BY <1>5, <2>1, <2>2, FallbackPlain DEF FallbackStatus, Fallback
<1>6. ASSUME NEW c \in Connectors, FallbackStart(s, c)
      PROVE  FallbackStep(s)
  <2> DEFINE id      == nextFallbackTransactionId
             session == [id |-> id, connector |-> c]
             x       == [station EXCEPT !.connectors[c] = "CHARGING", !.status = "CHARGING",
                                        !.sessions = @ \cup {session}]
  <2>1. id \in FallbackIds
    BY <1>6 DEF FallbackStart, TypeInv, TypeOK, FallbackIds
  <2>2. session \in Session /\ session.id = id
    BY <2>1 DEF Session
  <2>3. x \in MemoryStation /\ x.live /\ x.sessions = memoryStations[s].sessions \cup {session}
    <3>1. "CHARGING" \in StationStatusOf /\ "CHARGING" \in ConnectorStatus
      BY DEF StationStatusOf, ConnectorStatus
    <3> HIDE DEF session
    <3> QED BY <1>2, <2>2, <3>1 DEF MemoryStation
  <2>4. SetMemoryStation(s, x)
    BY <1>6 DEF FallbackStart, station
  <2>5. memoryTransactions' = [memoryTransactions EXCEPT ![id] = [station |-> s, row |-> 0]]
    BY <1>6 DEF FallbackStart
  <2>6. \A i \in FallbackIds :
           memoryTransactions'[i] = IF i = id THEN [station |-> s, row |-> 0]
                                    ELSE memoryTransactions[i]
    BY <2>1, <2>5 DEF TypeInv, TypeOK
  <2> HIDE DEF x, session
  <2>7. \A i \in FallbackIds :
           \/ memoryTransactions'[i] = [station |-> s, row |-> 0] /\ \E e \in x.sessions : e.id = i
           \/ /\ memoryTransactions'[i] = memoryTransactions[i]
              /\ \A e \in memoryStations[s].sessions : e.id = i => e \in x.sessions
    BY <2>2, <2>3, <2>6
  <2> QED BY <1>6, <2>3, <2>4, <2>7 DEF FallbackStep, FallbackStart, Fallback, SetMemoryStation
<1>7. ASSUME NEW id \in openIds[s], FallbackStop(s, id)
      PROVE  \E t \in Stations : FallbackStep(t)
  <2> DEFINE t   == MappingOf(id).station
             old == GetOrCreateMemoryStation(t)
  <2>1. t \in Stations /\ id \in FallbackIds
    BY <1>7 DEF FallbackStop, MappingOf, Known, NoMapping, TypeInv, TypeOK, Mapping
  <2>2. old \in MemoryStation /\ old.live /\ old.sessions = memoryStations[t].sessions
    BY <2>1, GetOrCreateKeeps
  <2>3. PICK e \in old.sessions :
          /\ e.id = id
          /\ LET connectors == [old.connectors EXCEPT
                                    ![e.connector] = IF @ = Absent THEN @ ELSE "AVAILABLE"]
             IN  SetMemoryStation(t, [old EXCEPT
                                !.connectors = connectors,
                                !.sessions   = @ \ {e},
                                !.status     = StatusFromConnectors(connectors, @)])
    BY <1>7 DEF FallbackStop
  <2> HIDE DEF old
  <2> DEFINE connectors == [old.connectors EXCEPT
                               ![e.connector] = IF @ = Absent THEN @ ELSE "AVAILABLE"]
             after      == StatusFromConnectors(connectors, old.status)
             x          == [old EXCEPT !.connectors = connectors, !.sessions = @ \ {e},
                                       !.status = after]
  <2>4. x \in MemoryStation /\ x.live /\ x.sessions = memoryStations[t].sessions \ {e}
    <3>1. connectors \in [Connectors -> ConnectorStatus \cup {Absent}]
      BY <2>2 DEF MemoryStation, ConnectorStatus
    <3>2. after \in StationStatusOf
      BY FromConnectorsType
    <3> HIDE DEF connectors, after
    <3> QED BY <2>2, <3>1, <3>2 DEF MemoryStation
  <2>5. SetMemoryStation(t, x)
    BY <2>2, <2>3 DEF MemoryStation
  <2>6. memoryTransactions' = [memoryTransactions EXCEPT ![id] = NoMapping]
    BY <1>7 DEF FallbackStop
  <2> HIDE DEF x
  <2>7. \A i \in FallbackIds :
           \/ memoryTransactions'[i] = NoMapping
           \/ /\ memoryTransactions'[i] = memoryTransactions[i]
              /\ \A f \in memoryStations[t].sessions : f.id = i => f \in x.sessions
    BY <2>1, <2>3, <2>4, <2>6 DEF TypeInv, TypeOK
  <2>8. FallbackStep(t)
    BY <1>7, <2>4, <2>5, <2>7 DEF FallbackStep, FallbackStop, Fallback, SetMemoryStation
  <2> QED BY <2>1, <2>8
<1> QED BY <1>1, <1>3, <1>4, <1>5, <1>6, <1>7

\* The first connection hands at most one image, that of now, to the listener.
LEMMA EstablishKeeps ==
    ASSUME TypeInv, TypeInv', SessionInv, EstablishConnection
    PROVE  SessionInv'
<1>1. /\ connected' /\ ~connecting'
      /\ UNCHANGED <<memoryStations, memoryTransactions, dbStations, rows, booted>>
  BY DEF EstablishConnection, ConnectOk, memoryVars, dbVars
<1>2. JobStep(Listener) /\ job'[Listener].at \in {"idle", "upsertStation"}
  <2>1. memoryStations \in [Stations -> MemoryStation]
    BY DEF TypeInv, TypeOK
  <2> QED BY <1>1, <2>1, ListenerStep DEF EstablishConnection
<1>3. \A p \in Tasks : job'[p].at \in PromotionSteps =>
         /\ p = Listener /\ job'[p].at = "upsertStation"
         /\ job'[p].image = memoryStations[job'[p].target]
  <2> SUFFICES ASSUME NEW p \in Tasks, job'[p].at \in PromotionSteps
               PROVE  /\ p = Listener /\ job'[p].at = "upsertStation"
                      /\ job'[p].image = memoryStations[job'[p].target]
    OBVIOUS
  <2>1. ~connected \/ connected
    OBVIOUS
  <2>2. ~connected /\ job[p].at = "idle" /\ job[Listener].at = "idle"
    BY DEF EstablishConnection, ConnectOk, SessionInv, AttemptsEnd, QuietOffline, Tasks
  <2>3. p = Listener
    BY <1>2, <2>2 DEF JobStep, PromotionSteps
  <2> QED BY <1>1, <1>2, <2>2, <2>3 DEF JobStep, PromotionSteps
<1>4. ImageCoversMemory'
  BY <1>1, <1>3 DEF ImageCoversMemory, PromotionSteps
<1>5. ImageIsKept'
  <2> SUFFICES ASSUME NEW p \in Tasks, job'[p].at \in PromotionSteps,
                      NEW e \in job'[p].image.sessions
               PROVE  InMemory(e.id)'
    BY DEF ImageIsKept
  <2>1. job'[p].target \in Stations
    BY DEF TypeInv, JobOK
  <2> QED BY <1>1, <1>3, <2>1 DEF InMemory
<1>6. ForgetIsSafe'
  BY <1>3 DEF ForgetIsSafe, PromotionSteps
<1>7. BootedIsKnown' /\ WriterIsWriting'
  <2>1. ~connected /\ rows = OldRows /\ \A p \in Tasks : job[p].at = "idle"
    BY DEF EstablishConnection, ConnectOk, SessionInv, AttemptsEnd, QuietOffline
  <2>2. \A n \in DOMAIN rows' : rows'[n].tx = Nobody
    BY <1>1, <2>1, LeftRows
  <2>3. \A p \in Calls : job'[p].at = "idle"
    BY <1>2, <2>1, NamesAssumption DEF JobStep, Tasks
  <2> QED BY <2>2, <2>3 DEF BootedIsKnown, WriterIsWriting
<1>8. AttemptsEnd' /\ QuietOffline'
  BY <1>1 DEF AttemptsEnd, QuietOffline
<1>9. /\ MissingIsBlank' /\ LiveSessionKept' /\ RowedIsNotUnsaved' /\ UnsavedIsBuffered'
      /\ MappingFaithful' /\ BootedIsSomewhere'
  BY <1>1 DEF SessionInv, MissingIsBlank, LiveSessionKept, InMemory, Recorded, RowedIsNotUnsaved,
     UnsavedIsBuffered, MappingFaithful, BootedIsSomewhere
<1> QED BY <1>4, <1>5, <1>6, <1>7, <1>8, <1>9 DEF SessionInv

\* Steps that change neither memory nor the database nor a job.
LEMMA UnchangedKeeps ==
    ASSUME SessionInv, UNCHANGED <<memoryVars, dbVars, taskVars, booted, connected>>,
           connecting' => ~connected
    PROVE  SessionInv'
BY DEF SessionInv, memoryVars, dbVars, taskVars, AttemptsEnd, QuietOffline, MissingIsBlank,
   WriterIsWriting, ImageCoversMemory, ImageIsKept, ForgetIsSafe, LiveSessionKept, InMemory,
   Recorded, RowedIsNotUnsaved, UnsavedIsBuffered, MappingFaithful, BootedIsSomewhere,
   BootedIsKnown

LEMMA ConnectionKeeps ==
    ASSUME TypeInv, TypeInv', SessionInv, ConnectionNext
    PROVE  SessionInv'
<1>1. CASE AttemptConnection
  BY <1>1, UnchangedKeeps DEF AttemptConnection, ReconnectTick
<1>2. CASE AttemptFails
  <2>1. ~connected /\ connected' = connected /\ ~connecting'
    BY <1>2 DEF AttemptFails, ConnectFail, SessionInv, AttemptsEnd, TypeInv, TypeOK,
       ConnectionTypeOK
  <2> QED BY <1>2, <2>1, UnchangedKeeps DEF AttemptFails
<1> QED BY <1>1, <1>2, EstablishKeeps DEF ConnectionNext

------------------------------------------------------------------------------
(* The theorems. *)

LEMMA SessionInit ==
    ASSUME Init
    PROVE  SessionInv
<1>1. /\ ~connected /\ rows = OldRows /\ \A p \in Tasks : job[p] = Idle
      /\ \A s \in Stations : memoryStations[s] = NoMemoryStation
      /\ \A id \in FallbackIds : memoryTransactions[id] = NoMapping
      /\ booted \subseteq Stations /\ \A s \in booted : dbStations[s].live
  BY DEF Init, ConnectionInit
<1>2. \A n \in DOMAIN rows : rows[n].tx = Nobody /\ rows[n].origin = 0
  BY <1>1, LeftRows
<1>3. Idle.at = "idle" /\ NoMapping.row = 0 /\ ~Known(NoMapping)
  BY DEF Idle, NoMapping, Known
<1>4. WriterIsWriting /\ RowedIsNotUnsaved
  BY <1>2 DEF WriterIsWriting, RowedIsNotUnsaved
<1>5. AttemptsEnd /\ QuietOffline /\ MissingIsBlank
  BY <1>1, <1>3 DEF AttemptsEnd, QuietOffline, MissingIsBlank
<1>6. ImageCoversMemory /\ ImageIsKept /\ ForgetIsSafe /\ BootedIsKnown
  BY <1>1, <1>3 DEF ImageCoversMemory, ImageIsKept, ForgetIsSafe, BootedIsKnown, PromotionSteps,
     Tasks
<1>7. LiveSessionKept /\ UnsavedIsBuffered /\ MappingFaithful /\ BootedIsSomewhere
  BY <1>1, <1>3 DEF LiveSessionKept, UnsavedIsBuffered, MappingFaithful, BootedIsSomewhere
<1> QED BY <1>4, <1>5, <1>6, <1>7 DEF SessionInv

LEMMA InvInit == Init => IndInv
BY TypeInit, SessionInit DEF IndInv, TypeInv

LEMMA InvStep ==
    ASSUME IndInv, [Next]_vars
    PROVE  IndInv'
<1>1. TypeInv /\ SessionInv /\ UnsavedIsBuffered
  BY DEF IndInv, TypeInv, SessionInv
<1>2. TypeInv'
  BY <1>1, TypeStep
<1> SUFFICES SessionInv'
  BY <1>2 DEF IndInv, TypeInv
<1>3. ASSUME NEW p \in Tasks, OnlineStep(p)
      PROVE  SessionInv'
  BY <1>1, <1>2, <1>3, OnlineKeeps
<1>4. CASE \E p \in Calls : ReceiveNext(p)
  BY <1>1, <1>3, <1>4, ReceiveIsOnline DEF Tasks
<1>5. CASE \E p \in Tasks : PromotionNext(p) \/ StatementNext(p) \/ PromotionRefused(p) \/ Fault(p)
  BY <1>1, <1>2, <1>3, <1>5, PromotionIsOnline, StatementIsOnline, GivesUpIsOnline
<1>6. CASE FallbackNext
  BY <1>1, <1>6, FallbackIsStep, FallbackKeeps
<1>7. CASE ConnectionNext
  BY <1>1, <1>2, <1>7, ConnectionKeeps
<1>8. CASE UNCHANGED vars
  BY <1>1, <1>8, UnchangedKeeps DEF vars, connectionVars, SessionInv, AttemptsEnd
<1> QED BY <1>4, <1>5, <1>6, <1>7, <1>8 DEF Next

\* The inductive invariant holds in every state the service can reach.
THEOREM Invariant == Spec => []IndInv
<1>1. IndInv /\ [Next]_vars => IndInv'
  BY InvStep
<1> QED BY <1>1, InvInit, PTL DEF Spec

\* Every variable keeps its type: in particular the rows a promotion creates
\* and the status every handler stores are values the tables can hold.
THEOREM TypeCorrect == Spec => []TypeOK
<1>1. IndInv => TypeOK
  BY DEF IndInv
<1> QED BY <1>1, Invariant, PTL

\* promoteMemoryStation and handleStopTransaction: a fallback session whose id
\* is still known is in memory or committed, whatever fails or interleaves.
THEOREM SessionsKept == Spec => []LiveSessionKept
<1>1. IndInv => LiveSessionKept
  BY DEF IndInv, SessionInv
<1> QED BY <1>1, Invariant, PTL

\* handleStopTransaction finds the station of an unsaved session buffered, and
\* the session in it.
THEOREM UnsavedBuffered == Spec => []UnsavedIsBuffered
<1>1. IndInv => UnsavedIsBuffered
  BY DEF IndInv, SessionInv
<1> QED BY <1>1, Invariant, PTL

\* A dbTransactionId names a row made from the session it stands for, also
\* after rollbacks and concurrent promotions.
THEOREM MappingsFaithful == Spec => []MappingFaithful
<1>1. IndInv => MappingFaithful
  BY DEF IndInv, SessionInv
<1> QED BY <1>1, Invariant, PTL

\* ensureStation never refuses a station whose BootNotification was accepted.
THEOREM BootedStationsKnown == Spec => []BootedIsKnown
<1>1. IndInv => BootedIsKnown
  BY DEF IndInv, SessionInv
<1> QED BY <1>1, Invariant, PTL
===============================================================================
