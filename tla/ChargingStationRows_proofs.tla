---------------------- MODULE ChargingStationRows_proofs ----------------------
(***************************************************************************)
(* Rows, ids and buffered stations of ChargingStation, for every value of  *)
(* its constants: RowInv, and the properties that follow from it.  As in   *)
(* ChargingStation_proofs an online step is a step of one task p,          *)
(* described by a few relations, one for each kind of thing the invariants *)
(* speak of: rows, the call p handles, the ids stations know, the image.   *)
(***************************************************************************)
EXTENDS ChargingStation_proofs, FiniteSetTheorems

USE NamesAssumption, NumbersAssumption

\* What a step of p does to a row that is there: nothing, commit or roll back
\* what p wrote, complete or meter the row p works on.
RowChange(p, n) ==
    \/ rows'[n] = rows[n]
    \/ /\ Commit(p) /\ rows[n].tx = p
       /\ rows'[n] = [rows[n] EXCEPT !.tx = Nobody]
    \/ /\ rows[n].tx = p
       /\ rows'[n] = [rows[n] EXCEPT !.tx = Nobody, !.status = "ROLLEDBACK"]
    \/ /\ job[p].at = "closeRow" /\ n = job[p].row
       /\ rows'[n] = [rows[n] EXCEPT !.status = "COMPLETED", !.stoppedBy = job[p].station]
    \/ /\ job[p].at = "meter" /\ Visible(job[p].row) /\ n = job[p].row
       /\ rows'[n] = [rows[n] EXCEPT !.meteredBy = @ \cup {job[p].station}]

\* The row p may add: of a session of the image it promotes, or of its own call.
RowAdded(p, row) ==
    \/ /\ job[p].at = "createRows" /\ job' = job
       /\ \E e \in job[p].image.sessions :
              row = NewRow(job[p].target, e.connector, p, e.id) /\ e.id \in FallbackIds
    \/ /\ job[p].at = "insertRow"
       /\ row = NewRow(job[p].station, job[p].connector, Nobody, 0)
       /\ job'[p].at = "writeStation" /\ job'[p].kind = "Start" /\ job'[p].row = NextRowId

RowStep(p) ==
    /\ DOMAIN rows \subseteq DOMAIN rows'
    /\ \A n \in DOMAIN rows : RowChange(p, n)
    /\ \A n \in DOMAIN rows' :
           \/ n \in DOMAIN rows
           \/ n = Len(rows) + 1 /\ \E row \in Row : rows'[n] = row /\ RowAdded(p, row)

\* The call p handles is over, goes on, or has just arrived; then it names an
\* id its station was given.
CallStep(p) ==
    /\ \A q \in Tasks \ {p} : job'[q] = job[q]
    /\ \/ job'[p].kind = "none"
       \/ /\ job'[p].kind = job[p].kind
          /\ job'[p].station = job[p].station /\ job'[p].id = job[p].id
       \/ job'[p].kind \in {"Stop", "Meter"} => job'[p].id \in openIds[job'[p].station]

\* Ids are given by the end of a StartTransaction and taken back by the end of
\* a stop, which drops the mapping as well.
IdStep(p) ==
    /\ nextFallbackTransactionId' = nextFallbackTransactionId
    /\ \A s \in Stations :
           /\ openIds'[s] \subseteq openIds[s] \cup
                  {r \in {job[p].row} : job[p].at = "writeStation" /\ job[p].kind = "Start"
                                        /\ s = job[p].station}
           /\ \A id \in openIds[s] \ openIds'[s] : job[p].at = "unmap" /\ id = job[p].id
    /\ \A id \in FallbackIds :
           \/ memoryTransactions'[id] = memoryTransactions[id]
           \/ Known(memoryTransactions'[id])
           \/ job[p].at = "unmap" /\ Known(job[p].mapping) /\ id = job[p].id
    /\ \/ faults' = faults
             /\ (job[p].at = "writeStation" /\ job[p].kind = "Start"
                 => job[p].row \in openIds'[job[p].station])
       \/ faults' = faults + 1

\* Memory lets go of the station p has promoted; the database loses nothing it
\* has, but takes from the image whether the station is identified.
BufferStep(p) ==
    /\ \A s \in Stations :
           \/ memoryStations'[s] = memoryStations[s]
           \/ /\ job[p].at = "forget" /\ s = job[p].target
              /\ ~memoryStations'[s].identified /\ Reported(memoryStations'[s]) = {}
    /\ \A s \in Stations :
           \/ dbStations[s].identified => dbStations'[s].identified
           \/ Commit(p) /\ s = job[p].target
    /\ Commit(p) =>
           /\ dbStations'[job[p].target].identified = job[p].image.identified
           /\ \A c \in Reported(job[p].image) : dbConnectors'[job[p].target][c] # Absent
    /\ \A s \in Stations : \A c \in Connectors :
           dbConnectors[s][c] # Absent => dbConnectors'[s][c] # Absent
    /\ job'[p].at = "forget" => Commit(p)

TaskStep(p) ==
    /\ OnlineStep(p) /\ RowStep(p) /\ CallStep(p) /\ IdStep(p) /\ BufferStep(p)
    /\ CallIsOK(job[p])'

------------------------------------------------------------------------------
(* Rows. *)

LEMMA SameRowsStep ==
    ASSUME NEW p, rows' = rows
    PROVE  RowStep(p)
BY DEF RowStep, RowChange

LEMMA AddedStep ==
    ASSUME TypeInv, NEW p, NEW row \in Row, RowAdded(p, row), rows' = Append(rows, row)
    PROVE  RowStep(p)
<1>1. rows \in Seq(Row)
  BY DEF TypeInv, TypeOK
<1>2. /\ DOMAIN rows = 1..Len(rows) /\ DOMAIN rows' = 1..(Len(rows) + 1) /\ Len(rows) \in Nat
      /\ \A n \in 1..Len(rows) : rows'[n] = rows[n]
      /\ rows'[Len(rows) + 1] = row
  BY <1>1, AppendRow
<1> QED BY <1>2 DEF RowStep, RowChange

LEMMA CreateRowStep ==
    ASSUME TypeInv, NEW p \in Tasks, CreateRow(p)
    PROVE  RowStep(p)
<1>1. PICK e \in Uncreated(p) : rows' = Append(rows, NewRow(job[p].target, e.connector, p, e.id))
  BY DEF CreateRow
<1>2. e \in job[p].image.sessions /\ e.id \in FallbackIds /\ e.connector \in Connectors
  <2>1. e \in job[p].image.sessions /\ job[p].image \in MemoryStation
    BY Types DEF Uncreated
  <2> QED BY <2>1 DEF MemoryStation, Session
<1>3. job[p].at = "createRows" /\ job' = job /\ job[p].target \in Stations
  BY DEF CreateRow, taskVars, TypeInv, JobOK, PromotionSteps
<1> DEFINE r == NewRow(job[p].target, e.connector, p, e.id)
<1>4. r \in Row
  BY <1>2, <1>3, NewRowType
<1>5. RowAdded(p, r)
  BY <1>2, <1>3 DEF RowAdded
<1>6. rows' = Append(rows, r)
  BY <1>1
<1> HIDE DEF r
<1> QED BY <1>4, <1>5, <1>6, AddedStep

LEMMA InsertRowStep ==
    ASSUME TypeInv, NEW p \in Tasks, InsertRow(p)
    PROVE  RowStep(p)
<1> DEFINE r == NewRow(job[p].station, job[p].connector, Nobody, 0)
<1>1. r \in Row
  <2>1. job[p].at = "insertRow" /\ job[p].kind = "Start"
    BY DEF InsertRow, TypeInv, JobOK
  <2> QED BY <2>1, NewRowType DEF TypeInv, JobOK
<1>2. RowAdded(p, r)
  <2>1. job' = [job EXCEPT ![p] = [job[p] EXCEPT !.at = "writeStation", !.row = NextRowId]]
    BY DEF InsertRow, GotoRow
  <2>2. job[p].at = "insertRow" /\ job[p].kind = "Start"
    BY DEF InsertRow, TypeInv, JobOK
  <2>3. job'[p].at = "writeStation" /\ job'[p].kind = "Start" /\ job'[p].row = NextRowId
    BY <2>1, <2>2 DEF TypeInv, TypeOK, Job
  <2> QED BY <2>2, <2>3 DEF RowAdded
<1>3. rows' = Append(rows, r)
  BY DEF InsertRow
<1> HIDE DEF r
<1> QED BY <1>1, <1>2, <1>3, AddedStep

\* Rows rewritten in place.
LEMMA RewriteStep ==
    ASSUME NEW p \in Tasks,
           \/ Commit(p) \/ Meter(p) \/ CloseRow(p) \/ GivesUp(p)
    PROVE  RowStep(p)
<1>1. CASE Commit(p)
  BY <1>1 DEF Commit, WrittenBack, RowStep, RowChange
<1>2. CASE GivesUp(p)
  BY <1>2 DEF GivesUp, RolledBack, RowStep, RowChange
<1>3. CASE Meter(p)
  <2> DEFINE i == job[p].row
  <2>1. /\ job[p].at = "meter" /\ Visible(job[p].row)
        /\ rows' = [rows EXCEPT ![i].meteredBy = @ \cup {job[p].station}]
    BY <1>3 DEF Meter
  <2>2. DOMAIN rows' = DOMAIN rows
    BY <2>1
  <2>3. \A n \in DOMAIN rows : RowChange(p, n)
    <3> SUFFICES ASSUME NEW n \in DOMAIN rows PROVE RowChange(p, n)
      OBVIOUS
    <3> HIDE DEF i
    <3>1. rows'[n] = IF n = i THEN [rows[n] EXCEPT !.meteredBy = @ \cup {job[p].station}]
                     ELSE rows[n]
      BY <2>1
    <3> QED BY <2>1, <3>1 DEF RowChange, i
  <2> QED BY <2>2, <2>3 DEF RowStep
<1>4. CASE CloseRow(p)
  <2> DEFINE i == job[p].row
  <2>1. /\ job[p].at = "closeRow"
        /\ rows' = [rows EXCEPT ![i].status = "COMPLETED", ![i].stoppedBy = job[p].station]
    BY <1>4 DEF CloseRow
  <2>2. DOMAIN rows' = DOMAIN rows
    BY <2>1
  <2>3. \A n \in DOMAIN rows : RowChange(p, n)
    <3> SUFFICES ASSUME NEW n \in DOMAIN rows PROVE RowChange(p, n)
      OBVIOUS
    <3> HIDE DEF i
    <3>1. rows'[n] = IF n = i
                     THEN [rows[n] EXCEPT !.status = "COMPLETED", !.stoppedBy = job[p].station]
                     ELSE rows[n]
      BY <2>1
    <3> QED BY <2>1, <3>1 DEF RowChange, i
  <2> QED BY <2>2, <2>3 DEF RowStep
<1> QED BY <1>1, <1>2, <1>3, <1>4

LEMMA TaskRows ==
    ASSUME TypeInv, NEW p \in Tasks,
           \/ PromotionNext(p) \/ StatementNext(p) \/ Fault(p) \/ PromotionRefused(p)
           \/ ReceiveNext(p)
    PROVE  RowStep(p)
<1>1. CASE PromotionNext(p)
  <2>1. \/ CreateRow(p) \/ Commit(p) \/ rows' = rows
    BY <1>1 DEF PromotionNext, UpsertStation, UpsertConnectors, ForgetThenFind, ForgetThenReject,
       ForgetThenNext, dbVars
  <2> QED BY <2>1, CreateRowStep, RewriteStep, SameRowsStep
<1>2. CASE StatementNext(p)
  <2>1. \/ InsertRow(p) \/ Meter(p) \/ CloseRow(p) \/ rows' = rows
    BY <1>2 DEF StatementNext, BootUpsert, Find, FindMissing, Touch, WriteConnector,
       ConnectorRefused, WriteStation, MeterRefused, FindRow, FindRowMissing, FreeConnector,
       FreeStation, Unmap, dbVars
  <2> QED BY <2>1, InsertRowStep, RewriteStep, SameRowsStep
<1>3. CASE Fault(p) \/ PromotionRefused(p)
  BY <1>3, RewriteStep DEF Fault, PromotionRefused
<1>4. CASE ReceiveNext(p)
  <2>1. \E call : Receive(p, call)
    BY <1>4, Zenon DEF ReceiveNext, ReceiveBoot, ReceiveHeartbeat, ReceiveStart, ReceiveStatus,
       ReceiveStop, ReceiveMeter
  <2>2. rows' = rows
    BY <2>1 DEF Receive, dbVars
  <2> QED BY <2>2, SameRowsStep
<1> QED BY <1>1, <1>2, <1>3, <1>4

\* Rows stay, with their session and station; what is committed stays so, and
\* what is completed and committed too.
RowsGrow ==
    /\ Len(rows) <= Len(rows')
    /\ \A n \in DOMAIN rows :
           /\ n \in DOMAIN rows'
           /\ rows'[n].origin = rows[n].origin
           /\ rows'[n].station = rows[n].station
           /\ Committed(rows[n]) => Committed(rows'[n])
           /\ Committed(rows[n]) /\ rows[n].status = "COMPLETED" => rows'[n].status = "COMPLETED"
           /\ rows[n].status # "STARTED" => rows'[n].status # "STARTED"

LEMMA RowTypes ==
    ASSUME TypeInv
    PROVE  /\ rows \in Seq(Row) /\ Len(rows) \in Nat /\ DOMAIN rows = 1..Len(rows)
           /\ \A n \in DOMAIN rows : rows[n] \in Row
           /\ \A r \in RowIds : r \in DOMAIN rows
<1>1. rows \in Seq(Row)
  BY DEF TypeInv, TypeOK
<1>2. /\ Len(rows) \in Nat /\ DOMAIN rows = 1..Len(rows)
      /\ \A n \in DOMAIN rows : rows[n] \in Row
  BY <1>1
<1>3. \A r \in RowIds : r \in DOMAIN rows
  BY <1>1, <1>2 DEF RowIds
<1> QED BY <1>1, <1>2, <1>3

LEMMA TaskIsSomebody == \A p \in Tasks : p # Nobody
BY NamesAssumption DEF Tasks

LEMMA StepGrows ==
    ASSUME TypeInv, TypeInv', NEW p \in Tasks, CallIsOK(job[p]), RowStep(p)
    PROVE  RowsGrow
<1>1. \A n \in DOMAIN rows :
         /\ rows'[n].origin = rows[n].origin
         /\ rows'[n].station = rows[n].station
         /\ Committed(rows[n]) => Committed(rows'[n])
         /\ Committed(rows[n]) /\ rows[n].status = "COMPLETED" => rows'[n].status = "COMPLETED"
         /\ rows[n].status # "STARTED" => rows'[n].status # "STARTED"
  <2> SUFFICES ASSUME NEW n \in DOMAIN rows
               PROVE  /\ rows'[n].origin = rows[n].origin
                      /\ rows'[n].station = rows[n].station
                      /\ Committed(rows[n]) => Committed(rows'[n])
                      /\ Committed(rows[n]) /\ rows[n].status = "COMPLETED"
                         => rows'[n].status = "COMPLETED"
                      /\ rows[n].status # "STARTED" => rows'[n].status # "STARTED"
    OBVIOUS
  <2>1. rows[n] \in Row /\ p # Nobody
    BY RowTypes, TaskIsSomebody
  <2>2. CASE rows'[n] = rows[n]
    BY <2>2 DEF Committed
  <2>3. CASE rows[n].tx = p /\ rows'[n] = [rows[n] EXCEPT !.tx = Nobody]
    BY <2>1, <2>3 DEF Committed, Row
  <2>4. CASE rows[n].tx = p /\ rows'[n] = [rows[n] EXCEPT !.tx = Nobody, !.status = "ROLLEDBACK"]
    BY <2>1, <2>4 DEF Committed, Row
  <2>5. CASE rows'[n] = [rows[n] EXCEPT !.status = "COMPLETED", !.stoppedBy = job[p].station]
    BY <2>1, <2>5 DEF Committed, Row
  <2>6. CASE rows'[n] = [rows[n] EXCEPT !.meteredBy = @ \cup {job[p].station}]
    BY <2>1, <2>6 DEF Committed, Row
  <2> QED BY <2>2, <2>3, <2>4, <2>5, <2>6 DEF RowStep, RowChange
<1>2. Len(rows) \in Nat /\ DOMAIN rows = 1..Len(rows)
  BY RowTypes
<1>3. Len(rows') \in Nat /\ DOMAIN rows' = 1..Len(rows')
  BY DEF TypeInv, TypeOK
<1>4. Len(rows) <= Len(rows')
  BY <1>2, <1>3 DEF RowStep
<1> QED BY <1>1, <1>4 DEF RowStep, RowsGrow

\* What holds of a call goes on holding while rows grow.
LEMMA VisibleLasts ==
    ASSUME TypeInv, TypeInv', RowsGrow, NEW r, r \in RowIds
    PROVE  /\ (r \in RowIds)'
           /\ rows'[r].origin = rows[r].origin
           /\ rows'[r].station = rows[r].station
           /\ Visible(r) => Visible(r)'
           /\ Visible(r) /\ rows[r].status = "COMPLETED" => rows'[r].status = "COMPLETED"
<1>1. r \in DOMAIN rows
  BY RowTypes
<1>2. (r \in RowIds)'
  BY <1>1 DEF RowIds, RowsGrow
<1> QED BY <1>1, <1>2 DEF RowsGrow, Visible

LEMMA CallLasts ==
    ASSUME TypeInv, TypeInv', RowsGrow, NEW call, CallIsOK(call)
    PROVE  CallIsOK(call)'
<1>1. ASSUME call.row \in RowIds
      PROVE  /\ (call.row \in RowIds)'
             /\ rows'[call.row].origin = rows[call.row].origin
             /\ rows'[call.row].station = rows[call.row].station
             /\ Visible(call.row) => Visible(call.row)'
             /\ Visible(call.row) /\ rows[call.row].status = "COMPLETED"
                => rows'[call.row].status = "COMPLETED"
  BY <1>1, VisibleLasts
<1>2. Visible(call.row) => call.row \in RowIds
  BY DEF Visible
<1>3. call.at \in StopSteps \ {"findRow"} => Visible(call.row)'
  BY <1>1, <1>2 DEF CallIsOK
<1>4. call.at \in StopSteps \ {"findRow", "closeRow"} => rows'[call.row].status = "COMPLETED"
  BY <1>1, <1>2 DEF CallIsOK
<1>5. call.at \in StopSteps \cup {"meter"} => RowOfCall(call)'
  BY <1>1 DEF CallIsOK, RowOfCall
<1> QED BY <1>1, <1>3, <1>4, <1>5 DEF CallIsOK

------------------------------------------------------------------------------
(* Calls. *)

LEMMA GotoFields ==
    ASSUME TypeInv, NEW p \in Tasks, NEW step, Goto(p, step)
    PROVE  /\ CallStep(p)
           /\ job'[p].at = step /\ job'[p].kind = job[p].kind
           /\ job'[p].station = job[p].station /\ job'[p].status = job[p].status
           /\ job'[p].id = job[p].id /\ job'[p].mapping = job[p].mapping
           /\ job'[p].row = job[p].row
           /\ job'[p].target = job[p].target /\ job'[p].image = job[p].image
<1>1. job[p] \in Job
  BY DEF TypeInv, TypeOK
<1>2. job' = [job EXCEPT ![p] = [job[p] EXCEPT !.at = step]]
  BY DEF Goto
<1>3. job'[p] = [job[p] EXCEPT !.at = step] /\ \A q \in Tasks \ {p} : job'[q] = job[q]
  BY <1>2 DEF TypeInv, TypeOK
<1> QED BY <1>1, <1>3 DEF Job, CallStep

LEMMA GotoRowFields ==
    ASSUME TypeInv, NEW p \in Tasks, NEW step, NEW r, GotoRow(p, step, r)
    PROVE  /\ CallStep(p)
           /\ job'[p].at = step /\ job'[p].kind = job[p].kind
           /\ job'[p].station = job[p].station /\ job'[p].status = job[p].status
           /\ job'[p].id = job[p].id /\ job'[p].mapping = job[p].mapping
           /\ job'[p].row = r
<1>1. job[p] \in Job
  BY DEF TypeInv, TypeOK
<1>2. job' = [job EXCEPT ![p] = [job[p] EXCEPT !.at = step, !.row = r]]
  BY DEF GotoRow
<1>3. job'[p] = [job[p] EXCEPT !.at = step, !.row = r] /\ \A q \in Tasks \ {p} : job'[q] = job[q]
  BY <1>2 DEF TypeInv, TypeOK
<1> QED BY <1>1, <1>3 DEF Job, CallStep

\* Steps at which a handler works on a row.
RowSteps == StopSteps \cup {"meter", "writeStation"}

LEMMA GotoPlain ==
    ASSUME TypeInv, NEW p \in Tasks, NEW step, Goto(p, step), CallIsOK(job[p]),
           step \notin RowSteps \/ (step = "writeStation" /\ job[p].kind # "Start")
    PROVE  CallStep(p) /\ CallIsOK(job[p])'
BY GotoFields DEF CallIsOK, RowSteps, StopSteps

LEMMA AnsweredCall ==
    ASSUME TypeInv, NEW p \in Tasks, Answered(p)
    PROVE  CallStep(p) /\ CallIsOK(job[p])' /\ job'[p] = Idle
<1>1. job'[p] = Idle /\ \A q \in Tasks \ {p} : job'[q] = job[q]
  BY DEF TypeInv, TypeOK, Answered
<1>2. Idle.kind = "none" /\ Idle.at = "idle"
  BY DEF Idle
<1> QED BY <1>1, <1>2 DEF CallStep, CallIsOK, StopSteps

\* A call that arrives, or the listener's next promotion.
LEMMA PromotingCall ==
    ASSUME TypeInv, NEW p \in Tasks, NEW caller \in Job, NEW s, NEW memory, NEW after,
           job' = [job EXCEPT ![p] = Promoting(caller, s, memory, after)],
           after \notin RowSteps,
           caller.kind \in {"Status", "Start"} => caller.status # Absent,
           caller.kind \in {"Stop", "Meter"} => caller.id \in openIds[caller.station]
    PROVE  CallStep(p) /\ CallIsOK(job[p])' /\ job'[p].at \in {"upsertStation", after}
<1> DEFINE j == Promoting(caller, s, memory, after)
<1>1. /\ j.kind = caller.kind /\ j.station = caller.station /\ j.id = caller.id
      /\ j.status = caller.status /\ j.at \in {"upsertStation", after}
  BY DEF Promoting, Job
<1>2. job' = [job EXCEPT ![p] = j]
  OBVIOUS
<1> HIDE DEF j
<1>3. job'[p] = j /\ \A q \in Tasks \ {p} : job'[q] = job[q]
  BY <1>2 DEF TypeInv, TypeOK
<1>4. CallStep(p)
  BY <1>1, <1>3 DEF CallStep
<1> QED BY <1>1, <1>3, <1>4 DEF CallIsOK, RowSteps, StopSteps

LEMMA ListenerCall ==
    ASSUME TypeInv, NEW ids, NEW memory, ListenerTurn(ids, memory)
    PROVE  /\ CallStep(Listener) /\ CallIsOK(job[Listener])'
           /\ job'[Listener].at \in {"idle", "upsertStation"}
<1>0. /\ Listener \in Tasks /\ Idle \in Job /\ Idle.kind = "none" /\ Idle.at = "idle"
      /\ "idle" \notin RowSteps
  BY NullTypes DEF Tasks, Idle, RowSteps, StopSteps
<1>1. CASE \E s \in ids : job' = [job EXCEPT ![Listener] = Promoting(Idle, s, memory, "idle")]
  <2>1. PICK s \in ids : job' = [job EXCEPT ![Listener] = Promoting(Idle, s, memory, "idle")]
    BY <1>1
  <2>2. /\ Idle.kind \in {"Status", "Start"} => Idle.status # Absent
        /\ Idle.kind \in {"Stop", "Meter"} => Idle.id \in openIds[Idle.station]
    BY <1>0
  <2>3. Listener \in Tasks /\ Idle \in Job /\ "idle" \notin RowSteps
    BY <1>0
  <2> QED BY <2>1, <2>2, <2>3, PromotingCall
<1>2. CASE job' = [job EXCEPT ![Listener] = Idle]
  BY <1>0, <1>2, AnsweredCall DEF Answered
<1> QED BY <1>1, <1>2 DEF ListenerTurn

LEMMA PromotionCall ==
    ASSUME TypeInv, NEW p \in Tasks, CallIsOK(job[p]), RowsGrow, PromotionNext(p)
    PROVE  CallStep(p) /\ CallIsOK(job[p])'
<1>1. CASE \E step \in {"upsertConnectors", "createRows", "forget", "find"} : Goto(p, step)
  <2>1. PICK step \in {"upsertConnectors", "createRows", "forget", "find"} : Goto(p, step)
    BY <1>1
  <2>2. step \notin RowSteps
    BY DEF RowSteps, StopSteps
  <2> QED BY <2>1, <2>2, GotoPlain
<1>2. CASE Answered(p)
  BY <1>2, AnsweredCall
<1>3. CASE CreateRow(p)
  BY <1>3 DEF CreateRow, taskVars, CallStep, CallIsOK, StopSteps
<1>4. CASE p = Listener /\ ForgetThenNext
  <2>1. PICK memory : memory = memoryStations' /\ ListenerTurn(queue, memory)
    BY <1>4 DEF ForgetThenNext
  <2>2. PICK ids : ids = queue /\ ListenerTurn(ids, memory)
    BY <2>1
  <2> QED BY <1>4, <2>2, ListenerCall
<1> QED
  BY <1>1, <1>2, <1>3, <1>4
  DEF PromotionNext, UpsertStation, UpsertConnectors, Commit, ForgetThenFind, ForgetThenReject

LEMMA GivingUpCall ==
    ASSUME TypeInv, NEW p \in Tasks, GivesUp(p)
    PROVE  CallStep(p) /\ CallIsOK(job[p])'
<1>1. CASE Answered(p)
  BY <1>1, AnsweredCall
<1>2. CASE p = Listener /\ ListenerTurn(queue, memoryStations)
  <2>1. PICK memory, ids : ListenerTurn(ids, memory)
    BY <1>2
  <2> QED BY <1>2, <2>1, ListenerCall
<1> QED BY <1>1, <1>2 DEF GivesUp

\* The row MeterValues resolves its id to, and the one StopTransaction does.
LEMMA RowOfMapping ==
    ASSUME TypeInv, MappingFaithful, NEW id, MappingOf(id).row # 0
    PROVE  /\ id \in FallbackIds /\ MappingOf(id).row \in RowIds
           /\ rows[MappingOf(id).row].origin = id
<1>1. id \in FallbackIds /\ MappingOf(id) = memoryTransactions[id]
  BY DEF MappingOf, NoMapping
<1>2. /\ memoryTransactions[id].row \in DOMAIN rows
      /\ rows[memoryTransactions[id].row].origin = id
  BY <1>1 DEF MappingFaithful
<1>3. memoryTransactions[id].row \in Nat
  BY <1>1 DEF TypeInv, TypeOK, Mapping
<1>4. memoryTransactions[id].row \in RowIds
  BY <1>2, <1>3, RowTypes DEF RowIds
<1> QED BY <1>1, <1>2, <1>4

LEMMA StatementCall ==
    ASSUME TypeInv, TypeInv', MappingFaithful, OldRowsStay,
           NEW p \in Tasks, CallIsOK(job[p]), RowsGrow, StatementNext(p)
    PROVE  CallStep(p) /\ CallIsOK(job[p])'
<1>1. CASE Answered(p)
  BY <1>1, AnsweredCall
<1>2. CASE \E step \in {"touch", "writeConnector", "insertRow"} : Goto(p, step)
  <2>1. PICK step \in {"touch", "writeConnector", "insertRow"} : Goto(p, step)
    BY <1>2
  <2>2. step \notin RowSteps
    BY DEF RowSteps, StopSteps
  <2> QED BY <2>1, <2>2, GotoPlain
<1>3. CASE WriteConnector(p)
  <2>1. \/ \E step \in {"touch", "writeConnector", "insertRow"} : Goto(p, step)
        \/ job[p].kind = "Status" /\ Goto(p, "writeStation")
        \/ Answered(p)
    BY <1>3 DEF WriteConnector
  <2>2. CASE job[p].kind = "Status" /\ Goto(p, "writeStation")
    BY <2>2, GotoPlain
  <2> QED BY <1>1, <1>2, <2>1, <2>2
<1>4. ASSUME NEW m \in Mapping, NEW r, job[p].at = "find", job[p].kind = "Meter",
             m = MappingOf(job[p].id), r = (IF m.row # 0 THEN m.row ELSE job[p].id),
             rows' = rows, GotoRow(p, "meter", r)
      PROVE  CallStep(p) /\ CallIsOK(job[p])'
  <2>1. /\ CallStep(p) /\ job'[p].at = "meter" /\ job'[p].kind = "Meter"
        /\ job'[p].id = job[p].id /\ job'[p].row = r
    BY <1>4, GotoRowFields
  <2>2. r = job[p].id \/ (job[p].id \in FallbackIds /\ r \in RowIds /\ rows[r].origin = job[p].id)
    BY <1>4, RowOfMapping
  <2>3. RowOfCall(job[p])'
    BY <1>4, <2>1, <2>2 DEF RowOfCall, RowIds
  <2> QED BY <2>1, <2>3 DEF CallIsOK, StopSteps
<1>5. CASE Find(p)
  <2>1. MappingOf(job[p].id) \in Mapping
    BY NullTypes DEF MappingOf, TypeInv, TypeOK
  <2> QED BY <1>2, <1>4, <1>5, <2>1 DEF Find, dbVars
<1>6. CASE InsertRow(p)
  <2>1. job[p].at = "insertRow" /\ job[p].kind = "Start"
    BY <1>6 DEF InsertRow, TypeInv, JobOK
  <2>2. GotoRow(p, "writeStation", NextRowId)
    BY <1>6 DEF InsertRow
  <2>3. PICK r : r = NextRowId /\ GotoRow(p, "writeStation", r)
    BY <2>2
  <2>4. /\ CallStep(p) /\ job'[p].at = "writeStation" /\ job'[p].kind = "Start"
        /\ job'[p].station = job[p].station /\ job'[p].row = NextRowId
        /\ job'[p].status = job[p].status
    BY <2>1, <2>3, GotoRowFields
  <2> DEFINE new == NewRow(job[p].station, job[p].connector, Nobody, 0)
  <2>5. new \in Row /\ new.station = job[p].station
    BY <2>1, NewRowType DEF TypeInv, JobOK, NewRow
  <2>6. rows' = Append(rows, new)
    BY <1>6 DEF InsertRow
  <2> HIDE DEF new
  <2>7. Len(rows') = Len(rows) + 1 /\ Len(rows) \in Nat /\ rows'[Len(rows) + 1] = new
    BY <2>5, <2>6, RowTypes
  <2>8. NextRowId \in DOMAIN rows' /\ NextRowId > Len(OldRows)
    <3>1. Len(OldRows) \in Nat /\ Len(rows) >= Len(OldRows)
      BY LeftRows DEF OldRowsStay
    <3>2. DOMAIN rows' = 1..Len(rows')
      BY DEF TypeInv, TypeOK
    <3> QED BY <2>7, <3>1, <3>2 DEF NextRowId
  <2>9. job'[p].row \in RowIds' /\ rows'[job'[p].row].station = job'[p].station
    BY <2>4, <2>5, <2>7, <2>8 DEF RowIds, NextRowId
  <2>10. job'[p].status # Absent
    BY <2>1, <2>4 DEF CallIsOK
  <2> QED BY <2>4, <2>8, <2>9, <2>10 DEF CallIsOK, StopSteps
<1>7. ASSUME NEW from \in StopSteps, NEW to \in StopSteps \ {"findRow"},
             job[p].at = from, Goto(p, to),
             from = "findRow" => Visible(job[p].row) /\ to = "closeRow",
             to = "closeRow" \/ rows'[job[p].row].status = "COMPLETED"
      PROVE  CallStep(p) /\ CallIsOK(job[p])'
  <2>1. /\ CallStep(p)
        /\ job'[p].at = to /\ job'[p].kind = job[p].kind
        /\ job'[p].station = job[p].station /\ job'[p].status = job[p].status
        /\ job'[p].id = job[p].id /\ job'[p].mapping = job[p].mapping
        /\ job'[p].row = job[p].row
    BY <1>7, GotoFields
  <2>2. PICK r : r = job[p].row
    OBVIOUS
  <2>3. Visible(r) /\ r \in RowIds
    BY <1>7, <2>2 DEF CallIsOK, Visible
  <2>4. Visible(r)' /\ (r \in RowIds)' /\ rows'[r].origin = rows[r].origin
    BY <2>3, VisibleLasts
  <2>5. Visible(job[p].row)'
    BY <2>1, <2>2, <2>4 DEF Visible, RowIds
  <2>6. job'[p].row \in RowIds' /\ rows'[job[p].row].origin = rows[job[p].row].origin
    BY <2>1, <2>2, <2>4 DEF RowIds
  <2>7. job[p].kind = "Stop" /\ RowOfCall(job[p])
    BY <1>7 DEF CallIsOK
  <2>8. RowOfCall(job[p])'
    BY <2>1, <2>6, <2>7 DEF RowOfCall
  <2>9. Known(job'[p].mapping) => job'[p].id \in FallbackIds /\ rows'[job[p].row].origin = job'[p].id
    BY <1>7, <2>1, <2>6 DEF CallIsOK
  <2> QED BY <1>7, <2>1, <2>5, <2>6, <2>7, <2>8, <2>9 DEF CallIsOK, StopSteps
<1>8. CASE FindRow(p)
  BY <1>7, <1>8 DEF FindRow, StopSteps
<1>9. CASE CloseRow(p)
  <2>1. job[p].at = "closeRow" /\ Goto(p, "freeConnector")
    BY <1>9 DEF CloseRow
  <2>2. job[p].row \in DOMAIN rows
    BY <2>1, RowTypes DEF CallIsOK, StopSteps, Visible
  <2>3. rows'[job[p].row].status = "COMPLETED"
    BY <1>9, <2>2, RowTypes DEF CloseRow, Row
  <2>4. job'[p].row = job[p].row
    BY <2>1, GotoFields
  <2>5. rows'[job[p].row].status = "COMPLETED"
    BY <2>3, <2>4
  <2> QED BY <1>7, <2>1, <2>5 DEF StopSteps
<1>10. CASE FreeConnector(p) \/ FreeStation(p)
  <2>1. PICK to \in {"freeStation", "unmap"} : Goto(p, to)
    BY <1>10 DEF FreeConnector, FreeStation
  <2>2. job[p].at \in {"freeConnector", "freeStation"} /\ rows' = rows
    BY <1>10 DEF FreeConnector, FreeStation
  <2>3. job'[p].row = job[p].row
    BY <2>1, GotoFields
  <2>4. rows'[job[p].row].status = "COMPLETED"
    BY <2>2, <2>3 DEF CallIsOK, StopSteps
  <2> QED BY <1>7, <2>1, <2>2, <2>4 DEF StopSteps
<1> QED
  BY <1>1, <1>3, <1>5, <1>6, <1>8, <1>9, <1>10
  DEF StatementNext, BootUpsert, FindMissing, Touch, ConnectorRefused, WriteStation, Meter,
      MeterRefused, FindRowMissing, Unmap

LEMMA ReceivedCall ==
    ASSUME TypeInv, MappingFaithful, UnsavedIsBuffered, NEW p \in Calls, ReceiveNext(p)
    PROVE  CallStep(p) /\ CallIsOK(job[p])'
<1>0. p \in Tasks /\ Idle \in Job /\ "find" \notin RowSteps /\ "bootUpsert" \notin RowSteps
  BY NullTypes DEF Tasks, RowSteps, StopSteps
<1>1. PICK s \in Stations :
        \/ ReceiveBoot(p, s)
        \/ ReceiveHeartbeat(p, s)
        \/ \E c \in Connectors : ReceiveStart(p, s, c) \/ \E raw \in RawStatuses : ReceiveStatus(p, s, c, raw)
        \/ \E id \in openIds[s] : ReceiveStop(p, s, id) \/ ReceiveMeter(p, s, id)
  BY DEF ReceiveNext
<1>2. ASSUME NEW caller \in Job, Receive(p, Promoting(caller, s, memoryStations, "find")),
             caller.kind \in {"Status", "Start"} => caller.status # Absent,
             caller.kind \in {"Stop", "Meter"} => caller.id \in openIds[caller.station]
      PROVE  CallStep(p) /\ CallIsOK(job[p])'
  <2>1. PICK memory : memory = memoryStations
    OBVIOUS
  <2>2. job' = [job EXCEPT ![p] = Promoting(caller, s, memory, "find")]
    BY <1>2, <2>1 DEF Receive
  <2> QED BY <1>0, <1>2, <2>2, PromotingCall
<1>3. CASE ReceiveBoot(p, s)
  <2> DEFINE call == [Idle EXCEPT !.at = "bootUpsert", !.kind = "Boot", !.station = s]
  <2>1. call.kind = "Boot" /\ call.at = "bootUpsert"
    BY DEF Idle
  <2>2. job' = [job EXCEPT ![p] = call]
    BY <1>3 DEF ReceiveBoot, Receive
  <2> HIDE DEF call
  <2>3. job'[p] = call /\ \A q \in Tasks \ {p} : job'[q] = job[q]
    BY <1>0, <2>2 DEF TypeInv, TypeOK
  <2> QED BY <2>1, <2>3 DEF CallStep, CallIsOK, StopSteps
<1>4. CASE ReceiveHeartbeat(p, s)
  <2> DEFINE caller == [Idle EXCEPT !.kind = "Heartbeat", !.station = s]
  <2>1. caller \in Job /\ caller.kind = "Heartbeat"
    BY <1>0 DEF Job, AllKinds
  <2> QED BY <1>2, <1>4, <2>1 DEF ReceiveHeartbeat
<1>5. ASSUME NEW c \in Connectors, ReceiveStart(p, s, c)
      PROVE  CallStep(p) /\ CallIsOK(job[p])'
  <2> DEFINE caller == [Idle EXCEPT !.kind = "Start", !.station = s, !.connector = c,
                                    !.status = "CHARGING"]
  <2>1. caller \in Job /\ caller.kind = "Start" /\ caller.status = "CHARGING"
    BY <1>0 DEF Job, AllKinds, ConnectorStatus
  <2>2. "CHARGING" # Absent
    BY DEF Absent
  <2> QED BY <1>2, <1>5, <2>1, <2>2 DEF ReceiveStart
<1>6. ASSUME NEW c \in Connectors, NEW raw \in RawStatuses, ReceiveStatus(p, s, c, raw)
      PROVE  CallStep(p) /\ CallIsOK(job[p])'
  <2> DEFINE caller == [Idle EXCEPT !.kind = "Status", !.station = s, !.connector = c,
                                    !.status = ResolveConnectorStatus(raw)]
  <2>1. caller \in Job /\ caller.kind = "Status" /\ caller.status \in ConnectorStatus
    BY <1>0, ResolveType DEF Job, AllKinds
  <2>2. Absent \notin ConnectorStatus
    BY DEF Absent, ConnectorStatus
  <2> QED BY <1>2, <1>6, <2>1, <2>2 DEF ReceiveStatus
<1>7. ASSUME NEW id \in openIds[s], ReceiveMeter(p, s, id)
      PROVE  CallStep(p) /\ CallIsOK(job[p])'
  <2> DEFINE caller == [Idle EXCEPT !.kind = "Meter", !.station = s, !.id = id]
  <2>0. id \in Nat
    BY DEF TypeInv, TypeOK
  <2>1. caller \in Job /\ caller.kind = "Meter" /\ caller.id = id /\ caller.station = s
    BY <1>0, <2>0 DEF Job, AllKinds
  <2> QED BY <1>2, <1>7, <2>1 DEF ReceiveMeter
<1>8. ASSUME NEW id \in openIds[s], ReceiveStop(p, s, id)
      PROVE  CallStep(p) /\ CallIsOK(job[p])'
  <2> DEFINE mapping == MappingOf(id)
             call    == [Idle EXCEPT !.kind = "Stop", !.station = s, !.id = id,
                                     !.mapping = mapping]
             row     == IF Known(mapping) THEN mapping.row ELSE id
             found   == [call EXCEPT !.at = "findRow", !.row = row]
             j       == Promoting(call, mapping.station, memoryStations, "upsertStation")
  <2>0. mapping \in Mapping /\ id \in Nat
    BY NullTypes DEF MappingOf, TypeInv, TypeOK
  <2>1. call \in Job /\ call.kind = "Stop" /\ call.station = s /\ call.id = id /\ call.mapping = mapping
    BY <1>0, <2>0 DEF Job, AllKinds
  <2>2. CASE ~(Known(mapping) /\ mapping.row = 0)
    <3>1. /\ found.at = "findRow" /\ found.kind = "Stop" /\ found.station = s
          /\ found.id = id /\ found.mapping = mapping /\ found.row = row
      BY <2>1 DEF Job
    <3>2. job' = [job EXCEPT ![p] = found] /\ rows' = rows
      BY <1>8, <2>2 DEF ReceiveStop, Receive, dbVars
    <3> HIDE DEF found
    <3>3. job'[p] = found /\ \A q \in Tasks \ {p} : job'[q] = job[q]
      BY <1>0, <3>2 DEF TypeInv, TypeOK
    <3>4. CallStep(p)
      BY <3>1, <3>3 DEF CallStep
    <3>5. Known(mapping) => id \in FallbackIds /\ row \in RowIds /\ rows[row].origin = id
      BY <2>2, RowOfMapping
    <3>6. ~Known(mapping) => row = id
      OBVIOUS
    <3> HIDE DEF row, mapping, call
    <3>7. RowOfCall(job[p])'
      BY <3>1, <3>2, <3>3, <3>5, <3>6 DEF RowOfCall, RowIds
    <3>8. Known(job'[p].mapping) =>
             /\ job'[p].id \in FallbackIds /\ job'[p].row \in RowIds'
             /\ rows'[job'[p].row].origin = job'[p].id
      BY <3>1, <3>2, <3>3, <3>5 DEF RowIds
    <3> QED BY <3>1, <3>3, <3>4, <3>7, <3>8 DEF CallIsOK, StopSteps
  <2>3. CASE Known(mapping) /\ mapping.row = 0
    <3>1. job' = [job EXCEPT ![p] = j]
      BY <1>8, <2>3 DEF ReceiveStop, Receive
    <3>2. PICK memory, t : memory = memoryStations /\ t = mapping.station
      OBVIOUS
    <3>3. PICK k \in Job : k = call
      BY <2>1
    <3>4. job' = [job EXCEPT ![p] = Promoting(k, t, memory, "upsertStation")]
      BY <3>1, <3>2, <3>3
    <3>5. k.kind = "Stop" /\ k.id \in openIds[k.station]
      BY <2>1, <3>3
    <3>6. "upsertStation" \notin RowSteps
      BY DEF RowSteps, StopSteps
    <3> QED BY <1>0, <3>4, <3>5, <3>6, PromotingCall
  <2> QED BY <2>2, <2>3
<1> QED BY <1>1, <1>3, <1>4, <1>5, <1>6, <1>7, <1>8

------------------------------------------------------------------------------
(* Ids. *)

\* A step that neither gives an id nor takes one back, and drops no mapping.
LEMMA PlainIds ==
    ASSUME NEW p, openIds' = openIds,
           nextFallbackTransactionId' = nextFallbackTransactionId,
           \A id \in FallbackIds :
               memoryTransactions'[id] = memoryTransactions[id] \/ Known(memoryTransactions'[id]),
           \/ faults' = faults /\ ~(job[p].at = "writeStation" /\ job[p].kind = "Start")
           \/ faults' = faults + 1
    PROVE  IdStep(p)
BY DEF IdStep

LEMMA TaskIds ==
    ASSUME TypeInv, NEW p \in Tasks,
           \/ PromotionNext(p) \/ StatementNext(p) \/ Fault(p) \/ PromotionRefused(p)
           \/ ReceiveNext(p)
    PROVE  IdStep(p)
<1>1. CASE CreateRow(p)
  <2>1. PICK e \in Uncreated(p) :
          memoryTransactions' = [memoryTransactions EXCEPT
              ![e.id] = CreatedMapping(job[p].target, e.id, NextRowId)]
    BY <1>1 DEF CreateRow
  <2>2. job[p].target \in Stations /\ job[p].at = "createRows"
    BY <1>1 DEF CreateRow, TypeInv, JobOK, PromotionSteps
  <2>3. job[p].target # Nobody
    BY <2>2, NamesAssumption
  <2>4. \A id \in FallbackIds :
           memoryTransactions'[id] = memoryTransactions[id] \/ Known(memoryTransactions'[id])
    BY <2>1, <2>3 DEF TypeInv, TypeOK, CreatedMapping, Known
  <2> QED BY <1>1, <2>2, <2>4, PlainIds DEF CreateRow
<1>2. CASE PromotionNext(p) /\ ~CreateRow(p)
  BY <1>2, PlainIds
  DEF PromotionNext, UpsertStation, UpsertConnectors, Commit, ForgetThenFind, ForgetThenReject,
      ForgetThenNext, memoryVars
<1>3. CASE Unmap(p)
  <2>1. /\ job[p].at = "unmap"
        /\ nextFallbackTransactionId' = nextFallbackTransactionId
        /\ memoryTransactions' = IF Known(job[p].mapping)
                                 THEN [memoryTransactions EXCEPT ![job[p].id] = NoMapping]
                                 ELSE memoryTransactions
        /\ StopAnswered(job[p].station, job[p].id)
    BY <1>3 DEF Unmap
  <2>2. \A s \in Stations : openIds'[s] \subseteq openIds[s]
                            /\ \A id \in openIds[s] \ openIds'[s] : id = job[p].id
    BY <2>1 DEF StopAnswered, TypeInv, TypeOK
  <2>4. faults' = faults \/ faults' = faults + 1
    BY <2>1 DEF StopAnswered
  <2>3. \A id \in FallbackIds :
           \/ memoryTransactions'[id] = memoryTransactions[id]
           \/ Known(job[p].mapping) /\ id = job[p].id
    BY <2>1 DEF TypeInv, TypeOK
  <2> QED BY <2>1, <2>2, <2>3, <2>4 DEF IdStep
<1>4. CASE WriteStation(p)
  <2>1. /\ job[p].at = "writeStation" /\ UNCHANGED memoryVars /\ faults' = faults
        /\ openIds' = [openIds EXCEPT ![job[p].station] =
               IF job[p].kind = "Start" THEN @ \cup {job[p].row} ELSE @]
    BY <1>4 DEF WriteStation
  <2>2. job[p].kind = "Start" => job[p].station \in Stations
    BY DEF TypeInv, JobOK
  <2>3. \A s \in Stations :
           openIds'[s] = IF s = job[p].station /\ job[p].kind = "Start"
                         THEN openIds[s] \cup {job[p].row} ELSE openIds[s]
    BY <2>1 DEF TypeInv, TypeOK
  <2> QED BY <2>1, <2>2, <2>3 DEF IdStep, memoryVars
<1>5. CASE StatementNext(p) /\ ~Unmap(p) /\ ~WriteStation(p)
  BY <1>5, PlainIds
  DEF StatementNext, BootUpsert, Find, FindMissing, Touch, WriteConnector, ConnectorRefused,
      InsertRow, Meter, MeterRefused, FindRow, FindRowMissing, CloseRow, FreeConnector,
      FreeStation, memoryVars
<1>6. CASE Fault(p) \/ PromotionRefused(p)
  BY <1>6, PlainIds DEF Fault, PromotionRefused, GivesUp, memoryVars
<1>7. CASE ReceiveNext(p)
  BY <1>7, PlainIds
  DEF ReceiveNext, ReceiveBoot, ReceiveHeartbeat, ReceiveStart, ReceiveStatus, ReceiveStop,
      ReceiveMeter, Receive, memoryVars
<1> QED BY <1>1, <1>2, <1>3, <1>4, <1>5, <1>6, <1>7

------------------------------------------------------------------------------
(* Buffered stations. *)

\* A step that leaves memory and the tables of stations and connectors alone.
LEMMA PlainBuffer ==
    ASSUME NEW p, memoryStations' = memoryStations, dbStations' = dbStations,
           dbConnectors' = dbConnectors, job'[p].at # "forget", ~Commit(p)
    PROVE  BufferStep(p)
BY DEF BufferStep

\* Forgetting leaves nothing of a station, or a blank one.
LEMMA ForgetBuffer ==
    ASSUME TypeInv, NEW p \in Tasks, job[p].at = "forget", job'[p].at # "forget",
           \/ memoryStations' = Forgotten(p)
           \/ memoryStations' = [Forgotten(p) EXCEPT ![job[p].target] =
                  [NoMemoryStation EXCEPT !.live = TRUE, !.heard = "live"]],
           UNCHANGED dbVars
    PROVE  BufferStep(p)
<1>1. job[p].target \in Stations /\ ~Commit(p)
  BY DEF TypeInv, JobOK, PromotionSteps, Commit
<1>2. PICK blank : /\ memoryStations' = [memoryStations EXCEPT ![job[p].target] = blank]
                   /\ ~blank.identified /\ Reported(blank) = {}
  <2>1. ~NoMemoryStation.identified /\ Reported(NoMemoryStation) = {}
    BY DEF NoMemoryStation, Reported
  <2> DEFINE fresh == [NoMemoryStation EXCEPT !.live = TRUE, !.heard = "live"]
  <2>2. fresh.identified = NoMemoryStation.identified
        /\ fresh.connectors = NoMemoryStation.connectors
    BY DEF NoMemoryStation
  <2>3. ~fresh.identified /\ Reported(fresh) = {}
    BY <2>1, <2>2 DEF Reported
  <2>4. \/ memoryStations' = [memoryStations EXCEPT ![job[p].target] = NoMemoryStation]
        \/ memoryStations' = [[memoryStations EXCEPT ![job[p].target] = NoMemoryStation]
                                EXCEPT ![job[p].target] = fresh]
    BY DEF Forgotten
  <2> HIDE DEF fresh
  <2>5. \/ memoryStations' = [memoryStations EXCEPT ![job[p].target] = NoMemoryStation]
        \/ memoryStations' = [memoryStations EXCEPT ![job[p].target] = fresh]
    BY <1>1, <2>4 DEF TypeInv, TypeOK
  <2> QED BY <2>1, <2>3, <2>5
<1>3. \A s \in Stations :
         memoryStations'[s] = IF s = job[p].target THEN blank ELSE memoryStations[s]
  BY <1>2 DEF TypeInv, TypeOK
<1>4. Reported(memoryStations'[job[p].target]) = {} /\ ~memoryStations'[job[p].target].identified
  BY <1>1, <1>2, <1>3 DEF Reported
<1> QED BY <1>1, <1>3, <1>4 DEF BufferStep, dbVars

LEMMA CommitBuffer ==
    ASSUME TypeInv, NEW p \in Tasks, Commit(p)
    PROVE  BufferStep(p)
<1>1. /\ memoryStations' = memoryStations /\ job[p].at = "createRows"
      /\ job[p].target \in Stations /\ job[p].image \in MemoryStation
  BY Types DEF Commit, memoryVars, PromotionSteps
<1> DEFINE s       == job[p].target
           image   == job[p].image
           station == [live |-> TRUE, identified |-> image.identified,
                       heard |-> image.heard, status |-> image.status]
<1>2. dbStations' = [dbStations EXCEPT ![s] = station] /\ station.identified = image.identified
  BY DEF Commit
<1>3. dbConnectors' = [dbConnectors EXCEPT ![s] =
          [c \in Connectors |-> IF image.connectors[c] = Absent
                                THEN dbConnectors[s][c] ELSE image.connectors[c]]]
  BY DEF Commit
<1> HIDE DEF station
<1>4. \A t \in Stations : dbStations'[t] = IF t = s THEN station ELSE dbStations[t]
  BY <1>2 DEF TypeInv, TypeOK
<1>5. \A t \in Stations : \A c \in Connectors :
         dbConnectors'[t][c] = IF t = s /\ image.connectors[c] # Absent
                               THEN image.connectors[c] ELSE dbConnectors[t][c]
  BY <1>1, <1>3 DEF TypeInv, TypeOK
<1>6. \A t \in Stations : (dbStations[t].identified => dbStations'[t].identified) \/ t = s
  BY <1>4
<1>7. dbStations'[s].identified = image.identified
  BY <1>1, <1>2, <1>4
<1>8. \A c \in Reported(image) : dbConnectors'[s][c] # Absent
  BY <1>1, <1>5 DEF Reported
<1>9. \A t \in Stations : \A c \in Connectors :
         dbConnectors[t][c] # Absent => dbConnectors'[t][c] # Absent
  <2> HIDE DEF s, image
  <2> QED BY <1>5
<1> QED BY <1>1, <1>6, <1>7, <1>8, <1>9 DEF BufferStep

LEMMA PromotionBuffer ==
    ASSUME TypeInv, NEW p \in Tasks, PromotionNext(p)
    PROVE  BufferStep(p)
<1>1. CASE UpsertStation(p) \/ UpsertConnectors(p) \/ CreateRow(p)
  <2>1. job'[p].at \in {"upsertConnectors", "createRows"}
    BY <1>1, GotoFields DEF UpsertStation, UpsertConnectors, CreateRow, taskVars
  <2>2. ~Commit(p)
    BY <2>1, GotoFields DEF Commit
  <2> QED BY <1>1, <2>1, <2>2, PlainBuffer
      DEF UpsertStation, UpsertConnectors, CreateRow, dbVars, memoryVars
<1>2. CASE ForgetThenFind(p)
  <2>1. job'[p].at # "forget"
    BY <1>2, GotoFields DEF ForgetThenFind
  <2> QED BY <1>2, <2>1, ForgetBuffer DEF ForgetThenFind
<1>3. CASE ForgetThenReject(p)
  <2>1. job'[p].at # "forget"
    BY <1>3, AnsweredCall DEF ForgetThenReject, Idle
  <2> QED BY <1>3, <2>1, ForgetBuffer DEF ForgetThenReject
<1>4. CASE p = Listener /\ ForgetThenNext
  <2>1. PICK memory, ids : ListenerTurn(ids, memory)
    BY <1>4 DEF ForgetThenNext
  <2>2. job'[p].at # "forget"
    BY <1>4, <2>1, ListenerCall
  <2> QED BY <1>4, <2>2, ForgetBuffer DEF ForgetThenNext
<1> QED BY <1>1, <1>2, <1>3, <1>4, CommitBuffer DEF PromotionNext

\* The statements of handlers write single columns, and no status `absent'.
LEMMA StatementBuffer ==
    ASSUME TypeInv, NEW p \in Tasks, CallIsOK(job[p]), StatementNext(p)
    PROVE  BufferStep(p)
<1>1. memoryStations' = memoryStations /\ job[p].at \in CallSteps
  BY DEF StatementNext, BootUpsert, Find, FindMissing, Touch, WriteConnector, InsertRow,
     WriteStation, Meter, MeterRefused, ConnectorRefused, FindRow, FindRowMissing, CloseRow,
     FreeConnector, FreeStation, Unmap, CallSteps, memoryVars
<1>2. ~Commit(p)
  BY <1>1 DEF Commit, CallSteps
<1>3. job'[p].at # "forget"
  <2>1. CASE Answered(p)
    BY <2>1, AnsweredCall DEF Idle
  <2>2. ASSUME NEW step \in CallSteps, NEW r, Goto(p, step) \/ GotoRow(p, step, r)
        PROVE  job'[p].at # "forget"
    BY <2>2, GotoFields, GotoRowFields DEF CallSteps
  <2>3. \/ Answered(p) \/ \E step \in CallSteps : Goto(p, step) \/ \E r : GotoRow(p, step, r)
    BY DEF StatementNext, BootUpsert, Find, FindMissing, Touch, WriteConnector, InsertRow,
       WriteStation, Meter, MeterRefused, ConnectorRefused, FindRow, FindRowMissing, CloseRow,
       FreeConnector, FreeStation, Unmap, CallSteps
  <2> QED BY <2>1, <2>2, <2>3
<1>4. \A s \in Stations : dbStations[s].identified => dbStations'[s].identified
  <2>0. dbStations \in [Stations -> DbStation]
    BY DEF TypeInv, TypeOK
  <2>1. CASE dbStations' = dbStations
    BY <2>1
  <2>2. CASE BootUpsert(p)
    BY <2>0, <2>2 DEF BootUpsert
  <2>3. CASE \E x, heard : dbStations' = [dbStations EXCEPT ![x].heard = heard]
    BY <2>0, <2>3 DEF DbStation
  <2>4. CASE \E x, status : dbStations' = [dbStations EXCEPT ![x].status = status]
    BY <2>0, <2>4 DEF DbStation
  <2>5. CASE Touch(p)
    BY <2>3, <2>5 DEF Touch
  <2>6. CASE WriteStation(p) \/ FreeStation(p)
    BY <2>4, <2>6 DEF WriteStation, FreeStation
  <2> QED
    BY <2>1, <2>2, <2>5, <2>6
    DEF StatementNext, Find, FindMissing, WriteConnector, InsertRow, Meter, MeterRefused,
        ConnectorRefused, FindRow, FindRowMissing, CloseRow, FreeConnector, Unmap, dbVars
<1>5. \A s \in Stations : \A c \in Connectors :
         dbConnectors[s][c] # Absent => dbConnectors'[s][c] # Absent
  <2>0. /\ dbConnectors \in [Stations -> [Connectors -> ConnectorStatus \cup {Absent}]]
        /\ "AVAILABLE" # Absent
    BY DEF TypeInv, TypeOK, Absent
  <2>1. CASE dbConnectors' = dbConnectors
    BY <2>1
  <2>2. ASSUME NEW s, NEW c, NEW status, status # Absent,
               dbConnectors' = [dbConnectors EXCEPT ![s][c] = status]
        PROVE  \A t \in Stations : \A d \in Connectors :
                   dbConnectors[t][d] # Absent => dbConnectors'[t][d] # Absent
    BY <2>0, <2>2
  <2>3. CASE WriteConnector(p)
    <3>1. job[p].kind \in {"Status", "Start"}
      BY <2>3 DEF WriteConnector
    <3> QED BY <2>2, <2>3, <3>1 DEF WriteConnector, CallIsOK
  <2>4. CASE FreeConnector(p)
    BY <2>0, <2>2, <2>4 DEF FreeConnector
  <2> QED
    BY <2>1, <2>3, <2>4
    DEF StatementNext, BootUpsert, Touch, WriteStation, FreeStation, Find, FindMissing, InsertRow,
        Meter, MeterRefused, ConnectorRefused, FindRow, FindRowMissing, CloseRow, Unmap, dbVars
<1> QED BY <1>1, <1>2, <1>3, <1>4, <1>5 DEF BufferStep

LEMMA GivingUpBuffer ==
    ASSUME TypeInv, NEW p \in Tasks, GivesUp(p)
    PROVE  BufferStep(p)
<1>1. job'[p].at # "forget"
  <2>1. CASE Answered(p)
    BY <2>1, AnsweredCall DEF Idle
  <2>2. CASE p = Listener /\ ListenerTurn(queue, memoryStations)
    <3>1. PICK memory, ids : ListenerTurn(ids, memory)
      BY <2>2
    <3> QED BY <2>2, <3>1, ListenerCall
  <2> QED BY <2>1, <2>2 DEF GivesUp
<1>2. ~Commit(p)
  BY <1>1, GotoFields DEF Commit
<1> QED BY <1>1, <1>2, PlainBuffer DEF GivesUp, memoryVars

LEMMA ReceiveBuffer ==
    ASSUME TypeInv, SessionInv, NEW p \in Calls, ReceiveNext(p)
    PROVE  BufferStep(p)
<1>1. /\ job[p].at = "idle" /\ memoryStations' = memoryStations /\ UNCHANGED dbVars
  <2>1. PICK call : Receive(p, call)
    BY Zenon DEF ReceiveNext, ReceiveBoot, ReceiveHeartbeat, ReceiveStart, ReceiveStatus,
       ReceiveStop, ReceiveMeter
  <2> QED BY <2>1 DEF Receive, memoryVars
<1>2. job'[p].at # "forget"
  BY <1>1, ReceiveIsOnline DEF OnlineStep, JobStep, PromotionSteps
<1> QED BY <1>1, <1>2, PlainBuffer DEF Commit, dbVars

\* Online, every step is a step of one task, as described.
LEMMA TaskStepTaken ==
    ASSUME TypeInv, TypeInv', SessionInv, CallsAreOK, OldRowsStay, NEW p \in Tasks,
           \/ PromotionNext(p) \/ StatementNext(p) \/ Fault(p) \/ PromotionRefused(p)
           \/ p \in Calls /\ ReceiveNext(p)
    PROVE  TaskStep(p)
<1>1. OnlineStep(p)
  BY PromotionIsOnline, StatementIsOnline, GivesUpIsOnline, ReceiveIsOnline
<1>2. RowStep(p) /\ IdStep(p)
  BY TaskRows, TaskIds
<1>3. CallIsOK(job[p]) /\ MappingFaithful /\ UnsavedIsBuffered
  BY DEF CallsAreOK, SessionInv
<1>4. RowsGrow
  BY <1>2, <1>3, StepGrows
<1>5. CallStep(p) /\ CallIsOK(job[p])'
  BY <1>3, <1>4, PromotionCall, StatementCall, GivingUpCall, GivingUpIsEither, ReceivedCall
<1>6. BufferStep(p)
  BY <1>3, PromotionBuffer, StatementBuffer, GivingUpBuffer, GivingUpIsEither, ReceiveBuffer
<1> QED BY <1>1, <1>2, <1>5, <1>6 DEF TaskStep

------------------------------------------------------------------------------
(* A step of a task keeps the invariants. *)

LEMMA TaskKeepsCalls ==
    ASSUME TypeInv, TypeInv', CallsAreOK, NEW p \in Tasks, TaskStep(p)
    PROVE  CallsAreOK'
<1>1. RowsGrow
  BY StepGrows DEF CallsAreOK, TaskStep
<1> SUFFICES ASSUME NEW q \in Tasks PROVE CallIsOK(job[q])'
  BY DEF CallsAreOK
<1>2. CASE q = p
  BY <1>2 DEF TaskStep
<1>3. CASE q # p
  <2>1. PICK call : call = job[q] /\ CallIsOK(call)
    BY DEF CallsAreOK
  <2>2. CallIsOK(call)'
    BY <1>1, <2>1, CallLasts
  <2>3. job'[q] = call
    BY <1>3, <2>1 DEF TaskStep, CallStep
  <2> QED BY <2>2, <2>3 DEF CallIsOK, RowOfCall, Visible, RowIds
<1> QED BY <1>2, <1>3

LEMMA TaskKeepsUncommitted ==
    ASSUME TypeInv, TypeInv', SessionInv, UncommittedIsOfImage, CallsAreOK,
           NEW p \in Tasks, TaskStep(p)
    PROVE  UncommittedIsOfImage'
<1> SUFFICES ASSUME NEW n \in DOMAIN rows', rows'[n].tx # Nobody
             PROVE  /\ rows'[n].status # "COMPLETED"
                    /\ rows'[n].station = job'[rows'[n].tx].target
                    /\ \E e \in job'[rows'[n].tx].image.sessions : e.id = rows'[n].origin
  BY DEF UncommittedIsOfImage
<1>0. p # Nobody /\ RowStep(p) /\ JobStep(p) /\ RowsOwned(p)
  BY TaskIsSomebody DEF TaskStep, OnlineStep
<1>1. CASE n \in DOMAIN rows
  <2>0. rows[n] \in Row
    BY <1>1, RowTypes
  <2>1. rows'[n] = rows[n]
    <3>1. CASE rows[n].tx = p /\ rows'[n] = [rows[n] EXCEPT !.tx = Nobody]
      BY <2>0, <3>1 DEF Row
    <3>2. CASE rows[n].tx = p /\ rows'[n] = [rows[n] EXCEPT !.tx = Nobody, !.status = "ROLLEDBACK"]
      BY <2>0, <3>2 DEF Row
    <3>3. CASE /\ job[p].at = "closeRow" /\ n = job[p].row
               /\ rows'[n] = [rows[n] EXCEPT !.status = "COMPLETED", !.stoppedBy = job[p].station]
      <4>1. rows[n].tx = Nobody
        BY <3>3 DEF CallsAreOK, CallIsOK, StopSteps, Visible, Committed
      <4> QED BY <2>0, <3>3, <4>1 DEF Row
    <3>4. CASE /\ Visible(job[p].row) /\ n = job[p].row
               /\ rows'[n] = [rows[n] EXCEPT !.meteredBy = @ \cup {job[p].station}]
      <4>1. rows[n].tx = Nobody
        BY <3>4 DEF Visible, Committed
      <4> QED BY <2>0, <3>4, <4>1 DEF Row
    <3> QED BY <1>0, <1>1, <3>1, <3>2, <3>3, <3>4 DEF RowStep, RowChange
  <2>2. CASE rows[n].tx = p
    <3>1. job'[p].image = job[p].image /\ job'[p].target = job[p].target
      BY <1>0, <2>1, <2>2 DEF RowsOwned, JobStep, PromotionSteps
    <3> QED BY <1>1, <2>1, <2>2, <3>1 DEF UncommittedIsOfImage
  <2>3. CASE rows[n].tx # p
    <3>1. rows[n].tx \in Tasks
      BY <2>0, <2>1 DEF Row
    <3> QED BY <1>0, <1>1, <2>1, <2>3, <3>1 DEF UncommittedIsOfImage, JobStep
  <2> QED BY <2>2, <2>3
<1>2. ASSUME NEW row \in Row, rows'[n] = row, RowAdded(p, row)
      PROVE  /\ row.status # "COMPLETED" /\ row.station = job'[row.tx].target
             /\ \E e \in job'[row.tx].image.sessions : e.id = row.origin
  <2>1. row.tx # Nobody
    BY <1>2
  <2>2. PICK e \in job[p].image.sessions :
          job' = job /\ row = NewRow(job[p].target, e.connector, p, e.id)
    BY <1>2, <2>1 DEF RowAdded, NewRow
  <2> QED BY <2>2 DEF NewRow
<1> QED BY <1>0, <1>1, <1>2 DEF RowStep

LEMMA TaskKeepsBuffered ==
    ASSUME TypeInv, TypeInv', ImageCoversStation, ForgetIsComplete, NEW p \in Tasks, TaskStep(p)
    PROVE  ImageCoversStation' /\ ForgetIsComplete'
<1>0. BufferStep(p) /\ JobStep(p)
  BY DEF TaskStep, OnlineStep
\* Memory holds no more of a station than before.
<1>1. \A s \in Stations :
         /\ memoryStations'[s].identified => memoryStations[s].identified
         /\ Reported(memoryStations'[s]) \subseteq Reported(memoryStations[s])
  BY <1>0 DEF BufferStep
<1>2. ImageCoversStation'
  <2> SUFFICES ASSUME NEW q \in Tasks, job'[q].at \in PromotionSteps
               PROVE  /\ memoryStations'[job'[q].target].identified => job'[q].image.identified
                      /\ Reported(memoryStations'[job'[q].target]) \subseteq Reported(job'[q].image)
    BY DEF ImageCoversStation, Reported
  <2>0. job'[q].target \in Stations
    BY DEF TypeInv, JobOK
  <2>1. CASE job[q].at \in PromotionSteps /\ job'[q].image = job[q].image
             /\ job'[q].target = job[q].target
    <3>1. /\ memoryStations[job[q].target].identified => job[q].image.identified
          /\ Reported(memoryStations[job[q].target]) \subseteq Reported(job[q].image)
      BY <2>1 DEF ImageCoversStation
    <3>2. Reported(job'[q].image) = Reported(job[q].image)
      BY <2>1 DEF Reported
    <3> QED BY <1>1, <2>0, <2>1, <3>1, <3>2
  <2>2. CASE job'[q].image = memoryStations'[job'[q].target]
    BY <2>2 DEF Reported
  <2> QED BY <1>0, <2>1, <2>2 DEF JobStep
<1>3. ForgetIsComplete'
  <2> SUFFICES ASSUME NEW q \in Tasks, job'[q].at = "forget"
               PROVE  /\ memoryStations'[job'[q].target].identified
                         => dbStations'[job'[q].target].identified
                      /\ \A c \in Reported(memoryStations'[job'[q].target]) :
                             dbConnectors'[job'[q].target][c] # Absent
    BY DEF ForgetIsComplete, Reported
  <2> DEFINE s == job'[q].target
  <2>0. s \in Stations /\ \A t : Reported(memoryStations[t]) \subseteq Connectors
    BY DEF TypeInv, JobOK, PromotionSteps, Reported
  <2>1. CASE q = p
    <3>1. Commit(p) /\ s = job[p].target /\ job[p].at \in PromotionSteps
      BY <1>0, <2>1 DEF BufferStep, JobStep, PromotionSteps
    <3>2. /\ memoryStations[s].identified => job[p].image.identified
          /\ Reported(memoryStations[s]) \subseteq Reported(job[p].image)
      BY <3>1 DEF ImageCoversStation
    <3> QED BY <1>0, <1>1, <2>0, <3>1, <3>2 DEF BufferStep
  <2>2. CASE q # p
    <3>1. job[q].at = "forget" /\ job[q].target = s
      BY <1>0, <2>2 DEF JobStep
    <3>2. /\ memoryStations[s].identified => dbStations[s].identified
          /\ \A c \in Reported(memoryStations[s]) : dbConnectors[s][c] # Absent
      BY <3>1 DEF ForgetIsComplete
    <3>3. memoryStations[s].identified => dbStations'[s].identified
      <4>1. CASE Commit(p) /\ s = job[p].target
        <5>1. job[p].at \in PromotionSteps
          BY <4>1 DEF Commit, PromotionSteps
        <5> QED BY <1>0, <4>1, <5>1 DEF BufferStep, ImageCoversStation
      <4>2. CASE dbStations[s].identified => dbStations'[s].identified
        BY <3>2, <4>2
      <4> QED BY <1>0, <2>0, <4>1, <4>2 DEF BufferStep
    <3>4. \A c \in Reported(memoryStations[s]) : dbConnectors'[s][c] # Absent
      BY <1>0, <2>0, <3>2 DEF BufferStep
    <3> QED BY <1>1, <2>0, <3>3, <3>4
  <2> QED BY <2>1, <2>2
<1> QED BY <1>2, <1>3

\* A step of a task gives no station a hold it did not have.
LEMMA HoldsKept ==
    ASSUME TypeInv, TypeInv', NEW p \in Tasks, TaskStep(p),
           NEW s \in Stations, NEW id \in FallbackIds, Holds(s, id)'
    PROVE  Holds(s, id)
<1>0. /\ RowStep(p) /\ RowsKept /\ MemoryStep(p) /\ MappingStep(p) /\ JobStep(p)
  BY DEF TaskStep, OnlineStep
<1>1. ASSUME job[p].at = "createRows", s = job[p].target, \E e \in job[p].image.sessions : e.id = id
      PROVE  Holds(s, id)
  BY <1>1 DEF Holds, PromotionSteps
<1>2. CASE memoryTransactions'[id].station = s
  <2>1. s # Nobody
    BY NamesAssumption
  <2>2. CASE Mapped(p, id)
    BY <1>1, <1>2, <2>2 DEF Mapped
  <2> QED BY <1>0, <1>2, <2>1, <2>2 DEF MappingStep, NoMapping, Holds
<1>3. CASE \E e \in memoryStations'[s].sessions : e.id = id
  BY <1>0, <1>3 DEF MemoryStep, Holds
<1>4. CASE \E n \in DOMAIN rows' : rows'[n].origin = id /\ rows'[n].station = s
  <2>1. PICK n \in DOMAIN rows' : rows'[n].origin = id /\ rows'[n].station = s
    BY <1>4
  <2>2. CASE n \in DOMAIN rows
    BY <1>0, <2>1, <2>2 DEF RowsKept, Holds
  <2>3. CASE \E row \in Row : rows'[n] = row /\ RowAdded(p, row)
    <3>1. PICK row \in Row : rows'[n] = row /\ RowAdded(p, row)
      BY <2>3
    <3>2. id # 0
      BY DEF FallbackIds
    <3> QED BY <1>1, <2>1, <3>1, <3>2 DEF RowAdded, NewRow
  <2> QED BY <1>0, <2>1, <2>2, <2>3 DEF RowStep
<1>5. CASE \E q \in Tasks : /\ job'[q].at \in PromotionSteps /\ job'[q].target = s
                            /\ \E e \in job'[q].image.sessions : e.id = id
  <2>1. PICK q \in Tasks : /\ job'[q].at \in PromotionSteps /\ job'[q].target = s
                           /\ \E e \in job'[q].image.sessions : e.id = id
    BY <1>5
  <2>2. CASE job'[q].image = memoryStations'[job'[q].target]
    BY <1>3, <2>1, <2>2
  <2>3. CASE job[q].at \in PromotionSteps /\ job'[q].image = job[q].image
             /\ job'[q].target = job[q].target
    BY <2>1, <2>3 DEF Holds
  <2> QED BY <1>0, <2>1, <2>2, <2>3 DEF JobStep
<1> QED BY <1>2, <1>3, <1>4, <1>5 DEF Holds

LEMMA TaskKeepsHolders ==
    ASSUME TypeInv, TypeInv', OneHolder, HeldHasBegun, OneEntry, NEW p \in Tasks, TaskStep(p)
    PROVE  OneHolder' /\ HeldHasBegun' /\ OneEntry'
<1>1. OneHolder'
  <2> SUFFICES ASSUME NEW id \in FallbackIds, NEW s \in Stations, NEW t \in Stations,
                      Holds(s, id)', Holds(t, id)'
               PROVE  s = t
    BY DEF OneHolder
  <2> QED BY HoldsKept DEF OneHolder
<1>2. HeldHasBegun'
  <2> SUFFICES ASSUME NEW id \in FallbackIds, NEW s \in Stations, Holds(s, id)'
               PROVE  id < nextFallbackTransactionId'
    BY DEF HeldHasBegun
  <2> QED BY HoldsKept DEF HeldHasBegun, TaskStep, IdStep
<1>3. OneEntry'
  BY DEF OneEntry, TaskStep, OnlineStep, MemoryStep
<1> QED BY <1>1, <1>2, <1>3

------------------------------------------------------------------------------
(* With the sequence past the fallback ids, an id names one transaction.      *)

LEMMA NewIdIsNoFallbackId ==
    ASSUME SequenceIsPast, NEW r \in Nat, r > Len(OldRows)
    PROVE  r \notin FallbackIds
<1>1. Len(OldRows) \in Nat /\ Len(OldRows) >= MaxSessions /\ MaxSessions \in Nat
  BY LeftRows, NumbersAssumption DEF SequenceIsPast
<1> QED BY <1>1 DEF FallbackIds

\* The row of a fallback id is an old one, which was over before.
LEMMA FallbackIdIsOld ==
    ASSUME SequenceIsPast, NEW r \in FallbackIds
    PROVE  r \in DOMAIN OldRows /\ r <= Len(OldRows) /\ OldRows[r].status # "STARTED"
<1>1. /\ Len(OldRows) \in Nat /\ Len(OldRows) >= MaxSessions /\ MaxSessions \in Nat
      /\ DOMAIN OldRows = 1..Len(OldRows) /\ OldRows[r].status # "STARTED"
  BY LeftRows, NumbersAssumption DEF SequenceIsPast
<1>2. r \in Nat /\ 1 <= r /\ r <= MaxSessions
  BY DEF FallbackIds
<1> QED BY <1>1, <1>2

LEMMA OwnsKept ==
    ASSUME TypeInv, TypeInv', RowsGrow, NEW p \in Tasks, TaskStep(p),
           NEW s \in Stations, NEW id, Owns(s, id)
    PROVE  Owns(s, id)'
<1>1. CASE id \in FallbackIds
  <2>1. id < nextFallbackTransactionId'
    BY <1>1 DEF Owns, TaskStep, IdStep
  <2>2. \A t \in Stations : Holds(t, id)' => t = s
    <3> SUFFICES ASSUME NEW t \in Stations, Holds(t, id)' PROVE t = s
      OBVIOUS
    <3> QED BY <1>1, HoldsKept DEF Owns
  <2> QED BY <1>1, <2>1, <2>2 DEF Owns
<1>2. CASE id \notin FallbackIds
  BY <1>2, VisibleLasts DEF Owns
<1> QED BY <1>1, <1>2

LEMMA TaskKeepsIds ==
    ASSUME TypeInv, TypeInv', SequenceIsPast, CallsAreOK, IdsAreOwn, NEW p \in Tasks, TaskStep(p)
    PROVE  IdsAreOwn'
<1>0. RowsGrow /\ CallStep(p) /\ IdStep(p) /\ CallIsOK(job[p])
  BY StepGrows DEF CallsAreOK, TaskStep
<1>1. ASSUME NEW s \in Stations, NEW id \in openIds'[s]
      PROVE  Owns(s, id)'
  <2>1. CASE id \in openIds[s]
    BY <1>0, <2>1, OwnsKept DEF IdsAreOwn
  <2>2. CASE /\ job[p].at = "writeStation" /\ job[p].kind = "Start"
             /\ s = job[p].station /\ id = job[p].row
    <3>1. id \in RowIds /\ rows[id].station = s /\ id > Len(OldRows) /\ id \in Nat
      BY <1>0, <2>2 DEF CallIsOK, TypeInv, TypeOK, Job
    <3>2. Owns(s, id)
      BY <3>1, NewIdIsNoFallbackId DEF Owns
    <3> QED BY <1>0, <3>2, OwnsKept
  <2> QED BY <1>0, <1>1, <2>1, <2>2 DEF IdStep
<1>2. ASSUME NEW q \in Tasks, job'[q].kind \in {"Stop", "Meter"}
      PROVE  Owns(job[q].station, job[q].id)'
  <2>1. PICK s, id : s = job'[q].station /\ id = job'[q].id
    OBVIOUS
  <2>2. s \in Stations
    BY <1>2, <2>1 DEF TypeInv, JobOK
  <2>3. CASE /\ job'[q].kind = job[q].kind
             /\ job'[q].station = job[q].station /\ job'[q].id = job[q].id
    <3>1. Owns(s, id)
      BY <1>2, <2>1, <2>3 DEF IdsAreOwn
    <3>2. Owns(s, id)'
      BY <1>0, <2>2, <3>1, OwnsKept
    <3> QED BY <2>1, <3>2
        DEF Owns, Holds, RowIds
  <2>4. CASE id \in openIds[s]
    <3>1. Owns(s, id)'
      BY <1>0, <2>2, <2>4, OwnsKept DEF IdsAreOwn
    <3> QED BY <2>1, <3>1
        DEF Owns, Holds, RowIds
  <2> QED BY <1>0, <1>2, <2>1, <2>3, <2>4 DEF CallStep
<1> QED BY <1>1, <1>2 DEF IdsAreOwn

\* A handler works on a row of the station it serves, or on an old one whose
\* id is the station's.
LEMMA RowIsOwn ==
    ASSUME TypeInv, SequenceIsPast, IdsAreOwn, NEW p \in Tasks, CallIsOK(job[p]),
           job[p].at \in StopSteps \cup {"meter"}, job[p].row \in RowIds
    PROVE  \/ rows[job[p].row].station = job[p].station
           \/ job[p].row <= Len(OldRows) /\ Owns(job[p].station, job[p].row)
<1>1. job[p].kind \in {"Stop", "Meter"} /\ RowOfCall(job[p])
  BY DEF CallIsOK
<1>2. Owns(job[p].station, job[p].id)
  BY <1>1 DEF IdsAreOwn
<1>3. CASE job[p].row = job[p].id
  <2>1. CASE job[p].id \in FallbackIds
    BY <1>2, <1>3, <2>1, FallbackIdIsOld
  <2>2. CASE job[p].id \notin FallbackIds
    BY <1>2, <1>3, <2>2 DEF Owns
  <2> QED BY <2>1, <2>2
<1>4. CASE job[p].id \in FallbackIds /\ rows[job[p].row].origin = job[p].id
  <2>1. job[p].row \in DOMAIN rows /\ rows[job[p].row] \in Row
    BY RowTypes
  <2>2. rows[job[p].row].station \in Stations
    BY <2>1 DEF Row
  <2>3. Holds(rows[job[p].row].station, job[p].id)
    BY <1>4, <2>1 DEF Holds
  <2> QED BY <1>2, <1>4, <2>2, <2>3 DEF Owns
<1> QED BY <1>1, <1>3, <1>4 DEF RowOfCall

LEMMA TaskKeepsOwners ==
    ASSUME TypeInv, TypeInv', SequenceIsPast, CallsAreOK, IdsAreOwn, RowsTouchedByOwnId,
           NEW p \in Tasks, TaskStep(p)
    PROVE  RowsTouchedByOwnId'
<1>0. RowStep(p) /\ CallIsOK(job[p]) /\ RowsGrow
  BY StepGrows DEF TaskStep, CallsAreOK
<1> SUFFICES ASSUME NEW n \in DOMAIN rows',
                    NEW s \in ({rows'[n].stoppedBy} \cup rows'[n].meteredBy) \ {Nobody}
             PROVE  rows'[n].station = s \/ (n <= Len(OldRows) /\ Owns(s, n)')
  BY DEF RowsTouchedByOwnId, Owns, Holds, RowIds
<1>1. CASE n \in DOMAIN rows
  <2>0. rows[n] \in Row /\ rows'[n].station = rows[n].station
    BY <1>0, <1>1, RowTypes DEF RowsGrow
  <2>1. ASSUME s \in Stations, rows[n].station = s \/ (n <= Len(OldRows) /\ Owns(s, n))
        PROVE  rows'[n].station = s \/ (n <= Len(OldRows) /\ Owns(s, n)')
    BY <1>0, <2>0, <2>1, OwnsKept
  <2>2. CASE s \in {rows[n].stoppedBy} \cup rows[n].meteredBy
    <3>1. s \in Stations
      BY <2>0, <2>2 DEF Row
    <3> QED BY <1>1, <2>1, <2>2, <3>1 DEF RowsTouchedByOwnId
  <2>3. CASE /\ job[p].at \in StopSteps \cup {"meter"} /\ n = job[p].row /\ s = job[p].station
    <3>1. job[p].kind # "none"
      BY <1>0, <2>3 DEF CallIsOK
    <3>2. s \in Stations
      BY <2>3, <3>1 DEF TypeInv, JobOK
    <3>3. n \in RowIds
      BY <1>1 DEF RowIds
    <3> QED BY <1>0, <2>1, <2>3, <3>2, <3>3, RowIsOwn
  <2>4. \/ s \in {rows[n].stoppedBy} \cup rows[n].meteredBy
        \/ job[p].at \in StopSteps \cup {"meter"} /\ n = job[p].row /\ s = job[p].station
    <3>1. CASE rows'[n] = rows[n]
      BY <3>1
    <3>2. CASE \/ rows'[n] = [rows[n] EXCEPT !.tx = Nobody]
               \/ rows'[n] = [rows[n] EXCEPT !.tx = Nobody, !.status = "ROLLEDBACK"]
      BY <2>0, <3>2 DEF Row
    <3>3. CASE /\ job[p].at = "closeRow" /\ n = job[p].row
               /\ rows'[n] = [rows[n] EXCEPT !.status = "COMPLETED", !.stoppedBy = job[p].station]
      BY <2>0, <3>3 DEF Row, StopSteps
    <3>4. CASE /\ job[p].at = "meter" /\ n = job[p].row
               /\ rows'[n] = [rows[n] EXCEPT !.meteredBy = @ \cup {job[p].station}]
      BY <2>0, <3>4 DEF Row
    <3> QED BY <1>0, <1>1, <3>1, <3>2, <3>3, <3>4 DEF RowStep, RowChange
  <2> QED BY <2>2, <2>3, <2>4
<1>2. CASE \E row \in Row : rows'[n] = row /\ RowAdded(p, row)
  BY <1>2 DEF RowAdded, NewRow
<1> QED BY <1>0, <1>1, <1>2 DEF RowStep

\* A row that can no longer be stopped could not before, or the statement that
\* was to give its id away has failed.
LEMMA TaskKeepsReachable ==
    ASSUME TypeInv, TypeInv', SequenceIsPast, CallsAreOK, OldRowsStay, IdsAreOwn, OpenRowsReachable,
           NEW p \in Tasks, TaskStep(p)
    PROVE  OpenRowsReachable'
<1>0. /\ RowStep(p) /\ CallIsOK(job[p]) /\ RowsGrow /\ IdStep(p) /\ CallStep(p)
      /\ DOMAIN rows = 1..Len(rows) /\ Len(rows) \in Nat
  BY StepGrows, RowTypes DEF TaskStep, CallsAreOK
<1> DEFINE lost == {n \in DOMAIN rows : Unreachable(n)}
           x    == job[p].row
<1>1. ASSUME NEW n \in DOMAIN rows', Unreachable(n)'
      PROVE  n \in lost \/ (n = x /\ faults' = faults + 1)
  <2>0. /\ rows'[n].origin = 0 /\ rows'[n].status = "STARTED"
        /\ n \notin openIds'[rows'[n].station]
        /\ ~\E q \in Calls : job'[q].at = "writeStation" /\ job'[q].kind = "Start" /\ job'[q].row = n
    BY <1>1 DEF Unreachable
  <2>1. n \in DOMAIN rows
    <3> SUFFICES ASSUME n = Len(rows) + 1,
                        NEW row \in Row, rows'[n] = row, RowAdded(p, row)
                 PROVE  FALSE
      BY <1>0, <1>1 DEF RowStep
    <3>1. row.origin = 0
      BY <2>0
    <3>2. job'[p].at = "writeStation" /\ job'[p].kind = "Start" /\ job'[p].row = NextRowId
      BY <3>1 DEF RowAdded, NewRow, FallbackIds
    <3>3. p \in Calls
      BY <3>2 DEF TypeInv, JobOK
    <3>4. NextRowId = n
      BY <1>0 DEF NextRowId
    <3> QED BY <2>0, <3>2, <3>3, <3>4
  <2>2. /\ rows[n] \in Row /\ rows[n].origin = 0 /\ rows[n].station = rows'[n].station
        /\ rows[n].station \in Stations
    BY <1>0, <2>0, <2>1, RowTypes DEF RowsGrow, Row
  <2>3. rows[n].status = "STARTED"
    <3>1. CASE rows'[n] = rows[n]
      BY <2>0, <3>1
    <3>2. CASE rows'[n] = [rows[n] EXCEPT !.tx = Nobody]
      BY <2>0, <2>2, <3>2 DEF Row
    <3>3. CASE rows'[n] = [rows[n] EXCEPT !.tx = Nobody, !.status = "ROLLEDBACK"]
      BY <2>0, <2>2, <3>3 DEF Row
    <3>4. CASE rows'[n] = [rows[n] EXCEPT !.status = "COMPLETED", !.stoppedBy = job[p].station]
      BY <2>0, <2>2, <3>4 DEF Row
    <3>5. CASE rows'[n] = [rows[n] EXCEPT !.meteredBy = @ \cup {job[p].station}]
      BY <2>0, <2>2, <3>5 DEF Row
    <3> QED BY <1>0, <2>1, <3>1, <3>2, <3>3, <3>4, <3>5 DEF RowStep, RowChange
  <2>5. n \notin openIds[rows[n].station]
    <3> SUFFICES ASSUME n \in openIds[rows[n].station] PROVE FALSE
      OBVIOUS
    <3>1. job[p].at = "unmap" /\ n = job[p].id
      BY <1>0, <2>0, <2>2 DEF IdStep
    <3>2. n \notin FallbackIds
      BY <2>3, FallbackIdIsOld DEF OldRowsStay
    <3>3. job[p].row = n /\ rows[n].status = "COMPLETED"
      BY <1>0, <3>1, <3>2 DEF CallIsOK, StopSteps, RowOfCall
    <3> QED BY <2>3, <3>3
  <2>6. ASSUME NEW q \in Calls, job[q].at = "writeStation", job[q].kind = "Start", job[q].row = n
        PROVE  n = x /\ faults' = faults + 1
    <3>1. q = p
      BY <1>0, <2>0, <2>6 DEF CallStep, Tasks
    <3>3. rows[n].station = job[p].station
      BY <1>0, <2>6, <3>1 DEF CallIsOK
    <3>4. faults' = faults + 1
      BY <1>0, <2>0, <2>2, <2>6, <3>1, <3>3 DEF IdStep
    <3> QED BY <2>6, <3>1, <3>4
  <2> QED BY <2>1, <2>2, <2>3, <2>5, <2>6 DEF Unreachable
<1> DEFINE after == {n \in DOMAIN rows' : Unreachable(n)'}
<1>2. IsFiniteSet(lost) /\ Cardinality(lost) \in Nat
  <2>1. IsFiniteSet(DOMAIN rows)
    BY <1>0, FS_Interval
  <2>2. lost \in SUBSET (DOMAIN rows)
    OBVIOUS
  <2> HIDE DEF lost
  <2> QED BY <2>1, <2>2, FS_Subset, FS_CardinalityType
<1>3. Cardinality(lost) <= faults /\ faults \in Nat
  BY DEF OpenRowsReachable, TypeInv, TypeOK
<1> HIDE DEF x
<1>4. CASE faults' = faults + 1
  <2>1. after \in SUBSET (lost \cup {x})
    BY <1>1
  <2> HIDE DEF lost, after
  <2>2. IsFiniteSet(lost \cup {x}) /\ Cardinality(lost \cup {x}) \in {Cardinality(lost), Cardinality(lost) + 1}
    BY <1>2, FS_AddElement
  <2>3. Cardinality(after) <= Cardinality(lost \cup {x}) /\ Cardinality(after) \in Nat
    BY <2>1, <2>2, FS_Subset, FS_CardinalityType
  <2>4. Cardinality(after) <= faults'
    BY <1>2, <1>3, <1>4, <2>2, <2>3
  <2> QED BY <2>4 DEF OpenRowsReachable, after
<1>5. CASE faults' # faults + 1
  <2>1. after \in SUBSET lost /\ faults' = faults
    BY <1>0, <1>1, <1>5 DEF IdStep
  <2> HIDE DEF lost, after
  <2>2. Cardinality(after) <= Cardinality(lost) /\ Cardinality(after) \in Nat
    BY <1>2, <2>1, FS_Subset, FS_CardinalityType
  <2>3. Cardinality(after) <= faults'
    BY <1>2, <1>3, <2>1, <2>2
  <2> QED BY <2>3 DEF OpenRowsReachable, after
<1> QED BY <1>4, <1>5

LEMMA TaskKeepsOldRows ==
    ASSUME TypeInv, TypeInv', CallsAreOK, OldRowsStay, NEW p \in Tasks, TaskStep(p)
    PROVE  OldRowsStay'
<1>1. RowsGrow
  BY StepGrows DEF TaskStep, CallsAreOK
<1>2. /\ Len(OldRows) \in Nat /\ Len(rows) \in Nat /\ Len(rows') \in Nat
      /\ DOMAIN OldRows = 1..Len(OldRows) /\ DOMAIN rows = 1..Len(rows)
  BY LeftRows, RowTypes DEF TypeInv, TypeOK
<1>3. Len(rows') >= Len(OldRows)
  BY <1>1, <1>2 DEF RowsGrow, OldRowsStay
<1>4. DOMAIN OldRows \subseteq DOMAIN rows
  BY <1>2 DEF OldRowsStay
<1> QED BY <1>1, <1>3, <1>4 DEF RowsGrow, OldRowsStay

LEMMA TaskKeepsRowInv ==
    ASSUME TypeInv, TypeInv', SessionInv, RowInv, NEW p \in Tasks, TaskStep(p)
    PROVE  RowInv'
<1>1. /\ OneHolder /\ HeldHasBegun /\ OneEntry /\ ImageCoversStation /\ ForgetIsComplete
      /\ UncommittedIsOfImage /\ CallsAreOK /\ OldRowsStay
      /\ SequenceIsPast => IdsAreOwn /\ RowsTouchedByOwnId /\ OpenRowsReachable
  BY DEF RowInv
<1>2. OneHolder' /\ HeldHasBegun' /\ OneEntry'
  BY <1>1, TaskKeepsHolders
<1>3. HeardOffline'
  BY DEF HeardOffline, TaskStep, OnlineStep
<1>4. ImageCoversStation' /\ ForgetIsComplete'
  BY <1>1, TaskKeepsBuffered
<1>5. UncommittedIsOfImage' /\ CallsAreOK' /\ OldRowsStay'
  BY <1>1, TaskKeepsUncommitted, TaskKeepsCalls, TaskKeepsOldRows
<1>6. ASSUME SequenceIsPast
      PROVE  IdsAreOwn' /\ OpenIdsStay' /\ RowsTouchedByOwnId' /\ OpenRowsReachable'
  <2>1. OpenIdsStay'
    BY DEF OpenIdsStay, TaskStep, OnlineStep
  <2> QED BY <1>1, <1>6, <2>1, TaskKeepsIds, TaskKeepsOwners, TaskKeepsReachable
<1> QED BY <1>2, <1>3, <1>4, <1>5, <1>6 DEF RowInv, SequenceIsPast

------------------------------------------------------------------------------
(* Steps before the database is connected: no new row and no task, so that    *)
(* only who holds what is at stake.                                           *)

\* What RowInv comes to without new rows and tasks.
NoRowsNoTasks == rows = OldRows /\ faults \in Nat /\ \A p \in Tasks : job[p] = Idle
OfflineInv ==
    /\ OneHolder /\ HeldHasBegun /\ OneEntry /\ HeardOffline
    /\ SequenceIsPast =>
           /\ \A s \in Stations : \A id \in openIds[s] : Owns(s, id)
           /\ \A n \in DOMAIN OldRows :
                  OldRows[n].status = "STARTED" => n \in openIds[OldRows[n].station]

LEMMA OfflineIsEnough == NoRowsNoTasks /\ OfflineInv => RowInv
<1> SUFFICES ASSUME NoRowsNoTasks, OfflineInv PROVE RowInv
  OBVIOUS
<1> USE DEF NoRowsNoTasks
<1>1. \A n \in DOMAIN rows : /\ rows[n].tx = Nobody /\ rows[n].origin = 0
                             /\ rows[n].stoppedBy = Nobody /\ rows[n].meteredBy = {}
  BY LeftRows
<1>2. Idle.at = "idle" /\ Idle.kind = "none"
  BY DEF Idle
<1>3. ImageCoversStation /\ ForgetIsComplete /\ UncommittedIsOfImage
  BY <1>1, <1>2 DEF ImageCoversStation, ForgetIsComplete, UncommittedIsOfImage, PromotionSteps
<1>4. CallsAreOK
  BY <1>2 DEF CallsAreOK, CallIsOK, StopSteps
<1>5. SequenceIsPast => IdsAreOwn
  BY <1>2 DEF OfflineInv, IdsAreOwn
<1>6. RowsTouchedByOwnId
  BY <1>1 DEF RowsTouchedByOwnId
<1>7. SequenceIsPast => OpenRowsReachable /\ OpenIdsStay
  <2> SUFFICES ASSUME SequenceIsPast PROVE OpenRowsReachable /\ OpenIdsStay
    OBVIOUS
  <2>1. OpenIdsStay
    BY DEF OfflineInv, OpenIdsStay
  <2>2. {n \in DOMAIN rows : Unreachable(n)} = {}
    BY DEF OfflineInv, Unreachable
  <2> QED BY <2>1, <2>2, FS_EmptySet DEF OpenRowsReachable
<1>8. OldRowsStay
  BY LeftRows DEF OldRowsStay
<1> QED BY <1>3, <1>4, <1>5, <1>6, <1>7, <1>8 DEF RowInv, OfflineInv

\* Who holds an id offline: the mapping and memory only.
LEMMA OfflineHolds ==
    ASSUME rows = OldRows, \A p \in Tasks : job[p] = Idle, NEW s, NEW id \in FallbackIds
    PROVE  Holds(s, id) <=> \/ memoryTransactions[id].station = s
                            \/ \E e \in memoryStations[s].sessions : e.id = id
<1>1. Idle.at = "idle" /\ id # 0
  BY DEF Idle, FallbackIds
<1>2. \A n \in DOMAIN rows : rows[n].origin # id
  BY <1>1, LeftRows
<1> QED BY <1>1, <1>2 DEF Holds, PromotionSteps

\* What a fallback handler does to its station s: x takes its place, and no
\* session begins or ends, one begins, or one ends.
Replaced(s, x) ==
    /\ x \in MemoryStation /\ x.live /\ x.heard = "buffered"
    /\ memoryStations' = [memoryStations EXCEPT ![s] = x]
KeepsSessions(s, x) ==
    /\ x.sessions = memoryStations[s].sessions
    /\ UNCHANGED <<memoryTransactions, nextFallbackTransactionId, openIds>>
BeginsSession(s, x) ==
    LET id == nextFallbackTransactionId
    IN  /\ id \in FallbackIds
        /\ \E session \in Session :
               session.id = id /\ x.sessions = memoryStations[s].sessions \cup {session}
        /\ memoryTransactions' = [memoryTransactions EXCEPT ![id] = [station |-> s, row |-> 0]]
        /\ nextFallbackTransactionId' = id + 1
        /\ openIds' = [openIds EXCEPT ![s] = @ \cup {id}]
EndsSession(s, x, id) ==
    /\ id \in FallbackIds /\ memoryTransactions[id].station = s
    /\ \E e \in memoryStations[s].sessions :
           e.id = id /\ x.sessions = memoryStations[s].sessions \ {e}
    /\ memoryTransactions' = [memoryTransactions EXCEPT ![id] = NoMapping]
    /\ UNCHANGED nextFallbackTransactionId
    /\ \E t \in Stations : StopAnswered(t, id)

OfflineStep(s, x) ==
    /\ Replaced(s, x)
    /\ \/ KeepsSessions(s, x)
       \/ BeginsSession(s, x)
       \/ \E id \in FallbackIds : EndsSession(s, x, id)

\* The station the handlers start from has been heard from, as long as the
\* database is not connected.
LEMMA OfflineGetOrCreate ==
    ASSUME TypeInv, SessionInv, HeardOffline, ~connected, NEW s \in Stations
    PROVE  /\ GetOrCreateMemoryStation(s) \in MemoryStation
           /\ GetOrCreateMemoryStation(s).live
           /\ GetOrCreateMemoryStation(s).heard = "buffered"
           /\ GetOrCreateMemoryStation(s).sessions = memoryStations[s].sessions
<1>1. CASE memoryStations[s].live
  BY <1>1, GetOrCreateKeeps DEF GetOrCreateMemoryStation, HeardOffline
<1>2. CASE ~memoryStations[s].live
  BY <1>2, GetOrCreateKeeps DEF GetOrCreateMemoryStation, NoMemoryStation
<1> QED BY <1>1, <1>2

LEMMA OfflineStepTaken ==
    ASSUME TypeInv, SessionInv, HeardOffline, FallbackNext
    PROVE  \E s \in Stations, x \in MemoryStation : OfflineStep(s, x)
<1>1. PICK s \in Stations :
        \/ FallbackBoot(s)
        \/ FallbackHeartbeat(s)
        \/ \E c \in Connectors : FallbackStart(s, c) \/ \E raw \in RawStatuses : FallbackStatus(s, c, raw)
        \/ \E id \in openIds[s] : FallbackStop(s, id)
  BY DEF FallbackNext
<1>0. ~connected
  BY <1>1 DEF FallbackBoot, FallbackHeartbeat, FallbackStart, FallbackStatus, FallbackStop, Fallback
<1> DEFINE station == GetOrCreateMemoryStation(s)
<1>2. /\ station \in MemoryStation /\ station.live /\ station.heard = "buffered"
      /\ station.sessions = memoryStations[s].sessions
  BY <1>0, OfflineGetOrCreate
<1> HIDE DEF station
<1>3. CASE FallbackBoot(s)
  <2> DEFINE x == [station EXCEPT !.identified = TRUE, !.heard = "buffered",
                                  !.status = "AVAILABLE"]
  <2>1. /\ x \in MemoryStation /\ x.live /\ x.heard = "buffered"
        /\ x.sessions = memoryStations[s].sessions
    BY <1>2 DEF MemoryStation, StationStatusOf
  <2>2. memoryStations' = [memoryStations EXCEPT ![s] = x]
    BY <1>3 DEF FallbackBoot, SetMemoryStation, station
  <2> HIDE DEF x
  <2>3. OfflineStep(s, x)
    BY <1>3, <2>1, <2>2 DEF FallbackBoot, OfflineStep, Replaced, KeepsSessions
  <2> QED BY <2>1, <2>3
<1>4. CASE FallbackHeartbeat(s)
  <2> DEFINE x == [station EXCEPT !.heard = "buffered"]
  <2>1. /\ x \in MemoryStation /\ x.live /\ x.heard = "buffered"
        /\ x.sessions = memoryStations[s].sessions
    BY <1>2 DEF MemoryStation
  <2>2. memoryStations' = [memoryStations EXCEPT ![s] = x]
    BY <1>4 DEF FallbackHeartbeat, SetMemoryStation, station
  <2> HIDE DEF x
  <2>3. OfflineStep(s, x)
    BY <1>4, <2>1, <2>2 DEF FallbackHeartbeat, OfflineStep, Replaced, KeepsSessions
  <2> QED BY <2>1, <2>3
<1>5. ASSUME NEW c \in Connectors, NEW raw \in RawStatuses, FallbackStatus(s, c, raw)
      PROVE  \E x \in MemoryStation : OfflineStep(s, x)
  <2> DEFINE status     == ResolveConnectorStatus(raw)
             connectors == [station.connectors EXCEPT ![c] = status]
             after      == StatusAfterNotification(c, status, connectors, station.status)
             x          == [station EXCEPT !.connectors = connectors, !.status = after]
  <2>1. /\ x \in MemoryStation /\ x.live /\ x.heard = "buffered"
        /\ x.sessions = memoryStations[s].sessions
    <3>1. connectors \in [Connectors -> ConnectorStatus \cup {Absent}]
      BY <1>2, ResolveType DEF MemoryStation
    <3>2. after \in StationStatusOf
      BY NotificationType
    <3> HIDE DEF connectors, after
    <3> QED BY <1>2, <3>1, <3>2 DEF MemoryStation
  <2>2. memoryStations' = [memoryStations EXCEPT ![s] = x]
    BY <1>5 DEF FallbackStatus, SetMemoryStation, station
  <2> HIDE DEF x
  <2>3. OfflineStep(s, x)
    BY <1>5, <2>1, <2>2 DEF FallbackStatus, OfflineStep, Replaced, KeepsSessions
  <2> QED BY <2>1, <2>3
<1>6. ASSUME NEW c \in Connectors, FallbackStart(s, c)
      PROVE  \E x \in MemoryStation : OfflineStep(s, x)
  <2> DEFINE id      == nextFallbackTransactionId
             session == [id |-> id, connector |-> c]
             x       == [station EXCEPT !.connectors[c] = "CHARGING", !.status = "CHARGING",
                                        !.sessions = @ \cup {session}]
  <2>1. id \in FallbackIds
    BY <1>6 DEF FallbackStart, TypeInv, TypeOK, FallbackIds
  <2>2. session \in Session /\ session.id = id
    BY <2>1 DEF Session
  <2>3. /\ x \in MemoryStation /\ x.live /\ x.heard = "buffered"
        /\ x.sessions = memoryStations[s].sessions \cup {session}
    <3>1. "CHARGING" \in StationStatusOf /\ "CHARGING" \in ConnectorStatus
      BY DEF StationStatusOf, ConnectorStatus
    <3> HIDE DEF session
    <3> QED BY <1>2, <2>2, <3>1 DEF MemoryStation
  <2>4. memoryStations' = [memoryStations EXCEPT ![s] = x]
    BY <1>6 DEF FallbackStart, SetMemoryStation, station
  <2> HIDE DEF x, session
  <2>5. Replaced(s, x)
    BY <2>3, <2>4 DEF Replaced
  <2>6. BeginsSession(s, x)
    BY <1>6, <2>1, <2>2, <2>3 DEF FallbackStart, BeginsSession, NextTransactionId
  <2> QED BY <2>3, <2>5, <2>6 DEF OfflineStep
<1>7. ASSUME NEW id \in openIds[s], FallbackStop(s, id)
      PROVE  \E t \in Stations, x \in MemoryStation : OfflineStep(t, x)
  <2> DEFINE t   == MappingOf(id).station
             old == GetOrCreateMemoryStation(t)
  <2>1. t \in Stations /\ id \in FallbackIds /\ memoryTransactions[id].station = t
    BY <1>7 DEF FallbackStop, MappingOf, Known, NoMapping, TypeInv, TypeOK, Mapping
  <2>2. /\ old \in MemoryStation /\ old.live /\ old.heard = "buffered"
        /\ old.sessions = memoryStations[t].sessions
    BY <1>0, <2>1, OfflineGetOrCreate
  <2>3. PICK e \in old.sessions :
          /\ e.id = id
          /\ LET connectors == [old.connectors EXCEPT
                                    ![e.connector] = IF @ = Absent THEN @ ELSE "AVAILABLE"]
             IN  SetMemoryStation(t, [old EXCEPT
                                !.connectors = connectors,
                                !.sessions   = @ \ {e},
                                !.status     = StatusFromConnectors(connectors, @)])
    BY <1>7 DEF FallbackStop
  <2>0. \E u \in Stations : StopAnswered(u, id)
    BY <1>7 DEF FallbackStop
  <2> HIDE DEF old, t
  <2> DEFINE connectors == [old.connectors EXCEPT
                               ![e.connector] = IF @ = Absent THEN @ ELSE "AVAILABLE"]
             after      == StatusFromConnectors(connectors, old.status)
             x          == [old EXCEPT !.connectors = connectors, !.sessions = @ \ {e},
                                       !.status = after]
  <2>4. /\ x \in MemoryStation /\ x.live /\ x.heard = "buffered"
        /\ x.sessions = memoryStations[t].sessions \ {e}
    <3>1. connectors \in [Connectors -> ConnectorStatus \cup {Absent}]
      BY <2>2 DEF MemoryStation, ConnectorStatus
    <3>2. after \in StationStatusOf
      BY FromConnectorsType
    <3> HIDE DEF connectors, after
    <3> QED BY <2>2, <3>1, <3>2 DEF MemoryStation
  <2>5. memoryStations' = [memoryStations EXCEPT ![t] = x]
    BY <2>2, <2>3 DEF MemoryStation, SetMemoryStation
  <2> HIDE DEF x
  <2>6. EndsSession(t, x, id)
    BY <1>7, <2>0, <2>1, <2>2, <2>3, <2>4 DEF FallbackStop, EndsSession
  <2>7. OfflineStep(t, x)
    BY <2>1, <2>4, <2>5, <2>6 DEF OfflineStep, Replaced
  <2> QED BY <2>1, <2>4, <2>7
<1> QED BY <1>1, <1>3, <1>4, <1>5, <1>6, <1>7

\* A station holds what it held before, or the id it was just given.
LEMMA OfflineStepHolds ==
    ASSUME TypeInv, rows = OldRows, rows' = OldRows, \A p \in Tasks : job[p] = Idle, job' = job,
           NEW s \in Stations, NEW x \in MemoryStation, OfflineStep(s, x),
           NEW t \in Stations, NEW id \in FallbackIds, Holds(t, id)'
    PROVE  \/ Holds(t, id)
           \/ BeginsSession(s, x) /\ t = s /\ id = nextFallbackTransactionId
<1>1. Idle.at = "idle" /\ id # 0
  BY DEF Idle, FallbackIds
<1>0. \A n \in DOMAIN rows' : rows'[n].origin # id
  BY <1>1, LeftRows
<1>2. \/ memoryTransactions'[id].station = t
      \/ \E e \in memoryStations'[t].sessions : e.id = id
  BY <1>0, <1>1 DEF Holds, PromotionSteps
<1>3. memoryStations'[s] = x /\ \A u \in Stations \ {s} : memoryStations'[u] = memoryStations[u]
  BY DEF OfflineStep, Replaced, TypeInv, TypeOK
<1>4. memoryTransactions \in [FallbackIds -> Mapping] /\ NoMapping.station = Nobody
      /\ t # Nobody
  BY NamesAssumption DEF TypeInv, TypeOK, NoMapping
<1>5. CASE KeepsSessions(s, x)
  BY <1>2, <1>3, <1>5 DEF KeepsSessions, Holds
<1>6. CASE BeginsSession(s, x)
  <2>1. PICK session \in Session :
            /\ session.id = nextFallbackTransactionId
            /\ x.sessions = memoryStations[s].sessions \cup {session}
    BY <1>6 DEF BeginsSession
  <2>2. memoryTransactions'[id] = IF id = nextFallbackTransactionId
                                  THEN [station |-> s, row |-> 0] ELSE memoryTransactions[id]
    BY <1>4, <1>6 DEF BeginsSession
  <2> QED BY <1>2, <1>3, <1>6, <2>1, <2>2 DEF Holds
<1>7. ASSUME NEW i \in FallbackIds, EndsSession(s, x, i)
      PROVE  Holds(t, id)
  <2>1. x.sessions \subseteq memoryStations[s].sessions
    BY <1>7 DEF EndsSession
  <2>2. memoryTransactions'[id] = IF id = i THEN NoMapping ELSE memoryTransactions[id]
    BY <1>4, <1>7 DEF EndsSession
  <2> QED BY <1>2, <1>3, <1>4, <2>1, <2>2 DEF Holds
<1> QED BY <1>5, <1>6, <1>7 DEF OfflineStep

\* The ids a station knows offline are those it held, or was just given.
LEMMA OfflineStepIds ==
    ASSUME TypeInv, NEW s \in Stations, NEW x \in MemoryStation, OfflineStep(s, x)
    PROVE  /\ nextFallbackTransactionId' \in
                  {nextFallbackTransactionId, nextFallbackTransactionId + 1}
           /\ BeginsSession(s, x) =>
                  nextFallbackTransactionId' = nextFallbackTransactionId + 1
           /\ \A t \in Stations : \A id \in openIds'[t] :
                  \/ id \in openIds[t]
                  \/ BeginsSession(s, x) /\ t = s /\ id = nextFallbackTransactionId
           /\ \A t \in Stations : \A id \in openIds[t] : id \in openIds'[t] \/ id \in FallbackIds
<1>1. openIds \in [Stations -> SUBSET Nat]
  BY DEF TypeInv, TypeOK
<1>2. CASE KeepsSessions(s, x)
  BY <1>2 DEF KeepsSessions, BeginsSession
<1>3. CASE BeginsSession(s, x)
  BY <1>1, <1>3 DEF BeginsSession
<1>4. ASSUME NEW i \in FallbackIds, EndsSession(s, x, i)
      PROVE  /\ nextFallbackTransactionId' = nextFallbackTransactionId
             /\ \A t \in Stations : openIds'[t] \subseteq openIds[t]
             /\ \A t \in Stations : \A id \in openIds[t] : id \in openIds'[t] \/ id \in FallbackIds
  BY <1>1, <1>4 DEF EndsSession, StopAnswered
<1> QED BY <1>2, <1>3, <1>4 DEF OfflineStep, BeginsSession

LEMMA OfflineStepKeeps ==
    ASSUME TypeInv, TypeInv', OfflineInv, ~connected, rows = OldRows, rows' = OldRows,
           \A p \in Tasks : job[p] = Idle, job' = job,
           NEW s \in Stations, NEW x \in MemoryStation, OfflineStep(s, x)
    PROVE  OfflineInv'
<1> DEFINE next == nextFallbackTransactionId
<1>0. /\ next \in Nat /\ next' \in {next, next + 1} /\ OneHolder /\ HeldHasBegun /\ OneEntry
      /\ MaxSessions \in Nat /\ BeginsSession(s, x) => next' = next + 1 /\ next \in FallbackIds
  BY OfflineStepIds, NumbersAssumption DEF TypeInv, TypeOK, OfflineInv, BeginsSession
<1>1. ASSUME NEW t \in Stations, NEW id \in FallbackIds, Holds(t, id)'
      PROVE  \/ Holds(t, id) /\ id < next
             \/ BeginsSession(s, x) /\ t = s /\ id = next
  BY <1>0, <1>1, OfflineStepHolds DEF HeldHasBegun
<1>2. OneHolder'
  <2> SUFFICES ASSUME NEW id \in FallbackIds, NEW t \in Stations, NEW u \in Stations,
                      Holds(t, id)', Holds(u, id)'
               PROVE  t = u
    BY DEF OneHolder
  <2> QED BY <1>0, <1>1 DEF OneHolder
<1>3. HeldHasBegun'
  <2> SUFFICES ASSUME NEW id \in FallbackIds, NEW t \in Stations, Holds(t, id)'
               PROVE  id < next'
    BY DEF HeldHasBegun
  <2>1. id \in Nat
    BY DEF FallbackIds
  <2> QED BY <1>0, <1>1, <2>1
<1>4. memoryStations'[s] = x /\ \A u \in Stations \ {s} : memoryStations'[u] = memoryStations[u]
  BY DEF OfflineStep, Replaced, TypeInv, TypeOK
<1>5. \A e, f \in x.sessions : e.id = f.id => e = f
  <2>0. \A e, f \in memoryStations[s].sessions : e.id = f.id => e = f
    BY <1>0 DEF OneEntry
  <2>1. CASE x.sessions \subseteq memoryStations[s].sessions
    BY <2>0, <2>1
  <2>2. CASE BeginsSession(s, x)
    <3>1. PICK session \in Session :
              session.id = next /\ x.sessions = memoryStations[s].sessions \cup {session}
      BY <2>2 DEF BeginsSession
    <3>2. \A e \in memoryStations[s].sessions : e.id # next
      <4> SUFFICES ASSUME NEW e \in memoryStations[s].sessions, e.id = next PROVE FALSE
        OBVIOUS
      <4>1. Holds(s, next) /\ next \in FallbackIds
        BY <1>0, <2>2 DEF Holds
      <4>2. next < next
        BY <1>0, <4>1 DEF HeldHasBegun
      <4> QED BY <1>0, <4>2
    <3> QED BY <2>0, <3>1, <3>2
  <2> QED BY <2>1, <2>2 DEF OfflineStep, KeepsSessions, EndsSession
<1>6. OneEntry' /\ HeardOffline'
  <2>1. x.heard = "buffered"
    BY DEF OfflineStep, Replaced
  <2>2. OneEntry'
    BY <1>0, <1>4, <1>5 DEF OneEntry
  <2> QED BY <1>4, <2>1, <2>2 DEF HeardOffline, OfflineInv
<1>7. ASSUME SequenceIsPast, NEW t \in Stations, NEW id \in openIds'[t]
      PROVE  Owns(t, id)'
  <2>0. CASE id \in openIds[t] /\ id \notin FallbackIds
    BY <1>7, <2>0 DEF OfflineInv, Owns, RowIds
  <2>1. CASE id \in openIds[t] /\ id \in FallbackIds
    <3>1. id \in FallbackIds /\ id < next /\ \A u \in Stations : Holds(u, id) => u = t
      BY <1>7, <2>1 DEF OfflineInv, Owns
    <3>2. \A u \in Stations : Holds(u, id)' => u = t
      BY <1>0, <1>1, <3>1
    <3>3. id < next'
      BY <1>0, <3>1 DEF FallbackIds
    <3> QED BY <3>1, <3>2, <3>3 DEF Owns
  <2>2. CASE BeginsSession(s, x) /\ t = s /\ id = next
    <3>1. \A u \in Stations : Holds(u, id)' => u = t
      BY <1>0, <1>1, <2>2
    <3> QED BY <1>0, <2>2, <3>1 DEF Owns
  <2> QED BY <1>7, <2>0, <2>1, <2>2, OfflineStepIds
<1>8. ASSUME SequenceIsPast, NEW n \in DOMAIN OldRows, OldRows[n].status = "STARTED"
      PROVE  n \in openIds'[OldRows[n].station]
  <2>1. n \notin FallbackIds
    BY <1>8, FallbackIdIsOld
  <2>2. OldRows[n].station \in Stations
    <3>1. OldRows[n] \in Row
      BY LeftRows
    <3> QED BY <3>1 DEF Row
  <2> QED BY <1>8, <2>1, <2>2, OfflineStepIds DEF OfflineInv
<1> QED BY <1>2, <1>3, <1>6, <1>7, <1>8 DEF OfflineInv, SequenceIsPast

\* Offline, nobody handles a call and there are no rows.
LEMMA OfflineIsQuiet ==
    ASSUME TypeInv, SessionInv, ~connected
    PROVE  rows = OldRows /\ \A p \in Tasks : job[p] = Idle
BY DEF SessionInv, QuietOffline, TypeInv, JobOK

LEMMA RowInvInit ==
    ASSUME Init
    PROVE  RowInv
<1>1. /\ rows = OldRows /\ faults \in Nat /\ \A p \in Tasks : job[p] = Idle
      /\ \A s \in Stations : memoryStations[s] = NoMemoryStation /\ openIds[s] = OpenIdsLeft(s)
      /\ \A id \in FallbackIds : memoryTransactions[id] = NoMapping
  BY DEF Init
<1>2. \A id \in FallbackIds : \A s \in Stations : ~Holds(s, id)
  BY <1>1, OfflineHolds, NamesAssumption DEF NoMemoryStation, NoMapping
<1>3. OneHolder /\ HeldHasBegun
  BY <1>2 DEF OneHolder, HeldHasBegun
<1>4. OneEntry /\ HeardOffline
  BY <1>1 DEF OneEntry, HeardOffline, NoMemoryStation
<1>6. ASSUME SequenceIsPast, NEW s \in Stations, NEW id \in openIds[s]
      PROVE  Owns(s, id)
  <2>1. id \in DOMAIN OldRows /\ OldRows[id].station = s /\ OldRows[id].status = "STARTED"
    BY <1>1, <1>6 DEF OpenIdsLeft, OldRowsOf
  <2>2. id \notin FallbackIds
    BY <1>6, <2>1, FallbackIdIsOld
  <2> QED BY <1>1, <2>1, <2>2 DEF Owns, RowIds
<1>7. \A n \in DOMAIN OldRows :
          OldRows[n].status = "STARTED" => n \in openIds[OldRows[n].station]
  <2> SUFFICES ASSUME NEW n \in DOMAIN OldRows, OldRows[n].status = "STARTED"
               PROVE  n \in openIds[OldRows[n].station]
    OBVIOUS
  <2>1. OldRows[n].station \in Stations /\ OldRows[n].tx = Nobody
    <3>1. OldRows[n] \in Row /\ OldRows[n].tx = Nobody
      BY LeftRows
    <3> QED BY <3>1 DEF Row
  <2> QED BY <1>1, <2>1 DEF OpenIdsLeft, OldRowsOf, Committed
<1>5. OfflineInv
  BY <1>3, <1>4, <1>6, <1>7 DEF OfflineInv
<1> QED BY <1>1, <1>5, OfflineIsEnough DEF NoRowsNoTasks

LEMMA FallbackKeepsRows ==
    ASSUME TypeInv, TypeInv', SessionInv, RowInv, FallbackNext
    PROVE  RowInv'
<1>1. /\ ~connected
      /\ UNCHANGED <<rows, job>>
  BY DEF FallbackNext, FallbackBoot, FallbackHeartbeat, FallbackStart, FallbackStatus,
     FallbackStop, Fallback, dbVars, taskVars
<1>2. rows = OldRows /\ \A p \in Tasks : job[p] = Idle
  BY <1>1, OfflineIsQuiet
<1>3. OfflineInv
  BY <1>1 DEF RowInv, OfflineInv, IdsAreOwn, OpenIdsStay
<1>4. PICK s \in Stations, x \in MemoryStation : OfflineStep(s, x)
  BY <1>3, OfflineStepTaken DEF OfflineInv
<1>5. OfflineInv'
  BY <1>1, <1>2, <1>3, <1>4, OfflineStepKeeps
<1>6. NoRowsNoTasks'
  BY <1>1, <1>2 DEF NoRowsNoTasks, TypeInv, TypeOK
<1> QED BY <1>5, <1>6, OfflineIsEnough, PTL

\* The first connection: the listener may now promote the station of now.
LEMMA EstablishKeepsRows ==
    ASSUME TypeInv, TypeInv', SessionInv, RowInv, EstablishConnection
    PROVE  RowInv'
<1>1. /\ ~connected /\ connected'
      /\ UNCHANGED <<memoryStations, memoryTransactions, nextFallbackTransactionId, rows,
                     openIds, faults>>
  BY DEF EstablishConnection, ConnectOk, memoryVars, dbVars, SessionInv, AttemptsEnd
<1>2. rows' = rows /\ rows = OldRows /\ \A p \in Tasks : job[p] = Idle
  BY <1>1, OfflineIsQuiet
<1>11. \A n \in DOMAIN rows' : rows'[n].tx = Nobody
  BY <1>2, LeftRows
<1>3. Idle.at = "idle" /\ Idle.kind = "none" /\ Idle \in Job
  BY NullTypes DEF Idle
<1>4. \A p \in Tasks :
          /\ job'[p].kind = "none"
          /\ \/ job'[p].at = "idle"
             \/ /\ job'[p].at = "upsertStation" /\ job'[p].target \in Stations
                /\ job'[p].image = memoryStations'[job'[p].target]
  <2>1. CASE \E s \in Stations : job' = [job EXCEPT ![Listener] =
                                             Promoting(Idle, s, memoryStations, "idle")]
    <3>1. PICK s \in Stations : job' = [job EXCEPT ![Listener] =
                                             Promoting(Idle, s, memoryStations, "idle")]
      BY <2>1
    <3> DEFINE j == Promoting(Idle, s, memoryStations, "idle")
    <3>2. /\ j.kind = "none"
          /\ \/ j.at = "idle"
             \/ j.at = "upsertStation" /\ j.target = s /\ j.image = memoryStations[s]
      BY <1>3 DEF Promoting, Job
    <3>3. \A p \in Tasks : job'[p] = IF p = Listener THEN j ELSE job[p]
      BY <3>1 DEF TypeInv, TypeOK
    <3> HIDE DEF j
    <3> QED BY <1>1, <1>2, <1>3, <3>2, <3>3
  <2>2. CASE job' = [job EXCEPT ![Listener] = Idle]
    <3>1. \A p \in Tasks : job'[p] = Idle
      BY <1>2, <2>2 DEF TypeInv, TypeOK
    <3> QED BY <1>3, <3>1
  <2> QED BY <2>1, <2>2 DEF EstablishConnection, ListenerTurn
<1>5. ASSUME NEW s \in Stations, NEW id \in FallbackIds, Holds(s, id)'
      PROVE  Holds(s, id)
  BY <1>1, <1>2, <1>4, <1>5 DEF Holds, PromotionSteps
<1>6. OneHolder' /\ HeldHasBegun' /\ OneEntry'
  BY <1>1, <1>5 DEF RowInv, OneHolder, HeldHasBegun, OneEntry
<1>7. ImageCoversStation' /\ ForgetIsComplete' /\ UncommittedIsOfImage' /\ HeardOffline'
  BY <1>1, <1>4, <1>11 DEF ImageCoversStation, ForgetIsComplete, UncommittedIsOfImage,
     HeardOffline, PromotionSteps
<1>8. CallsAreOK'
  <2> SUFFICES ASSUME NEW p \in Tasks PROVE CallIsOK(job[p])'
    BY DEF CallsAreOK
  <2>1. job'[p].kind = "none" /\ job'[p].at \in {"idle", "upsertStation"}
    BY <1>4
  <2> QED BY <2>1 DEF CallIsOK, StopSteps
<1>12. ASSUME NEW s \in Stations, NEW id, Owns(s, id)
       PROVE  Owns(s, id)'
  BY <1>1, <1>2, <1>5, <1>12 DEF Owns, RowIds
<1>9. ASSUME SequenceIsPast
      PROVE  IdsAreOwn' /\ OpenIdsStay'
  <2>1. \A p \in Tasks : job'[p].kind \notin {"Stop", "Meter"}
    BY <1>4
  <2>2. ASSUME NEW s \in Stations, NEW id \in openIds'[s]
        PROVE  Owns(s, id)'
    <3>1. Owns(s, id)
      BY <1>1, <1>9, <2>2 DEF RowInv, IdsAreOwn
    <3> QED BY <1>12, <3>1
  <2>3. OpenIdsStay'
    BY <1>1 DEF OpenIdsStay
  <2> QED BY <2>1, <2>2, <2>3 DEF IdsAreOwn
<1>10. ASSUME SequenceIsPast
       PROVE  RowsTouchedByOwnId' /\ OpenRowsReachable'
  <2>1. \A n \in DOMAIN rows' : Unreachable(n)' <=> Unreachable(n)
    BY <1>1, <1>2, <1>3, <1>4 DEF Unreachable, Tasks
  <2>2. OpenRowsReachable'
    <3>1. {n \in DOMAIN rows' : Unreachable(n)'} = {n \in DOMAIN rows : Unreachable(n)}
      BY <1>2, <2>1
    <3> QED BY <1>1, <1>10, <3>1 DEF RowInv, OpenRowsReachable
  <2>3. RowsTouchedByOwnId'
    <3>1. \A n \in DOMAIN rows : rows[n].stoppedBy = Nobody /\ rows[n].meteredBy = {}
      BY <1>2, LeftRows
    <3> QED BY <1>2, <3>1 DEF RowsTouchedByOwnId
  <2> QED BY <2>2, <2>3
<1>13. OldRowsStay'
  BY <1>2 DEF RowInv, OldRowsStay
<1> QED BY <1>6, <1>7, <1>8, <1>9, <1>10, <1>13 DEF RowInv, SequenceIsPast

\* Steps that change nothing the invariant speaks of.
LEMMA UnchangedKeepsRows ==
    ASSUME RowInv, UNCHANGED <<memoryVars, dbVars, taskVars, openIds, faults>>,
           ~connected' => ~connected
    PROVE  RowInv'
<1> USE DEF memoryVars, dbVars, taskVars
<1>1. \A s, id : Holds(s, id)' <=> Holds(s, id)
  BY DEF Holds
<1>2. \A call : CallIsOK(call)' <=> CallIsOK(call)
  BY DEF CallIsOK, RowOfCall, Visible, RowIds
<1>3. \A s, id : Owns(s, id)' <=> Owns(s, id)
  BY <1>1 DEF Owns, RowIds
<1>4. OneHolder' /\ HeldHasBegun' /\ OneEntry' /\ HeardOffline'
  BY <1>1 DEF RowInv, OneHolder, HeldHasBegun, OneEntry, HeardOffline
<1>5. ImageCoversStation' /\ ForgetIsComplete' /\ UncommittedIsOfImage'
  BY DEF RowInv, ImageCoversStation, ForgetIsComplete, UncommittedIsOfImage
<1>6. CallsAreOK' /\ OldRowsStay'
  BY <1>2 DEF RowInv, CallsAreOK, OldRowsStay
<1>7. SequenceIsPast => /\ IdsAreOwn' /\ OpenIdsStay'
                        /\ RowsTouchedByOwnId' /\ OpenRowsReachable'
  BY <1>3 DEF RowInv, IdsAreOwn, OpenIdsStay, RowsTouchedByOwnId, OpenRowsReachable, Unreachable
<1> QED BY <1>4, <1>5, <1>6, <1>7 DEF RowInv, SequenceIsPast

------------------------------------------------------------------------------
(* The invariant, and what follows from it. *)

LEMMA RowInvStep ==
    ASSUME IndInv, RowInv, [Next]_vars
    PROVE  RowInv'
<1>1. TypeInv /\ SessionInv /\ CallsAreOK /\ OldRowsStay
  BY DEF IndInv, TypeInv, RowInv
<1>2. TypeInv'
  BY InvStep DEF IndInv, TypeInv
<1>3. ASSUME NEW p \in Tasks,
             \/ PromotionNext(p) \/ StatementNext(p) \/ Fault(p) \/ PromotionRefused(p)
             \/ p \in Calls /\ ReceiveNext(p)
      PROVE  RowInv'
  BY <1>1, <1>2, <1>3, TaskStepTaken, TaskKeepsRowInv
<1>4. CASE FallbackNext
  BY <1>1, <1>2, <1>4, FallbackKeepsRows
<1>5. CASE EstablishConnection
  BY <1>1, <1>2, <1>5, EstablishKeepsRows
<1>6. CASE AttemptConnection \/ AttemptFails
  <2>1. ~connected
    BY <1>1, <1>6 DEF AttemptConnection, AttemptFails, ReconnectTick, ConnectFail, SessionInv,
       AttemptsEnd
  <2> QED BY <1>6, <2>1, UnchangedKeepsRows DEF AttemptConnection, AttemptFails
<1>7. CASE UNCHANGED vars
  BY <1>7, UnchangedKeepsRows DEF vars, connectionVars
<1> QED BY <1>3, <1>4, <1>5, <1>6, <1>7 DEF Next, ConnectionNext, Tasks

\* Who holds which session, which row a call is about and what an image lacks:
\* RowInv holds in every state the service can reach.
THEOREM RowInvariant == Spec => []RowInv
<1>1. IndInv /\ RowInv /\ [Next]_vars => RowInv'
  BY RowInvStep
<1> QED BY <1>1, RowInvInit, Invariant, PTL DEF Spec

\* The next step is a step of a task, a fallback handler's, or keeps memory.
LEMMA StepIsOneOf ==
    ASSUME IndInv, RowInv, [Next]_vars
    PROVE  \/ \E p \in Tasks : TaskStep(p)
           \/ FallbackNext /\ ~connected
           \/ UNCHANGED memoryVars
<1>1. TypeInv /\ SessionInv /\ CallsAreOK /\ OldRowsStay
  BY DEF IndInv, TypeInv, RowInv
<1>2. TypeInv'
  BY InvStep DEF IndInv, TypeInv
<1>3. ASSUME NEW p \in Tasks,
             \/ PromotionNext(p) \/ StatementNext(p) \/ Fault(p) \/ PromotionRefused(p)
             \/ p \in Calls /\ ReceiveNext(p)
      PROVE  TaskStep(p)
  BY <1>1, <1>2, <1>3, TaskStepTaken
<1>4. CASE ConnectionNext \/ UNCHANGED vars
  BY <1>4 DEF vars, ConnectionNext, EstablishConnection, AttemptConnection, AttemptFails
<1>5. CASE FallbackNext
  BY <1>5 DEF FallbackNext, FallbackBoot, FallbackHeartbeat, FallbackStart, FallbackStatus,
     FallbackStop, Fallback
<1> QED BY <1>3, <1>4, <1>5 DEF Next, Tasks

LEMMA UnmapStep ==
    ASSUME IndInv, RowInv, [Next]_vars, NEW id \in FallbackIds,
           connected, Known(memoryTransactions[id]), ~Known(memoryTransactions'[id])
    PROVE  Closed(id)'
<1>1. TypeInv /\ TypeInv'
  BY InvStep DEF IndInv, TypeInv
<1>2. memoryTransactions'[id] # memoryTransactions[id]
  OBVIOUS
<1>3. PICK p \in Tasks : TaskStep(p)
  BY <1>2, StepIsOneOf DEF memoryVars
<1>4. CallIsOK(job[p]) /\ RowsGrow
  BY <1>1, <1>3, StepGrows DEF RowInv, CallsAreOK, TaskStep
<1>5. job[p].at = "unmap" /\ Known(job[p].mapping) /\ id = job[p].id
  BY <1>2, <1>3 DEF TaskStep, IdStep
<1> DEFINE n == job[p].row
<1>6. /\ job[p].row \in RowIds /\ Committed(rows[n])
      /\ rows[n].origin = id /\ rows[n].status = "COMPLETED"
  BY <1>4, <1>5 DEF CallIsOK, StopSteps, Visible
<1>7. n \in DOMAIN rows
  BY <1>1, <1>6, RowTypes
<1> HIDE DEF n
<1> QED BY <1>4, <1>6, <1>7 DEF RowsGrow, Closed

\* handleStopTransaction: once the database is connected a fallback id is
\* dropped from memoryTransactions only when a row of its session is completed.
THEOREM UnmappedWhenDone == Spec => UnmappedOnlyWhenDone
<1> DEFINE A == \A id \in FallbackIds :
                   connected /\ Known(memoryTransactions[id]) /\ ~Known(memoryTransactions'[id])
                   => Closed(id)'
<1>1. IndInv /\ RowInv /\ [Next]_vars => [A]_vars
  BY UnmapStep
<1>2. [][A]_vars => UnmappedOnlyWhenDone
  BY PTL DEF UnmappedOnlyWhenDone
<1> HIDE DEF A
<1> QED BY <1>1, <1>2, Invariant, RowInvariant, PTL DEF Spec

LEMMA ForgetStep ==
    ASSUME IndInv, RowInv, [Next]_vars, NEW s \in Stations,
           memoryStations[s].live, memoryStations'[s] # memoryStations[s], connected
    PROVE  /\ dbStations[s].live
           /\ memoryStations[s].identified => dbStations[s].identified
           /\ \A c \in Connectors : memoryStations[s].connectors[c] # Absent
                                    => dbConnectors[s][c] # Absent
<1>1. PICK p \in Tasks : TaskStep(p)
  BY StepIsOneOf DEF memoryVars
<1>2. job[p].at = "forget" /\ s = job[p].target
  BY <1>1 DEF TaskStep, BufferStep
<1>3. ForgetIsSafe /\ ForgetIsComplete
  BY DEF IndInv, SessionInv, RowInv
<1> QED BY <1>2, <1>3 DEF ForgetIsSafe, ForgetIsComplete, Reported

\* promoteMemoryStation: what was buffered of a station is in the tables before
\* memory lets go of it.
THEOREM BufferIsSaved == Spec => BufferReachesDatabase
<1> DEFINE A == \A s \in Stations :
           memoryStations[s].live /\ memoryStations'[s] # memoryStations[s] /\ connected
           => /\ dbStations[s].live
              /\ memoryStations[s].identified => dbStations[s].identified
              /\ \A c \in Connectors : memoryStations[s].connectors[c] # Absent
                                       => dbConnectors[s][c] # Absent
<1>1. IndInv /\ RowInv /\ [Next]_vars => [A]_vars
  BY ForgetStep
<1>2. [][A]_vars => BufferReachesDatabase
  BY PTL DEF BufferReachesDatabase
<1> HIDE DEF A
<1> QED BY <1>1, <1>2, Invariant, RowInvariant, PTL DEF Spec

\* StopTransaction names no station.  When earlier runs have used up the ids of
\* the fallback sessions, and with rows of any station under them, a row that is
\* made now is nevertheless completed and metered by its own station only, and a
\* foreign old one only by the station whose fallback id it happens to have.
THEOREM RowsTouched ==
    ASSUME SequenceIsPast
    PROVE  Spec => []RowsTouchedByOwnId
<1>1. RowInv => RowsTouchedByOwnId
  BY DEF RowInv
<1> QED BY <1>1, RowInvariant, PTL

\* handleStartTransaction: every statement that fails costs at most one open
\* row that its station cannot name.
THEOREM RowsReachable ==
    ASSUME SequenceIsPast
    PROVE  Spec => []OpenRowsReachable
<1>1. RowInv => OpenRowsReachable
  BY DEF RowInv
<1> QED BY <1>1, RowInvariant, PTL

------------------------------------------------------------------------------
(* What a buffered station shows. *)

Charges(connectors) == \E c \in Connectors : connectors[c] = "CHARGING"

\* updateStationStatusFromConnectors shows CHARGING exactly when a connector
\* charges, unless connector 0 has a say.
LEMMA FromConnectorsCharging ==
    ASSUME NEW connectors \in [Connectors -> ConnectorStatus \cup {Absent}], NEW current,
           0 \in Connectors => connectors[0] = Absent
    PROVE  StatusFromConnectors(connectors, current) = "CHARGING" <=> Charges(connectors)
BY DEF StatusFromConnectors, Charges

\* So does a StatusNotification.
LEMMA NotificationCharging ==
    ASSUME NEW old \in [Connectors -> ConnectorStatus \cup {Absent}], NEW c \in Connectors,
           NEW status \in ConnectorStatus, NEW connectors, NEW current,
           connectors = [old EXCEPT ![c] = status],
           0 \in Connectors => connectors[0] = Absent
    PROVE  StatusAfterNotification(c, status, connectors, current) = "CHARGING"
           <=> Charges(connectors)
<1>1. connectors \in [Connectors -> ConnectorStatus \cup {Absent}] /\ connectors[c] = status
  OBVIOUS
<1>2. c # 0
  BY <1>1 DEF ConnectorStatus, Absent
<1>3. CASE status = "CHARGING"
  BY <1>1, <1>2, <1>3 DEF StatusAfterNotification, Charges
<1>4. CASE status # "CHARGING"
  BY <1>1, <1>2, <1>4, FromConnectorsCharging DEF StatusAfterNotification
<1> QED BY <1>3, <1>4

LEMMA ShownStep ==
    ASSUME TypeInv, SessionInv, HeardOffline, FallbackNext,
           NEW t \in Stations, memoryStations'[t] # memoryStations[t], ~FallbackBoot(t),
           0 \in Connectors => memoryStations'[t].connectors[0] = Absent
    PROVE  memoryStations'[t].status = "CHARGING" <=> Charges(memoryStations'[t].connectors)
<1>1. PICK s \in Stations :
        \/ FallbackBoot(s)
        \/ FallbackHeartbeat(s)
        \/ \E c \in Connectors : FallbackStart(s, c) \/ \E raw \in RawStatuses : FallbackStatus(s, c, raw)
        \/ \E id \in openIds[s] : FallbackStop(s, id)
  BY DEF FallbackNext
<1>0. ~connected /\ memoryStations \in [Stations -> MemoryStation]
  BY <1>1 DEF FallbackBoot, FallbackHeartbeat, FallbackStart, FallbackStatus, FallbackStop,
     Fallback, TypeInv, TypeOK
<1>2. ASSUME NEW u \in Stations, NEW x, SetMemoryStation(u, x)
      PROVE  u = t /\ memoryStations'[t] = x
  BY <1>0, <1>2 DEF SetMemoryStation
<1> DEFINE station == GetOrCreateMemoryStation(t)
<1>3. station \in MemoryStation /\ station.live /\ station.heard = "buffered"
  BY <1>0, OfflineGetOrCreate
<1>4. memoryStations[t].live => station = memoryStations[t]
  BY DEF GetOrCreateMemoryStation
<1>5. ~memoryStations[t].live =>
          station.status = "AVAILABLE" /\ \A c \in Connectors : station.connectors[c] = Absent
  BY DEF GetOrCreateMemoryStation, NoMemoryStation
<1>6. CASE FallbackBoot(s)
  BY <1>2, <1>6 DEF FallbackBoot
<1>7. CASE FallbackHeartbeat(s)
  <2>1. s = t /\ memoryStations'[t] = [station EXCEPT !.heard = "buffered"]
    BY <1>2, <1>7 DEF FallbackHeartbeat
  <2> HIDE DEF station
  <2>2. memoryStations'[t] = station
    BY <1>3, <2>1 DEF MemoryStation
  <2>3. ~memoryStations[t].live
    BY <1>4, <2>2
  <2> QED BY <1>5, <2>2, <2>3 DEF Charges, Absent
<1>8. ASSUME NEW c \in Connectors, FallbackStart(s, c)
      PROVE  /\ memoryStations'[t].status = "CHARGING"
             /\ Charges(memoryStations'[t].connectors)
  <2> DEFINE session == [id |-> nextFallbackTransactionId, connector |-> c]
  <2>1. s = t /\ memoryStations'[t] =
            [station EXCEPT !.connectors[c] = "CHARGING", !.status = "CHARGING",
                            !.sessions = @ \cup {session}]
    BY <1>2, <1>8 DEF FallbackStart
  <2> HIDE DEF station, session
  <2>2. /\ memoryStations'[t].status = "CHARGING"
        /\ memoryStations'[t].connectors = [station.connectors EXCEPT ![c] = "CHARGING"]
    BY <1>3, <2>1 DEF MemoryStation
  <2>3. station.connectors \in [Connectors -> ConnectorStatus \cup {Absent}]
    BY <1>3 DEF MemoryStation
  <2> QED BY <2>2, <2>3 DEF Charges
<1>9. ASSUME NEW c \in Connectors, NEW raw \in RawStatuses, FallbackStatus(s, c, raw)
      PROVE  memoryStations'[t].status = "CHARGING" <=> Charges(memoryStations'[t].connectors)
  <2> DEFINE status     == ResolveConnectorStatus(raw)
             connectors == [station.connectors EXCEPT ![c] = status]
             after      == StatusAfterNotification(c, status, connectors, station.status)
  <2>1. s = t
    BY <1>2, <1>9 DEF FallbackStatus
  <2>2. memoryStations'[t] = [station EXCEPT !.connectors = connectors, !.status = after]
    BY <1>2, <1>9, <2>1 DEF FallbackStatus
  <2>3. status \in ConnectorStatus
    BY ResolveType
  <2> HIDE DEF station, status
  <2>4. memoryStations'[t].connectors = connectors /\ memoryStations'[t].status = after
    <3> HIDE DEF connectors, after
    <3> QED BY <1>3, <2>2 DEF MemoryStation
  <2>5. station.connectors \in [Connectors -> ConnectorStatus \cup {Absent}]
    BY <1>3 DEF MemoryStation
  <2>6. 0 \in Connectors => connectors[0] = Absent
    BY <2>4
  <2> QED BY <2>3, <2>4, <2>5, <2>6, NotificationCharging
<1>10. ASSUME NEW id \in openIds[s], FallbackStop(s, id)
       PROVE  memoryStations'[t].status = "CHARGING" <=> Charges(memoryStations'[t].connectors)
  <2>1. MappingOf(id).station \in Stations
    BY <1>10 DEF FallbackStop, MappingOf, Known, NoMapping, TypeInv, TypeOK, Mapping
  <2>2. MappingOf(id).station = t
    BY <1>2, <1>10, <2>1 DEF FallbackStop
  <2>3. PICK e \in station.sessions :
          LET connectors == [station.connectors EXCEPT
                                ![e.connector] = IF @ = Absent THEN @ ELSE "AVAILABLE"]
          IN  SetMemoryStation(t, [station EXCEPT
                                !.connectors = connectors,
                                !.sessions   = @ \ {e},
                                !.status     = StatusFromConnectors(connectors, @)])
    BY <1>10, <2>2 DEF FallbackStop
  <2> HIDE DEF station
  <2> DEFINE connectors == [station.connectors EXCEPT
                               ![e.connector] = IF @ = Absent THEN @ ELSE "AVAILABLE"]
             after      == StatusFromConnectors(connectors, station.status)
  <2>4. memoryStations'[t] = [station EXCEPT !.connectors = connectors, !.sessions = @ \ {e},
                                             !.status = after]
    BY <1>2, <1>3, <2>3 DEF MemoryStation
  <2>5. memoryStations'[t].connectors = connectors /\ memoryStations'[t].status = after
    <3> HIDE DEF connectors, after
    <3> QED BY <1>3, <2>4 DEF MemoryStation
  <2>6. connectors \in [Connectors -> ConnectorStatus \cup {Absent}]
    BY <1>3 DEF MemoryStation, ConnectorStatus
  <2>7. 0 \in Connectors => connectors[0] = Absent
    BY <2>5
  <2> HIDE DEF connectors
  <2> QED BY <2>5, <2>6, <2>7, FromConnectorsCharging
<1> QED BY <1>1, <1>6, <1>7, <1>8, <1>9, <1>10

\* The fallback handlers: a station without a status for connector 0 shows
\* CHARGING exactly while one of its connectors charges.
THEOREM ChargingIsShown == Spec => ChargingShown
<1> DEFINE A == \A s \in Stations :
           /\ ~connected /\ memoryStations'[s] # memoryStations[s]
           /\ ~FallbackBoot(s)
           /\ 0 \in Connectors => memoryStations'[s].connectors[0] = Absent
           => (memoryStations'[s].status = "CHARGING"
               <=> \E c \in Connectors : memoryStations'[s].connectors[c] = "CHARGING")
<1>1. ASSUME IndInv, RowInv, [Next]_vars
      PROVE  A
  <2> SUFFICES ASSUME NEW s \in Stations, ~connected, memoryStations'[s] # memoryStations[s],
                      ~FallbackBoot(s),
                      0 \in Connectors => memoryStations'[s].connectors[0] = Absent
               PROVE  memoryStations'[s].status = "CHARGING"
                      <=> Charges(memoryStations'[s].connectors)
    BY DEF Charges
  <2>1. FallbackNext
    BY <1>1, StepIsOneOf DEF memoryVars, TaskStep, OnlineStep
  <2> QED BY <1>1, <2>1, ShownStep DEF IndInv, TypeInv, RowInv
<1>2. [][A]_vars => ChargingShown
  BY PTL DEF ChargingShown
<1> HIDE DEF A
<1> QED BY <1>1, <1>2, Invariant, RowInvariant, PTL DEF Spec
===============================================================================
