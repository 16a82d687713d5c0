-------------------- MODULE ChargingStationHandover_proofs --------------------
(***************************************************************************)
(* ChargingStation implements SessionHandover, for every value of its      *)
(* constants.  Of a step of a task p only two kinds move a session: the    *)
(* commit of a promotion, which is Move, and the statement that completes  *)
(* the row of a session nobody has stopped yet, which is StopInDatabase.   *)
(* The others change neither which sessions are recorded nor which are     *)
(* closed, and memory lets go of recorded ones only.                       *)
(***************************************************************************)
EXTENDS ChargingStationRows_proofs

USE NamesAssumption, NumbersAssumption

\* What the variables of SessionHandover stand for.
Entered(s, id)  == \E e \in memoryStations[s].sessions : e.id = id
BufferImage == [s \in Stations |-> {id \in FallbackIds : Entered(s, id) /\ ~Recorded(id)}]
StoredImage == {id \in FallbackIds : Recorded(id) /\ ~Closed(id)}
ClosedImage == {id \in Begun : Closed(id) \/ (~Recorded(id) /\ ~InMemory(id))}

\* The row p completes is one of session id.
Completes(p, id) ==
    \E n \in DOMAIN rows :
        /\ job[p].at = "closeRow" /\ n = job[p].row
        /\ rows[n].origin = id /\ rows'[n].status = "COMPLETED"

------------------------------------------------------------------------------
(* What an online step does to the rows and the entries of a session. *)

LEMMA ClosedIsRecorded ==
    ASSUME TypeInv, UncommittedIsOfImage, NEW n \in DOMAIN rows, rows[n].status = "COMPLETED"
    PROVE  Committed(rows[n])
BY DEF UncommittedIsOfImage, Committed

LEMMA RecordedAfter ==
    ASSUME TypeInv, TypeInv', NEW p \in Tasks, CallIsOK(job[p]), TaskStep(p), ~Commit(p),
           NEW id \in FallbackIds
    PROVE  Recorded(id)' <=> Recorded(id)
<1>1. ASSUME Recorded(id)
      PROVE  Recorded(id)'
  BY <1>1, RecordedKept DEF TaskStep, OnlineStep
<1>2. ASSUME NEW n \in DOMAIN rows', rows'[n].origin = id, Committed(rows'[n])
      PROVE  Recorded(id)
  <2>1. CASE n \in DOMAIN rows
    <3>0. rows[n] \in Row /\ rows[n].origin = id
      BY <1>2, <2>1, RowTypes DEF TaskStep, OnlineStep, RowsKept
    <3>1. CASE rows'[n] = rows[n]
      BY <1>2, <2>1, <3>0, <3>1 DEF Recorded
    <3>2. CASE rows'[n] = [rows[n] EXCEPT !.tx = Nobody, !.status = "ROLLEDBACK"]
      BY <1>2, <3>0, <3>2 DEF Committed, Row
    <3>3. CASE job[p].at = "closeRow" /\ n = job[p].row
      <4>1. Committed(rows[n])
        BY <3>3 DEF CallIsOK, StopSteps, Visible
      <4> QED BY <2>1, <3>0, <4>1 DEF Recorded
    <3>4. CASE job[p].at = "meter" /\ Visible(job[p].row) /\ n = job[p].row
      <4>1. Committed(rows[n])
        BY <3>4 DEF Visible
      <4> QED BY <2>1, <3>0, <4>1 DEF Recorded
    <3> QED BY <2>1, <3>1, <3>2, <3>3, <3>4 DEF TaskStep, RowStep, RowChange
  <2>2. CASE n \notin DOMAIN rows
    <3>1. PICK row \in Row : rows'[n] = row /\ RowAdded(p, row)
      BY <2>2 DEF TaskStep, RowStep
    <3>2. row.tx = p \/ row.origin = 0
      BY <3>1 DEF RowAdded, NewRow
    <3>3. id # 0 /\ p # Nobody
      BY TaskIsSomebody DEF FallbackIds
    <3> QED BY <1>2, <3>1, <3>2, <3>3 DEF Committed
  <2> QED BY <2>1, <2>2
<1> QED BY <1>1, <1>2 DEF Recorded

LEMMA ClosedAfter ==
    ASSUME TypeInv, TypeInv', UncommittedIsOfImage, NEW p \in Tasks, CallIsOK(job[p]), TaskStep(p),
           NEW id \in FallbackIds
    PROVE  Closed(id)' <=> Closed(id) \/ Completes(p, id)
<1>1. RowsGrow
  BY StepGrows DEF TaskStep
<1>2. ASSUME Closed(id)
      PROVE  Closed(id)'
  <2>1. PICK n \in DOMAIN rows : rows[n].origin = id /\ rows[n].status = "COMPLETED"
    BY <1>2 DEF Closed
  <2>2. Committed(rows[n])
    BY <2>1, ClosedIsRecorded
  <2> QED BY <1>1, <2>1, <2>2 DEF RowsGrow, Closed
<1>3. ASSUME Completes(p, id)
      PROVE  Closed(id)'
  BY <1>1, <1>3 DEF Completes, RowsGrow, Closed
<1>4. ASSUME NEW n \in DOMAIN rows', rows'[n].origin = id, rows'[n].status = "COMPLETED"
      PROVE  Closed(id) \/ Completes(p, id)
  <2>1. CASE n \in DOMAIN rows
    <3>0. rows[n] \in Row /\ rows[n].origin = id
      BY <1>1, <1>4, <2>1, RowTypes DEF RowsGrow
    <3>1. CASE rows'[n].status = rows[n].status
      BY <1>4, <2>1, <3>0, <3>1 DEF Closed
    <3>2. CASE rows'[n] = [rows[n] EXCEPT !.tx = Nobody, !.status = "ROLLEDBACK"]
      BY <1>4, <3>0, <3>2 DEF Row
    <3>3. CASE job[p].at = "closeRow" /\ n = job[p].row
      BY <1>4, <2>1, <3>0, <3>3 DEF Completes
    <3>4. CASE rows'[n] = [rows[n] EXCEPT !.tx = Nobody]
      BY <3>0, <3>1, <3>4 DEF Row
    <3>5. CASE rows'[n] = [rows[n] EXCEPT !.meteredBy = @ \cup {job[p].station}]
      BY <3>0, <3>1, <3>5 DEF Row
    <3> QED BY <2>1, <3>1, <3>2, <3>3, <3>4, <3>5 DEF TaskStep, RowStep, RowChange
  <2>2. CASE n \notin DOMAIN rows
    <3>1. PICK row \in Row : rows'[n] = row /\ RowAdded(p, row)
      BY <2>2 DEF TaskStep, RowStep
    <3>2. row.status = "STARTED"
      BY <3>1 DEF RowAdded, NewRow
    <3> QED BY <1>4, <3>1, <3>2
  <2> QED BY <2>1, <2>2
<1> QED BY <1>2, <1>3, <1>4 DEF Closed

\* Memory lets go of recorded sessions only.
LEMMA EnteredAfter ==
    ASSUME TypeInv, ForgetIsSafe, NEW p \in Tasks, TaskStep(p), NEW s \in Stations,
           NEW id \in FallbackIds
    PROVE  /\ Entered(s, id)' => Entered(s, id)
           /\ Entered(s, id) /\ ~Recorded(id) => Entered(s, id)'
BY DEF Entered, TaskStep, OnlineStep, MemoryStep, ForgetIsSafe

------------------------------------------------------------------------------
(* The actions of SessionHandover, in terms of the images. *)

LEMMA MoveIs ==
    ASSUME NEW s \in Stations, connected, connected',
           StoredImage' = StoredImage \cup BufferImage[s],
           BufferImage' = [BufferImage EXCEPT ![s] = {}],
           ClosedImage' = ClosedImage
    PROVE  Handover!Next
<1>1. Handover!Move(s)
  BY DEF Handover!Move, StoredImage, BufferImage, ClosedImage, Entered
<1> QED BY <1>1 DEF Handover!Next

LEMMA StopInDatabaseIs ==
    ASSUME NEW id \in FallbackIds, connected, connected', id \in StoredImage,
           StoredImage' = StoredImage \ {id},
           ClosedImage' = ClosedImage \cup {id},
           BufferImage' = BufferImage
    PROVE  Handover!Next
<1>1. Handover!StopInDatabase(id)
  BY DEF Handover!StopInDatabase, StoredImage, BufferImage, ClosedImage, Entered
<1> QED BY <1>1 DEF Handover!Next

LEMMA BeginIs ==
    ASSUME NEW s \in Stations, NEW id \in FallbackIds, ~connected, connected' = connected,
           \A t \in Stations : id \notin BufferImage[t],
           id \notin StoredImage, id \notin ClosedImage,
           BufferImage' = [BufferImage EXCEPT ![s] = @ \cup {id}],
           StoredImage' = StoredImage, ClosedImage' = ClosedImage
    PROVE  Handover!Next
<1>1. Handover!Begin(id, s)
  BY DEF Handover!Begin, Handover!Buffered, StoredImage, BufferImage, ClosedImage, Entered
<1> QED BY <1>1 DEF Handover!Next

LEMMA StopInMemoryIs ==
    ASSUME NEW s \in Stations, NEW id \in FallbackIds, ~connected, connected' = connected,
           id \in BufferImage[s],
           BufferImage' = [BufferImage EXCEPT ![s] = @ \ {id}],
           ClosedImage' = ClosedImage \cup {id},
           StoredImage' = StoredImage
    PROVE  Handover!Next
<1>1. Handover!StopInMemory(id, s)
  BY DEF Handover!StopInMemory, StoredImage, BufferImage, ClosedImage, Entered
<1> QED BY <1>1 DEF Handover!Next

LEMMA GoOnlineIs ==
    ASSUME ~connected, connected' = TRUE, BufferImage' = BufferImage,
           ClosedImage' = ClosedImage, StoredImage' = StoredImage
    PROVE  Handover!Next
<1>1. Handover!GoOnline
  BY DEF Handover!GoOnline, StoredImage, BufferImage, ClosedImage, Entered
<1> QED BY <1>1 DEF Handover!Next

LEMMA StutterIs ==
    ASSUME connected' = connected, BufferImage' = BufferImage,
           ClosedImage' = ClosedImage, StoredImage' = StoredImage
    PROVE  UNCHANGED Handover!vars
BY DEF Handover!vars, StoredImage, BufferImage, ClosedImage, Entered

------------------------------------------------------------------------------
(* Online steps. *)

\* Unless p commits, what only memory holds stays as it is.
LEMMA BufferAfter ==
    ASSUME TypeInv, TypeInv', ForgetIsSafe, NEW p \in Tasks, CallIsOK(job[p]), TaskStep(p),
           ~Commit(p)
    PROVE  /\ BufferImage' = BufferImage
           /\ \A id \in FallbackIds : ~Recorded(id) => (InMemory(id)' <=> InMemory(id))
<1>1. \A s \in Stations : \A id \in FallbackIds :
         /\ Recorded(id)' <=> Recorded(id)
         /\ ~Recorded(id) => (Entered(s, id)' <=> Entered(s, id))
  BY RecordedAfter, EnteredAfter
<1>2. BufferImage' = [s \in Stations |->
                         {id \in FallbackIds : Entered(s, id)' /\ ~Recorded(id)'}]
  BY DEF BufferImage
<1>3. \A s \in Stations : {id \in FallbackIds : Entered(s, id)' /\ ~Recorded(id)'}
                          = {id \in FallbackIds : Entered(s, id) /\ ~Recorded(id)}
  BY <1>1
<1>4. BufferImage' = BufferImage
  BY <1>2, <1>3 DEF BufferImage
<1>5. \A id \in FallbackIds : ~Recorded(id) => (InMemory(id)' <=> InMemory(id))
  BY <1>1 DEF InMemory, Entered
<1> QED BY <1>4, <1>5

LEMMA BegunAfter ==
    ASSUME NEW p \in Tasks, TaskStep(p)
    PROVE  Begun' = Begun
BY DEF TaskStep, IdStep, Begun

\* The first row of a session that is completed closes the session.
LEMMA CloseIsStop ==
    ASSUME TypeInv, TypeInv', ForgetIsSafe, UncommittedIsOfImage, HeldHasBegun,
           NEW p \in Tasks, CallIsOK(job[p]), TaskStep(p), ~Commit(p),
           NEW id \in FallbackIds, Completes(p, id), ~Closed(id)
    PROVE  Handover!Next
<1>1. PICK n \in DOMAIN rows :
          /\ job[p].at = "closeRow" /\ n = job[p].row
          /\ rows[n].origin = id /\ rows'[n].status = "COMPLETED"
  BY DEF Completes
<1>2. Committed(rows[n])
  BY <1>1 DEF CallIsOK, StopSteps, Visible
<1>3. Recorded(id)
  BY <1>1, <1>2 DEF Recorded
<1>4. id \in Begun
  <2>1. rows[n].station \in Stations
    BY RowTypes DEF Row
  <2>2. Holds(rows[n].station, id)
    BY <1>1 DEF Holds
  <2> QED BY <2>1, <2>2 DEF HeldHasBegun, Begun
<1>5. \A i \in FallbackIds :
         /\ Closed(i)' <=> (Closed(i) \/ i = id)
         /\ Recorded(i)' <=> Recorded(i)
  BY <1>1, ClosedAfter, RecordedAfter DEF Completes
<1>6. StoredImage' = StoredImage \ {id}
  <2>1. StoredImage' = {i \in FallbackIds : Recorded(i)' /\ ~Closed(i)'}
    BY DEF StoredImage
  <2> QED BY <1>5, <2>1 DEF StoredImage
<1>7. ClosedImage' = ClosedImage \cup {id}
  <2>1. ClosedImage' = {i \in Begun : Closed(i)' \/ (~Recorded(i)' /\ ~InMemory(i)')}
    BY BegunAfter DEF ClosedImage
  <2>2. \A i \in Begun : i \in FallbackIds
    BY DEF Begun
  <2> QED BY <1>4, <1>5, <2>1, <2>2, BufferAfter DEF ClosedImage
<1>8. id \in StoredImage /\ connected /\ connected'
  BY <1>3 DEF StoredImage, TaskStep, OnlineStep
<1> QED BY <1>6, <1>7, <1>8, BufferAfter, StopInDatabaseIs

\* A step of p that neither commits nor closes a session.
LEMMA RestStutters ==
    ASSUME TypeInv, TypeInv', ForgetIsSafe, UncommittedIsOfImage,
           NEW p \in Tasks, CallIsOK(job[p]), TaskStep(p), ~Commit(p),
           \A id \in FallbackIds : Completes(p, id) => Closed(id)
    PROVE  UNCHANGED Handover!vars
<1>1. \A i \in FallbackIds :
         /\ Closed(i)' <=> Closed(i)
         /\ Recorded(i)' <=> Recorded(i)
  BY ClosedAfter, RecordedAfter
<1>2. StoredImage' = StoredImage
  <2>1. StoredImage' = {i \in FallbackIds : Recorded(i)' /\ ~Closed(i)'}
    BY DEF StoredImage
  <2> QED BY <1>1, <2>1 DEF StoredImage
<1>3. ClosedImage' = ClosedImage
  <2>1. ClosedImage' = {i \in Begun : Closed(i)' \/ (~Recorded(i)' /\ ~InMemory(i)')}
    BY BegunAfter DEF ClosedImage
  <2>2. \A i \in Begun : i \in FallbackIds
    BY DEF Begun
  <2> QED BY <1>1, <2>1, <2>2, BufferAfter DEF ClosedImage
<1>4. connected' = connected
  BY DEF TaskStep, OnlineStep, TypeInv, TypeOK, ConnectionTypeOK
<1> QED BY <1>2, <1>3, <1>4, BufferAfter, StutterIs

\* What a commit makes visible: the sessions of the image, which are those of
\* the promoted station that only memory held.
LEMMA CommitRecords ==
    ASSUME TypeInv, SessionInv, OneHolder, UncommittedIsOfImage, NEW p \in Tasks, Commit(p),
           NEW id \in FallbackIds
    PROVE  Recorded(id)' <=> Recorded(id) \/ Entered(job[p].target, id)
<1>1. /\ job[p].at = "createRows" /\ job[p].target \in Stations
      /\ rows' = WrittenBack(p)
  BY DEF Commit, TypeInv, JobOK, PromotionSteps
<1>2. DOMAIN rows' = DOMAIN rows /\ \A n \in DOMAIN rows :
         rows'[n] = IF rows[n].tx = p THEN [rows[n] EXCEPT !.tx = Nobody] ELSE rows[n]
  BY <1>1 DEF WrittenBack
<1>3. p # Nobody /\ \A n \in DOMAIN rows : rows[n] \in Row
  BY RowTypes, TaskIsSomebody
<1>4. ASSUME NEW n \in DOMAIN rows, rows[n].tx = p
      PROVE  /\ Committed(rows'[n]) /\ rows'[n].origin = rows[n].origin
             /\ \E e \in job[p].image.sessions : e.id = rows[n].origin
  <2>1. rows[n].status # "ROLLEDBACK"
    BY <1>3, <1>4 DEF SessionInv, WriterIsWriting
  <2>2. rows'[n].tx = Nobody /\ rows'[n].status = rows[n].status
        /\ rows'[n].origin = rows[n].origin
    BY <1>2, <1>3, <1>4 DEF Row
  <2> QED BY <1>3, <1>4, <2>1, <2>2 DEF Committed, UncommittedIsOfImage
<1>5. ASSUME Recorded(id)
      PROVE  Recorded(id)'
  <2>1. PICK n \in DOMAIN rows : rows[n].origin = id /\ Committed(rows[n])
    BY <1>5 DEF Recorded
  <2>2. rows'[n] = rows[n]
    BY <1>2, <1>3, <2>1 DEF Committed
  <2> QED BY <1>2, <2>1, <2>2 DEF Recorded
<1>6. ASSUME NEW e \in memoryStations[job[p].target].sessions, e.id = id
      PROVE  Recorded(id)'
  <2>1. e \in job[p].image.sessions
    BY <1>1 DEF SessionInv, ImageCoversMemory
  <2>2. CreatedBy(p, e)
    BY <2>1 DEF Commit, Uncreated
  <2>3. PICK n \in DOMAIN rows : rows[n].tx = p /\ rows[n].origin = id
    BY <1>6, <2>2 DEF CreatedBy
  <2> QED BY <1>2, <1>4, <2>3 DEF Recorded
<1>7. ASSUME Recorded(id)', ~Recorded(id)
      PROVE  Entered(job[p].target, id)
  <2>1. PICK n \in DOMAIN rows' : rows'[n].origin = id /\ Committed(rows'[n])
    BY <1>7 DEF Recorded
  <2>2. rows[n].tx = p
    BY <1>2, <1>7, <2>1 DEF Recorded
  <2>3. PICK e \in job[p].image.sessions : e.id = id
    BY <1>2, <1>4, <2>1, <2>2
  <2>4. InMemory(id)
    BY <1>1, <1>7, <2>3 DEF SessionInv, ImageIsKept, PromotionSteps
  <2>5. PICK s \in Stations : Entered(s, id)
    BY <2>4 DEF InMemory, Entered
  <2>6. Holds(s, id) /\ Holds(job[p].target, id)
    BY <1>1, <2>3, <2>5 DEF Holds, Entered, PromotionSteps
  <2>7. s = job[p].target
    BY <1>1, <2>6 DEF OneHolder
  <2> QED BY <2>5, <2>7
<1> QED BY <1>5, <1>6, <1>7 DEF Entered

LEMMA CommitIsMove ==
    ASSUME TypeInv, TypeInv', SessionInv, OneHolder, UncommittedIsOfImage,
           NEW p \in Tasks, CallIsOK(job[p]), TaskStep(p), Commit(p)
    PROVE  Handover!Next
<1> DEFINE t == job[p].target
<1>1. t \in Stations /\ job[p].at = "createRows"
  BY DEF Commit, TypeInv, JobOK, PromotionSteps
<1>2. \A id \in FallbackIds : Recorded(id)' <=> Recorded(id) \/ Entered(t, id)
  BY CommitRecords
<1>3. \A id \in FallbackIds : Closed(id)' <=> Closed(id)
  BY <1>1, ClosedAfter DEF Completes
<1>4. \A id \in FallbackIds : Closed(id) => Recorded(id)
  BY ClosedIsRecorded DEF Closed, Recorded
<1>5. \A s \in Stations : \A id \in FallbackIds : Entered(s, id)' <=> Entered(s, id)
  BY DEF Commit, memoryVars, Entered
<1>6. \A id \in FallbackIds : InMemory(id)' <=> InMemory(id)
  BY DEF Commit, memoryVars, InMemory
<1>7. \A s \in Stations : \A id \in FallbackIds :
         Entered(s, id) /\ Entered(t, id) => s = t
  BY <1>1 DEF OneHolder, Holds, Entered
<1>8. \A id \in FallbackIds : Entered(t, id) => InMemory(id)
  BY <1>1 DEF InMemory, Entered
<1> HIDE DEF t
<1>9. StoredImage' = StoredImage \cup BufferImage[t]
  <2>1. StoredImage' = {id \in FallbackIds : Recorded(id)' /\ ~Closed(id)'}
    BY DEF StoredImage
  <2>2. BufferImage[t] = {id \in FallbackIds : Entered(t, id) /\ ~Recorded(id)}
    BY <1>1 DEF BufferImage
  <2> QED BY <1>2, <1>3, <1>4, <2>1, <2>2 DEF StoredImage
<1>10. BufferImage' = [BufferImage EXCEPT ![t] = {}]
  <2>1. BufferImage' = [s \in Stations |->
                           {id \in FallbackIds : Entered(s, id)' /\ ~Recorded(id)'}]
    BY DEF BufferImage
  <2>2. \A s \in Stations : {id \in FallbackIds : Entered(s, id)' /\ ~Recorded(id)'}
            = IF s = t THEN {} ELSE {id \in FallbackIds : Entered(s, id) /\ ~Recorded(id)}
    BY <1>2, <1>5, <1>7
  <2> QED BY <2>1, <2>2 DEF BufferImage
<1>11. ClosedImage' = ClosedImage
  <2>1. ClosedImage' = {i \in Begun : Closed(i)' \/ (~Recorded(i)' /\ ~InMemory(i)')}
    BY BegunAfter DEF ClosedImage
  <2>2. \A i \in Begun : i \in FallbackIds
    BY DEF Begun
  <2> QED BY <1>2, <1>3, <1>6, <1>8, <2>1, <2>2 DEF ClosedImage
<1> QED BY <1>1, <1>9, <1>10, <1>11, MoveIs DEF TaskStep, OnlineStep

LEMMA TaskIsHandover ==
    ASSUME TypeInv, TypeInv', SessionInv, RowInv, NEW p \in Tasks, TaskStep(p)
    PROVE  Handover!Next \/ UNCHANGED Handover!vars
<1>1. /\ ForgetIsSafe /\ UncommittedIsOfImage /\ HeldHasBegun /\ OneHolder /\ CallIsOK(job[p])
  BY DEF SessionInv, RowInv, CallsAreOK
<1>2. CASE Commit(p)
  BY <1>1, <1>2, CommitIsMove
<1>3. CASE ~Commit(p) /\ \E id \in FallbackIds : Completes(p, id) /\ ~Closed(id)
  BY <1>1, <1>3, CloseIsStop
<1>4. CASE ~Commit(p) /\ \A id \in FallbackIds : Completes(p, id) => Closed(id)
  BY <1>1, <1>4, RestStutters
<1> QED BY <1>2, <1>3, <1>4

------------------------------------------------------------------------------
(* Offline steps. *)

\* Offline only the entries in memory count.
ImagesAreEntries ==
    /\ BufferImage = [s \in Stations |-> {id \in FallbackIds : Entered(s, id)}]
    /\ StoredImage = {}
    /\ ClosedImage = {id \in Begun : \A s \in Stations : ~Entered(s, id)}

LEMMA OfflineImages == rows = OldRows => ImagesAreEntries
<1> SUFFICES ASSUME rows = OldRows PROVE ImagesAreEntries
  OBVIOUS
<1>1. (\A n \in DOMAIN rows : rows[n].origin = 0) /\ 0 \notin FallbackIds
  BY LeftRows DEF FallbackIds
<1>2. \A id \in FallbackIds : ~Recorded(id) /\ ~Closed(id)
  BY <1>1 DEF Recorded, Closed
<1>3. \A id \in Begun : id \in FallbackIds
  BY DEF Begun
<1>4. \A id : InMemory(id) <=> \E s \in Stations : Entered(s, id)
  BY DEF InMemory, Entered
<1> QED BY <1>2, <1>3, <1>4 DEF ImagesAreEntries, BufferImage, StoredImage, ClosedImage

LEMMA FallbackIsHandover ==
    ASSUME TypeInv, TypeInv', SessionInv, RowInv, FallbackNext
    PROVE  Handover!Next \/ UNCHANGED Handover!vars
<1> DEFINE next == nextFallbackTransactionId
<1>1. ~connected /\ connected' = connected /\ rows' = rows
  BY DEF FallbackNext, FallbackBoot, FallbackHeartbeat, FallbackStart, FallbackStatus,
     FallbackStop, Fallback, dbVars, connectionVars
<1>2. rows = OldRows /\ rows' = OldRows
  BY <1>1, OfflineIsQuiet
<1>3. PICK s \in Stations, x \in MemoryStation : OfflineStep(s, x)
  BY OfflineStepTaken DEF RowInv
<1>4. memoryStations'[s] = x /\ \A u \in Stations \ {s} : memoryStations'[u] = memoryStations[u]
  BY <1>3 DEF OfflineStep, Replaced, TypeInv, TypeOK
<1>5. /\ BufferImage = [u \in Stations |-> {id \in FallbackIds : Entered(u, id)}]
      /\ StoredImage = {}
      /\ ClosedImage = {id \in Begun : \A u \in Stations : ~Entered(u, id)}
  BY <1>2, OfflineImages DEF ImagesAreEntries
<1>6. /\ BufferImage' = [u \in Stations |-> {id \in FallbackIds : Entered(u, id)'}]
      /\ StoredImage' = {}
      /\ ClosedImage' = {id \in Begun' : \A u \in Stations : ~Entered(u, id)'}
  <2>1. (rows = OldRows)'
    BY <1>2
  <2>2. ImagesAreEntries'
    BY <2>1, OfflineImages, PTL
  <2> QED BY <2>2 DEF ImagesAreEntries
<1>7. \A u \in Stations, id \in FallbackIds : Entered(u, id) => id < next /\ id \in Begun
  BY DEF RowInv, HeldHasBegun, Holds, Entered, Begun
<1>8. next \in Nat
  BY DEF TypeInv, TypeOK
<1>9. CASE KeepsSessions(s, x)
  <2>1. \A u \in Stations, id \in FallbackIds : Entered(u, id)' <=> Entered(u, id)
    BY <1>4, <1>9 DEF KeepsSessions, Entered
  <2>2. Begun' = Begun /\ Begun \subseteq FallbackIds
    BY <1>9 DEF KeepsSessions, Begun
  <2>3. BufferImage' = BufferImage
    BY <1>5, <1>6, <2>1
  <2>4. ClosedImage' = ClosedImage
    BY <1>5, <1>6, <2>1, <2>2
  <2> QED BY <1>1, <1>5, <1>6, <2>3, <2>4, StutterIs
<1>10. CASE BeginsSession(s, x)
  <2>1. next \in FallbackIds /\ next' = next + 1
    BY <1>10 DEF BeginsSession
  <2>2. \A u \in Stations, id \in FallbackIds :
           Entered(u, id)' <=> (Entered(u, id) \/ (u = s /\ id = next))
    BY <1>4, <1>10 DEF BeginsSession, Entered
  <2>3. \A u \in Stations : ~Entered(u, next)
    BY <1>7, <1>8, <2>1
  <2>4. Begun' = Begun \cup {next} /\ next \notin Begun /\ Begun \subseteq FallbackIds
    BY <1>8, <2>1 DEF Begun, FallbackIds
  <2>5. BufferImage' = [BufferImage EXCEPT ![s] = @ \cup {next}]
    <3>1. \A u \in Stations : {id \in FallbackIds : Entered(u, id)'}
              = IF u = s THEN {id \in FallbackIds : Entered(u, id)} \cup {next}
                ELSE {id \in FallbackIds : Entered(u, id)}
      BY <2>1, <2>2
    <3>2. \A u \in Stations : {id \in FallbackIds : Entered(u, id)} = BufferImage[u]
      BY <1>5
    <3>3. BufferImage' = [u \in Stations |-> IF u = s THEN BufferImage[u] \cup {next}
                                             ELSE BufferImage[u]]
      BY <1>6, <3>1, <3>2
    <3> QED BY <1>5, <3>3
  <2>6. ClosedImage' = ClosedImage
    BY <1>3, <1>5, <1>6, <2>1, <2>2, <2>4
  <2>7. next \notin StoredImage /\ next \notin ClosedImage
        /\ \A u \in Stations : next \notin BufferImage[u]
    BY <1>5, <2>3, <2>4
  <2> QED BY <1>1, <1>5, <1>6, <2>1, <2>5, <2>6, <2>7, BeginIs
<1>11. ASSUME NEW i \in FallbackIds, EndsSession(s, x, i)
       PROVE  Handover!Next
  <2>1. PICK e \in memoryStations[s].sessions :
            e.id = i /\ x.sessions = memoryStations[s].sessions \ {e}
    BY <1>11 DEF EndsSession
  <2>2. \A u \in Stations, id \in FallbackIds :
           Entered(u, id)' <=> (Entered(u, id) /\ ~(u = s /\ id = i))
    BY <1>4, <2>1 DEF Entered, RowInv, OneEntry
  <2>3. Entered(s, i) /\ \A u \in Stations : Entered(u, i) => u = s
    BY <2>1 DEF RowInv, OneHolder, Holds, Entered
  <2>4. Begun' = Begun /\ Begun \subseteq FallbackIds /\ i \in Begun
    BY <1>7, <1>11, <2>3 DEF EndsSession, Begun
  <2>5. BufferImage' = [BufferImage EXCEPT ![s] = @ \ {i}]
    <3>1. \A u \in Stations : {id \in FallbackIds : Entered(u, id)'}
              = IF u = s THEN {id \in FallbackIds : Entered(u, id)} \ {i}
                ELSE {id \in FallbackIds : Entered(u, id)}
      BY <2>2
    <3> QED BY <1>5, <1>6, <3>1
  <2>6. ClosedImage' = ClosedImage \cup {i}
    BY <1>5, <1>6, <2>2, <2>3, <2>4
  <2>7. i \in BufferImage[s]
    BY <1>5, <2>3
  <2> QED BY <1>1, <1>5, <1>6, <2>5, <2>6, <2>7, StopInMemoryIs
<1> QED BY <1>3, <1>9, <1>10, <1>11 DEF OfflineStep

LEMMA UnchangedImages ==
    ASSUME UNCHANGED <<memoryStations, rows, nextFallbackTransactionId>>
    PROVE  BufferImage' = BufferImage /\ StoredImage' = StoredImage /\ ClosedImage' = ClosedImage
BY DEF BufferImage, StoredImage, ClosedImage, Entered, Recorded, Closed, InMemory, Begun

LEMMA ConnectionIsHandover ==
    ASSUME TypeInv, SessionInv, ConnectionNext
    PROVE  Handover!Next \/ UNCHANGED Handover!vars
<1>1. UNCHANGED <<memoryStations, rows, nextFallbackTransactionId>>
  BY DEF ConnectionNext, EstablishConnection, AttemptConnection, AttemptFails, memoryVars, dbVars
<1>2. ~connected
  BY DEF ConnectionNext, EstablishConnection, AttemptConnection, AttemptFails, ConnectOk,
     ReconnectTick, ConnectFail, SessionInv, AttemptsEnd
<1>3. CASE EstablishConnection
  BY <1>1, <1>2, <1>3, UnchangedImages, GoOnlineIs DEF EstablishConnection, ConnectOk
<1>4. CASE AttemptConnection \/ AttemptFails
  <2>1. connected' = connected
    BY <1>2, <1>4 DEF AttemptConnection, AttemptFails, ReconnectTick, ConnectFail, TypeInv,
       TypeOK, ConnectionTypeOK
  <2> QED BY <1>1, <2>1, UnchangedImages, StutterIs
<1> QED BY <1>3, <1>4 DEF ConnectionNext

------------------------------------------------------------------------------
(* The refinement. *)

LEMMA HandoverInit ==
    ASSUME Init
    PROVE  Handover!Init
<1>1. /\ rows = OldRows /\ connected = FALSE /\ Begun = {}
      /\ \A s \in Stations, id \in FallbackIds : ~Entered(s, id)
  BY DEF Init, ConnectionInit, Begun, FallbackIds, Entered, NoMemoryStation
<1>2. /\ BufferImage = [s \in Stations |-> {}]
      /\ StoredImage = {} /\ ClosedImage = {}
  BY <1>1, OfflineImages DEF ImagesAreEntries
<1> QED BY <1>1, <1>2 DEF Handover!Init, BufferImage, StoredImage, ClosedImage, Entered

LEMMA HandoverStep ==
    ASSUME IndInv, RowInv, [Next]_vars
    PROVE  [Handover!Next]_Handover!vars
<1>1. TypeInv /\ SessionInv /\ CallsAreOK /\ OldRowsStay
  BY DEF IndInv, TypeInv, RowInv
<1>2. TypeInv'
  BY InvStep DEF IndInv, TypeInv
<1>3. ASSUME NEW p \in Tasks,
             \/ PromotionNext(p) \/ StatementNext(p) \/ Fault(p) \/ PromotionRefused(p)
             \/ p \in Calls /\ ReceiveNext(p)
      PROVE  Handover!Next \/ UNCHANGED Handover!vars
  <2>1. TaskStep(p)
    BY <1>1, <1>2, <1>3, TaskStepTaken
  <2> QED BY <1>1, <1>2, <2>1, TaskIsHandover
<1>4. CASE FallbackNext
  BY <1>1, <1>2, <1>4, FallbackIsHandover
<1>5. CASE ConnectionNext
  BY <1>1, <1>5, ConnectionIsHandover
<1>6. CASE UNCHANGED vars
  BY <1>6, UnchangedImages, StutterIs DEF vars, connectionVars, memoryVars, dbVars
<1> QED BY <1>3, <1>4, <1>5, <1>6 DEF Next, Tasks

\* The service hands over what it buffered as SessionHandover promises: all
\* sessions of a station in one step, none lost, and closed by a stop only.
THEOREM HandsOver == Spec => HandoverSpec
<1>1. IndInv /\ RowInv /\ [Next]_vars => [Handover!Next]_Handover!vars
  BY HandoverStep
<1> QED BY <1>1, HandoverInit, Invariant, RowInvariant, PTL DEF Spec, HandoverSpec, Handover!Spec
===============================================================================
