------------------------- MODULE ChargingStationProps -------------------------
(***************************************************************************)
(* The correctness properties of ChargingStation.                          *)
(***************************************************************************)
EXTENDS ChargingStation, FiniteSets

InMemory(id) == \E s \in Stations : \E e \in memoryStations[s].sessions : e.id = id
Recorded(id) == \E n \in DOMAIN rows : rows[n].origin = id /\ Committed(rows[n])
Closed(id)   == \E n \in DOMAIN rows : rows[n].origin = id /\ rows[n].status = "COMPLETED"
Begun        == {id \in FallbackIds : id < nextFallbackTransactionId}

------------------------------------------------------------------------------
(* Sessions *)

\* As long as a fallback session has its entry in memoryTransactions, that is
\* until a stop went through, the session exists: in memory or as a committed
\* row.  promoteMemoryStation keeps the buffer until its transaction is
\* committed, whatever fails and whoever promotes the same station meanwhile.
LiveSessionKept ==
    \A id \in FallbackIds : Known(memoryTransactions[id]) => InMemory(id) \/ Recorded(id)

\* A mapping that was not given a row yet has its session buffered under the
\* station it names: handleStopTransaction relies on it when it promotes.
UnsavedIsBuffered ==
    \A id \in FallbackIds :
        LET m == memoryTransactions[id]
        IN  Known(m) /\ m.row = 0 =>
                /\ memoryStations[m.station].live
                /\ \E e \in memoryStations[m.station].sessions : e.id = id

\* A dbTransactionId names a row made from the very session the id was given
\* to: neither another session's, nor another station's.
MappingFaithful ==
    \A id \in FallbackIds :
        LET m == memoryTransactions[id]
            n == m.row
        IN  m.row # 0 =>
                /\ n \in DOMAIN rows
                /\ rows[n].origin = id
                /\ rows[n].station = m.station

\* Once the database is connected a mapping is dropped only when a row of its
\* session is completed: a stop that fails on the way can be repeated.
UnmappedOnlyWhenDone ==
    [][\A id \in FallbackIds :
           connected /\ Known(memoryTransactions[id]) /\ ~Known(memoryTransactions'[id])
           => Closed(id)']_vars

\* An open row that a connected StartTransaction made can be stopped: its
\* station was given the id, or is about to be.  Each statement that fails
\* takes that from one row at most.
Unreachable(n) ==
    /\ rows[n].origin = 0 /\ rows[n].status = "STARTED"
    /\ n \notin openIds[rows[n].station]
    /\ ~\E p \in Calls : job[p].at = "writeStation" /\ job[p].kind = "Start" /\ job[p].row = n
OpenRowsReachable ==
    Cardinality({n \in DOMAIN rows : Unreachable(n)}) <= faults

\* promoteMemoryStation, handleStopTransaction and the fallback handlers
\* together implement the abstract life of a fallback session.
Handover == INSTANCE SessionHandover WITH
    Ids    <- FallbackIds,
    buffer <- [s \in Stations |->
                  {id \in FallbackIds : (\E e \in memoryStations[s].sessions : e.id = id)
                                        /\ ~Recorded(id)}],
    stored <- {id \in FallbackIds : Recorded(id) /\ ~Closed(id)},
    closed <- {id \in Begun : Closed(id) \/ (~Recorded(id) /\ ~InMemory(id))},
    online <- connected

HandoverSpec == Handover!Spec

------------------------------------------------------------------------------
(* Stations *)

\* A station whose BootNotification was accepted, by this process or by an
\* earlier one, is never told that it `has not completed a BootNotification':
\* when getStationByIdentity looks it up, it is there.
BootedIsKnown ==
    \A p \in Calls :
        job[p].at = "find" /\ job[p].station \in booted => dbStations[job[p].station].live

\* What was buffered of a station is in the database before memory lets go of
\* it: the station, its boot data if it had booted, every connector it had
\* reported.
BufferReachesDatabase ==
    [][\A s \in Stations :
           memoryStations[s].live /\ memoryStations'[s] # memoryStations[s] /\ connected
           => /\ dbStations[s].live
              /\ memoryStations[s].identified => dbStations[s].identified
              /\ \A c \in Connectors : memoryStations[s].connectors[c] # Absent
                                       => dbConnectors[s][c] # Absent]_vars

\* A buffered station without a status for connector 0 shows CHARGING exactly
\* while one of its connectors charges, after every fallback step but a boot,
\* which shows it AVAILABLE whatever its connectors do.
ChargingShown ==
    [][\A s \in Stations :
           /\ ~connected /\ memoryStations'[s] # memoryStations[s]
           /\ ~FallbackBoot(s)
           /\ 0 \in Connectors => memoryStations'[s].connectors[0] = Absent
           => (memoryStations'[s].status = "CHARGING"
               <=> \E c \in Connectors : memoryStations'[s].connectors[c] = "CHARGING")]_vars

------------------------------------------------------------------------------
(* Progress *)

\* The reconnect timer never dies before the database is connected.
ConnectsEventually == <>connected

\* Without faults everything that was buffered of a station moves to the
\* database, even if the stations stay silent: the connection listener alone
\* sees to it, also when the database refuses what another station has sent.
Healthy(s) == \A c \in Reported(memoryStations[s]) : Storable(c)
BufferDrains ==
    connected ~> \A s \in Stations : Healthy(s) => memoryStations[s].sessions = {}

\* Every call gets its answer: no handler waits for a lock for ever.
CallsAnswered == \A p \in Calls : job[p].at # "idle" ~> job[p].at = "idle"

------------------------------------------------------------------------------
(* The inductive invariant behind TypeOK, LiveSessionKept, UnsavedIsBuffered,  *)
(* MappingFaithful and BootedIsKnown.                                          *)

\* What a task is doing determines which of its locals are set.
JobOK ==
    \A p \in Tasks :
        /\ job[p].at = "idle" => job[p] = Idle
        /\ job[p].at \in PromotionSteps => job[p].target \in Stations
        /\ job[p].at \in CallSteps => job[p].kind # "none"
        /\ job[p].kind # "none" => p \in Calls /\ job[p].station \in Stations
        /\ job[p].kind \in {"Status", "Start"} => job[p].connector \in Connectors
        /\ job[p].at = "insertRow" => job[p].kind = "Start"
        /\ job[p].at \in PromotionSteps /\ job[p].kind \notin {"none", "Stop"}
           => job[p].target = job[p].station

\* The first connection is the last attempt.
AttemptsEnd == connected => ~connecting

\* Before the database is connected no handler waits and no row is made.
QuietOffline ==
    ~connected => /\ \A p \in Tasks : job[p].at = "idle"
                  /\ rows = OldRows

\* A missing memory entry holds nothing.
MissingIsBlank ==
    \A s \in Stations : ~memoryStations[s].live => memoryStations[s] = NoMemoryStation

\* Uncommitted rows belong to a task that is still in its transaction.
WriterIsWriting ==
    \A n \in DOMAIN rows : rows[n].tx # Nobody =>
        job[rows[n].tx].at = "createRows" /\ rows[n].status # "ROLLEDBACK"

\* While a station is promoted, its buffer holds nothing the image lacks, and
\* nothing the image holds is gone.
ImageCoversMemory ==
    \A p \in Tasks :
        job[p].at \in {"upsertStation", "upsertConnectors", "createRows"} =>
            memoryStations[job[p].target].sessions \subseteq job[p].image.sessions
ImageIsKept ==
    \A p \in Tasks : job[p].at \in PromotionSteps =>
        \A e \in job[p].image.sessions : InMemory(e.id) \/ Recorded(e.id)

\* When memory is about to be forgotten, the database has it all.
ForgetIsSafe ==
    \A p \in Tasks : job[p].at = "forget" =>
        /\ \A e \in memoryStations[job[p].target].sessions : Recorded(e.id)
        /\ dbStations[job[p].target].live

\* A session some row was made from, committed or not, has no row-less mapping.
RowedIsNotUnsaved ==
    \A n \in DOMAIN rows : rows[n].origin # 0 =>
        LET m == memoryTransactions[rows[n].origin] IN ~(Known(m) /\ m.row = 0)

\* A station that booted is in memory or in the database.
BootedIsSomewhere ==
    \A s \in booted : memoryStations[s].live \/ dbStations[s].live

SessionInv ==
    /\ AttemptsEnd /\ QuietOffline /\ MissingIsBlank /\ WriterIsWriting
    /\ ImageCoversMemory /\ ImageIsKept /\ ForgetIsSafe /\ LiveSessionKept
    /\ RowedIsNotUnsaved /\ UnsavedIsBuffered /\ MappingFaithful
    /\ BootedIsSomewhere /\ BootedIsKnown

IndInv == TypeOK /\ JobOK /\ SessionInv

------------------------------------------------------------------------------
(* What must hold besides, for HandoverSpec, UnmappedOnlyWhenDone,            *)
(* BufferReachesDatabase, ChargingShown, and, when the sequence is past the   *)
(* fallback ids, RowsTouchedByOwnId and OpenRowsReachable.                    *)

\* Station s has a hold on fallback id: through the mapping, an entry in
\* memory, a row made from the session, or an image some task still promotes.
Holds(s, id) ==
    \/ memoryTransactions[id].station = s
    \/ \E e \in memoryStations[s].sessions : e.id = id
    \/ \E n \in DOMAIN rows : rows[n].origin = id /\ rows[n].station = s
    \/ \E p \in Tasks : /\ job[p].at \in PromotionSteps /\ job[p].target = s
                        /\ \E e \in job[p].image.sessions : e.id = id

\* A fallback session belongs to one station for ever, and its id was handed out.
OneHolder ==
    \A id \in FallbackIds : \A s, t \in Stations : Holds(s, id) /\ Holds(t, id) => s = t
HeldHasBegun ==
    \A id \in FallbackIds : \A s \in Stations : Holds(s, id) => id < nextFallbackTransactionId
OneEntry ==
    \A s \in Stations : \A e, f \in memoryStations[s].sessions : e.id = f.id => e = f

\* Offline, a buffered station has been heard from.
HeardOffline ==
    ~connected => \A s \in Stations :
                      memoryStations[s].live => memoryStations[s].heard = "buffered"

\* The image a task promotes lacks nothing of the buffered station, and what
\* memory is about to forget of a station the database has.
ImageCoversStation ==
    \A p \in Tasks : job[p].at \in PromotionSteps =>
        LET memory == memoryStations[job[p].target]
        IN  /\ memory.identified => job[p].image.identified
            /\ Reported(memory) \subseteq Reported(job[p].image)
ForgetIsComplete ==
    \A p \in Tasks : job[p].at = "forget" =>
        LET memory == memoryStations[job[p].target]
        IN  /\ memory.identified => dbStations[job[p].target].identified
            /\ \A c \in Reported(memory) : dbConnectors[job[p].target][c] # Absent

\* An uncommitted row was made from the image its writer promotes.
UncommittedIsOfImage ==
    \A n \in DOMAIN rows : rows[n].tx # Nobody =>
        /\ rows[n].status # "COMPLETED"
        /\ rows[n].station = job[rows[n].tx].target
        /\ \E e \in job[rows[n].tx].image.sessions : e.id = rows[n].origin

\* The row a handler works on is the one its call is about: the row of the
\* mapping it read, or the row with the very id; a stop completes it before it
\* goes on.
StopSteps == {"findRow", "closeRow", "freeConnector", "freeStation", "unmap"}
RowOfCall(call) ==
    \/ call.row = call.id
    \/ /\ call.id \in FallbackIds /\ call.row \in RowIds
       /\ rows[call.row].origin = call.id
CallIsOK(call) ==
    /\ call.kind \in {"Status", "Start"} => call.status # Absent
    /\ call.at \in StopSteps => call.kind = "Stop"
    /\ call.at = "meter" => call.kind = "Meter"
    /\ call.at \in StopSteps \cup {"meter"} => RowOfCall(call)
    /\ call.at \in StopSteps /\ Known(call.mapping) =>
           /\ call.id \in FallbackIds /\ call.row \in RowIds
           /\ rows[call.row].origin = call.id
    /\ call.at \in StopSteps \ {"findRow"} => Visible(call.row)
    /\ call.at \in StopSteps \ {"findRow", "closeRow"} =>
           rows[call.row].status = "COMPLETED"
    /\ call.at = "writeStation" /\ call.kind = "Start" =>
           /\ call.row \in RowIds /\ call.row > Len(OldRows)
           /\ rows[call.row].station = call.station
CallsAreOK == \A p \in Tasks : CallIsOK(job[p])

\* An id is the station's own: a fallback id no other station has a hold on, or
\* the id of one of its rows.  Stations are only ever given their own, and so
\* name them only.
Owns(s, id) ==
    IF id \in FallbackIds
    THEN id < nextFallbackTransactionId /\ \A t \in Stations : Holds(t, id) => t = s
    ELSE id \in RowIds /\ rows[id].station = s
IdsAreOwn ==
    /\ \A s \in Stations : \A id \in openIds[s] : Owns(s, id)
    /\ \A p \in Tasks : job[p].kind \in {"Stop", "Meter"} => Owns(job[p].station, job[p].id)

\* The rows earlier runs left stay, and those that were over stay so.
OldRowsStay ==
    /\ Len(rows) >= Len(OldRows)
    /\ \A n \in DOMAIN OldRows : OldRows[n].status # "STARTED" => rows[n].status # "STARTED"

\* Offline a station forgets none of the ids of its open rows.
OpenIdsStay ==
    ~connected => \A n \in DOMAIN OldRows :
                      OldRows[n].status = "STARTED" => n \in openIds[OldRows[n].station]

\* Earlier runs have used up the ids that fallback sessions get again, and the
\* transactions of those ids are over.
SequenceIsPast ==
    /\ Len(OldRows) >= MaxSessions
    /\ \A n \in FallbackIds : OldRows[n].status # "STARTED"

\* handleStopTransaction and handleMeterValues go by the id alone.  Still a
\* station completes or meters a row of another only if the id of that row is
\* one of its own fallback ids, and then it is a row that was over before: the
\* ids of rows that are made now reach nobody else's.
RowsTouchedByOwnId ==
    \A n \in DOMAIN rows : \A s \in ({rows[n].stoppedBy} \cup rows[n].meteredBy) \ {Nobody} :
        rows[n].station = s \/ (n <= Len(OldRows) /\ Owns(s, n))

RowInv ==
    /\ OneHolder /\ HeldHasBegun /\ OneEntry /\ HeardOffline
    /\ ImageCoversStation /\ ForgetIsComplete
    /\ UncommittedIsOfImage /\ CallsAreOK /\ OldRowsStay
    /\ SequenceIsPast => /\ IdsAreOwn /\ OpenIdsStay
                         /\ RowsTouchedByOwnId /\ OpenRowsReachable

------------------------------------------------------------------------------
(* What the documentation says and the code does not keep. *)

\* README, `transactions': charging sessions.  One row per session.
OneRowPerSession ==
    \A m, n \in DOMAIN rows :
        /\ rows[m].origin # 0 /\ rows[m].origin = rows[n].origin
        /\ Committed(rows[m]) /\ Committed(rows[n])
        => m = n

\* README, `transactions': sessions with their start and stop meters.  A row is
\* completed and metered by the station whose session it is.
RowsTouchedByOwner ==
    \A n \in DOMAIN rows :
        /\ rows[n].stoppedBy \in {Nobody, rows[n].station}
        /\ rows[n].meteredBy \subseteq {rows[n].station}

\* README, `comprehensive validation' of what stations send: whatever was
\* accepted in fallback mode moves to the database when it is connected.
AcceptedDrains == connected ~> \A id \in FallbackIds : ~InMemory(id)
===============================================================================
