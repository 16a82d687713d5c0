----------------------------- MODULE OcppServer ------------------------------
(***************************************************************************)
(* OcppWebSocketServer with the parts it drives: ConnectionManager, the    *)
(* routing of OcppService, and StationMessageService.                      *)
(*                                                                         *)
(* Every `data' event of a socket starts a run of handleFrame, and all     *)
(* runs of a socket take frames from one buffer.  A run (a `loop') takes   *)
(* frames until the buffer is empty or the socket is given up; it awaits   *)
(* the handler of a call and the statements of a flush, and meanwhile the  *)
(* other runs and events go on.  What needs no await happens in one turn   *)
(* of the event loop: while some run is at `next', nothing else happens.   *)
(*                                                                         *)
(* ChargingStationService is what its callers see of it: a handler answers *)
(* or throws, at once in fallback mode and after an await when the         *)
(* database is connected.  Module ChargingStation has the inside.          *)
(***************************************************************************)
EXTENDS Integers, Sequences, ConnectionManager, PrismaConnection

CONSTANTS
    Loops,         \* slots for runs of handleFrame and flushes of new sockets
    FrameKinds,    \* the frames stations send
    MaxFrames,     \* bound: frames received
    MaxMessages,   \* bound: messages enqueued
    MaxFaults,     \* bound: database statements that fail
    MaxRestarts    \* bound: times the process is killed

\* Text frames: a BootNotification, any other call, a call the router or a
\* handler refuses in its first turn, and text without a unique id to answer
\* to.  `unsupported' has an unknown opcode or is a fragment.
AllFrameKinds == {"boot", "call", "invalid", "garbage", "ping", "close", "unsupported"}

ASSUME ServerAssumption ==
    /\ FrameKinds \subseteq AllFrameKinds
    /\ MaxFrames \in Nat /\ MaxMessages \in Nat
    /\ MaxFaults \in Nat /\ MaxRestarts \in Nat

VARIABLES
    messages,    \* StationMessageService's queue and table
    accepting,   \* the upgrade handler is installed
    stopping,    \* the process was asked to stop
    contexts,    \* per socket its SocketContext and what became of it
    loops,       \* per slot a run of handleFrame, or a flush
    inMemory,    \* stations that have a memory station
    tableId,     \* per station the id of its charging_stations row
    received,    \* frames received
    answers,     \* history: per frame the answers written to it
    written,     \* history: messages written to a socket
    delivered,   \* history: messages written to an open socket
    faults, restarts

historyVars == <<answers, written, delivered>>
stationVars == <<inMemory, tableId>>
serverVars  == <<accepting, stopping>>
boundVars   == <<faults, restarts>>
vars == <<managerVars, messages, connectionVars, serverVars, contexts, loops,
          stationVars, received, historyVars, boundVars>>

INSTANCE StationMessages

Frame   == [kind : FrameKinds, id : 1..MaxFrames]
NoFrame == [kind |-> "none", id |-> 0]

SocketContext ==
    [state : {"unused", "open", "ended", "destroyed", "gone"},
     identity : Stations \cup {Nobody}, buffer : Seq(Frame)]

Loop ==
    [at : {"idle", "next", "calling", "listing", "marking", "failing"},
     socket : Sockets \cup {Nobody}, frame : Frame \cup {NoFrame},
     stationId : StationIds \cup {"unknown"}, pending : SUBSET (Nat \ {0})]

Idle == [at |-> "idle", socket |-> Nobody, frame |-> NoFrame,
         stationId |-> "unknown", pending |-> {}]

TypeOK ==
    /\ ManagerTypeOK /\ MessagesTypeOK /\ ConnectionTypeOK
    /\ accepting \in BOOLEAN /\ stopping \in BOOLEAN
    /\ contexts \in [Sockets -> SocketContext]
    /\ loops \in [Loops -> Loop]
    /\ inMemory \in SUBSET Stations
    /\ tableId \in [Stations -> StationIds \cup {"unknown"}]
    /\ received \in 0..MaxFrames
    /\ answers \in [1..MaxFrames -> Nat]
    /\ written \in SUBSET DOMAIN messages
    /\ delivered \in SUBSET written
    /\ faults \in 0..MaxFaults
    /\ restarts \in 0..(MaxRestarts + MaxFaults)

------------------------------------------------------------------------------
(* Sockets, loops and flushes. *)

Quiet  == \A l \in Loops : loops[l].at # "next"
Open(k) == contexts[k].state = "open"
SetState(k, state) == contexts' = [contexts EXCEPT ![k].state = state]

StationOf(l) == contexts[loops[l].socket].identity

\* What a loop does next: another frame; nothing any more.
Continues(l) == loops' = [loops EXCEPT ![l] = 
                               [Idle EXCEPT !.at = "next", !.socket = loops[l].socket]]
Ends(l)      == loops' = [loops EXCEPT ![l] = Idle]

\* sendText does not throw: what is written to a socket that is no longer
\* open disappears.
Answer(l, frame) == answers' = [answers EXCEPT ![frame.id] = @ + 1]
Write(k, set) ==
    /\ written' = written \cup set
    /\ delivered' = IF Open(k) THEN delivered \cup set ELSE delivered

\* flushQueuedMessages in fallback mode: a single turn.
FlushMemory(s, k) ==
    LET set == Pending(s, "memory")
    IN  messages' = Marked(set, "DISPATCHED") /\ Write(k, set)

\* The message created first; wrong: last.
Latest(set) == CHOOSE m \in set : \A n \in set : m >= n
First(set)  == CHOOSE m \in set : \A n \in set : m <= n

------------------------------------------------------------------------------
(* Turns of a loop: what it does with the frame it takes off the buffer.     *)

Takes(l, kind) ==
    LET buffer == contexts[loops[l].socket].buffer
    IN  loops[l].at = "next" /\ buffer # <<>> /\ Head(buffer).kind = kind
NextFrame(l) == Head(contexts[loops[l].socket].buffer)

\* context.buffer = frame.remaining.  Wrong: it is left for later.
RemainingKept(buffer) == buffer
Remaining(buffer)     == Tail(buffer)

Extract(l, state) ==
    LET k == loops[l].socket
    IN  contexts' = [contexts EXCEPT ![k].buffer = Remaining(@), ![k].state = state]
StateAfterDestroy(k) == IF Open(k) \/ contexts[k].state = "ended" THEN "destroyed"
                        ELSE contexts[k].state

LoopEnds(l) ==
    /\ loops[l].at = "next" /\ contexts[loops[l].socket].buffer = <<>>
    /\ Ends(l)
    /\ UNCHANGED <<managerVars, messages, connectionVars, serverVars, contexts, stationVars,
                   received, historyVars, boundVars>>

\* Wrong: the loop is left instead of continued.
TakePingBreaking(l) ==
    /\ Takes(l, "ping")
    /\ Extract(l, contexts[loops[l].socket].state)
    /\ Ends(l)
    /\ UNCHANGED <<managerVars, messages, connectionVars, serverVars, stationVars,
                   received, historyVars, boundVars>>

TakePing(l) ==
    /\ Takes(l, "ping")
    /\ Extract(l, contexts[loops[l].socket].state)
    /\ UNCHANGED <<managerVars, messages, connectionVars, serverVars, loops, stationVars,
                   received, historyVars, boundVars>>

\* The station closes: the server ends its side and waits for `close'.
TakeClose(l) ==
    /\ Takes(l, "close")
    /\ Extract(l, IF Open(loops[l].socket) THEN "ended" ELSE contexts[loops[l].socket].state)
    /\ MarkDisconnected(loops[l].socket)
    /\ Ends(l)
    /\ UNCHANGED <<messages, connectionVars, serverVars, stationVars, received, historyVars,
                   boundVars>>

\* Fragments, binary frames, and text that names no call to answer: the socket
\* is destroyed.  The context learns of it with the `close' event.
TakeUnusable(l) ==
    /\ Takes(l, "unsupported") \/ Takes(l, "garbage")
    /\ Extract(l, StateAfterDestroy(loops[l].socket))
    /\ Ends(l)
    /\ UNCHANGED <<managerVars, messages, connectionVars, serverVars, stationVars, received,
                   historyVars, boundVars>>

\* handleMessage throws before any await: a CALLERROR.
TakeInvalid(l) ==
    /\ Takes(l, "invalid")
    /\ Extract(l, contexts[loops[l].socket].state)
    /\ Answer(l, NextFrame(l))
    /\ UNCHANGED <<managerVars, messages, connectionVars, serverVars, loops, stationVars,
                   received, written, delivered, boundVars>>

\* The handlers of fallback mode have nothing to wait for.  Most of them make a
\* memory station where there is none.
TakeCallInMemory(l) ==
    /\ Takes(l, "call") /\ ~connected
    /\ Extract(l, contexts[loops[l].socket].state)
    /\ Refresh(StationOf(l), "unknown")
    /\ inMemory' \in {inMemory, inMemory \cup {StationOf(l)}}
    /\ Answer(l, NextFrame(l))
    /\ UNCHANGED <<messages, connectionVars, serverVars, loops, tableId, received,
                   written, delivered, boundVars>>

TakeBootInMemory(l) ==
    /\ Takes(l, "boot") /\ ~connected
    /\ Extract(l, contexts[loops[l].socket].state)
    /\ Refresh(StationOf(l), "memory")
    /\ inMemory' = inMemory \cup {StationOf(l)}
    /\ Answer(l, NextFrame(l))
    /\ IF Present(StationOf(l)) THEN FlushMemory(StationOf(l), loops[l].socket)
       ELSE UNCHANGED <<messages, written, delivered>>
    /\ UNCHANGED <<connectionVars, serverVars, loops, tableId, received, boundVars>>

\* With the database, the loop awaits the handler.
TakeCall(l) ==
    /\ Takes(l, "call") \/ Takes(l, "boot")
    /\ connected
    /\ Extract(l, contexts[loops[l].socket].state)
    /\ loops' = [loops EXCEPT ![l].at = "calling", ![l].frame = NextFrame(l)]
    /\ UNCHANGED <<managerVars, messages, connectionVars, serverVars, stationVars, received,
                   historyVars, boundVars>>

------------------------------------------------------------------------------
(* What a loop awaited comes back.                                           *)

\* The flush is over: a registration's ends, a handler's loop goes on.
FlushOver(l) == IF loops[l].frame = NoFrame THEN Ends(l) ELSE Continues(l)

\* The handler's call result, and for a BootNotification the flush.
CallAnswered(l) ==
    /\ Quiet /\ loops[l].at = "calling" /\ loops[l].frame.kind = "call"
    /\ Refresh(StationOf(l), "unknown")
    /\ Answer(l, loops[l].frame)
    /\ Continues(l)
    /\ UNCHANGED <<messages, connectionVars, serverVars, contexts, stationVars, received,
                   written, delivered, boundVars>>

\* Wrong: the flush is started with the station id of before the answer.
BootAnsweredStale(l) ==
    /\ Quiet /\ loops[l].at = "calling" /\ loops[l].frame.kind = "boot"
    /\ LET s  == StationOf(l)
           id == IF tableId[s] = "unknown" THEN "table" ELSE tableId[s]
       IN  /\ tableId' = [tableId EXCEPT ![s] = id]
           /\ Refresh(s, id)
           /\ loops' = [loops EXCEPT ![l].at = "listing",
                                     ![l].stationId = connections[s].stationId]
    /\ Answer(l, loops[l].frame)
    /\ UNCHANGED <<messages, connectionVars, serverVars, contexts, inMemory, received,
                   written, delivered, boundVars>>

BootAnswered(l) ==
    /\ Quiet /\ loops[l].at = "calling" /\ loops[l].frame.kind = "boot"
    /\ LET s  == StationOf(l)
           id == IF tableId[s] = "unknown" THEN "table" ELSE tableId[s]
       IN  /\ tableId' = [tableId EXCEPT ![s] = id]
           /\ Refresh(s, id)
           /\ IF Present(s)
              THEN loops' = [loops EXCEPT ![l].at = "listing", ![l].stationId = id]
              ELSE Continues(l)
    /\ Answer(l, loops[l].frame)
    /\ UNCHANGED <<messages, connectionVars, serverVars, contexts, inMemory, received,
                   written, delivered, boundVars>>

\* The handler throws: it refuses the call, or a statement of it failed.
CallRejected(l) ==
    /\ Quiet /\ loops[l].at = "calling"
    /\ \/ loops[l].frame.kind = "call" /\ UNCHANGED faults
       \/ faults < MaxFaults /\ faults' = faults + 1
    /\ Answer(l, loops[l].frame)
    /\ Continues(l)
    /\ UNCHANGED <<managerVars, messages, connectionVars, serverVars, contexts, stationVars,
                   received, written, delivered, restarts>>

\* The next message is written in the turn in which the loop learns of it.
Sends(l, set) ==
    IF set = {} THEN FlushOver(l) /\ UNCHANGED <<written, delivered>>
    ELSE /\ loops' = [loops EXCEPT ![l].at = "marking", ![l].pending = set]
         /\ Write(loops[l].socket, {First(set)})

\* listPendingMessages, of the id the flush was started with.
Listed(l) ==
    /\ Quiet /\ loops[l].at = "listing"
    /\ Sends(l, IF loops[l].stationId = tableId[StationOf(l)]
                THEN Pending(StationOf(l), "table") ELSE {})
    /\ UNCHANGED <<managerVars, messages, connectionVars, serverVars, contexts, stationVars,
                   received, answers, boundVars>>

\* markAsDispatched
Dispatched(l) ==
    /\ Quiet /\ loops[l].at = "marking"
    /\ messages' = Marked({First(loops[l].pending)}, "DISPATCHED")
    /\ Sends(l, loops[l].pending \ {First(loops[l].pending)})
    /\ UNCHANGED <<managerVars, connectionVars, serverVars, contexts, stationVars,
                   received, answers, boundVars>>

\* The update is rejected, before or after it took effect.
DispatchFails(l) ==
    /\ Quiet /\ loops[l].at = "marking"
    /\ faults < MaxFaults /\ faults' = faults + 1
    /\ messages' \in {messages, Marked({First(loops[l].pending)}, "DISPATCHED")}
    /\ loops' = [loops EXCEPT ![l].at = "failing"]
    /\ UNCHANGED <<managerVars, connectionVars, serverVars, contexts, stationVars,
                   received, historyVars, restarts>>

\* Wrong: a status the table does not have.
MarkedFailedError(l) ==
    /\ Quiet /\ loops[l].at = "failing"
    /\ messages' = Marked({First(loops[l].pending)}, "ERROR")
    /\ FlushOver(l)
    /\ UNCHANGED <<managerVars, connectionVars, serverVars, contexts, stationVars,
                   received, historyVars, boundVars>>

\* Wrong: the rest of the list is given up with the message.
MarkedFailedAll(l) ==
    /\ Quiet /\ loops[l].at = "failing"
    /\ messages' = Marked(loops[l].pending, "FAILED")
    /\ FlushOver(l)
    /\ UNCHANGED <<managerVars, connectionVars, serverVars, contexts, stationVars,
                   received, historyVars, boundVars>>

\* markAsFailed, and the rest of the list is left for the next flush.
MarkedFailed(l) ==
    /\ Quiet /\ loops[l].at = "failing"
    /\ messages' = Marked({First(loops[l].pending)}, "FAILED")
    /\ FlushOver(l)
    /\ UNCHANGED <<managerVars, connectionVars, serverVars, contexts, stationVars,
                   received, historyVars, boundVars>>

\* A new process: what was in memory is gone, as are its sockets.  It makes up
\* new ids, so those that were promoted are just ids of the table from now on.
NewProcess ==
    /\ connections' = [s \in Stations |-> NoContext]
    /\ socketToIdentity' = [k \in Sockets |-> Nobody]
    /\ messages' = MemoryLost(messages)
    /\ connected' = FALSE /\ connecting' = TRUE /\ reconnectTimer' = FALSE
    /\ accepting' = TRUE /\ stopping' = FALSE
    /\ contexts' = [k \in Sockets |->
           IF contexts[k].state = "unused" THEN contexts[k]
           ELSE [contexts[k] EXCEPT !.state = "gone", !.buffer = <<>>]]
    /\ loops' = [l \in Loops |-> Idle]
    /\ inMemory' = {}
    /\ tableId' = [s \in Stations |-> IF tableId[s] = "memory" THEN "table" ELSE tableId[s]]
    /\ restarts' = restarts + 1
    /\ UNCHANGED <<received, historyVars>>

\* listPendingMessages or markAsFailed is rejected, and so is the flush.  In a
\* loop the exception reaches the catch of a call that has its answer already;
\* in a registration's flush nobody handles it, which ends the process.
FlushRejected(l) ==
    /\ Quiet /\ loops[l].at \in {"listing", "failing"}
    /\ faults < MaxFaults /\ faults' = faults + 1
    /\ IF loops[l].frame = NoFrame THEN NewProcess
       ELSE /\ Answer(l, loops[l].frame)
            /\ Continues(l)
            /\ UNCHANGED <<managerVars, messages, connectionVars, serverVars, contexts,
                           stationVars, received, written, delivered, restarts>>
------------------------------------------------------------------------------
(* Events.                                                                   *)

\* onModuleInit of PrismaService was over before the server began to listen.
Listening == connected \/ reconnectTimer \/ stopping

\* A socket is registered, also one that was accepted before the server stopped
\* listening.  Its flush is for the station id that an earlier
\* connection of the station left in the context.
Upgrade(s, k) ==
    /\ Quiet /\ accepting /\ Listening
    /\ contexts[k].state = "unused"
    /\ contexts' = [contexts EXCEPT ![k] = [state |-> "open", identity |-> s, buffer |-> <<>>]]
    /\ RegisterConnection(s, k)
    /\ LET id == connections[s].stationId
       IN  \/ /\ id = "unknown"
              /\ UNCHANGED <<messages, loops, written, delivered>>
           \/ /\ id # "unknown" /\ ~connected
              /\ messages' = Marked(Pending(s, "memory"), "DISPATCHED")
              /\ written' = written \cup Pending(s, "memory")
              /\ delivered' = delivered \cup Pending(s, "memory")
              /\ UNCHANGED loops
           \/ /\ id # "unknown" /\ connected
              /\ \E l \in Loops :
                     /\ loops[l].at = "idle"
                     /\ loops' = [loops EXCEPT ![l] =
                            [Idle EXCEPT !.at = "listing", !.socket = k, !.stationId = id]]
              /\ UNCHANGED <<messages, written, delivered>>
    /\ UNCHANGED <<connectionVars, serverVars, stationVars, received, answers, boundVars>>

\* A chunk completes one frame or two.
Data(k, kinds) ==
    /\ Quiet
    /\ contexts[k].state \in {"open", "ended"}
    /\ received + Len(kinds) <= MaxFrames
    /\ contexts' = [contexts EXCEPT ![k].buffer = @ \o
           [i \in 1..Len(kinds) |-> [kind |-> kinds[i], id |-> received + i]]]
    /\ received' = received + Len(kinds)
    /\ \E l \in Loops :
           /\ loops[l].at = "idle"
           /\ loops' = [loops EXCEPT ![l] = [Idle EXCEPT !.at = "next", !.socket = k]]
    /\ UNCHANGED <<managerVars, messages, connectionVars, serverVars, stationVars,
                   historyVars, boundVars>>

\* `close', or `error' with the `close' that follows it.
SocketCloses(k) ==
    /\ Quiet
    /\ contexts[k].state \in {"open", "ended", "destroyed"}
    /\ SetState(k, "gone")
    /\ MarkDisconnected(k)
    /\ UNCHANGED <<messages, connectionVars, serverVars, loops, stationVars, received,
                   historyVars, boundVars>>

\* Somebody, given the station's id by its context or by the database, has a
\* call for it.  A station id the table does not know is refused.
Enqueue(s, due) ==
    /\ Quiet
    /\ Len(messages) < MaxMessages
    /\ IF connected THEN tableId[s] # "unknown" ELSE connections[s].stationId = "memory"
    /\ EnqueueMessage(s, IF connected THEN "table" ELSE "memory", due)
    /\ UNCHANGED <<managerVars, connectionVars, serverVars, contexts, loops, stationVars,
                   received, historyVars, boundVars>>

TimePasses(m) ==
    /\ Quiet
    /\ BecomesDue(m)
    /\ UNCHANGED <<managerVars, connectionVars, serverVars, contexts, loops, stationVars,
                   received, historyVars, boundVars>>

\* promoteMemoryStation: a row it creates takes the memory station's id.
Promoted(s) ==
    /\ Quiet /\ connected
    /\ s \in inMemory
    /\ inMemory' = inMemory \ {s}
    /\ tableId' = [tableId EXCEPT ![s] = IF @ = "unknown" THEN "memory" ELSE @]
    /\ UNCHANGED <<managerVars, messages, connectionVars, serverVars, contexts, loops,
                   received, historyVars, boundVars>>

DatabaseNext ==
    /\ Quiet
    /\ ReconnectTick \/ ConnectOk \/ ConnectFail
    /\ UNCHANGED <<managerVars, messages, serverVars, contexts, loops, stationVars,
                   received, historyVars, boundVars>>

\* The process is asked to stop.  The framework has PrismaService clean up,
\* stops listening, and waits for the sockets to end on their own.
Terminate ==
    /\ Quiet /\ Listening /\ ~stopping /\ restarts < MaxRestarts
    /\ stopping' = TRUE
    /\ ModuleDestroy
    /\ UNCHANGED <<managerVars, messages, accepting, contexts, loops, stationVars, received,
                   historyVars, boundVars>>

\* onApplicationShutdown of the server and of the manager, in one turn, when
\* no socket is left.
Shutdown ==
    /\ Quiet /\ accepting /\ stopping
    /\ \A k \in Sockets : contexts[k].state \in {"unused", "gone"}
    /\ accepting' = FALSE
    /\ ForgetConnections
    /\ UNCHANGED <<messages, connectionVars, stopping, contexts, loops, stationVars, received,
                   historyVars, boundVars>>

\* The process is killed, or exits after its shutdown, and is started again.
Restart == Quiet /\ restarts < MaxRestarts /\ NewProcess /\ UNCHANGED faults
------------------------------------------------------------------------------
Init ==
    /\ ManagerInit /\ MessagesInit /\ ConnectionInit
    /\ accepting = TRUE /\ stopping = FALSE
    /\ contexts = [k \in Sockets |-> [state |-> "unused", identity |-> Nobody, buffer |-> <<>>]]
    /\ loops = [l \in Loops |-> Idle]
    /\ inMemory = {}
    /\ tableId \in [Stations -> {"unknown", "table"}]
    /\ received = 0
    /\ answers = [f \in 1..MaxFrames |-> 0]
    /\ written = {} /\ delivered = {}
    /\ faults = 0 /\ restarts = 0

Chunks == UNION {[1..n -> FrameKinds] : n \in 1..2}

TurnNext(l) ==
    \/ LoopEnds(l) \/ TakePing(l) \/ TakeClose(l) \/ TakeUnusable(l) \/ TakeInvalid(l)
    \/ TakeCallInMemory(l) \/ TakeBootInMemory(l) \/ TakeCall(l)

ReturnNext(l) ==
    \/ CallAnswered(l) \/ BootAnswered(l) \/ CallRejected(l)
    \/ Listed(l) \/ Dispatched(l) \/ DispatchFails(l) \/ MarkedFailed(l) \/ FlushRejected(l)

SocketNext(k) ==
    \/ \E s \in Stations : Upgrade(s, k)
    \/ \E kinds \in Chunks : Data(k, kinds)
    \/ SocketCloses(k)

EventNext ==
    \/ \E k \in Sockets : SocketNext(k)
    \/ \E s \in Stations : Promoted(s) \/ \E due \in {"always", "later"} : Enqueue(s, due)
    \/ \E m \in DOMAIN messages : TimePasses(m)
    \/ DatabaseNext \/ Terminate \/ Shutdown \/ Restart

Next == EventNext \/ \E l \in Loops : TurnNext(l) \/ ReturnNext(l)

Spec == Init /\ [][Next]_vars

\* A turn that is due is taken, and whatever is awaited comes back.
FairSpec == Spec /\ \A l \in Loops : WF_vars(TurnNext(l)) /\ WF_vars(ReturnNext(l))
==============================================================================
