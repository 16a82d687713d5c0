---------------------------- MODULE OcppServer_proofs ----------------------------
(***************************************************************************)
(* Proofs about OcppServer: its types, its inductive invariant and what    *)
(* follows from it.  Each group of clauses of the invariant is disturbed   *)
(* by one aspect of a step only: what becomes of sockets and contexts, of  *)
(* runs, of messages, of frames.                                           *)
(***************************************************************************)
EXTENDS OcppServerProps, SequenceTheorems, WellFoundedInduction, TLAPS

------------------------------------------------------------------------------
(* Messages *)

LEMMA MarkedProperties ==
    ASSUME MessagesTypeOK, NEW set, NEW status \in {"DISPATCHED", "FAILED"}
    PROVE  /\ Marked(set, status) \in Seq(Message)
           /\ DOMAIN Marked(set, status) = DOMAIN messages
<1> DEFINE marked == Marked(set, status)
<1>1. messages \in [1..Len(messages) -> Message] /\ Len(messages) \in Nat
  BY LenProperties DEF MessagesTypeOK
<1>2. \A m \in DOMAIN messages : [messages[m] EXCEPT !.status = status] \in Message
  BY <1>1 DEF Message
<1>3. marked \in [1..Len(messages) -> Message]
  BY <1>1, <1>2 DEF Marked
<1> QED BY <1>1, <1>3, SeqDef

LEMMA LostProperties ==
    ASSUME MessagesTypeOK
    PROVE  /\ MemoryLost(messages) \in Seq(Message)
           /\ DOMAIN MemoryLost(messages) = DOMAIN messages
<1>1. messages \in [1..Len(messages) -> Message] /\ Len(messages) \in Nat
  BY LenProperties DEF MessagesTypeOK
<1>2. \A m \in DOMAIN messages : [messages[m] EXCEPT !.store = "lost"] \in Message
  BY <1>1 DEF Message
<1>3. MemoryLost(messages) \in [1..Len(messages) -> Message]
  BY <1>1, <1>2 DEF MemoryLost
<1> QED BY <1>1, <1>3, SeqDef

\* The message created first of a set of messages is one of them.
LEMMA FirstProperties ==
    ASSUME NEW set \in SUBSET Nat, set # {}
    PROVE  First(set) \in set /\ \A n \in set : First(set) <= n
<1>1. PICK m \in set : \A n \in set : <<n, m>> \notin OpToRel(<, Nat)
  BY NatLessThanWellFounded, WFMin
<1>2. ASSUME NEW n \in set, n < m
      PROVE  FALSE
  <2>1. <<n, m>> \in Nat \X Nat
    OBVIOUS
  <2>2. <<n, m>> \in OpToRel(<, Nat)
    BY <1>2, <2>1, <<n, m>>[1] < <<n, m>>[2] DEF OpToRel
  <2> QED BY <1>1, <2>2
<1>3. m \in set /\ \A n \in set : m <= n
  BY <1>2
<1> QED BY <1>3 DEF First

------------------------------------------------------------------------------
(* Runs and buffers *)

\* Whatever a run is doing, its socket was opened for a station.
LEMMA RunningHasStation ==
    ASSUME TypeOK, LoopOK, SocketOK, NEW l \in Loops, loops[l].at # "idle"
    PROVE  /\ loops[l].socket \in Sockets
           /\ contexts[loops[l].socket] \in SocketContext
           /\ contexts[loops[l].socket].state # "unused"
           /\ StationOf(l) \in Stations
BY DEF TypeOK, LoopOK, SocketOK, StationOf

LEMMA IdleType == Idle \in Loop /\ NoFrame \notin Frame
<1>1. NoFrame \notin Frame
  BY ServerAssumption DEF NoFrame, Frame, AllFrameKinds
<1>2. Idle \in Loop
  BY DEF Idle, Loop, NoFrame
<1> QED BY <1>1, <1>2

\* The two ways a run of handleFrame leaves a frame.
LEMMA NextRunType ==
    ASSUME loops \in [Loops -> Loop], NEW l \in Loops, loops[l].socket \in Sockets
    PROVE  /\ Continues(l) => loops' \in [Loops -> Loop]
           /\ Ends(l) => loops' \in [Loops -> Loop]
<1>1. [Idle EXCEPT !.at = "next", !.socket = loops[l].socket] \in Loop
  BY IdleType DEF Idle, Loop
<1> QED BY <1>1, IdleType DEF Continues, Ends

\* The first frame is taken off a buffer.
LEMMA ExtractType ==
    ASSUME TypeOK, NEW l \in Loops, loops[l].socket \in Sockets,
           contexts[loops[l].socket].buffer # <<>>,
           NEW state \in {"unused", "open", "ended", "destroyed", "gone"}, Extract(l, state)
    PROVE  contexts' \in [Sockets -> SocketContext] /\ NextFrame(l) \in Frame
<1> DEFINE k == loops[l].socket
<1>1. contexts[k] \in SocketContext /\ contexts[k].buffer \in Seq(Frame)
  BY DEF TypeOK, SocketContext
<1>2. Tail(contexts[k].buffer) \in Seq(Frame) /\ Head(contexts[k].buffer) \in Frame
  BY <1>1, HeadTailProperties
<1>3. [contexts[k] EXCEPT !.buffer = Remaining(@), !.state = state] \in SocketContext
  BY <1>1, <1>2 DEF SocketContext, Remaining
<1>4. contexts' = [contexts EXCEPT ![k] = [contexts[k] EXCEPT !.buffer = Remaining(@), !.state = state]]
  BY <1>1 DEF Extract, TypeOK, SocketContext
<1> QED BY <1>2, <1>3, <1>4 DEF NextFrame, TypeOK

LEMMA AnswerType ==
    ASSUME TypeOK, NEW frame \in Frame
    PROVE  /\ frame.id \in 1..MaxFrames
           /\ Answer("any", frame) => answers' \in [1..MaxFrames -> Nat]
BY DEF TypeOK, Answer, Frame

LEMMA RefreshType ==
    ASSUME ManagerTypeOK, NEW s \in Stations, NEW id \in StationIds \cup {"unknown"},
           Refresh(s, id)
    PROVE  ManagerTypeOK'
<1>1. [socket |-> connections[s].socket, status |-> "CONNECTED",
       stationId |-> IF id = "unknown" THEN connections[s].stationId ELSE id] \in Context
  BY DEF ManagerTypeOK, Context
<1> QED BY <1>1 DEF Refresh, ManagerTypeOK

LEMMA MarkDisconnectedType ==
    ASSUME ManagerTypeOK, NEW k \in Sockets, MarkDisconnected(k)
    PROVE  ManagerTypeOK'
<1>1. \A s \in Stations : [connections[s] EXCEPT !.status = "DISCONNECTED"] \in Context
  BY DEF ManagerTypeOK, Context
<1> QED BY <1>1 DEF MarkDisconnected, ManagerTypeOK

LEMMA WriteType ==
    ASSUME TypeOK, NEW k, NEW set \in SUBSET DOMAIN messages, Write(k, set),
           DOMAIN messages' = DOMAIN messages
    PROVE  written' \in SUBSET DOMAIN messages' /\ delivered' \in SUBSET written'
BY DEF TypeOK, Write

------------------------------------------------------------------------------
(* Types *)

LEMMA TurnTypes ==
    ASSUME TypeOK, LoopOK, SocketOK, NEW l \in Loops, TurnNext(l)
    PROVE  TypeOK'
<1> DEFINE k == loops[l].socket
<1> USE DEF managerVars, connectionVars, serverVars, stationVars, historyVars, boundVars,
            ManagerTypeOK, MessagesTypeOK, ConnectionTypeOK
<1>0. loops[l].at # "idle"
  BY DEF TurnNext, LoopEnds, TakePing, TakeClose, TakeUnusable, TakeInvalid, TakeCallInMemory,
         TakeBootInMemory, TakeCall, Takes
<1>1. k \in Sockets /\ contexts[k] \in SocketContext /\ StationOf(l) \in Stations
  BY <1>0, RunningHasStation
<1>2. \A kind : Takes(l, kind) => contexts[k].buffer # <<>>
  BY DEF Takes
<1>3. ASSUME \E kind : Takes(l, kind),
             NEW state \in {"unused", "open", "ended", "destroyed", "gone"}, Extract(l, state)
      PROVE  contexts' \in [Sockets -> SocketContext] /\ NextFrame(l) \in Frame
  BY <1>1, <1>2, <1>3, ExtractType
<1>4. contexts[k].state \in {"unused", "open", "ended", "destroyed", "gone"}
  BY <1>1 DEF SocketContext
<1>5. \A frame \in Frame : Answer(l, frame) => answers' \in [1..MaxFrames -> Nat]
  BY DEF TypeOK, Answer, Frame
<1>6. Ends(l) => loops' \in [Loops -> Loop]
  BY <1>1, NextRunType DEF TypeOK
<1>7. CASE LoopEnds(l)
  BY <1>6, <1>7 DEF LoopEnds, TypeOK
<1>8. CASE TakePing(l)
  BY <1>3, <1>4, <1>8 DEF TakePing, TypeOK
<1>9. CASE TakeClose(l)
  <2>1. ManagerTypeOK'
    BY <1>1, <1>9, MarkDisconnectedType DEF TakeClose, TypeOK
  <2>2. contexts' \in [Sockets -> SocketContext]
    BY <1>3, <1>4, <1>9 DEF TakeClose
  <2> QED BY <1>6, <1>9, <2>1, <2>2 DEF TakeClose, TypeOK
<1>10. CASE TakeUnusable(l)
  <2>1. StateAfterDestroy(k) \in {"unused", "open", "ended", "destroyed", "gone"}
    BY <1>4 DEF StateAfterDestroy
  <2> QED BY <1>3, <1>6, <1>10, <2>1 DEF TakeUnusable, TypeOK
<1>11. CASE TakeInvalid(l)
  BY <1>3, <1>4, <1>5, <1>11 DEF TakeInvalid, TypeOK
<1>12. CASE TakeCallInMemory(l)
  <2>1. ManagerTypeOK'
    BY <1>1, <1>12, RefreshType DEF TakeCallInMemory, TypeOK
  <2>2. contexts' \in [Sockets -> SocketContext] /\ answers' \in [1..MaxFrames -> Nat]
    BY <1>3, <1>4, <1>5, <1>12 DEF TakeCallInMemory
  <2>3. inMemory' \in SUBSET Stations
    BY <1>1, <1>12 DEF TakeCallInMemory, TypeOK
  <2> QED BY <1>12, <2>1, <2>2, <2>3 DEF TakeCallInMemory, TypeOK
<1>13. CASE TakeBootInMemory(l)
  <2>1. ManagerTypeOK'
    BY <1>1, <1>13, RefreshType DEF TakeBootInMemory, TypeOK, StationIds
  <2>2. contexts' \in [Sockets -> SocketContext] /\ answers' \in [1..MaxFrames -> Nat]
    BY <1>3, <1>4, <1>5, <1>13 DEF TakeBootInMemory
  <2> DEFINE set == Pending(StationOf(l), "memory")
  <2>3. /\ MessagesTypeOK'
        /\ written' \in SUBSET DOMAIN messages' /\ delivered' \in SUBSET written'
    <3>1. CASE Present(StationOf(l))
      <4>1. messages' = Marked(set, "DISPATCHED") /\ Write(k, set)
        BY <1>13, <3>1 DEF TakeBootInMemory, FlushMemory
      <4>2. messages' \in Seq(Message) /\ DOMAIN messages' = DOMAIN messages
        BY <4>1, MarkedProperties DEF TypeOK
      <4>3. set \in SUBSET DOMAIN messages
        BY DEF Pending
      <4> QED BY <4>1, <4>2, <4>3, WriteType
    <3>2. CASE ~Present(StationOf(l))
      BY <1>13, <3>2 DEF TakeBootInMemory, TypeOK
    <3> QED BY <3>1, <3>2
  <2> QED BY <1>1, <1>13, <2>1, <2>2, <2>3 DEF TakeBootInMemory, TypeOK
<1>14. CASE TakeCall(l)
  <2>1. contexts' \in [Sockets -> SocketContext] /\ NextFrame(l) \in Frame
    BY <1>3, <1>4, <1>14 DEF TakeCall
  <2>2. loops[l] \in Loop
    BY DEF TypeOK
  <2>3. [loops[l] EXCEPT !.at = "calling", !.frame = NextFrame(l)] \in Loop
    BY <2>1, <2>2 DEF Loop
  <2>4. loops' \in [Loops -> Loop]
    BY <1>14, <2>3 DEF TakeCall, TypeOK
  <2> QED BY <1>14, <2>1, <2>4 DEF TakeCall, TypeOK
<1> QED BY <1>7, <1>8, <1>9, <1>10, <1>11, <1>12, <1>13, <1>14 DEF TurnNext

LEMMA Counters ==
    ASSUME TypeOK
    PROVE  /\ restarts \in Nat /\ restarts <= MaxRestarts + MaxFaults
           /\ faults \in Nat /\ faults <= MaxFaults
           /\ received \in Nat /\ received <= MaxFrames
<1>1. /\ restarts \in 0..(MaxRestarts + MaxFaults)
      /\ faults \in 0..MaxFaults
      /\ received \in 0..MaxFrames
  BY DEF TypeOK
<1> QED BY <1>1, ServerAssumption

\* What a flush does with the message it learns of, or with none left.
LEMMA SendsTypes ==
    ASSUME TypeOK, NEW l \in Loops, loops[l].socket \in Sockets,
           NEW set \in SUBSET DOMAIN messages, Sends(l, set)
    PROVE  /\ loops' \in [Loops -> Loop]
           /\ written' \in SUBSET DOMAIN messages /\ delivered' \in SUBSET written'
<1>1. CASE set = {}
  BY <1>1, NextRunType DEF Sends, FlushOver, TypeOK
<1>2. CASE set # {}
  <2>1. DOMAIN messages \in SUBSET (Nat \ {0})
    BY LenProperties DEF TypeOK, MessagesTypeOK
  <2>2. First(set) \in DOMAIN messages
    BY <1>2, <2>1, FirstProperties
  <2>3. loops[l] \in Loop
    BY DEF TypeOK
  <2>4. [loops[l] EXCEPT !.at = "marking", !.pending = set] \in Loop
    BY <2>1, <2>3 DEF Loop
  <2> QED BY <1>2, <2>2, <2>4 DEF Sends, Write, TypeOK
<1> QED BY <1>1, <1>2

LEMMA NewProcessTypes ==
    ASSUME TypeOK, NewProcess,
           NEW f \in 0..MaxFaults, faults' = f, restarts < MaxRestarts + f
    PROVE  TypeOK'
<1> USE DEF managerVars, connectionVars, serverVars, stationVars, historyVars, boundVars,
            ManagerTypeOK, MessagesTypeOK, ConnectionTypeOK
<1>1. NoContext \in Context
  BY DEF NoContext, Context
<1>2. messages' \in Seq(Message) /\ DOMAIN messages' = DOMAIN messages
  BY LostProperties DEF NewProcess, TypeOK
<1>3. contexts' \in [Sockets -> SocketContext]
  <2>1. \A k \in Sockets : contexts[k] \in SocketContext
    BY DEF TypeOK
  <2>2. ASSUME NEW k \in Sockets
        PROVE  [contexts[k] EXCEPT !.state = "gone", !.buffer = <<>>] \in SocketContext
    <3>1. contexts[k] \in SocketContext /\ <<>> \in Seq(Frame)
      BY <2>1, EmptySeq
    <3> QED BY <3>1 DEF SocketContext
  <2> QED BY <2>1, <2>2 DEF NewProcess
<1>4. restarts' \in 0..(MaxRestarts + MaxFaults)
  <2>1. restarts' = restarts + 1
    BY DEF NewProcess
  <2>2. restarts + 1 \in 0..(MaxRestarts + MaxFaults)
    BY Counters, ServerAssumption
  <2> QED BY <2>1, <2>2
<1>5. tableId' \in [Stations -> StationIds \cup {"unknown"}]
  <2>1. tableId \in [Stations -> StationIds \cup {"unknown"}]
    BY DEF TypeOK
  <2> QED BY <2>1 DEF NewProcess, StationIds
<1> QED BY <1>1, <1>2, <1>3, <1>4, <1>5, IdleType DEF NewProcess, TypeOK

LEMMA ReturnTypes ==
    ASSUME TypeOK, LoopOK, SocketOK, RestartsOK, FlushOK, NEW l \in Loops, ReturnNext(l)
    PROVE  TypeOK' /\ RestartsOK'
<1> DEFINE k == loops[l].socket
           first == First(loops[l].pending)
<1> USE DEF managerVars, connectionVars, serverVars, stationVars, historyVars, boundVars,
            ManagerTypeOK, MessagesTypeOK, ConnectionTypeOK
<1>0. loops[l].at # "idle"
  BY DEF ReturnNext, CallAnswered, BootAnswered, CallRejected, Listed, Dispatched, DispatchFails,
         MarkedFailed, FlushRejected
<1>1. k \in Sockets /\ StationOf(l) \in Stations /\ loops[l] \in Loop
  BY <1>0, RunningHasStation DEF TypeOK
<1>2. Continues(l) \/ FlushOver(l) => loops' \in [Loops -> Loop]
  BY <1>1, NextRunType DEF TypeOK, FlushOver
<1>3. loops[l].frame # NoFrame /\ Answer(l, loops[l].frame) => answers' \in [1..MaxFrames -> Nat]
  BY <1>1 DEF TypeOK, Answer, Frame, Loop
<1>4. loops[l].at = "calling" => loops[l].frame # NoFrame
  BY DEF LoopOK
<1>5. \A status \in {"DISPATCHED", "FAILED"} :
         messages' = Marked({first}, status)
         => messages' \in Seq(Message) /\ DOMAIN messages' = DOMAIN messages
  BY MarkedProperties DEF TypeOK
<1>6. CASE CallAnswered(l)
  <2>1. ManagerTypeOK'
    BY <1>1, <1>6, RefreshType DEF CallAnswered, TypeOK
  <2> QED BY <1>2, <1>3, <1>4, <1>6, <2>1 DEF CallAnswered, TypeOK, RestartsOK
<1>7. CASE BootAnswered(l)
  <2> DEFINE s  == StationOf(l)
             id == IF tableId[s] = "unknown" THEN "table" ELSE tableId[s]
  <2>1. id \in StationIds
    BY <1>1 DEF TypeOK, StationIds
  <2>2. ManagerTypeOK'
    BY <1>1, <1>7, <2>1, RefreshType DEF BootAnswered, TypeOK
  <2>3. [loops[l] EXCEPT !.at = "listing", !.stationId = id] \in Loop
    BY <1>1, <2>1 DEF Loop
  <2>4. loops' \in [Loops -> Loop]
    BY <1>2, <1>7, <2>3 DEF BootAnswered, TypeOK
  <2>5. tableId' \in [Stations -> StationIds \cup {"unknown"}]
    BY <1>1, <1>7, <2>1 DEF BootAnswered, TypeOK
  <2> QED BY <1>3, <1>4, <1>7, <2>2, <2>4, <2>5 DEF BootAnswered, TypeOK, RestartsOK
<1>8. CASE CallRejected(l)
  BY <1>2, <1>3, <1>4, <1>8, ServerAssumption DEF CallRejected, TypeOK, RestartsOK
<1>9. CASE Listed(l)
  <2> DEFINE set == IF loops[l].stationId = tableId[StationOf(l)]
                    THEN Pending(StationOf(l), "table") ELSE {}
  <2>1. set \in SUBSET DOMAIN messages
    BY DEF Pending
  <2>2. Sends(l, set)
    BY <1>9 DEF Listed
  <2> HIDE DEF set
  <2> QED BY <1>1, <1>9, <2>1, <2>2, SendsTypes DEF Listed, TypeOK, RestartsOK
<1>10. CASE Dispatched(l)
  <2>1. loops[l].pending \ {first} \in SUBSET DOMAIN messages
    BY <1>10 DEF Dispatched, FlushOK, Marking
  <2>2. Sends(l, loops[l].pending \ {first})
    BY <1>10 DEF Dispatched
  <2>3. messages' \in Seq(Message) /\ DOMAIN messages' = DOMAIN messages
    BY <1>5, <1>10 DEF Dispatched
  <2> QED BY <1>1, <1>10, <2>1, <2>2, <2>3, SendsTypes DEF Dispatched, TypeOK, RestartsOK
<1>11. CASE DispatchFails(l)
  <2>1. messages' \in Seq(Message) /\ DOMAIN messages' = DOMAIN messages
    BY <1>5, <1>11 DEF DispatchFails, TypeOK
  <2>2. [loops[l] EXCEPT !.at = "failing"] \in Loop
    BY <1>1 DEF Loop
  <2>3. loops' \in [Loops -> Loop]
    BY <1>11, <2>2 DEF DispatchFails, TypeOK
  <2>4. faults' = faults + 1 /\ faults' \in 0..MaxFaults
    BY <1>11, Counters, ServerAssumption DEF DispatchFails
  <2>5. RestartsOK'
    BY <1>11, <2>4, Counters, ServerAssumption DEF DispatchFails, RestartsOK
  <2> QED BY <1>11, <2>1, <2>3, <2>4, <2>5 DEF DispatchFails, TypeOK
<1>12. CASE MarkedFailed(l)
  <2>1. messages' \in Seq(Message) /\ DOMAIN messages' = DOMAIN messages
    BY <1>5, <1>12 DEF MarkedFailed
  <2> QED BY <1>2, <1>12, <2>1 DEF MarkedFailed, TypeOK, RestartsOK
<1>13. CASE FlushRejected(l)
  <2>1. faults' \in 0..MaxFaults /\ faults' = faults + 1
    BY <1>13, Counters, ServerAssumption DEF FlushRejected
  <2>2. CASE loops[l].frame = NoFrame
    <3>1. NewProcess
      BY <1>13, <2>2 DEF FlushRejected
    <3>2. restarts < MaxRestarts + faults'
      BY <2>1, Counters, ServerAssumption DEF RestartsOK
    <3>3. restarts' = restarts + 1
      BY <3>1 DEF NewProcess
    <3>4. TypeOK'
      BY <2>1, <3>1, <3>2, NewProcessTypes
    <3> QED BY <2>1, <3>2, <3>3, <3>4, Counters, ServerAssumption DEF RestartsOK
  <2>3. CASE loops[l].frame # NoFrame
    <3>1. loops' \in [Loops -> Loop] /\ answers' \in [1..MaxFrames -> Nat]
      BY <1>2, <1>3, <1>13, <2>3 DEF FlushRejected
    <3>2. RestartsOK'
      BY <1>13, <2>1, <2>3, Counters, ServerAssumption DEF FlushRejected, RestartsOK
    <3> QED BY <1>13, <2>1, <2>3, <3>1, <3>2 DEF FlushRejected, TypeOK
  <2> QED BY <2>2, <2>3
<1> QED BY <1>6, <1>7, <1>8, <1>9, <1>10, <1>11, <1>12, <1>13 DEF ReturnNext

LEMMA ChunkType ==
    ASSUME NEW kinds \in Chunks
    PROVE  kinds \in Seq(FrameKinds) /\ Len(kinds) \in 1..2
<1>1. PICK n \in 1..2 : kinds \in [1..n -> FrameKinds]
  BY DEF Chunks
<1>2. kinds \in Seq(FrameKinds)
  BY <1>1, SeqDef
<1> QED BY <1>1, <1>2, LenProperties

\* The frames that a chunk adds to a buffer.
LEMMA DataFrames ==
    ASSUME TypeOK, NEW kinds \in Chunks, received + Len(kinds) <= MaxFrames
    PROVE  [i \in 1..Len(kinds) |-> [kind |-> kinds[i], id |-> received + i]] \in Seq(Frame)
<1>1. kinds \in Seq(FrameKinds) /\ Len(kinds) \in 1..2
  BY ChunkType
<1>2. \A i \in 1..Len(kinds) : kinds[i] \in FrameKinds /\ received + i \in 1..MaxFrames
  BY <1>1, Counters, ElementOfSeq, ServerAssumption
<1>3. [i \in 1..Len(kinds) |-> [kind |-> kinds[i], id |-> received + i]] \in [1..Len(kinds) -> Frame]
  BY <1>2 DEF Frame
<1>4. \A n \in Nat : [1..n -> Frame] \subseteq Seq(Frame)
  BY SeqDef
<1>5. Len(kinds) \in Nat
  BY <1>1
<1> QED BY <1>3, <1>4, <1>5

LEMMA EventTypes ==
    ASSUME TypeOK, LoopOK, SocketOK, RestartsOK, EventNext
    PROVE  TypeOK' /\ RestartsOK'
<1> USE DEF managerVars, connectionVars, serverVars, stationVars, historyVars, boundVars,
            ManagerTypeOK, MessagesTypeOK, ConnectionTypeOK
<1>1. ASSUME NEW k \in Sockets, NEW s \in Stations, Upgrade(s, k)
      PROVE  TypeOK' /\ RestartsOK'
  <2> DEFINE id  == connections[s].stationId
             set == Pending(s, "memory")
  <2>1. id \in StationIds \cup {"unknown"}
    BY DEF TypeOK, Context
  <2>2. ManagerTypeOK'
    <3>1. [socket |-> k, status |-> "CONNECTED", stationId |-> connections[s].stationId] \in Context
      BY <2>1 DEF Context
    <3> QED BY <1>1, <3>1 DEF Upgrade, RegisterConnection, TypeOK
  <2>3. contexts' \in [Sockets -> SocketContext]
    <3>1. [state |-> "open", identity |-> s, buffer |-> <<>>] \in SocketContext
      BY EmptySeq DEF SocketContext
    <3> QED BY <1>1, <3>1 DEF Upgrade, TypeOK
  <2>4. CASE id = "unknown"
    BY <1>1, <2>2, <2>3, <2>4 DEF Upgrade, TypeOK, RestartsOK
  <2>5. CASE id # "unknown" /\ ~connected
    <3>1. messages' = Marked(set, "DISPATCHED")
      BY <1>1, <2>5 DEF Upgrade
    <3>2. messages' \in Seq(Message) /\ DOMAIN messages' = DOMAIN messages
      BY <3>1, MarkedProperties DEF TypeOK
    <3>3. set \in SUBSET DOMAIN messages
      BY DEF Pending
    <3>4. written' = written \cup set /\ delivered' = delivered \cup set /\ UNCHANGED loops
      BY <1>1, <2>5 DEF Upgrade
    <3> HIDE DEF set
    <3> QED BY <1>1, <2>2, <2>3, <3>2, <3>3, <3>4 DEF Upgrade, TypeOK, RestartsOK
  <2>6. CASE id # "unknown" /\ connected
    <3>1. PICK l \in Loops : loops' = [loops EXCEPT ![l] =
                 [Idle EXCEPT !.at = "listing", !.socket = k, !.stationId = id]]
      BY <1>1, <2>6 DEF Upgrade
    <3>2. [Idle EXCEPT !.at = "listing", !.socket = k, !.stationId = id] \in Loop
      BY <2>1, IdleType DEF Idle, Loop
    <3>3. UNCHANGED <<messages, written, delivered>>
      BY <1>1, <2>6 DEF Upgrade
    <3> QED BY <1>1, <2>2, <2>3, <3>1, <3>2, <3>3 DEF Upgrade, TypeOK, RestartsOK
  <2> QED BY <2>4, <2>5, <2>6
<1>2. ASSUME NEW k \in Sockets, NEW kinds \in Chunks, Data(k, kinds)
      PROVE  TypeOK' /\ RestartsOK'
  <2> DEFINE chunk == [i \in 1..Len(kinds) |-> [kind |-> kinds[i], id |-> received + i]]
  <2>1. chunk \in Seq(Frame)
    BY <1>2, DataFrames DEF Data
  <2>2. received' \in 0..MaxFrames
    BY <1>2, ChunkType, Counters, ServerAssumption DEF Data
  <2>3. contexts' \in [Sockets -> SocketContext]
    <3>1. contexts[k] \in SocketContext
      BY DEF TypeOK
    <3>2. contexts[k].buffer \o chunk \in Seq(Frame)
      BY <2>1, <3>1, ConcatProperties DEF SocketContext
    <3>3. contexts' = [contexts EXCEPT ![k].buffer = contexts[k].buffer \o chunk]
      BY <1>2 DEF Data
    <3> HIDE DEF chunk
    <3>4. [contexts[k] EXCEPT !.buffer = contexts[k].buffer \o chunk] \in SocketContext
      BY <3>1, <3>2 DEF SocketContext
    <3> QED BY <3>3, <3>4 DEF TypeOK
  <2>4. loops' \in [Loops -> Loop]
    <3>1. [Idle EXCEPT !.at = "next", !.socket = k] \in Loop
      BY IdleType DEF Idle, Loop
    <3> QED BY <1>2, <3>1 DEF Data, TypeOK
  <2> QED BY <1>2, <2>2, <2>3, <2>4 DEF Data, TypeOK, RestartsOK
<1>3. ASSUME NEW k \in Sockets, SocketCloses(k)
      PROVE  TypeOK' /\ RestartsOK'
  <2>1. ManagerTypeOK'
    BY <1>3, MarkDisconnectedType DEF SocketCloses, TypeOK
  <2>2. contexts' \in [Sockets -> SocketContext]
    <3>1. contexts[k] \in SocketContext
      BY DEF TypeOK
    <3>2. [contexts[k] EXCEPT !.state = "gone"] \in SocketContext
      BY <3>1 DEF SocketContext
    <3> QED BY <1>3, <3>2 DEF SocketCloses, SetState, TypeOK
  <2> QED BY <1>3, <2>1, <2>2 DEF SocketCloses, TypeOK, RestartsOK
<1>4. ASSUME NEW s \in Stations, Promoted(s)
      PROVE  TypeOK' /\ RestartsOK'
  <2>1. tableId' \in [Stations -> StationIds \cup {"unknown"}]
    BY <1>4 DEF Promoted, TypeOK, StationIds
  <2> QED BY <1>4, <2>1 DEF Promoted, TypeOK, RestartsOK
<1>5. ASSUME NEW s \in Stations, NEW due \in {"always", "later"}, Enqueue(s, due)
      PROVE  TypeOK' /\ RestartsOK'
  <2> DEFINE store   == IF connected THEN "table" ELSE "memory"
             message == [station |-> s, store |-> store, status |-> "PENDING", due |-> due]
  <2>1. message \in Message
    BY DEF Message
  <2>2. messages' = Append(messages, message)
    BY <1>5 DEF Enqueue, EnqueueMessage
  <2>3. messages' \in Seq(Message) /\ DOMAIN messages \subseteq DOMAIN messages'
    <3>1. messages \in Seq(Message)
      BY DEF TypeOK
    <3> HIDE DEF message
    <3>2. messages' \in Seq(Message) /\ Len(messages') = Len(messages) + 1
      BY <2>1, <2>2, <3>1, AppendProperties
    <3> QED BY <3>1, <3>2, LenProperties
  <2> QED BY <1>5, <2>3 DEF Enqueue, TypeOK, RestartsOK
<1>6. ASSUME NEW m \in DOMAIN messages, TimePasses(m)
      PROVE  TypeOK' /\ RestartsOK'
  <2>1. messages \in Seq(Message) /\ m \in 1..Len(messages)
    BY LenProperties DEF TypeOK
  <2>2. messages[m] \in Message
    BY <2>1, ElementOfSeq
  <2>3. [messages[m] EXCEPT !.due = "since"] \in Message
    BY <2>2 DEF Message
  <2>4. messages' = [messages EXCEPT ![m] = [messages[m] EXCEPT !.due = "since"]]
    BY <1>6 DEF TimePasses, BecomesDue
  <2>5. messages' \in Seq(Message) /\ DOMAIN messages' = DOMAIN messages
    BY <2>1, <2>3, <2>4, ExceptSeq
  <2> QED BY <1>6, <2>5 DEF TimePasses, TypeOK, RestartsOK
<1>7. CASE DatabaseNext
  BY <1>7 DEF DatabaseNext, ReconnectTick, ConnectOk, ConnectFail, TypeOK, RestartsOK
<1>8. CASE Terminate
  BY <1>8 DEF Terminate, ModuleDestroy, TypeOK, RestartsOK
<1>9. CASE Shutdown
  <2>1. NoContext \in Context
    BY DEF NoContext, Context
  <2> QED BY <1>9, <2>1 DEF Shutdown, ForgetConnections, TypeOK, RestartsOK
<1>10. CASE Restart
  <2>1. restarts < MaxRestarts + faults /\ faults \in 0..MaxFaults
    BY <1>10, Counters, ServerAssumption DEF Restart
  <2>2. TypeOK'
    BY <1>10, <2>1, NewProcessTypes DEF Restart
  <2>3. restarts' = restarts + 1 /\ faults' = faults
    BY <1>10 DEF Restart, NewProcess
  <2> QED BY <2>1, <2>2, <2>3, Counters, ServerAssumption DEF RestartsOK
<1> QED BY <1>1, <1>2, <1>3, <1>4, <1>5, <1>6, <1>7, <1>8, <1>9, <1>10 DEF EventNext, SocketNext

------------------------------------------------------------------------------
(* Sockets: nothing but Upgrade opens one, and who is shown as disconnected  *)
(* has a socket that is not open.                                            *)

SocketStep ==
    /\ \A k \in Sockets :
          /\ contexts'[k].identity = contexts[k].identity
          /\ contexts'[k].state = "unused" <=> contexts[k].state = "unused"
          /\ contexts'[k].state = "open" => contexts[k].state = "open"
    /\ \A s \in Stations :
          \/ connections'[s] = NoContext
          \/ /\ connections'[s].socket = connections[s].socket
             /\ connections'[s].status = "DISCONNECTED" =>
                    \/ connections[s].status = "DISCONNECTED"
                    \/ contexts'[connections[s].socket].state # "open"

LEMMA SocketStepKeeps ==
    ASSUME TypeOK, SocketOK, DisconnectedIsGone, SocketStep
    PROVE  SocketOK' /\ DisconnectedIsGone'
<1>1. ASSUME NEW s \in Stations, Present(s)'
      PROVE  /\ connections'[s].socket = connections[s].socket /\ Present(s)
             /\ connections[s].socket \in Sockets
             /\ connections'[s].status = "DISCONNECTED" =>
                    \/ connections[s].status = "DISCONNECTED"
                    \/ contexts'[connections[s].socket].state # "open"
  <2>1. connections'[s] # NoContext
    BY <1>1 DEF Present, NoContext
  <2>2. connections[s].socket \in Sockets \cup {Nobody}
    BY DEF TypeOK, ManagerTypeOK, Context
  <2> QED BY <1>1, <2>1, <2>2 DEF SocketStep, Present
<1>2. SocketOK'
  BY <1>1 DEF SocketOK, SocketStep
<1>3. DisconnectedIsGone'
  BY <1>1 DEF DisconnectedIsGone, SocketStep
<1> QED BY <1>2, <1>3

\* Sockets and contexts that are left alone.
LEMMA SocketsAlone ==
    ASSUME UNCHANGED <<contexts, connections>>
    PROVE  SocketStep
BY DEF SocketStep

LEMMA ExtractSockets ==
    ASSUME TypeOK, NEW l \in Loops, loops[l].socket \in Sockets, NEW state, Extract(l, state)
    PROVE  /\ contexts'[loops[l].socket].identity = contexts[loops[l].socket].identity
           /\ contexts'[loops[l].socket].state = state
           /\ \A k \in Sockets \ {loops[l].socket} : contexts'[k] = contexts[k]
<1>1. contexts[loops[l].socket] \in SocketContext
  BY DEF TypeOK
<1> QED BY <1>1 DEF Extract, TypeOK, SocketContext

LEMMA RefreshSockets ==
    ASSUME ManagerTypeOK, NEW s \in Stations, NEW id, Refresh(s, id)
    PROVE  \A t \in Stations :
              /\ connections'[t].socket = connections[t].socket
              /\ connections'[t].status = "DISCONNECTED" => connections[t].status = "DISCONNECTED"
BY DEF Refresh, ManagerTypeOK

LEMMA MarkDisconnectedSockets ==
    ASSUME ManagerTypeOK, NEW k \in Sockets, MarkDisconnected(k)
    PROVE  \A t \in Stations :
              /\ connections'[t].socket = connections[t].socket
              /\ connections'[t].status = "DISCONNECTED" =>
                     connections[t].status = "DISCONNECTED" \/ connections[t].socket = k
<1>1. \A t \in Stations : connections[t] \in Context
  BY DEF ManagerTypeOK
<1> QED BY <1>1 DEF MarkDisconnected, Context

LEMMA NewProcessSockets ==
    ASSUME TypeOK, NewProcess
    PROVE  SocketStep
<1>1. \A k \in Sockets : contexts[k] \in SocketContext
  BY DEF TypeOK
<1> QED BY <1>1 DEF NewProcess, SocketStep, SocketContext

LEMMA TurnSockets ==
    ASSUME TypeOK, LoopOK, SocketOK, NEW l \in Loops, TurnNext(l)
    PROVE  SocketStep
<1> DEFINE k == loops[l].socket
<1>0. loops[l].at # "idle"
  BY DEF TurnNext, LoopEnds, TakePing, TakeClose, TakeUnusable, TakeInvalid, TakeCallInMemory,
         TakeBootInMemory, TakeCall, Takes
<1>1. /\ k \in Sockets /\ StationOf(l) \in Stations /\ ManagerTypeOK
      /\ contexts[k].state # "unused"
  BY <1>0, RunningHasStation DEF TypeOK
<1>2. ASSUME NEW state, Extract(l, state), state # "unused", state = "open" => contexts[k].state = "open"
      PROVE  \A j \in Sockets :
                /\ contexts'[j].identity = contexts[j].identity
                /\ contexts'[j].state = "unused" <=> contexts[j].state = "unused"
                /\ contexts'[j].state = "open" => contexts[j].state = "open"
  BY <1>1, <1>2, ExtractSockets
<1>3. CASE LoopEnds(l)
  BY <1>3, SocketsAlone DEF LoopEnds, managerVars
<1>4. CASE TakePing(l) \/ TakeInvalid(l) \/ TakeCall(l)
  <2>1. Extract(l, contexts[k].state) /\ UNCHANGED connections
    BY <1>4 DEF TakePing, TakeInvalid, TakeCall, managerVars
  <2> QED BY <1>1, <1>2, <2>1 DEF SocketStep
<1>5. CASE TakeCallInMemory(l) \/ TakeBootInMemory(l)
  <2>1. Extract(l, contexts[k].state) /\ \E id \in {"unknown", "memory"} : Refresh(StationOf(l), id)
    BY <1>5 DEF TakeCallInMemory, TakeBootInMemory
  <2> QED BY <1>1, <1>2, <2>1, RefreshSockets DEF SocketStep
<1>6. CASE TakeUnusable(l)
  <2>1. Extract(l, StateAfterDestroy(k)) /\ UNCHANGED connections
    BY <1>6 DEF TakeUnusable, managerVars
  <2>2. StateAfterDestroy(k) # "unused" /\ StateAfterDestroy(k) # "open"
    BY <1>1 DEF StateAfterDestroy, Open
  <2> QED BY <1>2, <2>1, <2>2 DEF SocketStep
<1>7. CASE TakeClose(l)
  <2> DEFINE state == IF Open(k) THEN "ended" ELSE contexts[k].state
  <2>1. Extract(l, state) /\ MarkDisconnected(k)
    BY <1>7 DEF TakeClose
  <2>2. state # "unused" /\ state # "open"
    BY <1>1 DEF Open
  <2>3. contexts'[k].state # "open"
    BY <1>1, <2>1, <2>2, ExtractSockets
  <2> QED BY <1>1, <1>2, <2>1, <2>2, <2>3, MarkDisconnectedSockets DEF SocketStep
<1> QED BY <1>3, <1>4, <1>5, <1>6, <1>7 DEF TurnNext

LEMMA ReturnSockets ==
    ASSUME TypeOK, LoopOK, SocketOK, NEW l \in Loops, ReturnNext(l)
    PROVE  SocketStep
<1>0. loops[l].at # "idle"
  BY DEF ReturnNext, CallAnswered, BootAnswered, CallRejected, Listed, Dispatched, DispatchFails,
         MarkedFailed, FlushRejected
<1>1. StationOf(l) \in Stations /\ ManagerTypeOK
  BY <1>0, RunningHasStation DEF TypeOK
<1>2. CASE CallAnswered(l) \/ BootAnswered(l)
  <2>1. UNCHANGED contexts /\ \E id : Refresh(StationOf(l), id)
    BY <1>2 DEF CallAnswered, BootAnswered
  <2> QED BY <1>1, <2>1, RefreshSockets DEF SocketStep
<1>3. CASE CallRejected(l) \/ Listed(l) \/ Dispatched(l) \/ DispatchFails(l) \/ MarkedFailed(l)
  BY <1>3, SocketsAlone DEF CallRejected, Listed, Dispatched, DispatchFails, MarkedFailed, managerVars
<1>4. CASE FlushRejected(l)
  BY <1>4, SocketsAlone, NewProcessSockets DEF FlushRejected, managerVars
<1> QED BY <1>2, <1>3, <1>4 DEF ReturnNext

LEMMA EventSockets ==
    ASSUME TypeOK, SocketOK, DisconnectedIsGone, EventNext
    PROVE  SocketOK' /\ DisconnectedIsGone'
<1>1. ASSUME NEW k \in Sockets, NEW s \in Stations, Upgrade(s, k)
      PROVE  SocketOK' /\ DisconnectedIsGone'
  <2>1. /\ contexts[k].state = "unused"
        /\ contexts'[k] = [state |-> "open", identity |-> s, buffer |-> <<>>]
        /\ \A j \in Sockets \ {k} : contexts'[j] = contexts[j]
    BY <1>1 DEF Upgrade, TypeOK
  <2>2. /\ connections'[s].socket = k /\ connections'[s].status = "CONNECTED"
        /\ \A t \in Stations \ {s} : connections'[t] = connections[t]
    BY <1>1 DEF Upgrade, RegisterConnection, TypeOK, ManagerTypeOK
  <2>3. \A t \in Stations \ {s} : Present(t)' =>
            /\ connections[t].socket # k /\ connections[t].socket \in Sockets /\ Present(t)
            /\ connections'[t] = connections[t]
    BY <2>1, <2>2 DEF Present, SocketOK, TypeOK, ManagerTypeOK, Context
  <2>4. SocketOK'
    BY <2>1, <2>2, <2>3 DEF SocketOK
  <2>5. DisconnectedIsGone'
    BY <2>1, <2>2, <2>3 DEF DisconnectedIsGone
  <2> QED BY <2>4, <2>5
<1>2. ASSUME NEW k \in Sockets, NEW kinds \in Chunks, Data(k, kinds)
      PROVE  SocketStep
  <2>1. contexts[k] \in SocketContext
    BY DEF TypeOK
  <2>2. /\ contexts'[k].state = contexts[k].state
        /\ contexts'[k].identity = contexts[k].identity
        /\ \A j \in Sockets \ {k} : contexts'[j] = contexts[j]
    BY <1>2, <2>1 DEF Data, TypeOK, SocketContext
  <2> QED BY <1>2, <2>2 DEF SocketStep, Data, managerVars
<1>3. ASSUME NEW k \in Sockets, SocketCloses(k)
      PROVE  SocketStep
  <2>1. contexts[k] \in SocketContext /\ ManagerTypeOK
    BY DEF TypeOK
  <2>2. /\ contexts'[k].state = "gone" /\ contexts[k].state # "unused"
        /\ contexts'[k].identity = contexts[k].identity
        /\ \A j \in Sockets \ {k} : contexts'[j] = contexts[j]
    BY <1>3, <2>1 DEF SocketCloses, SetState, TypeOK, SocketContext
  <2>3. MarkDisconnected(k)
    BY <1>3 DEF SocketCloses
  <2> QED BY <2>1, <2>2, <2>3, MarkDisconnectedSockets DEF SocketStep
<1>4. CASE \/ \E s \in Stations : Promoted(s) \/ \E due \in {"always", "later"} : Enqueue(s, due)
           \/ \E m \in DOMAIN messages : TimePasses(m)
           \/ DatabaseNext \/ Terminate
  BY <1>4, SocketsAlone, SocketStepKeeps DEF Promoted, Enqueue, TimePasses, DatabaseNext, Terminate, managerVars
<1>5. CASE Shutdown
  <2>1. SocketStep
    BY <1>5 DEF Shutdown, ForgetConnections, SocketStep
  <2> QED BY <2>1, SocketStepKeeps
<1>6. CASE Restart
  BY <1>6, NewProcessSockets, SocketStepKeeps DEF Restart
<1> QED BY <1>1, <1>2, <1>3, <1>4, <1>5, <1>6, SocketStepKeeps DEF EventNext, SocketNext

------------------------------------------------------------------------------
(* Runs: each is started on a registered socket and stays with it.           *)

\* One run moves on, and its slot may become free.
RunStep(l) ==
    /\ \A m \in Loops \ {l} : loops'[m] = loops[m]
    /\ \/ loops'[l] = Idle
       \/ /\ loops[l].at # "idle"
          /\ loops'[l].at # "idle" /\ loops'[l].socket = loops[l].socket
          /\ loops'[l].at = "calling" => loops'[l].frame # NoFrame

LEMMA RunStepKeeps ==
    ASSUME TypeOK, LoopOK, NEW l \in Loops, RunStep(l),
           \A k \in Sockets : contexts'[k].state = "unused" <=> contexts[k].state = "unused"
    PROVE  LoopOK'
<1> SUFFICES ASSUME NEW m \in Loops
             PROVE  /\ loops'[m].at = "idle" => loops'[m] = Idle
                    /\ loops'[m].at # "idle" => /\ loops'[m].socket \in Sockets
                                               /\ contexts'[loops'[m].socket].state # "unused"
                    /\ loops'[m].at = "calling" => loops'[m].frame # NoFrame
  BY DEF LoopOK
<1>1. CASE m # l
  BY <1>1 DEF RunStep, LoopOK
<1>2. CASE m = l
  BY <1>2 DEF RunStep, LoopOK, Idle
<1> QED BY <1>1, <1>2

LEMMA RunsAlone ==
    ASSUME LoopOK, UNCHANGED loops,
           \A k \in Sockets : contexts'[k].state = "unused" <=> contexts[k].state = "unused"
    PROVE  LoopOK'
BY DEF LoopOK

\* A run that begins does so on a socket that is registered.
LEMMA RunBegins ==
    ASSUME TypeOK, LoopOK, NEW k \in Sockets, NEW l \in Loops, NEW begun,
           loops' = [loops EXCEPT ![l] = begun],
           begun.at \in {"next", "listing"}, begun.socket = k, contexts'[k].state # "unused",
           \A j \in Sockets : contexts[j].state # "unused" => contexts'[j].state # "unused"
    PROVE  LoopOK'
<1>1. \A m \in Loops : loops'[m] = IF m = l THEN begun ELSE loops[m]
  BY DEF TypeOK
<1> QED BY <1>1 DEF LoopOK

LEMMA NextRuns ==
    ASSUME TypeOK, NEW l \in Loops, loops[l].at # "idle",
           Ends(l) \/ Continues(l) \/ UNCHANGED loops,
           loops[l].at = "calling" => ~UNCHANGED loops
    PROVE  RunStep(l)
<1>1. CASE UNCHANGED loops
  BY <1>1 DEF RunStep
<1>2. CASE Ends(l)
  BY <1>2 DEF RunStep, Ends, TypeOK
<1>3. CASE Continues(l)
  BY <1>3 DEF RunStep, Continues, TypeOK, Idle
<1> QED BY <1>1, <1>2, <1>3

LEMMA TurnRuns ==
    ASSUME TypeOK, LoopOK, SocketOK, NEW l \in Loops, TurnNext(l)
    PROVE  LoopOK'
<1>1. loops[l].at = "next"
  BY DEF TurnNext, LoopEnds, TakePing, TakeClose, TakeUnusable, TakeInvalid, TakeCallInMemory,
         TakeBootInMemory, TakeCall, Takes
<1>2. CASE TakeCall(l)
  <2>1. NextFrame(l) # NoFrame
    <3>1. loops[l].socket \in Sockets /\ contexts[loops[l].socket] \in SocketContext
      BY <1>1, RunningHasStation
    <3>2. contexts[loops[l].socket].buffer \in Seq(Frame) \ {<<>>}
      BY <1>2, <3>1 DEF TakeCall, Takes, SocketContext
    <3> QED BY <3>2, HeadTailProperties, IdleType DEF NextFrame
  <2>2. RunStep(l)
    BY <1>1, <1>2, <2>1 DEF TakeCall, RunStep, TypeOK
  <2> QED BY <2>2, RunStepKeeps, TurnSockets DEF SocketStep
<1>3. CASE ~TakeCall(l)
  <2>1. Ends(l) \/ UNCHANGED loops
    BY <1>3 DEF TurnNext, LoopEnds, TakePing, TakeClose, TakeUnusable, TakeInvalid,
                TakeCallInMemory, TakeBootInMemory
  <2> QED BY <1>1, <2>1, NextRuns, RunStepKeeps, TurnSockets DEF SocketStep
<1> QED BY <1>2, <1>3

LEMMA NewProcessRuns ==
    ASSUME NewProcess
    PROVE  LoopOK'
BY DEF NewProcess, LoopOK, Idle

\* A run that is through with its frame.
LEMMA OverRuns ==
    ASSUME TypeOK, NEW l \in Loops, Ends(l) \/ Continues(l)
    PROVE  /\ loops'[l].at \in {"idle", "next"} /\ loops'[l].frame = NoFrame
           /\ \A m \in Loops \ {l} : loops'[m] = loops[m]
<1>1. ASSUME NEW begun, loops' = [loops EXCEPT ![l] = begun]
      PROVE  loops'[l] = begun /\ \A m \in Loops \ {l} : loops'[m] = loops[m]
  BY <1>1 DEF TypeOK
<1>2. /\ Idle.at = "idle" /\ Idle.frame = NoFrame
      /\ [Idle EXCEPT !.at = "next", !.socket = loops[l].socket].at = "next"
      /\ [Idle EXCEPT !.at = "next", !.socket = loops[l].socket].frame = NoFrame
  BY DEF Idle
<1> QED BY <1>1, <1>2 DEF Ends, Continues

LEMMA ContinuesRuns ==
    ASSUME TypeOK, NEW l \in Loops, loops[l].at # "idle", Continues(l)
    PROVE  RunStep(l)
<1>1. loops' = [loops EXCEPT ![l] = [Idle EXCEPT !.at = "next", !.socket = loops[l].socket]]
  BY DEF Continues
<1>2. /\ loops'[l] = [Idle EXCEPT !.at = "next", !.socket = loops[l].socket]
      /\ \A m \in Loops \ {l} : loops'[m] = loops[m]
  BY <1>1 DEF TypeOK
<1> QED BY <1>2 DEF RunStep, Idle

LEMMA SendsRuns ==
    ASSUME TypeOK, NEW l \in Loops, loops[l].at # "idle", NEW set, Sends(l, set)
    PROVE  RunStep(l)
<1>1. CASE set = {}
  <2>1. Ends(l) \/ Continues(l)
    BY <1>1 DEF Sends, FlushOver
  <2>2. CASE Ends(l)
    BY <2>2 DEF Ends, RunStep, TypeOK
  <2>3. CASE Continues(l)
    BY <2>3, ContinuesRuns
  <2> QED BY <2>1, <2>2, <2>3
<1>2. CASE set # {}
  <2>1. loops' = [loops EXCEPT ![l].at = "marking", ![l].pending = set]
    BY <1>2 DEF Sends
  <2>2. loops \in [Loops -> Loop] /\ loops[l] \in Loop
    BY DEF TypeOK
  <2>3. loops'[l].at = "marking" /\ loops'[l].socket = loops[l].socket
    BY <2>1, <2>2 DEF Loop
  <2>4. \A m \in Loops \ {l} : loops'[m] = loops[m]
    BY <2>1, <2>2
  <2> QED BY <2>3, <2>4 DEF RunStep
<1> QED BY <1>1, <1>2

LEMMA ReturnRuns ==
    ASSUME TypeOK, LoopOK, SocketOK, NEW l \in Loops, ReturnNext(l)
    PROVE  LoopOK'
<1>1. loops[l].at \notin {"idle", "next"}
  BY DEF ReturnNext, CallAnswered, BootAnswered, CallRejected, Listed, Dispatched, DispatchFails,
         MarkedFailed, FlushRejected
<1>2. RunStep(l) => LoopOK'
  BY RunStepKeeps, ReturnSockets DEF SocketStep
<1>3. Continues(l) \/ Ends(l) => RunStep(l)
  <2>1. Ends(l) => RunStep(l)
    BY DEF RunStep, Ends, TypeOK
  <2>2. Continues(l) => RunStep(l)
    BY <1>1 DEF RunStep, Continues, TypeOK, Idle
  <2> QED BY <2>1, <2>2
<1>4. CASE CallAnswered(l) \/ CallRejected(l) \/ MarkedFailed(l)
  BY <1>2, <1>3, <1>4 DEF CallAnswered, CallRejected, MarkedFailed, FlushOver
<1>5. CASE BootAnswered(l)
  <2>1. Continues(l) \/ \E id : loops' = [loops EXCEPT ![l].at = "listing", ![l].stationId = id]
    BY <1>5 DEF BootAnswered
  <2>2. ASSUME NEW id, loops' = [loops EXCEPT ![l].at = "listing", ![l].stationId = id]
        PROVE  RunStep(l)
    <3>1. loops[l] \in Loop
      BY DEF TypeOK
    <3> QED BY <1>1, <2>2, <3>1 DEF RunStep, TypeOK, Loop
  <2> QED BY <1>2, <1>3, <2>1, <2>2
<1>6. CASE Listed(l) \/ Dispatched(l)
  BY <1>1, <1>2, <1>6, SendsRuns DEF Listed, Dispatched
<1>7. CASE DispatchFails(l)
  <2>1. RunStep(l)
    BY <1>1, <1>7 DEF DispatchFails, RunStep, TypeOK
  <2> QED BY <1>2, <2>1
<1>8. CASE FlushRejected(l)
  BY <1>2, <1>3, <1>8, NewProcessRuns DEF FlushRejected
<1> QED BY <1>4, <1>5, <1>6, <1>7, <1>8 DEF ReturnNext

LEMMA EventRuns ==
    ASSUME TypeOK, LoopOK, EventNext
    PROVE  LoopOK'
<1>1. ASSUME NEW k \in Sockets, NEW s \in Stations, Upgrade(s, k)
      PROVE  LoopOK'
  <2>1. contexts' = [contexts EXCEPT ![k] = [state |-> "open", identity |-> s, buffer |-> <<>>]]
    BY <1>1 DEF Upgrade
  <2>2. \A j \in Sockets : contexts[j].state # "unused" => contexts'[j].state # "unused"
    BY <2>1 DEF TypeOK
  <2>3. contexts'[k].state # "unused"
    BY <2>1 DEF TypeOK
  <2>4. CASE UNCHANGED loops
    BY <2>2, <2>4 DEF LoopOK
  <2>5. ASSUME NEW l \in Loops, NEW id,
               loops' = [loops EXCEPT ![l] =
                            [Idle EXCEPT !.at = "listing", !.socket = k, !.stationId = id]]
        PROVE  LoopOK'
    <3> DEFINE begun == [Idle EXCEPT !.at = "listing", !.socket = k, !.stationId = id]
    <3>1. begun.at = "listing" /\ begun.socket = k
      BY DEF Idle
    <3> HIDE DEF begun
    <3> QED BY <2>2, <2>3, <2>5, <3>1, RunBegins DEF begun
  <2> QED BY <1>1, <2>4, <2>5 DEF Upgrade
<1>2. ASSUME NEW k \in Sockets, NEW kinds \in Chunks, Data(k, kinds)
      PROVE  LoopOK'
  <2>1. \A j \in Sockets : contexts'[j].state = contexts[j].state
    BY <1>2 DEF Data, TypeOK, SocketContext
  <2>2. PICK l \in Loops : loops' = [loops EXCEPT ![l] = [Idle EXCEPT !.at = "next", !.socket = k]]
    BY <1>2 DEF Data
  <2> DEFINE begun == [Idle EXCEPT !.at = "next", !.socket = k]
  <2>3. begun.at = "next" /\ begun.socket = k
    BY DEF Idle
  <2>4. contexts'[k].state # "unused"
    BY <1>2, <2>1 DEF Data
  <2>5. loops' = [loops EXCEPT ![l] = begun]
    BY <2>2
  <2> HIDE DEF begun
  <2> QED BY <2>1, <2>3, <2>4, <2>5, RunBegins
<1>3. ASSUME NEW k \in Sockets, SocketCloses(k)
      PROVE  LoopOK'
  <2>1. \A j \in Sockets : contexts'[j].state = "unused" <=> contexts[j].state = "unused"
    BY <1>3 DEF SocketCloses, SetState, TypeOK, SocketContext
  <2> QED BY <1>3, <2>1, RunsAlone DEF SocketCloses
<1>4. CASE \/ \E s \in Stations : Promoted(s) \/ \E due \in {"always", "later"} : Enqueue(s, due)
           \/ \E m \in DOMAIN messages : TimePasses(m)
           \/ DatabaseNext \/ Terminate \/ Shutdown
  BY <1>4, RunsAlone DEF Promoted, Enqueue, TimePasses, DatabaseNext, Terminate, Shutdown
<1>5. CASE Restart
  BY <1>5, NewProcessRuns DEF Restart
<1> QED BY <1>1, <1>2, <1>3, <1>4, <1>5 DEF EventNext, SocketNext

------------------------------------------------------------------------------
(* Messages: what is marked was written, and a flush goes by the order in    *)
(* which the messages of the table were created.                             *)

\* What every step does to the messages that are there.
MessageStep ==
    /\ DOMAIN messages \subseteq DOMAIN messages'
    /\ \A m \in DOMAIN messages :
          /\ messages'[m].station = messages[m].station
          /\ messages'[m].store = "table" <=> messages[m].store = "table"
          /\ messages'[m].due = "always" <=> messages[m].due = "always"
          /\ messages'[m].status # "PENDING" => messages[m].status # "PENDING" \/ m \in written'
    /\ \A m \in DOMAIN messages' \ DOMAIN messages :
          messages'[m].status = "PENDING" /\ \A e \in DOMAIN messages : e < m
    /\ written \subseteq written'

FlushOf(l) ==
    /\ loops[l].pending # {} /\ loops[l].pending \subseteq DOMAIN messages
    /\ First(loops[l].pending) \in written
    /\ \A m \in loops[l].pending :
           /\ Lasting(m)
           /\ \A e \in DOMAIN messages : Before(e, m) => e \in loops[l].pending \cup written

LEMMA MessageStepKeeps ==
    ASSUME TypeOK, TypeOK', FlushOK, MarkedWasWritten, MessageStep,
           \A l \in Loops : Marking(l)' =>
               (Marking(l) /\ loops'[l].pending = loops[l].pending) \/ FlushOf(l)'
    PROVE  FlushOK' /\ MarkedWasWritten'
<1>1. MarkedWasWritten'
  BY DEF MarkedWasWritten, MessageStep
<1>2. ASSUME NEW l \in Loops, Marking(l), loops'[l].pending = loops[l].pending
      PROVE  FlushOf(l)'
  <2> DEFINE set == loops[l].pending
  <2>1. /\ set # {} /\ set \subseteq DOMAIN messages /\ First(set) \in written
        /\ \A m \in set : Lasting(m)
        /\ \A m \in set : \A e \in DOMAIN messages : Before(e, m) => e \in set \cup written
    BY <1>2 DEF FlushOK
  <2>2. DOMAIN messages \subseteq Nat /\ DOMAIN messages \subseteq DOMAIN messages'
    BY LenProperties DEF TypeOK, MessagesTypeOK, MessageStep
  <2>3. \A m \in set : Lasting(m)'
    BY <2>1 DEF MessageStep, Lasting
  <2>4. ASSUME NEW m \in set, NEW e \in DOMAIN messages', Before(e, m)'
        PROVE  e \in set \cup written'
    <3>1. CASE e \in DOMAIN messages
      <4>1. Before(e, m)
        BY <2>1, <2>4, <3>1 DEF Before, Lasting, MessageStep
      <4> QED BY <2>1, <3>1, <4>1 DEF MessageStep
    <3>2. CASE e \notin DOMAIN messages
      <4>1. m < e /\ e < m /\ m \in Nat
        BY <2>1, <2>2, <2>4, <3>2 DEF MessageStep, Before
      <4>2. e \in Nat
        BY <2>4, LenProperties DEF TypeOK, MessagesTypeOK
      <4> QED BY <4>1, <4>2
    <3> QED BY <3>1, <3>2
  <2> HIDE DEF set
  <2>5. loops'[l].pending = set
    BY <1>2 DEF set
  <2> QED BY <2>1, <2>2, <2>3, <2>4, <2>5 DEF FlushOf, MessageStep
<1> QED BY <1>1, <1>2 DEF FlushOK, FlushOf

\* Messages that are marked are written before or in the same step.
LEMMA MarkedStep ==
    ASSUME TypeOK, NEW set, NEW status \in {"DISPATCHED", "FAILED"},
           messages' = Marked(set, status), set \subseteq written', written \subseteq written'
    PROVE  MessageStep
<1>1. DOMAIN messages' = DOMAIN messages
  BY MarkedProperties DEF TypeOK
<1>2. \A m \in DOMAIN messages : messages[m] \in Message
  BY ElementOfSeq, LenProperties DEF TypeOK, MessagesTypeOK
<1>3. ASSUME NEW m \in DOMAIN messages
      PROVE  /\ messages'[m].station = messages[m].station
             /\ messages'[m].store = messages[m].store
             /\ messages'[m].due = messages[m].due
             /\ messages'[m].status # "PENDING" => messages[m].status # "PENDING" \/ m \in set
  <2>1. messages'[m] = IF m \in set THEN [messages[m] EXCEPT !.status = status] ELSE messages[m]
    BY DEF Marked
  <2> QED BY <1>2, <2>1 DEF Message
<1> QED BY <1>1, <1>3 DEF MessageStep

LEMMA MessagesAlone ==
    ASSUME UNCHANGED messages, written \subseteq written'
    PROVE  MessageStep
BY DEF MessageStep

LEMMA LostStep ==
    ASSUME TypeOK, messages' = MemoryLost(messages), UNCHANGED written
    PROVE  MessageStep
<1>1. DOMAIN messages' = DOMAIN messages
  BY LostProperties DEF TypeOK
<1>2. \A m \in DOMAIN messages : messages[m] \in Message
  BY ElementOfSeq, LenProperties DEF TypeOK, MessagesTypeOK
<1>3. ASSUME NEW m \in DOMAIN messages
      PROVE  /\ messages'[m].station = messages[m].station
             /\ messages'[m].store = "table" <=> messages[m].store = "table"
             /\ messages'[m].due = messages[m].due
             /\ messages'[m].status = messages[m].status
  <2>1. messages'[m] = IF messages[m].store = "memory"
                       THEN [messages[m] EXCEPT !.store = "lost"] ELSE messages[m]
    BY DEF MemoryLost
  <2> QED BY <1>2, <2>1 DEF Message
<1> QED BY <1>1, <1>3 DEF MessageStep

\* Runs that are not about to flush keep the clause about flushes.
NoFlushBegins ==
    \A l \in Loops : Marking(l)' => Marking(l) /\ loops'[l].pending = loops[l].pending

LEMMA TurnMessages ==
    ASSUME TypeOK, NEW l \in Loops, TurnNext(l)
    PROVE  MessageStep /\ NoFlushBegins
<1>1. loops[l].at = "next"
  BY DEF TurnNext, LoopEnds, TakePing, TakeClose, TakeUnusable, TakeInvalid, TakeCallInMemory,
         TakeBootInMemory, TakeCall, Takes
<1>2. UNCHANGED loops \/ Ends(l) \/ TakeCall(l)
  BY DEF TurnNext, LoopEnds, TakePing, TakeClose, TakeUnusable, TakeInvalid, TakeCallInMemory,
         TakeBootInMemory
<1>3. NoFlushBegins
  <2>1. CASE UNCHANGED loops
    BY <2>1 DEF NoFlushBegins, Marking
  <2>2. CASE Ends(l)
    BY <2>2 DEF NoFlushBegins, Marking, Ends, TypeOK, Idle
  <2>3. CASE TakeCall(l)
    <3>1. /\ loops'[l].at = "calling"
          /\ \A m \in Loops \ {l} : loops'[m] = loops[m]
      BY <2>3 DEF TakeCall, TypeOK, Loop
    <3> QED BY <3>1 DEF NoFlushBegins, Marking
  <2> QED BY <1>2, <2>1, <2>2, <2>3
<1>4. CASE TakeBootInMemory(l) /\ Present(StationOf(l))
  <2> DEFINE set == Pending(StationOf(l), "memory")
  <2>1. messages' = Marked(set, "DISPATCHED") /\ written' = written \cup set
    BY <1>4 DEF TakeBootInMemory, FlushMemory, Write
  <2> HIDE DEF set
  <2> QED BY <1>3, <2>1, MarkedStep
<1>5. CASE ~(TakeBootInMemory(l) /\ Present(StationOf(l)))
  <2>1. UNCHANGED <<messages, written>>
    BY <1>5 DEF TurnNext, LoopEnds, TakePing, TakeClose, TakeUnusable, TakeInvalid,
                TakeCallInMemory, TakeBootInMemory, TakeCall, historyVars
  <2> QED BY <1>3, <2>1, MessagesAlone
<1> QED BY <1>4, <1>5

\* Of a list in the order of creation, the first goes out; what is ahead of the
\* others is in the list or went out before.
LEMMA SendsFlush ==
    ASSUME TypeOK, NEW l \in Loops, NEW set \in SUBSET DOMAIN messages, Sends(l, set),
           MessageStep, DOMAIN messages' = DOMAIN messages,
           \A m \in set : Lasting(m),
           \A m \in set : \A e \in DOMAIN messages : Before(e, m) => e \in set \cup written
    PROVE  \A m \in Loops : Marking(m)' =>
               (Marking(m) /\ loops'[m].pending = loops[m].pending) \/ FlushOf(m)'
<1>1. CASE set = {}
  <2>1. /\ loops'[l].at \in {"idle", "next"}
        /\ \A m \in Loops \ {l} : loops'[m] = loops[m]
    BY <1>1, OverRuns DEF Sends, FlushOver
  <2> QED BY <2>1 DEF Marking
<1>2. CASE set # {}
  <2>1. loops' = [loops EXCEPT ![l].at = "marking", ![l].pending = set]
    BY <1>2 DEF Sends
  <2>2. loops[l] \in Loop
    BY DEF TypeOK
  <2>3. loops'[l].pending = set /\ \A m \in Loops \ {l} : loops'[m] = loops[m]
    BY <2>1, <2>2 DEF TypeOK, Loop
  <2>4. First(set) \in written' /\ written \subseteq written'
    BY <1>2 DEF Sends, Write
  <2>5. \A m \in set : Lasting(m)'
    BY DEF MessageStep, Lasting
  <2>6. \A m \in set : \A e \in DOMAIN messages' : Before(e, m)' => e \in set \cup written'
    <3> SUFFICES ASSUME NEW m \in set, NEW e \in DOMAIN messages, Before(e, m)'
                 PROVE  Before(e, m)
      BY <2>4
    <3> QED BY DEF Before, Lasting, MessageStep
  <2>7. FlushOf(l)'
    BY <1>2, <2>3, <2>4, <2>5, <2>6 DEF FlushOf
  <2> QED BY <2>3, <2>7 DEF Marking
<1> QED BY <1>1, <1>2

LEMMA ReturnMessages ==
    ASSUME TypeOK, LoopOK, SocketOK, FlushOK, MarkedWasWritten, NEW l \in Loops, ReturnNext(l)
    PROVE  /\ MessageStep
           /\ \A m \in Loops : Marking(m)' =>
                  (Marking(m) /\ loops'[m].pending = loops[m].pending) \/ FlushOf(m)'
<1> DEFINE first == First(loops[l].pending)
<1>1. Continues(l) \/ Ends(l) \/ FlushOver(l) => NoFlushBegins
  <2>1. ASSUME NEW begun, begun.at \notin {"marking", "failing"},
               loops' = [loops EXCEPT ![l] = begun]
        PROVE  NoFlushBegins
    BY <2>1 DEF NoFlushBegins, Marking, TypeOK
  <2> QED BY <2>1 DEF Continues, Ends, FlushOver, Idle
<1>2. Marking(l) => first \in written
  BY DEF FlushOK
<1>3. CASE CallAnswered(l) \/ CallRejected(l)
  BY <1>1, <1>3, MessagesAlone DEF CallAnswered, CallRejected, NoFlushBegins
<1>4. CASE BootAnswered(l)
  <2>1. NoFlushBegins
    <3>1. ASSUME NEW id, loops' = [loops EXCEPT ![l].at = "listing", ![l].stationId = id]
          PROVE  NoFlushBegins
      <4>1. loops[l] \in Loop
        BY DEF TypeOK
      <4>2. loops'[l].at = "listing" /\ \A m \in Loops \ {l} : loops'[m] = loops[m]
        BY <3>1, <4>1 DEF TypeOK, Loop
      <4> QED BY <4>2 DEF NoFlushBegins, Marking
    <3> QED BY <1>1, <1>4, <3>1 DEF BootAnswered
  <2> QED BY <1>4, <2>1, MessagesAlone DEF BootAnswered, NoFlushBegins
<1>5. CASE Listed(l)
  <2> DEFINE s   == StationOf(l)
             set == IF loops[l].stationId = tableId[s] THEN Pending(s, "table") ELSE {}
  <2>1. Sends(l, set) /\ UNCHANGED messages
    BY <1>5 DEF Listed
  <2>2. \A m \in set : /\ m \in DOMAIN messages /\ Lasting(m)
                       /\ messages[m].station = s
    BY DEF Pending, Lasting
  <2>3. ASSUME NEW m \in set, NEW e \in DOMAIN messages, Before(e, m)
        PROVE  e \in set \cup written
    <3>1. messages[e].station = s /\ Lasting(e) /\ messages[e].due = "always"
      BY <2>2, <2>3 DEF Before
    <3>2. CASE messages[e].status = "PENDING"
      BY <3>1, <3>2 DEF Pending, Lasting
    <3>3. CASE messages[e].status # "PENDING"
      BY <3>3 DEF MarkedWasWritten
    <3> QED BY <3>2, <3>3
  <2> HIDE DEF set
  <2>4. written \subseteq written'
    BY <2>1 DEF Sends, Write
  <2>5. MessageStep
    BY <2>1, <2>4, MessagesAlone
  <2> QED BY <2>1, <2>2, <2>3, <2>5, SendsFlush
<1>6. CASE Dispatched(l)
  <2> DEFINE pending == loops[l].pending
             set     == pending \ {first}
  <2>1. Sends(l, set) /\ messages' = Marked({first}, "DISPATCHED") /\ Marking(l)
    BY <1>6 DEF Dispatched, Marking
  <2>2. /\ pending \subseteq DOMAIN messages
        /\ \A m \in pending : Lasting(m)
        /\ \A m \in pending : \A e \in DOMAIN messages : Before(e, m) => e \in pending \cup written
    BY <2>1 DEF FlushOK
  <2>3. \A m \in set : \A e \in DOMAIN messages : Before(e, m) => e \in set \cup written
    BY <1>2, <2>1, <2>2
  <2>4. written \subseteq written'
    BY <2>1 DEF Sends, Write
  <2>5. MessageStep
    BY <1>2, <2>1, <2>4, MarkedStep
  <2>6. DOMAIN messages' = DOMAIN messages
    BY <2>1, MarkedProperties DEF TypeOK
  <2>7. set \in SUBSET DOMAIN messages /\ \A m \in set : Lasting(m)
    BY <2>2
  <2> HIDE DEF set
  <2> QED BY <2>1, <2>3, <2>5, <2>6, <2>7, SendsFlush
<1>7. CASE DispatchFails(l)
  <2>1. NoFlushBegins
    <3>1. loops[l] \in Loop
      BY DEF TypeOK
    <3>2. loops'[l].pending = loops[l].pending /\ \A m \in Loops \ {l} : loops'[m] = loops[m]
      BY <1>7, <3>1 DEF DispatchFails, TypeOK, Loop
    <3> QED BY <1>7, <3>2 DEF NoFlushBegins, Marking, DispatchFails
  <2>2. /\ UNCHANGED messages \/ messages' = Marked({first}, "DISPATCHED")
        /\ UNCHANGED written /\ Marking(l)
    BY <1>7 DEF DispatchFails, historyVars, Marking
  <2>3. MessageStep
    BY <1>2, <2>2, MarkedStep, MessagesAlone
  <2> QED BY <2>1, <2>3 DEF NoFlushBegins
<1>8. CASE MarkedFailed(l)
  <2>1. messages' = Marked({first}, "FAILED") /\ UNCHANGED written /\ Marking(l) /\ FlushOver(l)
    BY <1>8 DEF MarkedFailed, historyVars, Marking
  <2>2. MessageStep
    BY <1>2, <2>1, MarkedStep
  <2> QED BY <1>1, <2>1, <2>2 DEF NoFlushBegins
<1>9. CASE FlushRejected(l)
  <2>1. CASE NewProcess
    <3>1. MessageStep
      BY <2>1, LostStep DEF NewProcess, historyVars
    <3>2. NoFlushBegins
      BY <2>1 DEF NewProcess, NoFlushBegins, Marking, Idle
    <3> QED BY <3>1, <3>2 DEF NoFlushBegins
  <2>2. CASE ~NewProcess
    <3>1. Continues(l) /\ UNCHANGED <<messages, written>>
      BY <1>9, <2>2 DEF FlushRejected
    <3> QED BY <1>1, <3>1, MessagesAlone DEF NoFlushBegins
  <2> QED BY <2>1, <2>2
<1> QED BY <1>3, <1>4, <1>5, <1>6, <1>7, <1>8, <1>9 DEF ReturnNext

LEMMA EventMessages ==
    ASSUME TypeOK, EventNext
    PROVE  MessageStep /\ NoFlushBegins
<1>0. ASSUME UNCHANGED loops
      PROVE  NoFlushBegins
  BY <1>0 DEF NoFlushBegins, Marking
<1>1. ASSUME NEW begun, begun.at \notin {"marking", "failing"}, NEW l \in Loops,
             loops' = [loops EXCEPT ![l] = begun]
      PROVE  NoFlushBegins
  BY <1>1 DEF NoFlushBegins, Marking, TypeOK
<1>2. ASSUME NEW k \in Sockets, NEW s \in Stations, Upgrade(s, k)
      PROVE  MessageStep /\ NoFlushBegins
  <2> DEFINE set == Pending(s, "memory")
  <2>1. CASE UNCHANGED <<messages, written>>
    <3>1. NoFlushBegins
      BY <1>0, <1>1, <1>2, <2>1 DEF Upgrade, Idle
    <3> QED BY <2>1, <3>1, MessagesAlone
  <2>2. CASE messages' = Marked(set, "DISPATCHED") /\ written' = written \cup set /\ UNCHANGED loops
    <3> HIDE DEF set
    <3> QED BY <1>0, <2>2, MarkedStep
  <2> QED BY <1>2, <2>1, <2>2 DEF Upgrade
<1>3. ASSUME NEW k \in Sockets, NEW kinds \in Chunks, Data(k, kinds)
      PROVE  MessageStep /\ NoFlushBegins
  <2>1. NoFlushBegins
    BY <1>1, <1>3 DEF Data, Idle
  <2> QED BY <1>3, <2>1, MessagesAlone DEF Data, historyVars
<1>4. ASSUME NEW s \in Stations, NEW due \in {"always", "later"}, Enqueue(s, due)
      PROVE  MessageStep /\ NoFlushBegins
  <2>1. PICK store \in {"table", "memory"} : messages' =
            Append(messages, [station |-> s, store |-> store, status |-> "PENDING", due |-> due])
    BY <1>4 DEF Enqueue, EnqueueMessage
  <2> DEFINE message == [station |-> s, store |-> store, status |-> "PENDING", due |-> due]
  <2>2. message \in Message /\ message.status = "PENDING" /\ messages \in Seq(Message)
    BY DEF Message, TypeOK, MessagesTypeOK
  <2>3. messages' = Append(messages, message)
    BY <2>1
  <2> HIDE DEF message
  <2>4. /\ DOMAIN messages = 1..Len(messages) /\ Len(messages) \in Nat
        /\ DOMAIN messages' = 1..(Len(messages) + 1)
        /\ \A m \in 1..Len(messages) : messages'[m] = messages[m]
        /\ messages'[Len(messages) + 1] = message
    BY <2>2, <2>3, AppendProperties, LenProperties
  <2>5. UNCHANGED <<written, loops>>
    BY <1>4 DEF Enqueue, historyVars
  <2>6. MessageStep
    BY <2>2, <2>4, <2>5 DEF MessageStep
  <2> QED BY <1>0, <2>5, <2>6
<1>5. ASSUME NEW m \in DOMAIN messages, TimePasses(m)
      PROVE  MessageStep /\ NoFlushBegins
  <2>1. \A n \in DOMAIN messages : messages[n] \in Message
    BY ElementOfSeq, LenProperties DEF TypeOK, MessagesTypeOK
  <2>2. messages[m].due = "later" /\ messages' = [messages EXCEPT ![m].due = "since"]
    BY <1>5 DEF TimePasses, BecomesDue
  <2>3. DOMAIN messages' = DOMAIN messages /\ \A n \in DOMAIN messages :
            /\ messages'[n].station = messages[n].station
            /\ messages'[n].store = messages[n].store
            /\ messages'[n].status = messages[n].status
            /\ messages'[n].due = "always" <=> messages[n].due = "always"
    BY <2>1, <2>2 DEF Message
  <2>4. UNCHANGED <<written, loops>>
    BY <1>5 DEF TimePasses, historyVars
  <2>5. MessageStep
    BY <2>3, <2>4 DEF MessageStep
  <2> QED BY <1>0, <2>4, <2>5
<1>6. CASE Restart
  <2>1. MessageStep
    BY <1>6, LostStep DEF Restart, NewProcess, historyVars
  <2>2. NoFlushBegins
    BY <1>6 DEF Restart, NewProcess, NoFlushBegins, Marking, Idle
  <2> QED BY <2>1, <2>2
<1>7. CASE \/ \E k \in Sockets : SocketCloses(k)
           \/ \E s \in Stations : Promoted(s)
           \/ DatabaseNext \/ Terminate \/ Shutdown
  BY <1>0, <1>7, MessagesAlone
     DEF SocketCloses, Promoted, DatabaseNext, Terminate, Shutdown, historyVars
<1> QED BY <1>2, <1>3, <1>4, <1>5, <1>6, <1>7 DEF EventNext, SocketNext

------------------------------------------------------------------------------
(* Frames: none is in two places, and none is answered twice.                *)

Buffered(id) ==
    \E k \in Sockets : \E i \in DOMAIN contexts[k].buffer : contexts[k].buffer[i].id = id
Called(id)   == \E l \in Loops : loops[l].at = "calling" /\ HasFrame(l, id)

\* A step takes frames out of buffers and out of the hands of runs, without
\* changing the order of what is left.  A run takes a frame that leaves the
\* buffer.  An answer is to a frame that leaves its place, and it is the first
\* one unless a statement failed.
BufferStep(k) ==
    \E d \in {0, 1} : \A i \in DOMAIN contexts'[k].buffer :
        /\ i + d \in DOMAIN contexts[k].buffer
        /\ contexts'[k].buffer[i] = contexts[k].buffer[i + d]
HoldStep(l) ==
    \A id : HasFrame(l, id)' =>
        \/ /\ HasFrame(l, id)
           /\ loops'[l].at = "calling" => loops[l].at = "calling"
        \/ /\ Buffered(id) /\ ~Buffered(id)'
           /\ \A m \in Loops \ {l} : loops'[m] = loops[m]
AnswerStep(id) ==
    answers'[id] # answers[id] =>
        /\ answers'[id] = 1 \/ faults' # 0
        /\ id <= received
        /\ ~Buffered(id)' /\ ~Called(id)'
FrameStep ==
    /\ received' = received
    /\ faults' = 0 => faults = 0
    /\ \A k \in Sockets : BufferStep(k)
    /\ \A l \in Loops : HoldStep(l)
    /\ \A id \in 1..MaxFrames : AnswerStep(id)

LEMMA FrameIds ==
    ASSUME TypeOK
    PROVE  /\ \A k \in Sockets : \A i \in DOMAIN contexts[k].buffer :
                  contexts[k].buffer[i].id \in 1..MaxFrames
           /\ \A l \in Loops : loops[l].frame # NoFrame => loops[l].frame.id \in 1..MaxFrames
<1>1. ASSUME NEW k \in Sockets, NEW i \in DOMAIN contexts[k].buffer
      PROVE  contexts[k].buffer[i].id \in 1..MaxFrames
  <2>1. contexts[k].buffer \in Seq(Frame)
    BY DEF TypeOK, SocketContext
  <2>2. contexts[k].buffer[i] \in Frame
    BY <2>1, ElementOfSeq, LenProperties
  <2> QED BY <2>2 DEF Frame
<1>2. \A l \in Loops : loops[l].frame \in Frame \cup {NoFrame}
  BY DEF TypeOK, Loop
<1> QED BY <1>1, <1>2 DEF Frame

LEMMA FrameStepKeeps ==
    ASSUME TypeOK, TypeOK', BufferedOK, HeldOK, FreshOK, AnsweredOnce, FrameStep
    PROVE  BufferedOK' /\ HeldOK' /\ FreshOK' /\ AnsweredOnce'
<1>1. \A id : Buffered(id) =>
          /\ id \in 1..MaxFrames /\ answers[id] = 0 /\ id <= received
          /\ \A l \in Loops : ~HasFrame(l, id)
  BY FrameIds DEF BufferedOK, Buffered
<1>2. \A id : Buffered(id)' => Buffered(id)
  BY DEF Buffered, FrameStep, BufferStep
<1>3. ASSUME NEW l \in Loops, NEW id, HasFrame(l, id)'
      PROVE  \/ /\ HasFrame(l, id)
                /\ loops'[l].at = "calling" => loops[l].at = "calling"
             \/ /\ Buffered(id) /\ ~Buffered(id)'
                /\ \A m \in Loops \ {l} : loops'[m] = loops[m]
  BY <1>3 DEF FrameStep, HoldStep, HasFrame
<1>4. BufferedOK'
  <2>1. ASSUME NEW k \in Sockets, NEW i \in DOMAIN contexts'[k].buffer,
               NEW id, contexts'[k].buffer[i].id = id
        PROVE  /\ answers'[id] = 0 /\ id <= received'
               /\ \A l \in Loops : ~HasFrame(l, id)'
               /\ \A j \in Sockets : \A n \in DOMAIN contexts'[j].buffer :
                      contexts'[j].buffer[n].id = id => j = k /\ n = i
    <3>1. Buffered(id)' /\ Buffered(id)
      BY <1>2, <2>1 DEF Buffered
    <3>2. answers'[id] = 0 /\ id <= received'
      BY <1>1, <3>1 DEF FrameStep, AnswerStep
    <3>3. \A l \in Loops : ~HasFrame(l, id)'
      BY <1>1, <1>3, <3>1
    <3>4. ASSUME NEW j \in Sockets, NEW n \in DOMAIN contexts'[j].buffer,
                 contexts'[j].buffer[n].id = id
          PROVE  j = k /\ n = i
      <4>1. PICK d \in {0, 1} : \A h \in DOMAIN contexts'[k].buffer :
                /\ h + d \in DOMAIN contexts[k].buffer
                /\ contexts'[k].buffer[h] = contexts[k].buffer[h + d]
        BY DEF FrameStep, BufferStep
      <4>2. PICK e \in {0, 1} : \A h \in DOMAIN contexts'[j].buffer :
                /\ h + e \in DOMAIN contexts[j].buffer
                /\ contexts'[j].buffer[h] = contexts[j].buffer[h + e]
        BY DEF FrameStep, BufferStep
      <4>3. j = k
        BY <2>1, <3>4, <4>1, <4>2 DEF BufferedOK
      <4>4. n + d = i + d
        BY <2>1, <3>4, <4>1, <4>3 DEF BufferedOK
      <4>5. n \in Nat /\ i \in Nat
        <5>1. contexts'[k].buffer \in Seq(Frame)
          BY DEF TypeOK, SocketContext
        <5>2. DOMAIN contexts'[k].buffer \subseteq Nat
          BY <5>1, LenProperties
        <5> QED BY <4>3, <5>2
      <4> QED BY <4>3, <4>4, <4>5
    <3> QED BY <3>2, <3>3, <3>4
  <2> QED BY <2>1 DEF BufferedOK
<1>5. HeldOK'
  <2>1. ASSUME NEW l \in Loops, NEW id, HasFrame(l, id)'
        PROVE  /\ loops'[l].at = "calling" => answers'[id] = 0
               /\ id <= received'
               /\ \A m \in Loops : HasFrame(m, id)' => m = l
    <3>1. ASSUME NEW m \in Loops, HasFrame(m, id)'
          PROVE  m = l
      <4>1. HasFrame(l, id) /\ HasFrame(m, id) => m = l
        BY DEF HeldOK, HasFrame
      <4>2. Buffered(id) => ~HasFrame(l, id) /\ ~HasFrame(m, id)
        BY <1>1
      <4>3. m # l => HasFrame(m, id) \/ HasFrame(l, id)
        <5> SUFFICES ASSUME m # l, ~HasFrame(l, id)
                     PROVE  HasFrame(m, id)
          OBVIOUS
        <5>1. loops'[m] = loops[m]
          BY <1>3, <2>1
        <5> QED BY <3>1, <5>1 DEF HasFrame
      <4> QED BY <1>3, <2>1, <3>1, <4>1, <4>2, <4>3
    <3>2. id \in 1..MaxFrames /\ id <= received
      <4>1. CASE HasFrame(l, id)
        BY <4>1, FrameIds DEF HeldOK, HasFrame
      <4>2. CASE Buffered(id)
        BY <1>1, <4>2
      <4> QED BY <1>3, <2>1, <4>1, <4>2
    <3>3. ASSUME loops'[l].at = "calling"
          PROVE  answers'[id] = 0
      <4>1. Called(id)'
        BY <2>1, <3>3 DEF Called
      <4>2. answers'[id] = answers[id]
        BY <3>2, <4>1 DEF FrameStep, AnswerStep
      <4>3. answers[id] = 0
        BY <1>1, <1>3, <2>1, <3>3 DEF HeldOK, HasFrame
      <4> QED BY <4>2, <4>3
    <3> QED BY <3>1, <3>2, <3>3 DEF FrameStep
  <2> QED BY <2>1 DEF HeldOK, HasFrame
<1>6. FreshOK'
  <2> SUFFICES ASSUME NEW id \in 1..MaxFrames, id > received
               PROVE  answers'[id] = 0
    BY DEF FreshOK, FrameStep
  <2> QED BY Counters DEF FreshOK, FrameStep, AnswerStep
<1>7. AnsweredOnce'
  BY DEF AnsweredOnce, FrameStep, AnswerStep
<1> QED BY <1>4, <1>5, <1>6, <1>7

\* Buffers that are left alone or emptied.
LEMMA BuffersAlone ==
    ASSUME NEW k \in Sockets,
           contexts'[k].buffer = contexts[k].buffer \/ contexts'[k].buffer = <<>>,
           DOMAIN contexts[k].buffer \subseteq Nat
    PROVE  BufferStep(k)
<1>1. CASE contexts'[k].buffer = contexts[k].buffer
  <2>1. \A i \in DOMAIN contexts[k].buffer : i + 0 = i
    OBVIOUS
  <2> QED BY <1>1, <2>1 DEF BufferStep
<1>2. CASE contexts'[k].buffer = <<>>
  <2>1. DOMAIN contexts'[k].buffer = {}
    BY <1>2
  <2> QED BY <2>1 DEF BufferStep
<1> QED BY <1>1, <1>2

LEMMA BufferDomains ==
    ASSUME TypeOK, NEW k \in Sockets
    PROVE  /\ contexts[k].buffer \in Seq(Frame)
           /\ DOMAIN contexts[k].buffer = 1..Len(contexts[k].buffer)
           /\ Len(contexts[k].buffer) \in Nat
           /\ DOMAIN contexts[k].buffer \subseteq Nat
<1>1. contexts[k].buffer \in Seq(Frame)
  BY DEF TypeOK, SocketContext
<1> QED BY <1>1, LenProperties

\* The first frame leaves its buffer.
LEMMA ExtractFrames ==
    ASSUME TypeOK, BufferedOK, NEW l \in Loops, loops[l].socket \in Sockets,
           contexts[loops[l].socket].buffer # <<>>, NEW state, Extract(l, state)
    PROVE  /\ \A k \in Sockets : BufferStep(k)
           /\ Buffered(NextFrame(l).id)
           /\ \A id : id = NextFrame(l).id => ~Buffered(id)'
<1> DEFINE k == loops[l].socket
           b == contexts[k].buffer
<1>1. b \in Seq(Frame) /\ DOMAIN b = 1..Len(b) /\ Len(b) \in Nat
  BY BufferDomains
<1>2. /\ Tail(b) \in Seq(Frame) /\ Len(Tail(b)) = Len(b) - 1 /\ DOMAIN Tail(b) = 1..(Len(b) - 1)
      /\ \A i \in 1..(Len(b) - 1) : Tail(b)[i] = b[i + 1]
      /\ Len(b) >= 1 /\ Head(b) = b[1]
  <2>1. \A s \in Seq(Frame) : s # <<>> =>
            /\ Tail(s) \in Seq(Frame) /\ Len(Tail(s)) = Len(s) - 1
            /\ \A i \in 1..(Len(s) - 1) : Tail(s)[i] = s[i + 1]
            /\ Head(s) = s[1]
    BY HeadTailProperties
  <2>2. Len(b) >= 1
    BY <1>1, EmptySeq
  <2>3. DOMAIN Tail(b) = 1..(Len(b) - 1)
    BY <1>1, <2>1, LenProperties
  <2> QED BY <1>1, <2>1, <2>2, <2>3
<1>3. contexts'[k].buffer = Tail(b) /\ \A j \in Sockets \ {k} : contexts'[j] = contexts[j]
  <2>1. contexts[k] \in SocketContext
    BY DEF TypeOK
  <2> QED BY <2>1 DEF Extract, TypeOK, SocketContext, Remaining
<1>4. 1 \in DOMAIN b /\ NextFrame(l) = b[1]
  BY <1>1, <1>2 DEF NextFrame
<1>5. ASSUME NEW j \in Sockets
      PROVE  BufferStep(j)
  <2>1. CASE j # k
    BY <1>3, <2>1, BuffersAlone, BufferDomains
  <2>2. CASE j = k
    <3>1. \A i \in DOMAIN contexts'[k].buffer :
              i + 1 \in DOMAIN b /\ contexts'[k].buffer[i] = b[i + 1]
      BY <1>1, <1>2, <1>3
    <3> QED BY <2>2, <3>1 DEF BufferStep
  <2> QED BY <2>1, <2>2
<1>6. Buffered(NextFrame(l).id)
  BY <1>4 DEF Buffered
<1>7. ASSUME NEW id, id = NextFrame(l).id, NEW j \in Sockets, NEW i \in DOMAIN contexts'[j].buffer,
             contexts'[j].buffer[i].id = id
      PROVE  FALSE
  <2>1. b[1].id = id
    BY <1>4, <1>7
  <2>2. CASE j = k
    <3>0. i \in 1..(Len(b) - 1) /\ Tail(b)[i].id = id
      BY <1>2, <1>3, <1>7, <2>2
    <3>1. i + 1 \in DOMAIN b /\ b[i + 1].id = id /\ i \in Nat /\ i >= 1
      BY <1>1, <1>2, <3>0
    <3>2. i + 1 = 1
      BY <1>4, <2>1, <3>1 DEF BufferedOK
    <3> QED BY <3>1, <3>2
  <2>3. CASE j # k
    <3>1. contexts[j].buffer[i].id = id /\ i \in DOMAIN contexts[j].buffer
      BY <1>3, <1>7, <2>3
    <3> QED BY <1>4, <2>1, <2>3, <3>1 DEF BufferedOK
  <2> QED BY <2>2, <2>3
<1>8. \A id : id = NextFrame(l).id => ~Buffered(id)'
  BY <1>7 DEF Buffered
<1> QED BY <1>5, <1>6, <1>8

\* Runs that keep or drop their frames.
LEMMA HoldsAlone ==
    ASSUME NEW l \in Loops,
           \/ loops'[l].frame = NoFrame
           \/ /\ loops'[l].frame = loops[l].frame
              /\ loops'[l].at = "calling" => loops[l].at = "calling"
    PROVE  HoldStep(l)
BY DEF HoldStep, HasFrame

LEMMA AnswersAlone ==
    ASSUME UNCHANGED answers
    PROVE  \A id : AnswerStep(id)
BY DEF AnswerStep

\* One frame is answered, which is nowhere any more.
LEMMA AnswersOne ==
    ASSUME TypeOK, NEW l, NEW frame, Answer(l, frame), frame.id \in 1..MaxFrames,
           frame.id <= received, answers[frame.id] = 0 \/ faults' # 0,
           \A id : id = frame.id => ~Buffered(id)' /\ ~Called(id)'
    PROVE  \A id \in 1..MaxFrames : AnswerStep(id)
<1> SUFFICES ASSUME NEW id \in 1..MaxFrames
             PROVE  AnswerStep(id)
  OBVIOUS
<1>1. answers' = [answers EXCEPT ![frame.id] = @ + 1] /\ answers \in [1..MaxFrames -> Nat]
  BY DEF Answer, TypeOK
<1>2. CASE id = frame.id
  <2>1. answers'[id] = answers[id] + 1
    BY <1>1, <1>2
  <2> QED BY <1>2, <2>1 DEF AnswerStep
<1>3. CASE id # frame.id
  <2>1. answers'[id] = answers[id]
    BY <1>1, <1>3
  <2> QED BY <2>1 DEF AnswerStep
<1> QED BY <1>2, <1>3

LEMMA TurnFrames ==
    ASSUME TypeOK, LoopOK, SocketOK, BufferedOK, NEW l \in Loops, TurnNext(l)
    PROVE  FrameStep
<1> DEFINE k == loops[l].socket
           frame == NextFrame(l)
<1>0. loops[l].at = "next"
  BY DEF TurnNext, LoopEnds, TakePing, TakeClose, TakeUnusable, TakeInvalid, TakeCallInMemory,
         TakeBootInMemory, TakeCall, Takes
<1>1. k \in Sockets
  BY <1>0, RunningHasStation
<1>2. UNCHANGED <<received, faults>>
  BY DEF TurnNext, LoopEnds, TakePing, TakeClose, TakeUnusable, TakeInvalid, TakeCallInMemory,
         TakeBootInMemory, TakeCall, boundVars
<1>3. UNCHANGED loops \/ Ends(l) => \A m \in Loops : HoldStep(m)
  BY OverRuns, HoldsAlone
<1>4. CASE LoopEnds(l)
  <2>1. UNCHANGED <<contexts, answers>> /\ Ends(l)
    BY <1>4 DEF LoopEnds, historyVars
  <2>2. \A j \in Sockets : BufferStep(j)
    BY <2>1, BuffersAlone, BufferDomains
  <2> QED BY <1>2, <1>3, <2>1, <2>2, AnswersAlone DEF FrameStep
<1>5. CASE ~LoopEnds(l)
  <2>1. \E state : Extract(l, state)
    BY <1>5 DEF TurnNext, TakePing, TakeClose, TakeUnusable, TakeInvalid, TakeCallInMemory,
                TakeBootInMemory, TakeCall
  <2>2. contexts[k].buffer # <<>>
    BY <1>5 DEF TurnNext, TakePing, TakeClose, TakeUnusable, TakeInvalid, TakeCallInMemory,
                TakeBootInMemory, TakeCall, Takes
  <2>3. /\ \A j \in Sockets : BufferStep(j)
        /\ Buffered(frame.id)
        /\ \A id : id = frame.id => ~Buffered(id)'
    BY <1>1, <2>1, <2>2, ExtractFrames
  <2>4. CASE TakePing(l) \/ TakeClose(l) \/ TakeUnusable(l)
    <3>1. UNCHANGED answers
      BY <2>4 DEF TakePing, TakeClose, TakeUnusable, historyVars
    <3>2. UNCHANGED loops \/ Ends(l)
      BY <2>4 DEF TakePing, TakeClose, TakeUnusable
    <3> QED BY <1>2, <1>3, <2>3, <3>1, <3>2, AnswersAlone DEF FrameStep
  <2>5. CASE TakeInvalid(l) \/ TakeCallInMemory(l) \/ TakeBootInMemory(l)
    <3>1. UNCHANGED loops /\ Answer(l, frame)
      BY <2>5 DEF TakeInvalid, TakeCallInMemory, TakeBootInMemory
    <3>2. /\ frame.id \in 1..MaxFrames /\ answers[frame.id] = 0 /\ frame.id <= received
          /\ \A m \in Loops : ~HasFrame(m, frame.id)
      BY <2>3, FrameIds DEF Buffered, BufferedOK
    <3>3. \A id : id = frame.id => ~Called(id)'
      BY <3>1, <3>2 DEF Called, HasFrame
    <3>4. \A id \in 1..MaxFrames : AnswerStep(id)
      BY <2>3, <3>1, <3>2, <3>3, AnswersOne
    <3> QED BY <1>2, <1>3, <2>3, <3>1, <3>4 DEF FrameStep
  <2>6. CASE TakeCall(l)
    <3>1. UNCHANGED answers
      BY <2>6 DEF TakeCall, historyVars
    <3>2. /\ loops'[l].frame = frame
          /\ \A m \in Loops \ {l} : loops'[m] = loops[m]
      <4>1. loops[l] \in Loop
        BY DEF TypeOK
      <4> QED BY <2>6, <4>1 DEF TakeCall, TypeOK, Loop
    <3>3. ASSUME NEW m \in Loops
          PROVE  HoldStep(m)
      <4>1. CASE m = l
        BY <2>3, <3>2, <4>1 DEF HoldStep, HasFrame
      <4>2. CASE m # l
        BY <3>2, <4>2, HoldsAlone
      <4> QED BY <4>1, <4>2
    <3> QED BY <1>2, <2>3, <3>1, <3>3, AnswersAlone DEF FrameStep
  <2> QED BY <1>5, <2>4, <2>5, <2>6 DEF TurnNext
<1> QED BY <1>4, <1>5

\* Buffers of a new process are empty, and no run is left.
LEMMA NewProcessFrames ==
    ASSUME TypeOK, NewProcess
    PROVE  /\ \A k \in Sockets : BufferStep(k)
           /\ \A l \in Loops : HoldStep(l)
           /\ UNCHANGED <<received, answers>>
<1>1. ASSUME NEW k \in Sockets
      PROVE  contexts'[k].buffer = contexts[k].buffer \/ contexts'[k].buffer = <<>>
  <2>1. contexts[k] \in SocketContext
    BY DEF TypeOK
  <2> QED BY <2>1 DEF NewProcess, SocketContext
<1>2. \A l \in Loops : loops'[l].frame = NoFrame
  BY DEF NewProcess, Idle
<1> QED BY <1>1, <1>2, BuffersAlone, BufferDomains, HoldsAlone DEF NewProcess, historyVars

LEMMA ReturnFrames ==
    ASSUME TypeOK, LoopOK, HeldOK, BufferedOK, NEW l \in Loops, ReturnNext(l)
    PROVE  FrameStep
<1> DEFINE frame == loops[l].frame
<1>1. \A j \in Sockets : contexts' = contexts => BufferStep(j)
  BY BuffersAlone, BufferDomains
<1>2. Ends(l) \/ Continues(l) => \A m \in Loops : HoldStep(m)
  BY OverRuns, HoldsAlone
<1>4. ASSUME Answer(l, frame), frame # NoFrame, loops[l].at = "calling" \/ faults' # 0,
             contexts' = contexts, loops'[l].at # "calling",
             \A m \in Loops \ {l} : loops'[m] = loops[m]
      PROVE  \A id \in 1..MaxFrames : AnswerStep(id)
  <2>1. HasFrame(l, frame.id)
    BY <1>4 DEF HasFrame
  <2>2. /\ frame.id \in 1..MaxFrames /\ frame.id <= received
        /\ loops[l].at = "calling" => answers[frame.id] = 0
        /\ \A m \in Loops : HasFrame(m, frame.id) => m = l
    BY <1>4, FrameIds DEF HeldOK
  <2>3. \A id : id = frame.id => ~Buffered(id)'
    BY <1>4, <2>1 DEF Buffered, BufferedOK
  <2>4. \A id : id = frame.id => ~Called(id)'
    BY <1>4, <2>2 DEF Called, HasFrame
  <2> QED BY <1>4, <2>2, <2>3, <2>4, AnswersOne
<1>5. loops[l].at = "calling" => frame # NoFrame
  BY DEF LoopOK
<1>6. Ends(l) \/ Continues(l) =>
          loops'[l].at # "calling" /\ \A m \in Loops \ {l} : loops'[m] = loops[m]
  BY OverRuns
<1>7. CASE CallAnswered(l)
  <2>1. /\ Continues(l) /\ Answer(l, frame) /\ UNCHANGED <<contexts, received, faults>>
        /\ loops[l].at = "calling"
    BY <1>7 DEF CallAnswered, boundVars
  <2> QED BY <1>1, <1>2, <1>4, <1>5, <1>6, <2>1 DEF FrameStep
<1>8. CASE BootAnswered(l)
  <2>1. /\ Answer(l, frame) /\ UNCHANGED <<contexts, received, faults>>
        /\ loops[l].at = "calling"
        /\ Continues(l) \/ \E id : loops' = [loops EXCEPT ![l].at = "listing", ![l].stationId = id]
    BY <1>8 DEF BootAnswered, boundVars
  <2>2. ASSUME NEW id, loops' = [loops EXCEPT ![l].at = "listing", ![l].stationId = id]
        PROVE  /\ \A m \in Loops : HoldStep(m)
               /\ loops'[l].at # "calling" /\ \A m \in Loops \ {l} : loops'[m] = loops[m]
    <3>1. loops[l] \in Loop
      BY DEF TypeOK
    <3>2. /\ loops'[l].at = "listing" /\ loops'[l].frame = frame
          /\ \A m \in Loops \ {l} : loops'[m] = loops[m]
      BY <2>2, <3>1 DEF TypeOK, Loop
    <3> QED BY <3>2, HoldsAlone
  <2> QED BY <1>1, <1>2, <1>4, <1>5, <1>6, <2>1, <2>2 DEF FrameStep
<1>9. CASE CallRejected(l)
  <2>1. /\ Continues(l) /\ Answer(l, frame) /\ UNCHANGED <<contexts, received>>
        /\ loops[l].at = "calling"
    BY <1>9 DEF CallRejected
  <2>2. faults' = 0 => faults = 0
    BY <1>9, Counters DEF CallRejected
  <2> QED BY <1>1, <1>2, <1>4, <1>5, <1>6, <2>1, <2>2 DEF FrameStep
<1>10. CASE Listed(l) \/ Dispatched(l)
  <2>1. /\ UNCHANGED <<contexts, received, faults, answers>>
        /\ \E set : Sends(l, set)
    BY <1>10 DEF Listed, Dispatched, boundVars
  <2>2. ASSUME NEW set, loops' = [loops EXCEPT ![l].at = "marking", ![l].pending = set]
        PROVE  \A m \in Loops : HoldStep(m)
    <3>1. loops[l] \in Loop
      BY DEF TypeOK
    <3>2. /\ loops'[l].at = "marking" /\ loops'[l].frame = frame
          /\ \A m \in Loops \ {l} : loops'[m] = loops[m]
      BY <2>2, <3>1 DEF TypeOK, Loop
    <3> QED BY <3>2, HoldsAlone
  <2> QED BY <1>1, <1>2, <2>1, <2>2, AnswersAlone DEF FrameStep, Sends, FlushOver
<1>11. CASE DispatchFails(l)
  <2>1. /\ UNCHANGED <<contexts, received, answers>>
        /\ loops' = [loops EXCEPT ![l].at = "failing"]
    BY <1>11 DEF DispatchFails, historyVars
  <2>2. \A m \in Loops : HoldStep(m)
    <3>1. loops[l] \in Loop
      BY DEF TypeOK
    <3>2. /\ loops'[l].at = "failing" /\ loops'[l].frame = frame
          /\ \A m \in Loops \ {l} : loops'[m] = loops[m]
      BY <2>1, <3>1 DEF TypeOK, Loop
    <3> QED BY <3>2, HoldsAlone
  <2>3. faults' = 0 => faults = 0
    BY <1>11, Counters DEF DispatchFails
  <2> QED BY <1>1, <2>1, <2>2, <2>3, AnswersAlone DEF FrameStep
<1>12. CASE MarkedFailed(l)
  <2>1. UNCHANGED <<contexts, received, faults, answers>> /\ (Ends(l) \/ Continues(l))
    BY <1>12 DEF MarkedFailed, historyVars, boundVars, FlushOver
  <2> QED BY <1>1, <1>2, <2>1, AnswersAlone DEF FrameStep
<1>13. CASE FlushRejected(l)
  <2>1. faults' # 0
    BY <1>13, Counters DEF FlushRejected
  <2>2. CASE frame = NoFrame
    <3>1. NewProcess
      BY <1>13, <2>2 DEF FlushRejected
    <3> QED BY <2>1, <3>1, NewProcessFrames, AnswersAlone DEF FrameStep
  <2>3. CASE frame # NoFrame
    <3>1. Answer(l, frame) /\ Continues(l) /\ UNCHANGED <<contexts, received>>
      BY <1>13, <2>3 DEF FlushRejected
    <3> QED BY <1>1, <1>2, <1>4, <1>6, <2>1, <2>3, <3>1 DEF FrameStep
  <2> QED BY <2>2, <2>3
<1> QED BY <1>7, <1>8, <1>9, <1>10, <1>11, <1>12, <1>13 DEF ReturnNext

LEMMA PositionSplit ==
    \A x, y \in Nat : \A i \in 1..(x + y) :
        /\ i <= x => i \in 1..x
        /\ ~(i <= x) => i - x \in 1..y /\ x + (i - x) = i
OBVIOUS

\* A chunk: the frames it adds are new, and the run it starts has none.
LEMMA ChunkFrames ==
    ASSUME TypeOK, BufferedOK, HeldOK, FreshOK, AnsweredOnce,
           NEW k \in Sockets, NEW kinds \in Chunks, Data(k, kinds)
    PROVE  BufferedOK' /\ HeldOK' /\ FreshOK' /\ AnsweredOnce'
<1> DEFINE b     == contexts[k].buffer
           chunk == [i \in 1..Len(kinds) |-> [kind |-> kinds[i], id |-> received + i]]
<1>1. /\ Len(kinds) \in Nat /\ received' = received + Len(kinds) /\ received' <= MaxFrames
      /\ UNCHANGED <<answers, faults>>
  BY ChunkType DEF Data, historyVars, boundVars
<1>2. /\ contexts'[k].buffer = b \o chunk
      /\ \A j \in Sockets \ {k} : contexts'[j] = contexts[j]
  <2>1. contexts[k] \in SocketContext
    BY DEF TypeOK
  <2> HIDE DEF chunk
  <2>2. contexts' = [contexts EXCEPT ![k].buffer = b \o chunk]
    BY DEF Data, chunk
  <2> QED BY <2>1, <2>2 DEF TypeOK, SocketContext
<1>3. /\ b \in Seq(Frame) /\ chunk \in Seq(Frame) /\ DOMAIN b = 1..Len(b) /\ Len(b) \in Nat
      /\ Len(chunk) = Len(kinds)
  BY <1>1, BufferDomains, DataFrames DEF Data
<1>4. /\ DOMAIN (b \o chunk) = 1..(Len(b) + Len(kinds))
      /\ \A i \in 1..Len(b) : (b \o chunk)[i] = b[i]
      /\ \A i \in 1..Len(kinds) : (b \o chunk)[Len(b) + i].id = received + i
  <2>1. /\ b \o chunk \in Seq(Frame) /\ Len(b \o chunk) = Len(b) + Len(chunk)
        /\ \A i \in 1..(Len(b) + Len(chunk)) :
               (b \o chunk)[i] = IF i <= Len(b) THEN b[i] ELSE chunk[i - Len(b)]
    <3> HIDE DEF chunk, b
    <3> QED BY <1>3, ConcatProperties
  <2>2. DOMAIN (b \o chunk) = 1..(Len(b) + Len(kinds))
    BY <1>3, <2>1, LenProperties
  <2>3. \A i \in 1..Len(b) : (b \o chunk)[i] = b[i]
    <3> HIDE DEF chunk, b
    <3> QED BY <1>1, <1>3, <2>1
  <2>4. \A i \in 1..Len(kinds) : chunk[i].id = received + i
    OBVIOUS
  <2>5. ASSUME NEW i \in 1..Len(kinds)
        PROVE  (b \o chunk)[Len(b) + i] = chunk[i]
    <3> HIDE DEF chunk, b
    <3>1. Len(b) + i \in 1..(Len(b) + Len(chunk)) /\ ~(Len(b) + i <= Len(b)) /\ (Len(b) + i) - Len(b) = i
      BY <1>1, <1>3
    <3> QED BY <2>1, <3>1
  <2> QED BY <2>2, <2>3, <2>4, <2>5
<1> HIDE DEF chunk
<1>5. received \in Nat /\ MaxFrames \in Nat /\ \A f \in 1..MaxFrames : f \in Nat
  BY Counters, ServerAssumption
\* Where a frame was, or which new one it is.
<1>6. ASSUME NEW j \in Sockets, NEW i \in DOMAIN contexts'[j].buffer
      PROVE  \/ /\ i \in DOMAIN contexts[j].buffer
                /\ contexts'[j].buffer[i] = contexts[j].buffer[i]
                /\ contexts[j].buffer[i].id \in 1..received
             \/ /\ j = k /\ i - Len(b) \in 1..Len(kinds)
                /\ contexts'[j].buffer[i].id = received + (i - Len(b))
  <2>1. ASSUME i \in DOMAIN contexts[j].buffer
        PROVE  contexts[j].buffer[i].id \in 1..received
    <3>1. contexts[j].buffer[i].id \in 1..MaxFrames /\ contexts[j].buffer[i].id <= received
      BY <2>1, FrameIds DEF BufferedOK
    <3> QED BY <1>5, <3>1
  <2>2. CASE j # k
    BY <1>2, <2>1, <2>2
  <2>3. CASE j = k
    <3>1. i \in 1..(Len(b) + Len(kinds))
      BY <1>2, <1>4, <2>3
    <3>2. CASE i <= Len(b)
      <4>1. i \in 1..Len(b)
        BY <1>1, <1>3, <3>1, <3>2, PositionSplit
      <4>2. i \in DOMAIN contexts[j].buffer /\ contexts'[j].buffer[i] = contexts[j].buffer[i]
        BY <1>2, <1>3, <1>4, <2>3, <4>1
      <4> QED BY <2>1, <4>2
    <3>3. CASE ~(i <= Len(b))
      <4>1. i - Len(b) \in 1..Len(kinds) /\ Len(b) + (i - Len(b)) = i
        BY <1>1, <1>3, <3>1, <3>3, PositionSplit
      <4>2. (b \o chunk)[Len(b) + (i - Len(b))].id = received + (i - Len(b))
        BY <1>4, <4>1
      <4> QED BY <1>2, <2>3, <4>1, <4>2
    <3> QED BY <3>2, <3>3
  <2> QED BY <2>2, <2>3
<1>7. ASSUME NEW l \in Loops, NEW id, HasFrame(l, id)'
      PROVE  /\ HasFrame(l, id) /\ loops'[l] = loops[l]
             /\ id \in 1..received
  <2>1. PICK m \in Loops : loops' = [loops EXCEPT ![m] = [Idle EXCEPT !.at = "next", !.socket = k]]
    BY DEF Data
  <2>2. /\ loops'[m] = [Idle EXCEPT !.at = "next", !.socket = k]
        /\ \A n \in Loops \ {m} : loops'[n] = loops[n]
    BY <2>1 DEF TypeOK
  <2>3. loops'[m].frame = NoFrame
    BY <2>2 DEF Idle
  <2>4. l # m
    BY <1>7, <2>3 DEF HasFrame
  <2>5. HasFrame(l, id) /\ loops'[l] = loops[l]
    BY <1>7, <2>2, <2>4 DEF HasFrame
  <2>6. id \in 1..MaxFrames /\ id <= received
    BY <2>5, FrameIds DEF HasFrame, HeldOK
  <2> QED BY <1>5, <2>5, <2>6
<1>8. ASSUME NEW j \in Sockets, NEW i \in DOMAIN contexts'[j].buffer,
             NEW id, contexts'[j].buffer[i].id = id
      PROVE  /\ answers'[id] = 0 /\ id <= received'
             /\ \A l \in Loops : ~HasFrame(l, id)'
             /\ \A h \in Sockets : \A n \in DOMAIN contexts'[h].buffer :
                    contexts'[h].buffer[n].id = id => h = j /\ n = i
  <2>1. CASE /\ i \in DOMAIN contexts[j].buffer
             /\ contexts'[j].buffer[i] = contexts[j].buffer[i]
             /\ contexts[j].buffer[i].id \in 1..received
    <3>1. contexts[j].buffer[i].id = id /\ id \in 1..received
      BY <1>8, <2>1
    <3>2. answers'[id] = 0
      BY <1>1, <2>1, <3>1 DEF BufferedOK
    <3>3. id <= received'
      BY <1>1, <1>5, <3>1
    <3>4. \A l \in Loops : ~HasFrame(l, id)'
      BY <1>7, <2>1, <3>1 DEF BufferedOK
    <3>5. ASSUME NEW h \in Sockets, NEW n \in DOMAIN contexts'[h].buffer,
                 contexts'[h].buffer[n].id = id
          PROVE  h = j /\ n = i
      <4>1. ~(n - Len(b) \in 1..Len(kinds) /\ id = received + (n - Len(b)))
        BY <1>1, <1>5, <3>1
      <4>2. n \in DOMAIN contexts[h].buffer /\ contexts[h].buffer[n].id = id
        BY <1>6, <3>5, <4>1
      <4> QED BY <2>1, <3>1, <4>2 DEF BufferedOK
    <3> QED BY <3>2, <3>3, <3>4, <3>5
  <2>2. CASE /\ j = k /\ i - Len(b) \in 1..Len(kinds)
             /\ contexts'[j].buffer[i].id = received + (i - Len(b))
    <3>0. id = received + (i - Len(b)) /\ i - Len(b) \in 1..Len(kinds)
      BY <1>8, <2>2
    <3>1. id = received + (i - Len(b)) /\ id \notin 1..received /\ id > received
      <4> HIDE DEF b
      <4> QED BY <1>1, <1>5, <3>0
    <3>2. id <= received' /\ id \in 1..MaxFrames
      BY <1>1, <1>5, <2>2, <3>1
    <3>3. answers'[id] = 0
      BY <1>1, <3>1, <3>2 DEF FreshOK
    <3>4. \A l \in Loops : ~HasFrame(l, id)'
      BY <1>7, <3>1
    <3>5. ASSUME NEW h \in Sockets, NEW n \in DOMAIN contexts'[h].buffer,
                 contexts'[h].buffer[n].id = id
          PROVE  h = j /\ n = i
      <4>1. h = k /\ n - Len(b) \in 1..Len(kinds) /\ id = received + (n - Len(b))
        BY <1>6, <3>1, <3>5
      <4>2. n \in Int /\ i \in Int
        <5>1. n \in 1..(Len(b) + Len(kinds)) /\ i \in 1..(Len(b) + Len(kinds))
          BY <1>2, <1>4, <2>2, <4>1
        <5> QED BY <5>1, <1>1, <1>3
      <4> QED BY <1>1, <1>3, <1>5, <2>2, <3>1, <4>1, <4>2
    <3> QED BY <3>2, <3>3, <3>4, <3>5
  <2> QED BY <1>6, <2>1, <2>2
<1>9. BufferedOK'
  BY <1>8 DEF BufferedOK
<1>10. HeldOK'
  <2>1. ASSUME NEW l \in Loops, NEW id, HasFrame(l, id)'
        PROVE  /\ loops'[l].at = "calling" => answers'[id] = 0
               /\ id <= received'
               /\ \A m \in Loops : HasFrame(m, id)' => m = l
    <3>1. HasFrame(l, id) /\ loops'[l] = loops[l] /\ id \in 1..received
      BY <1>7, <2>1
    <3>2. id <= received'
      BY <1>1, <1>5, <3>1
    <3> QED BY <1>1, <1>7, <3>1, <3>2 DEF HeldOK, HasFrame
  <2> QED BY <2>1 DEF HeldOK, HasFrame
<1>11. FreshOK'
  <2>1. \A id \in 1..MaxFrames : id > received' => id > received
    BY <1>1, <1>5
  <2> QED BY <1>1, <2>1 DEF FreshOK
<1>12. AnsweredOnce'
  BY <1>1 DEF AnsweredOnce
<1> QED BY <1>9, <1>10, <1>11, <1>12

LEMMA EventFrames ==
    ASSUME TypeOK, TypeOK', BufferedOK, HeldOK, FreshOK, AnsweredOnce, EventNext
    PROVE  BufferedOK' /\ HeldOK' /\ FreshOK' /\ AnsweredOnce'
<1>1. ASSUME UNCHANGED <<received, answers, faults, loops>>,
             \A k \in Sockets : contexts'[k].buffer = contexts[k].buffer
      PROVE  FrameStep
  BY <1>1, AnswersAlone, BuffersAlone, BufferDomains, HoldsAlone DEF FrameStep
<1>2. ASSUME NEW k \in Sockets, NEW s \in Stations, Upgrade(s, k)
      PROVE  FrameStep
  <2>1. UNCHANGED <<received, answers, faults>>
    BY <1>2 DEF Upgrade, boundVars
  <2>2. \A j \in Sockets : contexts'[j].buffer = contexts[j].buffer \/ contexts'[j].buffer = <<>>
    BY <1>2 DEF Upgrade, TypeOK
  <2>3. CASE UNCHANGED loops
    BY <2>1, <2>2, <2>3, AnswersAlone, BuffersAlone, BufferDomains, HoldsAlone DEF FrameStep
  <2>4. ASSUME NEW l \in Loops, NEW id,
               loops' = [loops EXCEPT ![l] =
                            [Idle EXCEPT !.at = "listing", !.socket = k, !.stationId = id]]
        PROVE  FrameStep
    <3> DEFINE begun == [Idle EXCEPT !.at = "listing", !.socket = k, !.stationId = id]
    <3>1. begun.frame = NoFrame
      BY DEF Idle
    <3>2. loops' = [loops EXCEPT ![l] = begun]
      BY <2>4
    <3> HIDE DEF begun
    <3>3. \A m \in Loops : loops'[m].frame = NoFrame \/ loops'[m] = loops[m]
      BY <3>1, <3>2 DEF TypeOK
    <3> QED BY <2>1, <2>2, <3>3, AnswersAlone, BuffersAlone, BufferDomains, HoldsAlone DEF FrameStep
  <2> QED BY <1>2, <2>3, <2>4 DEF Upgrade
<1>3. ASSUME NEW k \in Sockets, SocketCloses(k)
      PROVE  FrameStep
  <2>1. \A j \in Sockets : contexts'[j].buffer = contexts[j].buffer
    <3>1. \A j \in Sockets : contexts[j] \in SocketContext
      BY DEF TypeOK
    <3>2. contexts' = [contexts EXCEPT ![k].state = "gone"]
      BY <1>3 DEF SocketCloses, SetState
    <3>3. [contexts[k] EXCEPT !.state = "gone"].buffer = contexts[k].buffer
      BY <3>1 DEF SocketContext
    <3> QED BY <3>2, <3>3 DEF TypeOK
  <2>2. UNCHANGED <<received, answers, faults, loops>>
    BY <1>3 DEF SocketCloses, historyVars, boundVars
  <2> QED BY <1>1, <2>1, <2>2
<1>4. CASE \/ \E s \in Stations : Promoted(s) \/ \E due \in {"always", "later"} : Enqueue(s, due)
           \/ \E m \in DOMAIN messages : TimePasses(m)
           \/ DatabaseNext \/ Terminate \/ Shutdown
  <2>1. UNCHANGED <<received, answers, faults, loops, contexts>>
    BY <1>4 DEF Promoted, Enqueue, TimePasses, DatabaseNext, Terminate, Shutdown,
                historyVars, boundVars
  <2>2. FrameStep
    BY <1>1, <2>1
  <2> QED BY <2>2, FrameStepKeeps
<1>5. CASE Restart
  <2>1. FrameStep
    BY <1>5, NewProcessFrames, AnswersAlone DEF Restart, FrameStep
  <2> QED BY <2>1, FrameStepKeeps
<1> QED BY <1>2, <1>3, <1>4, <1>5, ChunkFrames, FrameStepKeeps DEF EventNext, SocketNext

------------------------------------------------------------------------------
(* The invariant. *)

LEMMA ServerInit == Init => ServerInv
<1> SUFFICES ASSUME Init PROVE ServerInv
  OBVIOUS
<1> USE DEF Init, ManagerInit, MessagesInit, ConnectionInit
<1>1. \A l \in Loops : loops[l] = Idle
  OBVIOUS
<1>2. \A k \in Sockets : contexts[k].state = "unused" /\ contexts[k].buffer = <<>>
  OBVIOUS
<1>3. TypeOK
  <2>1. ManagerTypeOK /\ MessagesTypeOK /\ ConnectionTypeOK
    BY EmptySeq DEF ManagerTypeOK, MessagesTypeOK, ConnectionTypeOK, NoContext, Context
  <2>2. contexts \in [Sockets -> SocketContext]
    <3>1. [state |-> "unused", identity |-> Nobody, buffer |-> <<>>] \in SocketContext
      BY EmptySeq DEF SocketContext
    <3> QED BY <3>1
  <2>3. loops \in [Loops -> Loop]
    BY IdleType
  <2>4. /\ received \in 0..MaxFrames /\ faults \in 0..MaxFaults
        /\ restarts \in 0..(MaxRestarts + MaxFaults)
    BY ServerAssumption
  <2>5. tableId \in [Stations -> StationIds \cup {"unknown"}]
    BY DEF StationIds
  <2> QED BY <2>1, <2>2, <2>3, <2>4, <2>5 DEF TypeOK
<1>4. LoopOK /\ FlushOK /\ HeldOK
  BY <1>1 DEF LoopOK, FlushOK, HeldOK, Idle, Marking
<1>5. SocketOK /\ DisconnectedIsGone
  BY <1>2 DEF SocketOK, DisconnectedIsGone, Present, NoContext
<1>6. RestartsOK /\ ConnectingOK
  BY ServerAssumption DEF RestartsOK, ConnectingOK
<1>7. BufferedOK
  BY <1>2 DEF BufferedOK
<1>8. FreshOK /\ AnsweredOnce
  BY DEF FreshOK, AnsweredOnce
<1>9. MarkedWasWritten
  BY DEF MarkedWasWritten
<1> QED BY <1>3, <1>4, <1>5, <1>6, <1>7, <1>8, <1>9 DEF ServerInv

LEMMA AttemptsEnd ==
    ASSUME ConnectingOK, [Next]_vars
    PROVE  ConnectingOK'
<1>1. CASE UNCHANGED connectionVars
  BY <1>1 DEF ConnectingOK, connectionVars
<1>2. CASE NewProcess
  BY <1>2 DEF NewProcess, ConnectingOK
<1>3. CASE DatabaseNext
  BY <1>3 DEF DatabaseNext, ReconnectTick, ConnectOk, ConnectFail, ConnectingOK
<1>4. CASE Terminate
  BY <1>4 DEF Terminate, ModuleDestroy, ConnectingOK
<1>5. ASSUME NEW l \in Loops, TurnNext(l)
      PROVE  UNCHANGED connectionVars
  BY <1>5 DEF TurnNext, LoopEnds, TakePing, TakeClose, TakeUnusable, TakeInvalid,
              TakeCallInMemory, TakeBootInMemory, TakeCall
<1>6. ASSUME NEW l \in Loops, ReturnNext(l)
      PROVE  UNCHANGED connectionVars \/ NewProcess
  BY <1>6 DEF ReturnNext, CallAnswered, BootAnswered, CallRejected, Listed, Dispatched,
              DispatchFails, MarkedFailed, FlushRejected
<1>7. CASE EventNext
  BY <1>1, <1>2, <1>3, <1>4, <1>7
     DEF EventNext, SocketNext, Upgrade, Data, SocketCloses, Promoted, Enqueue, TimePasses,
         Shutdown, Restart
<1>8. CASE UNCHANGED vars
  BY <1>1, <1>8 DEF vars
<1> QED BY <1>1, <1>2, <1>5, <1>6, <1>7, <1>8 DEF Next

LEMMA ServerStep == ServerInv /\ [Next]_vars => ServerInv'
<1> SUFFICES ASSUME ServerInv, [Next]_vars PROVE ServerInv'
  OBVIOUS
<1>0. /\ TypeOK /\ LoopOK /\ SocketOK /\ RestartsOK /\ ConnectingOK /\ FlushOK
      /\ BufferedOK /\ HeldOK /\ FreshOK
      /\ MarkedWasWritten /\ DisconnectedIsGone /\ AnsweredOnce
  BY DEF ServerInv
<1>1. ConnectingOK'
  BY <1>0, AttemptsEnd
<1>2. CASE EventNext
  <2>1. TypeOK' /\ RestartsOK'
    BY <1>0, <1>2, EventTypes
  <2>2. SocketOK' /\ DisconnectedIsGone' /\ LoopOK'
    BY <1>0, <1>2, EventSockets, EventRuns
  <2>3. FlushOK' /\ MarkedWasWritten'
    BY <1>0, <1>2, <2>1, EventMessages, MessageStepKeeps DEF NoFlushBegins
  <2>4. BufferedOK' /\ HeldOK' /\ FreshOK' /\ AnsweredOnce'
    BY <1>0, <1>2, <2>1, EventFrames
  <2> QED BY <1>1, <2>1, <2>2, <2>3, <2>4 DEF ServerInv
<1>3. ASSUME NEW l \in Loops, TurnNext(l)
      PROVE  ServerInv'
  <2>1. TypeOK'
    BY <1>0, <1>3, TurnTypes
  <2>2. RestartsOK'
    BY <1>0, <1>3 DEF RestartsOK, TurnNext, LoopEnds, TakePing, TakeClose, TakeUnusable,
         TakeInvalid, TakeCallInMemory, TakeBootInMemory, TakeCall, boundVars
  <2>3. SocketOK' /\ DisconnectedIsGone' /\ LoopOK'
    BY <1>0, <1>3, TurnSockets, SocketStepKeeps, TurnRuns
  <2>4. FlushOK' /\ MarkedWasWritten'
    BY <1>0, <1>3, <2>1, TurnMessages, MessageStepKeeps DEF NoFlushBegins
  <2>5. BufferedOK' /\ HeldOK' /\ FreshOK' /\ AnsweredOnce'
    BY <1>0, <1>3, <2>1, TurnFrames, FrameStepKeeps
  <2> QED BY <1>1, <2>1, <2>2, <2>3, <2>4, <2>5 DEF ServerInv
<1>4. ASSUME NEW l \in Loops, ReturnNext(l)
      PROVE  ServerInv'
  <2>1. TypeOK' /\ RestartsOK'
    BY <1>0, <1>4, ReturnTypes
  <2>2. SocketOK' /\ DisconnectedIsGone' /\ LoopOK'
    BY <1>0, <1>4, ReturnSockets, SocketStepKeeps, ReturnRuns
  <2>3. FlushOK' /\ MarkedWasWritten'
    BY <1>0, <1>4, <2>1, ReturnMessages, MessageStepKeeps
  <2>4. BufferedOK' /\ HeldOK' /\ FreshOK' /\ AnsweredOnce'
    BY <1>0, <1>4, <2>1, ReturnFrames, FrameStepKeeps
  <2> QED BY <1>1, <2>1, <2>2, <2>3, <2>4 DEF ServerInv
<1>5. CASE UNCHANGED vars
  <2>1. TypeOK' /\ RestartsOK'
    BY <1>0, <1>5 DEF vars, TypeOK, RestartsOK, ManagerTypeOK, MessagesTypeOK, ConnectionTypeOK,
         managerVars, connectionVars, serverVars, stationVars, historyVars, boundVars
  <2>2. LoopOK' /\ SocketOK' /\ DisconnectedIsGone'
    BY <1>0, <1>5 DEF vars, managerVars, LoopOK, SocketOK, DisconnectedIsGone, Present
  <2>3. FlushOK' /\ MarkedWasWritten'
    BY <1>0, <1>5 DEF vars, historyVars, FlushOK, MarkedWasWritten, Marking, Lasting, Before
  <2>4. BufferedOK' /\ HeldOK' /\ FreshOK' /\ AnsweredOnce'
    BY <1>0, <1>5 DEF vars, historyVars, boundVars, BufferedOK, HeldOK, FreshOK, AnsweredOnce, HasFrame
  <2> QED BY <1>1, <2>1, <2>2, <2>3, <2>4 DEF ServerInv
<1> QED BY <1>2, <1>3, <1>4, <1>5 DEF Next

\* The clauses above hold together in every reachable state.
THEOREM ServerInvariant == Spec => []ServerInv
BY ServerInit, ServerStep, PTL DEF Spec

\* Every variable keeps its type, however many sockets, runs, frames, messages,
\* faults and restarts there are.
THEOREM TypeInvariant == Spec => []TypeOK
<1>1. ServerInv => TypeOK
  BY DEF ServerInv
<1> QED BY <1>1, ServerInvariant, PTL

\* No message leaves PENDING that was not written to a socket, however many
\* flushes of its station overlap, fail or are cut short by the process's end.
THEOREM SettledWasWritten == Spec => []MarkedWasWritten
<1>1. ServerInv => MarkedWasWritten
  BY DEF ServerInv
<1> QED BY <1>1, ServerInvariant, PTL

\* A station is shown as disconnected only while its socket is not open,
\* whatever becomes of the sockets it had before.
THEOREM ShownAsGoneIsGone == Spec => []DisconnectedIsGone
<1>1. ServerInv => DisconnectedIsGone
  BY DEF ServerInv
<1> QED BY <1>1, ServerInvariant, PTL

\* Without a failing statement no call is answered twice, however many runs
\* share the buffer it came in.
THEOREM NoSecondAnswer == Spec => []AnsweredOnce
<1>1. ServerInv => AnsweredOnce
  BY DEF ServerInv
<1> QED BY <1>1, ServerInvariant, PTL

==================================================================================
