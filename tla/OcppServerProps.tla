--------------------------- MODULE OcppServerProps ---------------------------
(***************************************************************************)
(* The correctness properties of OcppServer.                               *)
(***************************************************************************)
EXTENDS OcppServer

\* A station is shown as disconnected only when the socket that speaks for it
\* is closing or gone: the end of a socket that was replaced, which may come
\* long after its successor's registration, does not count.
DisconnectedIsGone ==
    \A s \in Stations :
        Present(s) /\ connections[s].status = "DISCONNECTED"
        => contexts[connections[s].socket].state # "open"

\* A message leaves the state PENDING only after it was written to a socket,
\* whatever fails and whoever flushes the same station meanwhile: a message
\* in the table that no station was sent survives as pending.
MarkedWasWritten ==
    \A m \in DOMAIN messages : messages[m].status # "PENDING" => m \in written

\* The two stores, the flushes that overlap, fail and are cut short, and the
\* mode they run in together implement Outbox: in order, never settled unsent,
\* and nothing lost of the table.  The memory queue is lost when the database
\* is connected, since listPendingMessages no longer looks at it.
Lasting(m) == messages[m].store = "table"
Unsettled(m)  == messages[m].status = "PENDING"
Box == INSTANCE Outbox WITH
    Lines   <- Stations \X BOOLEAN,
    NoLine  <- Nobody,
    entries <- [m \in DOMAIN messages |->
                   [line    |-> IF messages[m].due = "always"
                                THEN <<messages[m].station, Lasting(m)>> ELSE Nobody,
                    lasting |-> Lasting(m)]],
    sent    <- written,
    fate    <- [m \in DOMAIN messages |->
                   CASE ~Unsettled(m) -> "settled"
                     [] Unsettled(m) /\ ~Lasting(m) /\ (connected \/ messages[m].store = "lost") -> "lost"
                     [] OTHER -> "queued"]

OutboxSpec == Box!Spec

\* While no statement fails a call is answered at most once, although every
\* chunk starts a run of its own on the same buffer.
AnsweredOnce == faults = 0 => \A f \in 1..MaxFrames : answers[f] <= 1

\* Every call a station sends is answered, unless its socket closes: runs of
\* handleFrame leave no frame behind in the buffer they share.
CallKinds == {"boot", "call", "invalid"}
Waiting(k, f) ==
    \/ \E i \in DOMAIN contexts[k].buffer :
           contexts[k].buffer[i].id = f /\ contexts[k].buffer[i].kind \in CallKinds
    \/ \E l \in Loops : loops[l].socket = k /\ loops[l].at = "calling" /\ loops[l].frame.id = f
FramesAnswered ==
    \A k \in Sockets : \A f \in 1..MaxFrames :
        Waiting(k, f) ~> answers[f] > 0 \/ ~Open(k)

\* What is due in the table when a station boots is written to its socket,
\* unless a statement fails or the process ends on the way.
BootFlushes ==
    \A m \in 1..MaxMessages : \A r \in 0..MaxRestarts :
        /\ m \in DOMAIN messages /\ restarts = r
        /\ messages[m].store = "table" /\ messages[m].due # "later"
        /\ \E l \in Loops : /\ loops[l].at = "calling" /\ loops[l].frame.kind = "boot"
                            /\ StationOf(l) = messages[m].station
        ~> m \in written \/ faults > 0 \/ restarts > r \/ ~accepting

------------------------------------------------------------------------------
(* The inductive invariant behind TypeOK, MarkedWasWritten, AnsweredOnce,     *)
(* DisconnectedIsGone and OutboxSpec.                                         *)

\* What a run is doing determines which of its locals are set; its socket was
\* registered.
LoopOK ==
    \A l \in Loops :
        /\ loops[l].at = "idle" => loops[l] = Idle
        /\ loops[l].at # "idle" => /\ loops[l].socket \in Sockets
                                  /\ contexts[loops[l].socket].state # "unused"
        /\ loops[l].at = "calling" => loops[l].frame # NoFrame

\* A socket that was ever open speaks for a station, and only such a socket
\* does.
SocketOK ==
    /\ \A k \in Sockets : contexts[k].state # "unused" => contexts[k].identity \in Stations
    /\ \A s \in Stations : Present(s) => contexts[connections[s].socket].state # "unused"

\* Beyond MaxRestarts only faults end the process.
RestartsOK == restarts <= MaxRestarts + faults

\* No attempt to connect is left once one succeeded.
ConnectingOK == connecting => ~connected

\* A flush has sent the message it is marking.  What it has still to send is in
\* the table, and whoever is ahead of it there was sent or will be before it.
Marking(l) == loops[l].at \in {"marking", "failing"}
Before(e, m) ==
    /\ e < m
    /\ messages[e].station = messages[m].station
    /\ Lasting(e) /\ messages[e].due = "always" /\ messages[m].due = "always"
FlushOK ==
    \A l \in Loops : Marking(l) =>
        /\ loops[l].pending # {} /\ loops[l].pending \subseteq DOMAIN messages
        /\ First(loops[l].pending) \in written
        /\ \A m \in loops[l].pending :
               /\ Lasting(m)
               /\ \A e \in DOMAIN messages : Before(e, m) => e \in loops[l].pending \cup written

\* A frame is in one place of one buffer or with one run, it has no answer
\* before a run is through with it, and none is there before it is received.
HasFrame(l, id) == loops[l].frame # NoFrame /\ loops[l].frame.id = id
BufferedOK ==
    \A k \in Sockets : \A i \in DOMAIN contexts[k].buffer :
        LET id == contexts[k].buffer[i].id
        IN  /\ answers[id] = 0 /\ id <= received
            /\ \A l \in Loops : ~HasFrame(l, id)
            /\ \A j \in Sockets : \A n \in DOMAIN contexts[j].buffer :
                   contexts[j].buffer[n].id = id => j = k /\ n = i
HeldOK ==
    \A l \in Loops : loops[l].frame # NoFrame =>
        LET id == loops[l].frame.id
        IN  /\ loops[l].at = "calling" => answers[id] = 0
            /\ id <= received
            /\ \A m \in Loops : HasFrame(m, id) => m = l
FreshOK == \A id \in 1..MaxFrames : id > received => answers[id] = 0

ServerInv ==
    /\ TypeOK /\ LoopOK /\ SocketOK /\ RestartsOK /\ ConnectingOK /\ FlushOK
    /\ BufferedOK /\ HeldOK /\ FreshOK
    /\ MarkedWasWritten /\ DisconnectedIsGone /\ AnsweredOnce

------------------------------------------------------------------------------
(* What the documentation says and the code does not keep. *)

\* README: a durable message queue that flushes when a station reconnects.  A
\* message in the table that no open socket was given is still pending there.
StoredUntilDelivered ==
    \A m \in DOMAIN messages :
        messages[m].store = "table" /\ m \notin delivered => messages[m].status = "PENDING"
==============================================================================
