--------------------------- MODULE StationMessages ---------------------------
(***************************************************************************)
(* StationMessageService: the calls the server has for its stations.  A    *)
(* message is appended to a queue in memory or, once the database is       *)
(* connected, to the table station_messages, and nothing moves it from the *)
(* one to the other.  Messages are numbered in the order of their creation *)
(* across both.                                                            *)
(***************************************************************************)
EXTENDS Naturals, Sequences

CONSTANT Stations

VARIABLE messages

\* `store' is `lost' for a message of an earlier process's memory; `due' tells
\* a message without availableAt (`always') from one whose time has come.
Message ==
    [station : Stations, store : {"memory", "table", "lost"},
     status : {"PENDING", "DISPATCHED", "FAILED"}, due : {"always", "later", "since"}]

MessagesTypeOK == messages \in Seq(Message)

MessagesInit == messages = <<>>

\* enqueueMessage
EnqueueMessage(s, store, due) ==
    messages' = Append(messages,
        [station |-> s, store |-> store, status |-> "PENDING", due |-> due])

\* availableAt has passed.
BecomesDue(m) ==
    /\ messages[m].due = "later"
    /\ messages' = [messages EXCEPT ![m].due = "since"]

\* What listPendingMessages finds, to be visited in the order of creation.
Pending(s, store) ==
    {m \in DOMAIN messages :
        /\ messages[m].station = s /\ messages[m].store = store
        /\ messages[m].status = "PENDING" /\ messages[m].due # "later"}

\* markAsDispatched and markAsFailed, of one message or, in memory, of several
\* in one turn.
Marked(set, status) ==
    [m \in DOMAIN messages |->
        IF m \in set THEN [messages[m] EXCEPT !.status = status] ELSE messages[m]]

\* The process is gone, and its memory with it.
MemoryLost(all) ==
    [m \in DOMAIN all |->
        IF all[m].store = "memory" THEN [all[m] EXCEPT !.store = "lost"] ELSE all[m]]
===============================================================================
