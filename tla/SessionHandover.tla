--------------------------- MODULE SessionHandover ---------------------------
(***************************************************************************)
(* What the service promises about a charging session that started while   *)
(* there was no database, whatever the interleaving and whatever fails: it *)
(* is buffered for its station until, in one step, the sessions of that    *)
(* station move to the database together; it never goes back, is never     *)
(* lost on the way, and nothing but its StopTransaction closes it.         *)
(***************************************************************************)
CONSTANTS Ids, Stations

VARIABLES
    buffer,   \* per station the sessions that only memory holds
    stored,   \* the open sessions the database holds
    closed,   \* the sessions that were stopped
    online    \* the database is connected

vars == <<buffer, stored, closed, online>>

Buffered == UNION {buffer[s] : s \in Stations}

Init ==
    /\ buffer = [s \in Stations |-> {}]
    /\ stored = {}
    /\ closed = {}
    /\ online = FALSE

Begin(e, s) ==
    /\ ~online
    /\ e \notin Buffered \cup stored \cup closed
    /\ buffer' = [buffer EXCEPT ![s] = @ \cup {e}]
    /\ UNCHANGED <<stored, closed, online>>

StopInMemory(e, s) ==
    /\ ~online
    /\ e \in buffer[s]
    /\ buffer' = [buffer EXCEPT ![s] = @ \ {e}]
    /\ closed' = closed \cup {e}
    /\ UNCHANGED <<stored, online>>

GoOnline ==
    /\ ~online
    /\ online' = TRUE
    /\ UNCHANGED <<buffer, stored, closed>>

Move(s) ==
    /\ online
    /\ stored' = stored \cup buffer[s]
    /\ buffer' = [buffer EXCEPT ![s] = {}]
    /\ UNCHANGED <<closed, online>>

StopInDatabase(e) ==
    /\ online
    /\ e \in stored
    /\ stored' = stored \ {e}
    /\ closed' = closed \cup {e}
    /\ UNCHANGED <<buffer, online>>

Next ==
    \/ GoOnline
    \/ \E s \in Stations :
           Move(s) \/ \E e \in Ids : Begin(e, s) \/ StopInMemory(e, s)
    \/ \E e \in Ids : StopInDatabase(e)

Spec == Init /\ [][Next]_vars
==============================================================================
