-------------------------- MODULE ConnectionManager --------------------------
(***************************************************************************)
(* ConnectionManager: which socket speaks for a station, whether it is     *)
(* still there, and the id under which the database knows the station.     *)
(* Every method runs without an await; OcppServer puts them into the       *)
(* socket events and handler turns that call them.                         *)
(***************************************************************************)

CONSTANTS
    Stations,   \* OCPP identities
    Sockets,    \* sockets, each used for one connection
    Nobody      \* neither a station nor a socket

ASSUME SocketsAssumption == Nobody \notin Stations \cup Sockets

VARIABLES
    connections,       \* per identity its context, or NoContext
    socketToIdentity   \* per socket the identity it speaks for, or Nobody

managerVars == <<connections, socketToIdentity>>

\* A station's UUID: the random one of its memory station, or the one its
\* charging_stations row got without the memory station's help.
StationIds == {"memory", "table"}

\* ConnectionContext; `unknown' is an undefined stationId.
Context ==
    [socket : Sockets \cup {Nobody}, status : {"CONNECTED", "DISCONNECTED"},
     stationId : StationIds \cup {"unknown"}]

NoContext == [socket |-> Nobody, status |-> "DISCONNECTED", stationId |-> "unknown"]

ManagerTypeOK ==
    /\ connections \in [Stations -> Context]
    /\ socketToIdentity \in [Sockets -> Stations \cup {Nobody}]

Present(s) == connections[s].socket # Nobody

ManagerInit ==
    /\ connections = [s \in Stations |-> NoContext]
    /\ socketToIdentity = [k \in Sockets |-> Nobody]

\* The new context inherits the station id of the one it replaces.  The
\* replaced socket is only sent a close frame: it stays open and keeps its
\* entry in socketToIdentity.
RegisterConnection(s, k) ==
    /\ connections' = [connections EXCEPT
           ![s] = [socket |-> k, status |-> "CONNECTED", stationId |-> @.stationId]]
    /\ socketToIdentity' = [socketToIdentity EXCEPT ![k] = s]

\* Wrong: a replaced socket disconnects the station it no longer speaks for.
MarkDisconnectedAnySocket(k) ==
    /\ connections' = [s \in Stations |->
           IF socketToIdentity[k] = s
           THEN [connections[s] EXCEPT !.status = "DISCONNECTED"] ELSE connections[s]]
    /\ socketToIdentity' = [socketToIdentity EXCEPT ![k] = Nobody]

MarkDisconnected(k) ==
    /\ connections' = [s \in Stations |->
           IF socketToIdentity[k] = s /\ connections[s].socket = k
           THEN [connections[s] EXCEPT !.status = "DISCONNECTED"] ELSE connections[s]]
    /\ socketToIdentity' = [socketToIdentity EXCEPT ![k] = Nobody]

\* updateActivity(s), and associateStation(s, id) unless id is "unknown".
Refresh(s, id) ==
    /\ connections' =
           IF Present(s)
           THEN [connections EXCEPT ![s] =
                    [socket |-> @.socket, status |-> "CONNECTED",
                     stationId |-> IF id = "unknown" THEN @.stationId ELSE id]]
           ELSE connections
    /\ UNCHANGED socketToIdentity

\* onApplicationShutdown: every socket is sent a close frame, the map cleared.
ForgetConnections ==
    /\ connections' = [s \in Stations |-> NoContext]
    /\ UNCHANGED socketToIdentity
===============================================================================
