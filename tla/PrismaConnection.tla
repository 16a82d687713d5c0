--------------------------- MODULE PrismaConnection ---------------------------
(***************************************************************************)
(* PrismaService: the connection of the process to its database.  One      *)
(* attempt runs at a time; a failed one leaves a reconnect timer behind,   *)
(* whose ticks start the next.  No code path ever makes `connected' false  *)
(* again: a database that goes away later makes queries fail instead.      *)
(***************************************************************************)

VARIABLES
    connected,       \* PrismaService.connected
    connecting,      \* an attempt is awaiting $connect()
    reconnectTimer   \* the setInterval of scheduleReconnect is armed

connectionVars == <<connected, connecting, reconnectTimer>>

ConnectionTypeOK ==
    /\ connected \in BOOLEAN
    /\ connecting \in BOOLEAN
    /\ reconnectTimer \in BOOLEAN

\* onModuleInit calls tryConnect before the server listens.
ConnectionInit ==
    /\ connected = FALSE
    /\ connecting = TRUE
    /\ reconnectTimer = FALSE

\* The interval timer calls tryConnect; the guard of lines 75-77 makes a tick
\* during an attempt a no-op.
ReconnectTick ==
    /\ reconnectTimer
    /\ ~connected /\ ~connecting
    /\ connecting' = TRUE
    /\ UNCHANGED <<connected, reconnectTimer>>

\* $connect() resolved.  The listeners run in this same step: whoever
\* composes this action adds what they do.
ConnectOk ==
    /\ connecting
    /\ connected' = TRUE
    /\ connecting' = FALSE
    /\ reconnectTimer' = FALSE

\* Wrong: the retry is left to whoever called tryConnect.
ConnectFailNoTimer ==
    /\ connecting
    /\ connected' = FALSE
    /\ connecting' = FALSE
    /\ UNCHANGED reconnectTimer

\* $connect() rejected: the timer is armed (once) and the listeners are told
\* `false', which the station service ignores.
ConnectFail ==
    /\ connecting
    /\ connected' = FALSE
    /\ connecting' = FALSE
    /\ reconnectTimer' = TRUE

\* onModuleDestroy: the timer is cleared, $disconnect() leaves `connected' as
\* it is.  An attempt under way may still succeed, or fail and arm the timer.
ModuleDestroy ==
    /\ reconnectTimer' = FALSE
    /\ UNCHANGED <<connected, connecting>>
===============================================================================
