---------------------------- MODULE StationStatus ----------------------------
(***************************************************************************)
(* The status vocabulary of ChargingStationService and the pure functions  *)
(* that compute one status from another.  Raw statuses are the strings of  *)
(* a StatusNotification; connector and station statuses are the two Prisma *)
(* enums the service stores.                                               *)
(***************************************************************************)

ConnectorStatus ==
    {"AVAILABLE", "PREPARING", "CHARGING", "SUSPENDEDEV", "SUSPENDEDEVSE",
     "FINISHING", "RESERVED", "UNAVAILABLE", "FAULTED"}

\* StationStatus as far as the service writes it.
StationStatusOf == {"AVAILABLE", "CHARGING", "FAULTED", "UNAVAILABLE"}

\* A connector number the station has not reported yet.
Absent == "ABSENT"

\* connectorStatusMap: the OCPP spelling of each status the service knows.
connectorStatusMap ==
    [Available     |-> "AVAILABLE",
     Preparing     |-> "PREPARING",
     Charging      |-> "CHARGING",
     SuspendedEV   |-> "SUSPENDEDEV",
     SuspendedEVSE |-> "SUSPENDEDEVSE",
     Finishing     |-> "FINISHING",
     Reserved      |-> "RESERVED",
     Unavailable   |-> "UNAVAILABLE",
     Faulted       |-> "FAULTED"]

\* resolveConnectorStatus: an unknown spelling counts as UNAVAILABLE.
ResolveConnectorStatus(raw) ==
    IF raw \in DOMAIN connectorStatusMap
    THEN connectorStatusMap[raw]
    ELSE "UNAVAILABLE"

\* deriveStationStatus: what a status of connector 0, the station itself,
\* says about the station.
DeriveStationStatus(status) ==
    IF status \in {"CHARGING", "FAULTED", "UNAVAILABLE"}
    THEN status
    ELSE "AVAILABLE"

\* updateStationStatusFromConnectors: the loop over the connectors in its
\* closed form, which does not depend on their order.  Connector 0 decides
\* alone; otherwise a CHARGING connector wins over a FAULTED one, and a
\* station that is already FAULTED stays so until a connector charges.
\* Wrong: FAULTED wins over CHARGING.
StatusFromConnectorsFaultedFirst(connectors, current) ==
    LET Some(status) == \E c \in DOMAIN connectors : connectors[c] = status
        master       == 0 \in DOMAIN connectors /\ connectors[0] # Absent
    IN  CASE master -> DeriveStationStatus(connectors[0])
          [] ~master /\ (Some("FAULTED") \/ current = "FAULTED") -> "FAULTED"
          [] ~master /\ ~Some("FAULTED") /\ current # "FAULTED"
             /\ Some("CHARGING") -> "CHARGING"
          [] OTHER -> "AVAILABLE"
StatusFromConnectors(connectors, current) ==
    LET Some(status) == \E c \in DOMAIN connectors : connectors[c] = status
        master       == 0 \in DOMAIN connectors /\ connectors[0] # Absent
    IN  CASE master                              -> DeriveStationStatus(connectors[0])
          [] ~master /\ Some("CHARGING")         -> "CHARGING"
          [] ~master /\ ~Some("CHARGING")
             /\ (Some("FAULTED") \/ current = "FAULTED") -> "FAULTED"
          [] OTHER                               -> "AVAILABLE"
==============================================================================
