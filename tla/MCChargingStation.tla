-------------------------- MODULE MCChargingStation --------------------------
(***************************************************************************)
(* Small instances of ChargingStation for TLC.                             *)
(***************************************************************************)
EXTENDS ChargingStationProps, TLC

CONSTANTS s1, s2, c1, c2

\* Transactions that earlier runs left: none, one that is over, or more of the
\* second station, the last of which is still open.
Old(s, status) ==
    [NewRow(s, CHOOSE c \in Connectors : TRUE, Nobody, 0) EXCEPT !.status = status]
NoneLeft == <<>>
OneLeft  == <<Old(s1, "COMPLETED")>>
OpenLeft == <<Old(s2, "COMPLETED"), Old(s2, "STARTED")>>
MoreLeft == <<Old(s2, "ROLLEDBACK"), Old(s2, "COMPLETED")>>

MCSymmetry == Permutations(Calls) \cup Permutations(Stations)
==============================================================================
