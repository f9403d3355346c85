------------------------------- MODULE MCAccess -------------------------------
(***************************************************************************)
(* An instance of Access for TLC.                                          *)
(***************************************************************************)
EXTENDS Access

CONSTANTS d1

MCDeviceRole == [d \in {d1} |-> "terminal"]

=============================================================================
