--------------------------- MODULE MCScanCadence ---------------------------
(***************************************************************************)
(* A small instance of ScanCadence: two units with one sensor each, of one *)
(* phase group, asking for a scan every second interval, under every       *)
(* combination of the two flags: neither of them, the one configuration of *)
(* production, and the retired ones.                                       *)
(***************************************************************************)
EXTENDS ScanCadence

MCUnitOf == [a \in Attachments |-> a]
MCGroupOf == [a \in Attachments |-> "radar"]
MCPeriodOf == [a \in Attachments |-> 2]
=============================================================================
