----------------------------- MODULE MCDPIEngine -----------------------------
(* Flows are numbered by their hash.                                         *)
EXTENDS DPIEngine

CONSTANT NumFlows

MCFlow == 0..(NumFlows - 1)
MCHash == [fl \in MCFlow |-> fl]
=============================================================================
