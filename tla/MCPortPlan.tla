------------------------------ MODULE MCPortPlan -----------------------------
(* PortPlan for TLC: every way the ports of a small range can be claimed.   *)
EXTENDS PortPlan

AllClaims == SUBSET (Low .. High)
=============================================================================
