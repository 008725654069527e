----------------------------- MODULE MCDevices -----------------------------
(* Devices with a user whose agent may run twice (p1, then p2) and another *)
(* user (p3).                                                              *)
EXTENDS Devices, TLC

CONSTANTS p1, p2, p3, alice, bob

MCNameOf == [p \in Agents |-> IF p = p3 THEN bob ELSE alice]

AllFaults == FaultKinds
NoFaults == {}
=============================================================================
