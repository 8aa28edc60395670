--------------------------- MODULE MCHubListener ---------------------------
(* Instances of HubListener for TLC: UDP clients are alike.                *)
EXTENDS HubListener, TLC

UdpSymmetry == Permutations(UdpWorkers)
=============================================================================
