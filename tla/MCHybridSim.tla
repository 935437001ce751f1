----------------------------- MODULE MCHybridSim -----------------------------
(***************************************************************************)
(* Instances of HybridSim for TLC.                                         *)
(***************************************************************************)
EXTENDS HybridSim, TLC

CONSTANTS of, router   \* the OpenFlow client's thread and the router server's

MCCallbacks == {of, router}
MCOneCallback == {of}
=============================================================================
