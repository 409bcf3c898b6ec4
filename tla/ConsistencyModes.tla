-------------------------- MODULE ConsistencyModes --------------------------
(***************************************************************************)
(* The two programs of 13-distributed-systems that trade consistency for   *)
(* something else: the CAP cluster and the registers, each in all of its   *)
(* modes.                                                                  *)
(***************************************************************************)
EXTENDS CapCluster, Registers

\* Each mode of the CAP cluster and each register keeps what it promises.
ModesKeepPromises == CapPromises /\ RegistersKeepPromises
=============================================================================
