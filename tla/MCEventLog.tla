----------------------------- MODULE MCEventLog -----------------------------
(* Values for the constants of EventLog.tla in the TLC runs. *)
EXTENDS EventLog

\* Every key hashes to the last partition.
ToLast == [k \in Keys |-> NumPartitions - 1]
=============================================================================
