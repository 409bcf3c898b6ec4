--------------------------- MODULE MCMessageQueue ---------------------------
(* Values for the constants of MessageQueue.tla in the TLC runs. *)
EXTENDS MessageQueue

\* Messages are numbered; the first is retried once, the second twice.
Retries == [m \in Messages |-> m]
RetriesTwice == [m \in Messages |-> 2]
=============================================================================
