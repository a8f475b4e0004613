--------------------------- MODULE MCIPCDelivery ---------------------------
(***************************************************************************)
(* IPCDelivery for TLC.                                                    *)
(***************************************************************************)
EXTENDS IPCDelivery

(* Bound: of the messages only the first may be one that does not parse. *)
MCInit == Init /\ bad \subseteq {1}
MCFairSpec == MCInit /\ [][Next]_vars /\ Fairness
=============================================================================
