-------------------------- MODULE MCControllerLive --------------------------
(* Two books.  Saving always succeeds and no snapshot is found damaged, so *)
(* that the snapshot follows the queue: it plays no part in progress.      *)
EXTENDS Controller

LiveNext == ControllerNext /\ ~dirty' /\ disk'.readable

LiveSpec == ControllerInit /\ [][LiveNext]_vars /\ Fairness
=============================================================================
