---------------------------- MODULE MCBridge ----------------------------
(* A small instance of the simulated bridge and its watcher. *)
EXTENDS Watcher

Jumps == {1, 3}
========================================================================
