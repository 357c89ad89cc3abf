---------------------------- MODULE MCMerge ----------------------------
(***************************************************************************)
(* Two or three of the modules, queried in the code's order.               *)
(***************************************************************************)
EXTENDS EventMerge

TwoModules == <<"deposit", "withdrawal_queue">>
ThreeModules == <<"deposit", "withdrawal_queue", "treasury">>
========================================================================
