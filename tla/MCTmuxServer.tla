----------------------------- MODULE MCTmuxServer -----------------------------
(* TLC instances of TmuxServer. *)
EXTENDS TmuxServer

CONSTANTS c1, c2, c3
===============================================================================
