-------------------------- MODULE MCServerActivation --------------------------
(* TLC instances of ServerActivation: two servers with tunnels; the list    *)
(* never holds more than the servers.                                       *)
EXTENDS ServerActivation

CONSTANTS s1, s2, t1, t2, p1

(* Writes of an activation and of its undo code fail, servers hand out two  *)
(* tokens; or everything fails and the app is killed.                       *)
Undoing == [faults |-> {"activate", "undo"}, crashes |-> FALSE, tokens |-> {t1, t2}]
Relaunching == [faults |-> {"registry", "activate", "undo", "clear", "tunnel", "other"},
                crashes |-> TRUE, tokens |-> {t1}]
BothSettings == {Undoing, Relaunching}
===============================================================================
