------------------------------ MODULE MCTerminal ------------------------------
(* TLC instances of Terminal: two clients compete for one slot.             *)
EXTENDS Terminal, TLC

CONSTANTS c1, c2

Clients == {c1, c2}
Symmetry == Permutations(Clients)
===============================================================================
