----------------------------- MODULE MCDevicesApi -----------------------------
(* TLC instance of DevicesApi. *)
EXTENDS DevicesApi, TLC

CONSTANTS n1, n2, c1, c2, c3, r1, r2, h1

Symmetry == Permutations(Requests) \cup Permutations(Names) \cup Permutations(Creds)

(* Two pairings and revocations that overlap in any way; or one request of  *)
(* any kind beside a command by hand and the owner's scripts.               *)
Overlapping == [requests |-> Requests, kinds |-> {"pair", "revoke"}, hands |-> {}, scripts |-> FALSE]
Alone(r) == [requests |-> {r}, kinds |-> Kinds, hands |-> Hands, scripts |-> TRUE]
OverlapAndAlone == {Overlapping} \cup {Alone(r) : r \in Requests}
===============================================================================
