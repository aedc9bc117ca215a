------------------------------- MODULE MCPairing -------------------------------
(* Pairing on small instances: a peer the setup script wrote, a device      *)
(* paired before keys were tracked, and devices paired since.               *)
EXTENDS Pairing, TLC

CONSTANTS c1, c2, c3, n1, n2

Old == [name |-> n1, cred |-> c2, ip |-> NoIP, tracked |-> FALSE]
New(n, c, i) == [name |-> n, cred |-> c, ip |-> i, tracked |-> TRUE]

(* c1 is a peer without a token; c2 was paired before keys were tracked.    *)
UpgradedPeers == {[cred |-> c1, ip |-> 2], [cred |-> c2, ip |-> 3]}
UpgradedEntries == {Old}

(* c1 and c2 are paired.                                                    *)
TwoEntries == {New(n1, c1, 2), New(n2, c2, 3)}
TwoPeers == {PeerOf(e) : e \in TwoEntries}

(* Slots and credentials are interchangeable where none is set up.          *)
SlotsAndCreds == Permutations(Procs) \cup Permutations(Creds)
================================================================================
