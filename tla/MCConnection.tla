----------------------------- MODULE MCConnection -----------------------------
(* TLC instances of Connection: three servers, two of which were installed  *)
(* with the same address.                                                   *)
EXTENDS Connection

CONSTANTS a, b, c, i1, i2

TwoAtDefault == [s \in Servers |-> IF s = c THEN "192.168.7.1:9000" ELSE "10.10.0.1:8443"]
===============================================================================
