-------------------------------- MODULE MCDocker --------------------------------
(* TLC instances of Docker. *)
EXTENDS Docker

CONSTANTS c1, c2, r1, r2

(* Lists with the poller, creations that overlap, and a log socket.        *)
OneKind == {{"list"}, {"create"}, {"logs"}}

(* The tunnel's address, or none configured.                               *)
Bindings == {Tunnel, Unset}

(* A port entry may name 0.0.0.0.                                          *)
Everywhere == {All}
================================================================================
