---------------------------------- MODULE MCHost ----------------------------------
(* Host with model values for the requests, links, paths, units and timers. *)
EXTENDS Host

CONSTANTS q1, q2, k1, k2, r1, top, sub, away, a1, a2, l1, l2, docker, tunnel, self, t1

================================================================================
