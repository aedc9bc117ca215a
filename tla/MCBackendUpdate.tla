--------------------------- MODULE MCBackendUpdate ---------------------------
(* TLC instances of BackendUpdate: the installed build, a release that      *)
(* works and one that does not start.                                       *)
EXTENDS BackendUpdate

CONSTANTS old, good, bad
==============================================================================
