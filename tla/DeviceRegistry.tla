---------------------------- MODULE DeviceRegistry ----------------------------
(***************************************************************************)
(* What pairing promises, with no files, processes or tunnels: every       *)
(* device name is held by at most one credential, a credential is granted  *)
(* access once, and once it has been revoked it never has access again.    *)
(***************************************************************************)
CONSTANTS
  Names,     \* device names
  Creds,     \* credentials (a WireGuard key pair and an API token)
  Nobody     \* the holder of a free name

VARIABLES
  holder,    \* the credential that holds each name
  retired    \* the credentials whose access was revoked

vars == <<holder, retired>>

TypeOK == /\ holder \in [Names -> Creds \cup {Nobody}]
          /\ retired \subseteq Creds

Init == /\ holder \in [Names -> Creds \cup {Nobody}]
        /\ \A m, n \in Names : holder[m] = holder[n] => m = n \/ holder[m] = Nobody
        /\ retired = {}

(* `archangeld pair`: a fresh credential takes a free name.                *)
Grant(n, c) == /\ holder[n] = Nobody
               /\ c \notin retired
               /\ \A m \in Names : holder[m] # c
               /\ holder' = [holder EXCEPT ![n] = c]
               /\ UNCHANGED retired

(* `archangeld unpair`: the name is free again, its credential is retired. *)
Revoke(n) == /\ holder[n] # Nobody
             /\ retired' = retired \cup {holder[n]}
             /\ holder' = [holder EXCEPT ![n] = Nobody]

Next == \E n \in Names : Revoke(n) \/ \E c \in Creds : Grant(n, c)

Spec == Init /\ [][Next]_vars

(* A credential has one name, and none any more once it is revoked.        *)
Safe == /\ \A m, n \in Names : holder[m] = holder[n] => m = n \/ holder[m] = Nobody
        /\ \A n \in Names : holder[n] \notin retired
===============================================================================
