---------------------------- MODULE DevicesApiProofs ----------------------------
(* Proofs of the safety properties of DevicesApi, for any number of names, *)
(* credentials, requests and commands, overlapping in any way.             *)
EXTENDS DevicesApi, TLAPS

--------------------------------------------------------------------------------
(* The store under its commands.  Each loads a copy, or saves its copy     *)
(* with one change, or goes; a reboot ends them all.                       *)

Gone == [u \in Commands |-> Nobody]

Saves(u, n) ==
  /\ copy[u] # Nobody /\ copy' = [copy EXCEPT ![u] = Nobody]
  /\ Revokes(copy[u], n) \/ \E c \in Creds : Grants(copy[u], n, c)

Moves ==
  \/ UNCHANGED registry /\ copy' = Gone
  \/ UNCHANGED registry /\ copy' = copy
  \/ \E u \in Commands : UNCHANGED registry /\ copy' \in {[copy EXCEPT ![u] = holder], [copy EXCEPT ![u] = Nobody]}
  \/ \E u \in Commands, n \in Names : Saves(u, n)

StoreTypeOK ==
  /\ holder \in Stores /\ retired \subseteq Creds /\ undone \subseteq Creds
  /\ copy \in [Commands -> Stores \cup {Nobody}]

(* Whatever the commands do, a credential keeps its name, none is          *)
(* forgotten, and one changes sides only by its own command or undone.     *)
Forward ==
  /\ StoreTypeOK' /\ CopiesInv'
  /\ \A c, n : Belongs(c, n) => Belongs(c, n)'
  /\ \A c \in Known : c \notin Held(holder) \/ c \in undone => (c \notin Held(holder) \/ c \in undone)'
  /\ \A c \in Creds, n \in Names :
       holder[n] = c \/ c \in retired \cup undone => (holder[n] = c \/ c \in retired \cup undone)'

LEMMA HeldTypes == \A s \in Stores : Held(s) \subseteq Creds /\ \A n \in Names : s[n] \in Creds \cup {Nobody}
BY NobodyAssumption DEF Held, Stores

LEMMA CopiesAreStores == StoreTypeOK => Copies \subseteq Stores /\ holder \in Copies /\ Known \subseteq Creds
BY HeldTypes DEF StoreTypeOK, Copies, Known

(* The copies after a save are older copies and the one just saved, whose  *)
(* only news is a credential there never was.                              *)
Origin(t, n, c) ==
  \A m \in Names : t[m] = Nobody \/ (\E s \in Copies : s[m] = t[m]) \/ (t[m] = c /\ m = n /\ c \notin Known)

LEMMA SaveOrigin ==
  ASSUME StoreTypeOK, NEW u \in Commands, NEW n \in Names, Saves(u, n)
  PROVE  \E c \in Creds :
           /\ StoreTypeOK' /\ \A t \in Copies' : Origin(t, n, c)
           /\ Save(holder', c) /\ c \in Held(holder) \cup retired' \cup Held(holder')
           /\ retired \subseteq retired'
           /\ c \in Known => c \in retired' /\ \A m \in Names : holder'[m] = copy[u][m] \/ m = n
           /\ c \in Known => holder'[n] = Nobody /\ copy[u][n] = c
           /\ copy[u] \in Copies
<1>1. copy[u] \in Stores /\ copy[u] \in Copies /\ copy' = [copy EXCEPT ![u] = Nobody]
  BY DEF Saves, StoreTypeOK, Copies
<1>2. ASSUME NEW c \in Creds, Save(holder', c), holder' \in Stores, Origin(holder', n, c)
      PROVE  undone' \subseteq Creds /\ \A t \in Copies' : Origin(t, n, c)
  <2>1. undone' \subseteq Creds
    BY <1>2, HeldTypes DEF Save, StoreTypeOK
  <2>2. Copies' \subseteq Copies \cup {holder'}
    BY <1>1 DEF Copies, StoreTypeOK
  <2>3. \A t \in Copies : Origin(t, n, c)
    BY DEF Origin
  <2> QED BY <1>2, <2>1, <2>2, <2>3
<1>3. CASE Revokes(copy[u], n)
  <2> DEFINE c == copy[u][n]
  <2>1. /\ c \in Creds /\ holder' = [copy[u] EXCEPT ![n] = Nobody] /\ Save(holder', c)
        /\ retired' = retired \cup {c}
    BY <1>1, <1>3 DEF Revokes, Save, Stores
  <2>2. holder' \in Stores /\ \A m \in Names : holder'[m] = IF m = n THEN Nobody ELSE copy[u][m]
    BY <1>1, <2>1 DEF Stores
  <2> HIDE DEF c
  <2>3. Origin(holder', n, c)
    BY <1>1, <2>2 DEF Origin
  <2>4. copy' \in [Commands -> Stores \cup {Nobody}]
    BY <1>1 DEF StoreTypeOK
  <2>5. StoreTypeOK'
    BY <1>2, <2>1, <2>2, <2>3, <2>4 DEF StoreTypeOK
  <2>6. copy[u][n] = c
    BY DEF c
  <2> QED BY <1>1, <1>2, <2>1, <2>2, <2>3, <2>5, <2>6
<1>4. ASSUME NEW c \in Creds, Grants(copy[u], n, c)
      PROVE  /\ StoreTypeOK' /\ \A t \in Copies' : Origin(t, n, c)
             /\ Save(holder', c) /\ c \in Held(holder') /\ retired' = retired /\ c \notin Known
  <2>1. /\ holder' = [copy[u] EXCEPT ![n] = c] /\ Save(holder', c)
        /\ retired' = retired /\ c \notin Known
    BY <1>1, <1>4 DEF Grants, Save, Stores
  <2>2. holder' \in Stores /\ \A m \in Names : holder'[m] = IF m = n THEN c ELSE copy[u][m]
    BY <1>1, <2>1 DEF Stores
  <2>3. Origin(holder', n, c)
    BY <1>1, <2>1, <2>2 DEF Origin
  <2>4. copy' \in [Commands -> Stores \cup {Nobody}]
    BY <1>1 DEF StoreTypeOK
  <2>5. StoreTypeOK'
    BY <1>2, <2>1, <2>2, <2>3, <2>4 DEF StoreTypeOK
  <2>6. c \in Held(holder')
    BY <2>2, NobodyAssumption DEF Held
  <2> QED BY <1>2, <2>1, <2>2, <2>3, <2>5, <2>6
<1> QED BY <1>1, <1>3, <1>4 DEF Saves

LEMMA SaveForward ==
  ASSUME StoreTypeOK, CopiesInv, NEW u \in Commands, NEW n \in Names, Saves(u, n)
  PROVE  Forward
<1>1. PICK c \in Creds :
        /\ StoreTypeOK' /\ \A t \in Copies' : Origin(t, n, c)
        /\ Save(holder', c) /\ c \in Held(holder) \cup retired' \cup Held(holder')
        /\ retired \subseteq retired'
        /\ c \in Known => c \in retired' /\ \A m \in Names : holder'[m] = copy[u][m] \/ m = n
        /\ c \in Known => holder'[n] = Nobody /\ copy[u][n] = c
        /\ copy[u] \in Copies
  BY SaveOrigin
<1>2. /\ Known \subseteq Creds /\ Copies \subseteq Stores /\ Copies' \subseteq Stores
      /\ holder \in Copies /\ holder' \in Copies'
  BY <1>1, CopiesAreStores DEF Copies, StoreTypeOK
<1>3. /\ undone' = undone \cup (((Held(holder') \ Held(holder)) \cup (Held(holder) \ Held(holder'))) \ {c})
      /\ Known' = Held(holder') \cup retired' \cup undone'
  BY <1>1 DEF Save, Known, Held
<1>4. Known \subseteq Known' /\ c \in Known'
  BY <1>1, <1>3 DEF Known
<1>5. ASSUME NEW t \in Copies', NEW m \in Names
      PROVE  t[m] = Nobody \/ (t[m] \in Known /\ \E s \in Copies : s[m] = t[m]) \/ (t[m] = c /\ m = n /\ c \notin Known)
  BY <1>1, <1>5 DEF Origin, CopiesInv, Held
<1>6. CopiesInv'
  <2>1. ASSUME NEW t \in Copies' PROVE Held(t) \subseteq Known'
    BY <1>4, <1>5, <2>1 DEF Held
  <2>2. ASSUME NEW t \in Copies', NEW v \in Copies', NEW m \in Names, NEW k \in Names, t[m] = v[k]
        PROVE  m = k \/ t[m] = Nobody
    BY <1>5, <2>2 DEF CopiesInv
  <2>3. \A t \in Copies' : Held(t)' = Held(t)
    BY DEF Held
  <2> QED BY <2>1, <2>2 DEF CopiesInv, Held
<1>7. ASSUME NEW d, NEW m, Belongs(d, m) PROVE Belongs(d, m)'
  <2>1. d \in Known /\ d # Nobody /\ d \in Known'
    BY <1>2, <1>4, <1>7, NobodyAssumption DEF Belongs
  <2> QED BY <1>5, <1>7, <2>1 DEF Belongs
<1>8. ASSUME NEW d \in Known, d \notin Held(holder) \/ d \in undone
      PROVE  d \notin Held(holder') \/ d \in undone'
  <2>1. CASE d = c
    <3>1. holder'[n] = Nobody /\ copy[u][n] = c /\ \A m \in Names : holder'[m] = copy[u][m] \/ m = n
      BY <1>1, <2>1
    <3>2. \A m \in Names : holder'[m] # c
      BY <1>1, <1>2, <3>1, NobodyAssumption DEF CopiesInv
    <3> QED BY <2>1, <3>2 DEF Held
  <2> QED BY <1>3, <1>8, <2>1
<1>9. ASSUME NEW d \in Creds, NEW m \in Names, holder[m] = d
      PROVE  holder'[m] = d \/ d \in retired' \cup undone'
  <2>1. d \in Held(holder) /\ d \in Known
    BY <1>9, NobodyAssumption DEF Held, Known
  <2>2. CASE d = c
    BY <1>1, <2>1, <2>2
  <2>3. CASE d \in Held(holder')
    BY <1>2, <1>5, <1>9, <2>1, <2>3 DEF Held, CopiesInv
  <2> QED BY <1>3, <2>1, <2>2, <2>3
<1> QED
  <2>1. undone \subseteq undone'
    BY <1>3
  <2>2. Held(holder)' = Held(holder')
    BY DEF Held
  <2> QED BY <1>1, <1>6, <1>7, <1>8, <1>9, <2>1, <2>2 DEF Forward

LEMMA MovesForward ==
  ASSUME StoreTypeOK, CopiesInv, Moves
  PROVE  Forward
<1>1. ASSUME UNCHANGED registry, Copies' \subseteq Copies, copy' \in [Commands -> Stores \cup {Nobody}]
      PROVE  Forward
  <2>1. holder' = holder /\ retired' = retired /\ undone' = undone /\ Known' = Known
        /\ Held(holder)' = Held(holder)
    BY <1>1 DEF registry, Known, Held
  <2>2. CopiesInv'
    BY <1>1, <2>1 DEF CopiesInv, Held
  <2>3. \A c, n : Belongs(c, n) => Belongs(c, n)'
    BY <1>1, <2>1 DEF Belongs
  <2> QED BY <1>1, <2>1, <2>2, <2>3 DEF Forward, StoreTypeOK
<1>2. CASE UNCHANGED registry /\ copy' \in {copy, Gone}
  BY <1>1, <1>2 DEF Copies, Gone, registry, StoreTypeOK
<1>3. ASSUME NEW u \in Commands, UNCHANGED registry,
             copy' \in {[copy EXCEPT ![u] = holder], [copy EXCEPT ![u] = Nobody]}
      PROVE  Forward
  <2>1. Copies' \subseteq Copies /\ copy' \in [Commands -> Stores \cup {Nobody}]
    BY <1>3 DEF Copies, registry, StoreTypeOK
  <2> QED BY <1>1, <1>3, <2>1
<1> QED BY <1>2, <1>3, SaveForward DEF Moves

--------------------------------------------------------------------------------
(* What one request's step does: the store moves, the other requests stay  *)
(* as they are, and its own invariant is kept.                             *)

Idle(q) ==
  /\ kind'[q] = kind[q] /\ name'[q] = name[q] /\ self'[q] = self[q] /\ caller'[q] = caller[q]
  /\ device'[q] = device[q] /\ found'[q] = found[q] /\ step'[q] = step[q]
  /\ answer'[q] = answer[q] /\ unit'[q] = unit[q] /\ effect'[q] = effect[q]

LEMMA StoreTypes == TypeOK => StoreTypeOK
BY DEF TypeOK, StoreTypeOK, Registry!TypeOK, Stores

LEMMA StoresTyped == StoreTypeOK' => Registry!TypeOK'
BY DEF StoreTypeOK, Registry!TypeOK, Stores

(* A request nothing happens to keeps its invariant.                       *)
LEMMA IdleRequest ==
  ASSUME TypeOK, CopiesInv, Forward, NEW q \in Requests, RequestInv(q), Idle(q), copy'[q] \in {copy[q], Nobody}
  PROVE  RequestInv(q)'
<1>1. kind[q] \in {"pair", "revoke"} => name[q] \in Names
  BY DEF RequestInv, TypeOK
<1>2. ASSUME kind[q] = "revoke", RevokeInv(q) PROVE RevokeInv(q)'
  <2>1. unit[q] = "ended" => found[q] \in Known
    BY <1>2 DEF RevokeInv, Checked, Belongs
  <2>2. unit[q] = "ended" => (found[q] \notin Held(holder) \/ found[q] \in undone)'
    BY <1>2, <2>1 DEF RevokeInv, Forward, Idle
  <2>3. \A c, n : Belongs(c, n) => Belongs(c, n)'
    BY DEF Forward
  <2> QED BY <1>2, <2>2, <2>3 DEF RevokeInv, Idle, Checked
<1>3. ASSUME kind[q] = "pair", unit[q] = "ended"
      PROVE  effect[q] \in Creds /\ (holder[name[q]] = effect[q] \/ effect[q] \in retired \cup undone)'
  BY <1>1, <1>3 DEF RequestInv, Forward, Idle
<1> QED
  BY <1>2, <1>3 DEF RequestInv, Idle

Kept(r) ==
  /\ TypeOK' /\ Moves /\ RequestInv(r)'
  /\ \A q \in Requests \ {r} : Idle(q) /\ copy'[q] = copy[q]

LEMMA KeptSuffices ==
  ASSUME ApiInv, NEW r \in Requests, Kept(r)
  PROVE  ApiInv'
<1>1. Forward
  BY StoreTypes, MovesForward DEF ApiInv, Kept
<1>2. ASSUME NEW q \in Requests PROVE RequestInv(q)'
  BY <1>1, IdleRequest DEF ApiInv, Kept
<1> QED BY <1>1, <1>2 DEF ApiInv, Kept, Forward

(* Steps that leave the store and its copies alone.                        *)
LEMMA StoreStays ==
  ASSUME UNCHANGED <<registry, copy>>
  PROVE  /\ Moves /\ UNCHANGED <<holder, retired, undone, copy>> /\ Held(holder)' = Held(holder)
         /\ \A c, n : Belongs(c, n)' = Belongs(c, n)
BY DEF Moves, registry, Belongs, Copies, Known, Held

LEMMA HolderBelongs ==
  ASSUME StoreTypeOK, CopiesInv, NEW n \in Names, holder[n] # Nobody
  PROVE  holder[n] \in Creds /\ Belongs(holder[n], n)
BY CopiesAreStores DEF Belongs, CopiesInv, Held, Known, Stores, StoreTypeOK

LEMMA ReceiveKeeps ==
  ASSUME ApiInv, NEW r \in Requests, NEW k \in Kinds, NEW n \in Names \cup {Nobody}, NEW m \in Names,
         NEW s \in BOOLEAN, Receive(r, k, n, m, s)
  PROVE  Kept(r)
<1> USE NobodyAssumption DEF ApiInv
<1>1. UNCHANGED <<registry, copy>> /\ holder[m] \in Creds /\ Belongs(holder[m], m)
  BY StoreTypes, HolderBelongs DEF Receive
<1>2. /\ Moves /\ UNCHANGED <<holder, retired, undone, copy>> /\ Held(holder)' = Held(holder)
      /\ \A c, d : Belongs(c, d)' = Belongs(c, d)
  BY <1>1, StoreStays
<1>3. TypeOK'
  BY <1>1, <1>2 DEF Receive, TypeOK, Registry!TypeOK, Goto, Waiting
<1>4. RequestInv(r)'
  <2>1. /\ kind'[r] = k /\ name'[r] = n /\ step'[r] = "check" /\ unit'[r] = "none" /\ answer'[r] = "none"
        /\ effect'[r] = Nobody /\ (n = Nobody <=> k \in {"off", "reboot"}) /\ unit[r] # "running"
    BY DEF Receive, TypeOK, Goto
  <2>2. ASSUME k = "revoke" PROVE device'[r] = m /\ caller'[r] = holder[m]
    BY <2>2 DEF Receive, TypeOK
  <2>3. k = "revoke" => RevokeInv(r)'
    BY <1>1, <1>2, <2>1, <2>2 DEF RevokeInv, Checked
  <2>4. copy'[r] = Nobody
    BY <1>2, <2>1 DEF RequestInv
  <2> QED BY <2>1, <2>3, <2>4 DEF RequestInv, Kinds
<1>5. \A q \in Requests \ {r} : Idle(q) /\ copy'[q] = copy[q]
  BY <1>2 DEF Receive, TypeOK, Idle, Goto
<1> QED BY <1>2, <1>3, <1>4, <1>5 DEF Kept

LEMMA CheckKeeps ==
  ASSUME ApiInv, NEW r \in Requests, Check(r)
  PROVE  Kept(r)
<1> USE NobodyAssumption DEF ApiInv, Check, Goto, Answer, Proceed, Report, Enabled
<1> USE DEF CheckPair, CheckRevoke, CheckOff, CheckReboot
<1>1. /\ Moves /\ UNCHANGED <<holder, retired, undone, copy>> /\ Held(holder)' = Held(holder)
      /\ \A c, d : Belongs(c, d)' = Belongs(c, d)
  BY StoreStays
<1>2. TypeOK'
  <2>1. kind[r] = "revoke" => holder[name[r]] \in Creds \cup {Nobody}
    BY DEF TypeOK, Registry!TypeOK, RequestInv
  <2> QED BY <2>1, <1>1 DEF TypeOK, Registry!TypeOK, Waiting, asked
<1>3. RequestInv(r)'
  <2>1. CASE kind[r] = "revoke"
    <3>1. name[r] \in Names /\ RevokeInv(r) /\ unit[r] = "none" /\ effect'[r] = effect[r]
      BY <2>1 DEF RequestInv, TypeOK
    <3>2. holder[name[r]] # Nobody => Belongs(holder[name[r]], name[r])
      BY <3>1, StoreTypes, HolderBelongs
    <3>3. RevokeInv(r)'
      <4>1. name' = name /\ self' = self /\ caller' = caller /\ device' = device /\ unit' = unit
        BY DEF asked
      <4>2. /\ found'[r] = holder[name[r]] /\ step'[r] \in {"idle", "sudo"}
            /\ step'[r] = "sudo" => holder[name[r]] # Nobody /\ (device[r] # name[r] \/ self[r])
            /\ step[r] = "check"
        BY <2>1 DEF TypeOK
      <4> QED BY <1>1, <3>1, <3>2, <4>1, <4>2 DEF RevokeInv, Checked
    <3> QED BY <1>1, <2>1, <3>1, <3>3 DEF RequestInv, TypeOK, Waiting, asked
  <2>2. CASE kind[r] # "revoke"
    BY <2>2, <1>1 DEF RequestInv, TypeOK, Waiting, asked
  <2> QED BY <2>1, <2>2
<1>4. \A q \in Requests \ {r} : Idle(q) /\ copy'[q] = copy[q]
  BY <1>1 DEF TypeOK, Idle, asked
<1> QED BY <1>1, <1>2, <1>3, <1>4 DEF Kept

LEMMA HandlerKeeps ==
  ASSUME ApiInv, NEW r \in Requests, Sudo(r) \/ Collect(r) \/ Timeout(r)
  PROVE  Kept(r)
<1> USE NobodyAssumption DEF ApiInv, Sudo, Collect, Timeout, Goto, Answer, Failed, Report, Enabled
<1>1. /\ Moves /\ UNCHANGED <<holder, retired, undone, copy, grant, ssh, asked, found, effect>>
      /\ Held(holder)' = Held(holder) /\ \A c, d : Belongs(c, d)' = Belongs(c, d)
  BY StoreStays
<1>2. TypeOK'
  BY <1>1 DEF TypeOK, Registry!TypeOK, Waiting, asked
<1>3. RequestInv(r)'
  <2>1. kind[r] = "revoke" => RevokeInv(r)'
    <3> SUFFICES ASSUME kind[r] = "revoke" PROVE RevokeInv(r)'
      BY DEF asked
    <3>1. RevokeInv(r) /\ step[r] \in {"sudo", "wait"}
      BY DEF RequestInv
    <3>2. step'[r] \in {"idle", "wait"} /\ (unit'[r] = unit[r] \/ unit'[r] = "running")
      BY <3>1 DEF TypeOK
    <3> QED BY <1>1, <3>1, <3>2 DEF RevokeInv, Checked, asked
  <2> QED BY <1>1, <2>1 DEF RequestInv, TypeOK, Waiting, asked
<1>4. \A q \in Requests \ {r} : Idle(q) /\ copy'[q] = copy[q]
  BY <1>1 DEF TypeOK, Idle, asked
<1> QED BY <1>1, <1>2, <1>3, <1>4 DEF Kept

(* A unit takes its copy of the store.                                     *)
LEMMA UnitLoadsKeeps ==
  ASSUME ApiInv, NEW r \in Requests, UnitLoads(r)
  PROVE  Kept(r)
<1> USE NobodyAssumption DEF ApiInv, UnitLoads
<1>1. /\ Moves /\ UNCHANGED <<registry, grant, ssh, asked, found, step, answer, unit, effect>>
      /\ copy' = [copy EXCEPT ![r] = holder] /\ unit[r] = "running"
  BY DEF Moves, Commands
<1>2. Forward
  BY <1>1, StoreTypes, MovesForward
<1>3. TypeOK'
  BY <1>1, <1>2, StoresTyped DEF TypeOK, Forward, StoreTypeOK, asked
<1>4. RequestInv(r)'
  <2>1. RevokeInv(r) => RevokeInv(r)'
    BY <1>1, <1>2 DEF RevokeInv, Checked, Forward, asked
  <2> QED BY <1>1, <2>1 DEF RequestInv, asked
<1>5. \A q \in Requests \ {r} : Idle(q) /\ copy'[q] = copy[q]
  BY <1>1 DEF TypeOK, Idle, asked, Commands
<1> QED BY <1>1, <1>3, <1>4, <1>5 DEF Kept

LEMMA UnitPairsKeeps ==
  ASSUME ApiInv, NEW r \in Requests, UnitPairs(r)
  PROVE  Kept(r)
<1> USE NobodyAssumption DEF ApiInv, UnitPairs, Ends
<1>1. PICK c \in Creds : Grants(copy[r], name[r], c) /\ effect' = [effect EXCEPT ![r] = c]
  OBVIOUS
<1>2. /\ name[r] \in Names /\ unit[r] = "running" /\ copy[r] # Nobody
      /\ copy' = [copy EXCEPT ![r] = Nobody] /\ unit' = [unit EXCEPT ![r] = "ended"]
      /\ UNCHANGED <<grant, ssh, asked, found, step, answer>>
  BY DEF RequestInv, TypeOK
<1>3. Moves
  BY <1>1, <1>2 DEF Moves, Saves, Commands
<1>4. Forward
  BY <1>3, StoreTypes, MovesForward
<1>5. TypeOK'
  BY <1>1, <1>2, <1>4, StoresTyped DEF TypeOK, Forward, StoreTypeOK, asked
<1>6. RequestInv(r)'
  <2>1. copy[r] \in Stores
    BY <1>2 DEF TypeOK, Commands
  <2>2. holder'[name[r]] = c
    BY <1>1, <1>2, <2>1 DEF Grants, Save, Stores
  <2>3. /\ effect'[r] = c /\ name'[r] = name[r] /\ kind'[r] = "pair" /\ unit'[r] = "ended" /\ copy'[r] = Nobody
        /\ step' = step /\ answer' = answer
    BY <1>1, <1>2 DEF TypeOK, asked, Commands
  <2> QED BY <1>2, <2>2, <2>3 DEF RequestInv
<1>7. \A q \in Requests \ {r} : Idle(q) /\ copy'[q] = copy[q]
  BY <1>1, <1>2 DEF TypeOK, Idle, asked, Commands
<1> QED BY <1>3, <1>5, <1>6, <1>7 DEF Kept

(* The command of a revocation takes what the request found out of the     *)
(* store, or it is out already, and never the request's own credential.    *)
LEMMA UnitRevokesKeeps ==
  ASSUME ApiInv, NEW r \in Requests, UnitRevokes(r)
  PROVE  Kept(r)
<1> USE NobodyAssumption DEF ApiInv, UnitRevokes, Ends
<1>1. /\ name[r] \in Names /\ kind[r] = "revoke" /\ RevokeInv(r) /\ unit[r] = "running" /\ copy[r] # Nobody
      /\ copy' = [copy EXCEPT ![r] = Nobody] /\ effect' = [effect EXCEPT ![r] = copy[r][name[r]]]
      /\ unit'[r] \in {"ended", "failed"} /\ unit' = [unit EXCEPT ![r] = unit'[r]]
      /\ UNCHANGED <<grant, ssh, asked, found, step, answer>> /\ Revokes(copy[r], name[r])
  BY DEF RequestInv, TypeOK
<1>2. Moves
  BY <1>1 DEF Moves, Saves, Commands
<1>3. Forward
  BY <1>2, StoreTypes, MovesForward
<1>4. /\ copy[r] \in Stores /\ copy[r] \in Copies /\ copy[r][name[r]] \in Creds
      /\ holder' = [copy[r] EXCEPT ![name[r]] = Nobody]
  BY <1>1 DEF TypeOK, Commands, Copies, Stores, Revokes, Save
<1>5. TypeOK'
  BY <1>1, <1>3, <1>4, StoresTyped DEF TypeOK, Forward, StoreTypeOK, asked
<1>6. RequestInv(r)'
  <2>1. \A c, n : Belongs(c, n) => Belongs(c, n)'
    BY <1>3 DEF Forward
  <2>2. Belongs(found[r], name[r])
    BY <1>1 DEF RevokeInv, Checked
  <2>3. found[r] \notin Held(holder)'
    BY <1>1, <1>4, <2>2 DEF Belongs, Held, Stores
  <2>4. ~self[r] => copy[r][name[r]] # caller[r]
    BY <1>1, <1>4 DEF RevokeInv, Checked, Belongs
  <2>5. /\ effect'[r] = copy[r][name[r]] /\ step' = step /\ found' = found /\ answer' = answer /\ copy'[r] = Nobody
        /\ name' = name /\ self' = self /\ caller' = caller /\ device' = device /\ kind' = kind
    BY <1>1 DEF TypeOK, asked, Commands
  <2>6. RevokeInv(r)'
    BY <1>1, <2>1, <2>3, <2>4, <2>5 DEF RevokeInv, Checked
  <2> QED BY <1>1, <2>5, <2>6 DEF RequestInv
<1>7. \A q \in Requests \ {r} : Idle(q) /\ copy'[q] = copy[q]
  BY <1>1 DEF TypeOK, Idle, asked, Commands
<1> QED BY <1>2, <1>5, <1>6, <1>7 DEF Kept

LEMMA OtherUnitsKeep ==
  ASSUME ApiInv, NEW r \in Requests, UnitRemovesGrant(r) \/ UnitFails(r)
  PROVE  Kept(r)
<1> USE NobodyAssumption DEF ApiInv, UnitRemovesGrant, UnitFails, Ends
<1>1. /\ UNCHANGED <<registry, ssh, asked, found, step, answer>> /\ grant' \in {grant, FALSE}
      /\ copy' = [copy EXCEPT ![r] = Nobody] /\ effect' = [effect EXCEPT ![r] = Nobody]
      /\ unit[r] = "running" /\ unit' = [unit EXCEPT ![r] = unit'[r]]
      /\ unit'[r] = "failed" \/ (unit'[r] = "ended" /\ kind[r] = "off")
  BY DEF TypeOK
<1>2. Moves
  BY <1>1 DEF Moves, Commands
<1>3. Forward
  BY <1>2, StoreTypes, MovesForward
<1>4. TypeOK'
  <2>1. /\ unit' \in [Requests -> {"none", "running", "ended", "failed"}]
        /\ effect' \in [Requests -> Creds \cup {Nobody}]
    <3>1. unit'[r] \in {"none", "running", "ended", "failed"}
      BY <1>1
    <3> QED BY <1>1, <3>1 DEF TypeOK
  <2>2. grant' \in BOOLEAN
    BY <1>1 DEF TypeOK
  <2> QED BY <1>1, <1>3, <2>1, <2>2, StoresTyped DEF TypeOK, Forward, StoreTypeOK, asked
<1>5. RequestInv(r)'
  <2>1. copy'[r] = Nobody /\ effect'[r] = Nobody
    BY <1>1 DEF TypeOK, Commands
  <2>2. kind[r] = "revoke" => RevokeInv(r)'
    BY <1>1, <1>3, <2>1 DEF RequestInv, RevokeInv, Checked, Forward, asked
  <2> QED BY <1>1, <2>1, <2>2 DEF RequestInv, asked
<1>6. \A q \in Requests \ {r} : Idle(q) /\ copy'[q] = copy[q]
  BY <1>1 DEF TypeOK, Idle, asked, Commands
<1> QED BY <1>2, <1>4, <1>5, <1>6 DEF Kept

(* A restart of the daemon, or a reboot, ends every request.               *)
LEMMA RestartKeeps ==
  ASSUME ApiInv, DaemonRestarts \/ \E r \in Requests : UnitReboots(r)
  PROVE  ApiInv'
<1> USE DEF ApiInv, DaemonRestarts, UnitReboots, Each
<1>1. UNCHANGED <<registry, grant, asked, found, effect>> /\ copy' \in {copy, Gone} /\ Moves
  BY DEF Moves, Gone
<1>2. Forward
  BY <1>1, StoreTypes, MovesForward
<1>3. TypeOK'
  BY <1>1, <1>2, StoresTyped DEF TypeOK, Forward, StoreTypeOK, asked
<1>4. ASSUME NEW q \in Requests PROVE RequestInv(q)'
  <2>1. step'[q] = "idle" /\ answer'[q] = "none" /\ unit'[q] \in {"none", unit[q]}
    OBVIOUS
  <2>2. copy'[q] \in {copy[q], Nobody} /\ (copy'[q] # Nobody => unit'[q] = unit[q])
    BY DEF Gone, Commands
  <2>3. UNCHANGED <<holder, retired, undone>> /\ Held(holder)' = Held(holder)
    BY <1>1 DEF registry, Held
  <2>4. kind[q] = "revoke" => RevokeInv(q)'
    BY <1>1, <1>2, <2>1, <2>3 DEF RequestInv, RevokeInv, Checked, Forward, asked
  <2> QED BY <1>1, <2>1, <2>2, <2>3, <2>4 DEF RequestInv, Waiting, asked
<1> QED BY <1>2, <1>3, <1>4 DEF Forward

(* The owner's scripts and commands leave the requests alone.              *)
LEMMA OwnerKeeps ==
  ASSUME ApiInv,
         \/ \E h \in Hands : HandLoads(h) \/ HandFails(h) \/ \E n \in Names : HandSaves(h, n)
         \/ Enable \/ Validate \/ RefreshTest \/ RefreshWrite
  PROVE  ApiInv'
<1> USE DEF ApiInv
<1>1. CASE Enable \/ Validate \/ RefreshTest \/ RefreshWrite
  <2>1. /\ Moves /\ UNCHANGED <<registry, copy, asked, found, step, answer, unit, effect>>
        /\ grant' \in BOOLEAN /\ ssh' \in {"idle", "validate", "refresh"}
    BY <1>1 DEF Enable, Validate, RefreshTest, RefreshWrite, Moves, TypeOK
  <2>2. Forward
    BY <2>1, StoreTypes, MovesForward
  <2>3. TypeOK'
    BY <2>1, <2>2, StoresTyped DEF TypeOK, Forward, StoreTypeOK, asked
  <2>4. \A q \in Requests : RequestInv(q)'
    BY <2>1, <2>2, IdleRequest DEF Idle, asked
  <2> QED BY <2>2, <2>3, <2>4 DEF Forward
<1>2. ASSUME NEW h \in Hands, HandLoads(h) \/ HandFails(h) \/ \E n \in Names : HandSaves(h, n)
      PROVE  ApiInv'
  <2>1. Moves /\ UNCHANGED <<grant, ssh, asked, found, step, answer, unit, effect>>
    BY <1>2 DEF HandLoads, HandFails, HandSaves, Moves, Saves, Commands
  <2>2. Forward
    BY <2>1, StoreTypes, MovesForward
  <2>3. TypeOK'
    BY <2>1, <2>2, StoresTyped DEF TypeOK, Forward, StoreTypeOK, asked
  <2>4. \A q \in Requests : copy'[q] = copy[q]
    BY <1>2, CommandsAssumption DEF HandLoads, HandFails, HandSaves, TypeOK, Commands
  <2>5. \A q \in Requests : RequestInv(q)'
    BY <2>1, <2>2, <2>4, IdleRequest DEF Idle, asked
  <2> QED BY <2>2, <2>3, <2>5 DEF Forward
<1> QED BY <1>1, <1>2

LEMMA NextKeeps == ApiInv /\ [Next]_vars => ApiInv'
<1> SUFFICES ASSUME ApiInv, [Next]_vars PROVE ApiInv'
  OBVIOUS
<1>1. ASSUME NEW r \in Requests, Handler(r) PROVE ApiInv'
  BY <1>1, CheckKeeps, HandlerKeeps, KeptSuffices DEF Handler
<1>2. ASSUME NEW r \in Requests, Unit(r) PROVE ApiInv'
  BY <1>2, UnitLoadsKeeps, UnitPairsKeeps, UnitRevokesKeeps, OtherUnitsKeep, KeptSuffices, RestartKeeps DEF Unit
<1>3. ASSUME NEW r \in setting.requests, NEW k \in setting.kinds, NEW n \in Names \cup {Nobody}, NEW m \in Names,
             NEW s \in BOOLEAN, Receive(r, k, n, m, s)
      PROVE  ApiInv'
  <2>1. r \in Requests /\ k \in Kinds
    BY <1>3, CommandsAssumption DEF ApiInv, TypeOK, Setting
  <2> QED BY <1>3, <2>1, ReceiveKeeps, KeptSuffices
<1>4. CASE UNCHANGED vars
  <2>1. Moves /\ \A q \in Requests : Idle(q) /\ copy'[q] = copy[q]
    BY <1>4 DEF vars, asked, Moves, Idle
  <2>2. Forward
    BY <2>1, StoreTypes, MovesForward DEF ApiInv
  <2>3. TypeOK'
    BY <1>4 DEF vars, asked, registry, ApiInv, TypeOK, Registry!TypeOK
  <2> QED BY <2>1, <2>2, <2>3, IdleRequest DEF ApiInv, Forward
<1>5. setting.hands \subseteq Hands
  BY CommandsAssumption DEF ApiInv, TypeOK, Setting
<1> QED BY <1>1, <1>2, <1>3, <1>4, <1>5, OwnerKeeps, RestartKeeps DEF Next

LEMMA InitHolds == Init => ApiInv
<1> SUFFICES ASSUME Init PROVE ApiInv
  OBVIOUS
<1> USE NobodyAssumption DEF Init, Each, Registry!Init
<1>1. TypeOK
  BY DEF TypeOK, Registry!TypeOK, Kinds
<1>2. Copies = {holder}
  BY DEF Copies
<1>3. CopiesInv
  BY <1>2 DEF CopiesInv, Known, Held
<1> QED BY <1>1, <1>3 DEF ApiInv, RequestInv, Waiting, Commands

(* The inductive invariant of the requests, their commands and the store   *)
(* they load and save without a lock, for any number of each.              *)
THEOREM ApiInvariant == Spec => []ApiInv
<1> QED BY InitHolds, NextKeeps, PTL DEF Spec

(* What a device is told of a pairing or a revocation is so, whatever      *)
(* timed out, overlapped or restarted, unless the save of another command, *)
(* from a copy of the store loaded before, granted or revoked its          *)
(* credential.                                                             *)
THEOREM AnswersTrue == Spec => []AnswersAreTrue
<1>1. ApiInv => AnswersAreTrue
  <2> SUFFICES ASSUME ApiInv, NEW r \in Requests, answer[r] = "done"
               PROVE  /\ kind[r] = "pair" => effect[r] # Nobody /\ (holder[name[r]] = effect[r] \/ effect[r] \in retired \cup undone)
                      /\ kind[r] = "revoke" => found[r] # Nobody /\ (found[r] \notin Held(holder) \/ found[r] \in undone)
    BY DEF AnswersAreTrue
  <2>1. Known \subseteq Creds
    BY StoreTypes, CopiesAreStores DEF ApiInv
  <2> QED BY <2>1, NobodyAssumption DEF ApiInv, RequestInv, RevokeInv, Checked, Belongs
<1> QED BY <1>1, ApiInvariant, PTL

(* A request that did not ask for it never revokes its own device, however *)
(* commands overlap.                                                       *)
THEOREM OwnDeviceKept == Spec => []NeverCutsItselfOff
<1>1. ApiInv => NeverCutsItselfOff
  BY DEF ApiInv, RequestInv, RevokeInv, NeverCutsItselfOff
<1> QED BY <1>1, ApiInvariant, PTL

================================================================================
