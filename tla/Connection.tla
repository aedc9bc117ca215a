------------------------------ MODULE Connection ------------------------------
(***************************************************************************)
(* What the app knows about the server it is paired with: whether it       *)
(* answers /api/v1/health, and its version.  Requests are answered later,  *)
(* in any order, and the app may have been paired with another server      *)
(* since.  Hosts are addresses inside a tunnel, so two servers may well    *)
(* have the same one.                                                      *)
(***************************************************************************)
EXTENDS Integers, TLAPS

CONSTANTS
  Servers,     \* the servers the app may be paired with
  HostOf,      \* the host:port each is reached at
  Ids,         \* names for the checks in flight: bounds their number
  None

(* kReachabilityGraceFailures *)
Grace == 3

ASSUME ConstantsAssumption == None \notin Ids \cup Servers

VARIABLES
  paired,     \* the server _host and _token name, or None
  reachable,  \* _reachable: "null", "yes" or "no"
  failures,   \* _healthFailures, counted up to Grace
  answeredBy, \* the server whose answer made reachable "yes"
  asked,      \* the server each health check in flight was sent to
  fresh,      \* those sent since the pairing last changed
  inFlight,   \* _healthInFlight
  version,    \* the server whose version _backendVersion is
  refreshes,  \* the servers a refreshBackendVersion is asking
  up          \* the servers that answer

health == <<reachable, failures, answeredBy>>
checks == <<asked, fresh, inFlight>>
vars == <<paired, health, checks, version, refreshes, up>>

TypeOK ==
  /\ paired \in Servers \cup {None}
  /\ reachable \in {"null", "yes", "no"} /\ failures \in 0..Grace /\ answeredBy \in Servers \cup {None}
  /\ asked \in [Ids -> Servers \cup {None}] /\ fresh \subseteq Ids
  /\ inFlight \in Ids \cup {None}
  /\ version \in Servers \cup {None}
  /\ refreshes \subseteq Servers /\ up \subseteq Servers

Init ==
  /\ paired \in Servers \cup {None}
  /\ reachable = "null" /\ failures = 0 /\ answeredBy = None
  /\ asked = [i \in Ids |-> None] /\ fresh = {} /\ inFlight = None
  /\ version = None
  /\ refreshes = IF paired = None THEN {} ELSE {paired}
  /\ up \in SUBSET Servers

--------------------------------------------------------------------------------
(* pair and unpair. *)

Reset ==
  /\ reachable' = "null" /\ failures' = 0 /\ answeredBy' = None
  /\ fresh' = {}

(* The version shown stays until a request brings another.                 *)
Pair(s) ==
  /\ paired' = s
  /\ Reset
  /\ refreshes' = refreshes \cup {s}
  /\ UNCHANGED <<asked, inFlight, version, up>>

Unpair ==
  /\ paired # None /\ paired' = None
  /\ Reset
  /\ version' = None
  /\ UNCHANGED <<asked, inFlight, refreshes, up>>

--------------------------------------------------------------------------------
(* Health checks. *)

(* checkReachable: a check of the same host that is under way stands in    *)
(* for this one.                                                           *)
Shares == inFlight # None /\ HostOf[asked[inFlight]] = HostOf[paired]

CheckUntilOffline ==
  /\ paired # None /\ ~Shares /\ reachable # "no"
  /\ \E i \in Ids :
       /\ asked[i] = None
       /\ asked' = [asked EXCEPT ![i] = paired] /\ fresh' = fresh \cup {i} /\ inFlight' = i
  /\ UNCHANGED <<paired, health, version, refreshes, up>>

CheckReachable ==
  /\ paired # None /\ ~Shares
  /\ \E i \in Ids :
       /\ asked[i] = None
       /\ asked' = [asked EXCEPT ![i] = paired] /\ fresh' = fresh \cup {i} /\ inFlight' = i
  /\ UNCHANGED <<paired, health, version, refreshes, up>>

(* whenComplete forgets the check only while it is the latest one.         *)
ClearIfLatest(i) == inFlight' = IF i = inFlight THEN None ELSE inFlight

TakeAnyVerdict(s) == TRUE

(* A verdict is taken unless the app now has another host.                 *)
TakeVerdict(s) == paired # None /\ HostOf[paired] = HostOf[s]

Answered(s) ==
  /\ s \in up
  /\ version' = s
  /\ IF TakeVerdict(s)
     THEN reachable' = "yes" /\ failures' = 0 /\ answeredBy' = s
     ELSE UNCHANGED health

(* A server that was answering stays reachable through a few misses.       *)
Missed(s) ==
  /\ s \notin up \/ s # paired
  /\ IF TakeVerdict(s)
     THEN LET count == IF failures < Grace THEN failures + 1 ELSE Grace
              kept == reachable = "yes" /\ count < Grace
          IN  /\ failures' = count
              /\ reachable' = IF kept THEN "yes" ELSE "no"
              /\ answeredBy' = IF kept THEN answeredBy ELSE None
     ELSE UNCHANGED health
  /\ UNCHANGED version

(* _checkReachable ends: with an answer, an error or the timeout.  "Up"    *)
(* means answering in time, and an answer may get lost with the tunnel.    *)
CheckEnds(i) ==
  /\ asked[i] # None
  /\ Answered(asked[i]) \/ Missed(asked[i])
  /\ asked' = [asked EXCEPT ![i] = None] /\ fresh' = fresh \ {i}
  /\ ClearIfLatest(i)
  /\ UNCHANGED <<paired, refreshes, up>>

--------------------------------------------------------------------------------
(* refreshBackendVersion, and the servers. *)

RefreshEnds(s) ==
  /\ s \in refreshes
  /\ refreshes' = refreshes \ {s}
  /\ \/ s \in up /\ version' = s
     \/ UNCHANGED version
  /\ UNCHANGED <<paired, health, checks, up>>

RefreshVersion ==
  /\ paired # None
  /\ refreshes' = refreshes \cup {paired}
  /\ UNCHANGED <<paired, health, checks, version, up>>

ServerTurns(s) ==
  /\ up' = IF s \in up THEN up \ {s} ELSE up \cup {s}
  /\ UNCHANGED <<paired, health, checks, version, refreshes>>

--------------------------------------------------------------------------------

Next ==
  \/ \E s \in Servers : Pair(s) \/ RefreshEnds(s) \/ ServerTurns(s)
  \/ Unpair \/ CheckReachable \/ RefreshVersion
  \/ \E i \in Ids : CheckEnds(i)

Spec == Init /\ [][Next]_vars

(* A timer asks again and again, and every request ends within its timeout.*)
FairSpec ==
  Spec /\ WF_vars(CheckReachable) /\ \A i \in Ids : WF_vars(CheckEnds(i))

--------------------------------------------------------------------------------

(* "Reachable" rests on an answer from the address the app is paired with, *)
(* never on one from the address it was paired with before.  The code      *)
(* tells servers apart by their address, which need not be their own: a    *)
(* server of an earlier pairing with the same address counts for this one. *)
AnswerFromThisAddress ==
  reachable = "yes" => /\ {paired, answeredBy} \subseteq Servers
                       /\ HostOf[answeredBy] = HostOf[paired]

(* Calls made while a check runs share its result: one pairing never has   *)
(* two checks of its own in flight.                                        *)
OneCheckAtATime == \A i, j \in fresh : i = j

(* A server that stays up and paired is shown as reachable again and       *)
(* again, whatever checks of earlier pairings are still under way.         *)
RecoveryShown ==
  \A s \in Servers : <>[](paired = s /\ s \in up) => []<>(reachable = "yes")

(* The inductive invariant: a check of this pairing is the latest one.     *)
CheckInv ==
  /\ TypeOK /\ AnswerFromThisAddress
  /\ \A i \in fresh : i = inFlight /\ asked[i] = paired
  /\ inFlight # None => asked[inFlight] # None

--------------------------------------------------------------------------------
(* What is shown as reachable has answered, and checks are shared, for any *)
(* servers, addresses and requests.                                        *)

LEMMA InitInv == Init => CheckInv
  BY DEF Init, CheckInv, TypeOK, AnswerFromThisAddress, Grace

LEMMA CheckEndsKeeps ==
  ASSUME CheckInv, NEW i \in Ids, CheckEnds(i)
  PROVE  CheckInv'
<1> USE DEF CheckInv, TypeOK
<1> DEFINE s == asked[i]
<1>1. s \in Servers /\ asked' \in [Ids -> Servers \cup {None}]
  BY DEF CheckEnds
<1>2. fresh' \subseteq Ids /\ \A j \in fresh' : j # i /\ j \in fresh /\ asked'[j] = asked[j]
  BY DEF CheckEnds
<1>3. inFlight' \in Ids \cup {None} /\ (inFlight' # None => inFlight' = inFlight /\ inFlight # i)
  BY DEF CheckEnds, ClearIfLatest
<1>4. TakeVerdict(s) => paired \in Servers /\ HostOf[s] = HostOf[paired]
  BY <1>1 DEF TakeVerdict
<1>5. /\ reachable' \in {"null", "yes", "no"} /\ failures' \in 0..Grace
      /\ answeredBy' \in Servers \cup {None} /\ version' \in Servers \cup {None}
      /\ (reachable' = "yes" => {paired, answeredBy'} \subseteq Servers /\ HostOf[answeredBy'] = HostOf[paired])
  <2> HIDE DEF s
  <2>1. CASE Answered(s)
    BY <2>1, <1>1, <1>4 DEF Answered, health, AnswerFromThisAddress, Grace
  <2>2. CASE Missed(s)
    BY <2>2, <1>1, <1>4 DEF Missed, health, AnswerFromThisAddress, Grace
  <2> QED BY <2>1, <2>2 DEF CheckEnds, s
<1>6. UNCHANGED <<paired, refreshes, up>>
  BY DEF CheckEnds
<1>7. \A j \in fresh' : j = inFlight' /\ asked'[j] = paired
  BY <1>2 DEF CheckEnds, ClearIfLatest
<1>8. inFlight' # None => asked'[inFlight'] # None
  BY <1>3, ConstantsAssumption DEF CheckEnds
<1> QED BY <1>1, <1>2, <1>3, <1>5, <1>6, <1>7, <1>8 DEF AnswerFromThisAddress

LEMMA CheckInvKept ==
  ASSUME CheckInv, [Next]_vars
  PROVE  CheckInv'
<1> USE DEF CheckInv, TypeOK, AnswerFromThisAddress, Grace
<1>1. ASSUME NEW s \in Servers, Pair(s) PROVE CheckInv'
  BY <1>1 DEF Pair, Reset
<1>2. CASE Unpair
  BY <1>2 DEF Unpair, Reset
<1>3. CASE CheckReachable
  <2>1. PICK i \in Ids :
          asked[i] = None /\ asked' = [asked EXCEPT ![i] = paired]
          /\ fresh' = fresh \cup {i} /\ inFlight' = i
    BY <1>3 DEF CheckReachable
  <2>2. fresh = {}
    BY <1>3, ConstantsAssumption DEF CheckReachable, Shares
  <2> QED BY <1>3, <2>1, <2>2 DEF CheckReachable, health
<1>4. ASSUME NEW i \in Ids, CheckEnds(i) PROVE CheckInv'
  BY <1>4, CheckEndsKeeps
<1>5. ASSUME NEW s \in Servers, RefreshEnds(s) \/ ServerTurns(s) PROVE CheckInv'
  BY <1>5 DEF RefreshEnds, ServerTurns, health, checks
<1>6. CASE RefreshVersion
  BY <1>6 DEF RefreshVersion, health, checks
<1>7. CASE UNCHANGED vars
  BY <1>7 DEF vars, health, checks
<1> QED BY <1>1, <1>2, <1>3, <1>4, <1>5, <1>6, <1>7 DEF Next

(* For any servers and addresses, the invariant the two rest on.           *)
THEOREM ConnectionInvariant == Spec => []CheckInv
<1> QED BY InitInv, CheckInvKept, PTL DEF Spec

(* For any servers and addresses, shared ones too: what is shown as        *)
(* reachable rests on an answer from the address the app is paired with.   *)
THEOREM ShownServerAnswered == Spec => []AnswerFromThisAddress
<1>1. CheckInv => AnswerFromThisAddress
  BY DEF CheckInv
<1> QED BY <1>1, ConnectionInvariant, PTL

(* For any servers and addresses: checks of one pairing are shared.        *)
THEOREM ChecksShared == Spec => []OneCheckAtATime
<1>1. CheckInv => OneCheckAtATime
  BY DEF CheckInv, OneCheckAtATime
<1> QED BY <1>1, ConnectionInvariant, PTL

================================================================================
