----------------------------- MODULE PairingProofs -----------------------------
(***************************************************************************)
(* Proofs about Pairing, for any number of command slots, names,           *)
(* credentials and addresses.                                              *)
(***************************************************************************)
EXTENDS Pairing, TLAPS

USE DEF ServerIP, NoIP

LEMMA NoEntryType == NoEntry \in Entry
BY ConstantsAssumption DEF NoEntry, Entry

(* A saved array, a truncated file and a missing file are all file states. *)
LEMMA FileStates ==
  /\ Absent \in File /\ Empty \in File /\ Torn \in File
  /\ \A S \in SUBSET Entry : Whole(S) \in File
BY DEF File, Absent, Empty, Torn, Whole

LEMMA InitType == Init => TypeOK
<1> SUFFICES ASSUME Init PROVE TypeOK
  OBVIOUS
<1> USE ConstantsAssumption
<1>1. store \in File /\ tmp \in File
  BY FileStates DEF Init
<1>2. /\ entry \in [Procs -> Entry]
      /\ op \in [Procs -> {"pair", "unpair"}]
      /\ pc \in [Procs -> Steps]
      /\ snap \in [Procs -> SUBSET Entry]
      /\ confSnap \in [Procs -> SUBSET Peer]
      /\ fd \in [Procs -> {"none", "tmp", "store", "gone"}]
  BY NoEntryType DEF Init, Steps
<1>3. live \subseteq LivePeer
  BY DEF Init, Peer, LivePeer
<1>4. fate \in [Creds -> Fates]
  BY DEF Init, Fates
<1> QED
  BY <1>1, <1>2, <1>3, <1>4 DEF Init, TypeOK

(* Each step keeps every variable in its set. *)
LEMMA StepType ==
  ASSUME TypeOK, NEW p \in Procs, Step(p)
  PROVE  TypeOK'
<1> USE ConstantsAssumption DEF TypeOK, files, daemon
<1>e. ASSUME Exit(p)
      PROVE  /\ pc' = [pc EXCEPT ![p] = "idle"]
             /\ pc' \in [Procs -> Steps]
             /\ op' \in [Procs -> {"pair", "unpair"}]
             /\ entry' \in [Procs -> Entry]
             /\ snap' \in [Procs -> SUBSET Entry]
             /\ confSnap' \in [Procs -> SUBSET Peer]
             /\ \A q \in Procs : pc'[q] \in {"setlive", "append"} => PeerOf(entry[q])' \in Peer
  BY <1>e, NoEntryType DEF Exit, Steps, PeerOf
<1>f. ASSUME Fail(p) PROVE fate' \in [Creds -> Fates]
  BY <1>f DEF Fail, Fates
<1>u. ASSUME Unpaired(p, "revoked") \/ Unpaired(p, "unpaired") PROVE fate' \in [Creds -> Fates]
  BY <1>u DEF Unpaired, Fates
<1>s. ASSUME NEW q \in Procs PROVE ToSave(q) \in SUBSET Entry
  BY DEF ToSave
<1>o. ASSUME NEW f \in File, NEW q \in Procs PROVE Overwrite(f, ToSave(q)) \subseteq File
  BY <1>s, FileStates DEF Overwrite
<1>1. ASSUME NEW n \in Names, StartPair(p, n) PROVE TypeOK'
  <2>1. [NoEntry EXCEPT !.name = n] \in Entry
    BY NoEntryType DEF Entry
  <2> QED BY <1>1, <2>1 DEF StartPair, MayStart, Begin, Steps, PairSteps, File, PeerOf
<1>2. ASSUME NEW n \in Names, StartUnpair(p, n) PROVE TypeOK'
  BY <1>2 DEF StartUnpair, MayStart, Begin, Steps, SaveSteps, File, PeerOf
<1>3. ASSUME PickAddress(p) PROVE TypeOK'
  <2>1. PICK i \in FreeIPs, c \in Creds :
          /\ entry' = [entry EXCEPT ![p] = [@ EXCEPT !.cred = c, !.ip = i, !.tracked = TRUE]]
          /\ fate' = [fate EXCEPT ![c] = "pairing"]
    BY <1>3 DEF PickAddress
  <2>2. i \in HostIPs
    BY DEF FreeIPs
  <2> DEFINE e == [entry[p] EXCEPT !.cred = c, !.ip = i, !.tracked = TRUE]
  <2>3. entry[p] \in Entry
    OBVIOUS
  <2>4. e \in Entry /\ PeerOf(e) \in Peer
    BY <2>2, <2>3 DEF Entry, PeerOf, Peer
  <2>5. fate' \in [Creds -> Fates]
    BY <2>1 DEF Fates
  <2>6. entry' = [entry EXCEPT ![p] = e]
    BY <2>1
  <2> HIDE DEF e
  <2> QED BY <1>3, <2>4, <2>5, <2>6 DEF PickAddress, Steps, PairSteps, PeerOf
<1>4. ASSUME SetLive(p) PROVE TypeOK'
  <2>1. PeerOf(entry[p]) \in Peer
    BY <1>4 DEF SetLive
  <2>2. WgSet(live, PeerOf(entry[p])) \subseteq LivePeer
    BY <2>1 DEF WgSet, LivePeer, Peer
  <2> QED BY <1>4, <2>2 DEF SetLive, Steps, PairSteps, PeerOf
<1>5. ASSUME AppendConf(p) PROVE TypeOK'
  BY <1>5 DEF AppendConf, Steps, SaveSteps, PeerOf
<1>6. ASSUME OpenTmp(p) PROVE TypeOK'
  BY <1>6, FileStates DEF OpenTmp, Steps, SaveSteps, PeerOf
<1>7. ASSUME WriteTmp(p) PROVE TypeOK'
  <2>1. store' \in File /\ tmp' \in File
    BY <1>7, <1>o DEF WriteTmp
  <2> QED BY <1>7, <2>1 DEF WriteTmp, Steps, SaveSteps, PeerOf
<1>8. ASSUME RenameTmp(p) PROVE TypeOK'
  <2>1. store' \in File /\ tmp' \in File
    BY <1>8, FileStates DEF RenameTmp
  <2>2. fd' \in [Procs -> {"none", "tmp", "store", "gone"}]
    BY <1>8 DEF RenameTmp, AfterRename
  <2>3. CASE op[p] = "unpair" /\ ~entry[p].tracked
    <3>1. Unpaired(p, "revoked") /\ Exit(p)
      BY <1>8, <2>3 DEF RenameTmp, Unpaired
    <3> QED BY <1>8, <1>e, <1>u, <2>1, <2>2, <3>1 DEF RenameTmp
  <2>4. CASE ~(op[p] = "unpair" /\ ~entry[p].tracked)
    <3>1. fate' \in [Creds -> Fates]
      BY <1>8, <2>4 DEF RenameTmp, Fates
    <3> QED BY <1>8, <2>1, <2>2, <2>4, <3>1 DEF RenameTmp, Steps, UnpairSteps, PeerOf
  <2> QED BY <2>3, <2>4
<1>9. ASSUME ChownFails(p) PROVE TypeOK'
  <2>1. fd' \in [Procs -> {"none", "tmp", "store", "gone"}]
    BY <1>9 DEF ChownFails
  <2>2. Exit(p) /\ Fail(p)
    BY <1>9 DEF ChownFails, Fail
  <2> QED BY <1>9, <1>e, <1>f, <2>1, <2>2, FileStates DEF ChownFails
<1>10. ASSUME PrintBundle(p) PROVE TypeOK'
  <2>1. fate' \in [Creds -> Fates] /\ Exit(p)
    BY <1>10 DEF PrintBundle, Fates
  <2> QED BY <1>10, <1>e, <2>1 DEF PrintBundle
<1>11. ASSUME RemoveLive(p) PROVE TypeOK'
  BY <1>11 DEF RemoveLive, WgRemove, Steps, UnpairSteps, PeerOf
<1>12. ASSUME ReadConf(p) PROVE TypeOK'
  <2>1. CASE \E q \in conf : q.cred = entry[p].cred
    BY <1>12, <2>1 DEF ReadConf, Steps, UnpairSteps, PeerOf
  <2>2. CASE ~ \E q \in conf : q.cred = entry[p].cred
    <3>1. Unpaired(p, "unpaired") /\ Exit(p)
      BY <1>12, <2>2 DEF ReadConf, Unpaired
    <3> QED BY <1>12, <1>e, <1>u, <3>1 DEF ReadConf
  <2> QED BY <2>1, <2>2
<1>13. ASSUME RewriteConf(p) PROVE TypeOK'
  <2>1. Unpaired(p, "unpaired") /\ Exit(p)
    BY <1>13 DEF RewriteConf, Unpaired
  <2>2. conf' \subseteq Peer
    BY <1>13 DEF RewriteConf, WithoutPeer
  <2> QED BY <1>13, <1>e, <1>u, <2>1, <2>2 DEF RewriteConf
<1>14. ASSUME Abort(p) PROVE TypeOK'
  <2>1. Exit(p) /\ Fail(p)
    BY <1>14 DEF Abort, Fail
  <2> QED BY <1>14, <1>e, <1>f, <2>1 DEF Abort
<1> QED BY <1>1, <1>2, <1>3, <1>4, <1>5, <1>6, <1>7, <1>8, <1>9, <1>10,
           <1>11, <1>12, <1>13, <1>14 DEF Step

(* What the daemon does on its own, and a reboot, keep the types too. *)
LEMMA OtherType ==
  ASSUME TypeOK, RestartDaemon \/ Reboot \/ ReadFault
  PROVE  TypeOK'
<1> USE ConstantsAssumption DEF TypeOK, files, commands, daemon
<1>1. ASSUME LoadAtStartup PROVE up' \in BOOLEAN /\ boot' \subseteq Entry
  BY <1>1 DEF LoadAtStartup, File
<1>2. CASE RestartDaemon
  BY <1>1, <1>2 DEF RestartDaemon, PeerOf
<1>3. CASE Reboot
  <2>1. \A w : {BootPeer(q, w) : q \in conf} \subseteq LivePeer
    BY DEF BootPeer, LivePeer, Peer
  <2>2. fate' \in [Creds -> Fates]
    BY <1>3 DEF Reboot, Fates
  <2>3. live' \subseteq LivePeer
    BY <1>3, <2>1 DEF Reboot
  <2> QED BY <1>1, <1>3, <2>2, <2>3, NoEntryType DEF Reboot, Steps
<1>4. CASE ReadFault
  BY <1>4 DEF ReadFault, PeerOf
<1> QED BY <1>2, <1>3, <1>4

(* Every variable of Pairing stays in its set, commands serial or not: in  *)
(* particular a command only ever puts a whole peer, with a credential and *)
(* a device address, on the interface and into wg0.conf.                   *)
THEOREM TypeCorrect == Spec => []TypeOK
<1>1. Init => TypeOK
  BY InitType
<1>2. TypeOK /\ [Next]_vars => TypeOK'
  <2> SUFFICES ASSUME TypeOK, [Next]_vars PROVE TypeOK'
    OBVIOUS
  <2>1. CASE Next
    BY <2>1, StepType, OtherType DEF Next
  <2>2. CASE UNCHANGED vars
    BY <2>2 DEF vars, files, commands, daemon, TypeOK, PeerOf
  <2> QED BY <2>1, <2>2
<1> QED BY <1>1, <1>2, PTL DEF Spec

--------------------------------------------------------------------------------
(* Serial commands. *)

LEMMA InitSerialInv == Init => SerialInv
<1> SUFFICES ASSUME Init PROVE SerialInv
  OBVIOUS
<1> USE ConstantsAssumption
<1>1. store.entries = InitEntries /\ Parsable(store)
  BY DEF Init, Absent, Whole, Parsable
<1>2. OneRunner /\ StoreAlwaysParses /\ OneEntryPerDevice /\ DistinctAddresses
  BY <1>1 DEF Init, OneRunner, StoreAlwaysParses, OneEntryPerDevice, DistinctAddresses
<1>3. TokenImpliesPeer
  <2> SUFFICES ASSUME NEW e \in InitEntries, e.tracked PROVE PeerOf(e) \in conf \cap live
    BY <1>1 DEF TokenImpliesPeer
  <2> QED BY DEF Init
<1>4. FatesMatchFiles
  <2>1. \A e \in InitEntries : e.cred \in Creds
    BY DEF Entry
  <2>2. \A c \in Creds : fate[c] \in {"paired", "manual", "unused"}
    BY DEF Init
  <2>3. \A c \in Creds : fate[c] = "paired" <=> \E e \in InitEntries : e.cred = c
    BY DEF Init
  <2>4. \A q \in InitPeers : q.cred \in Creds /\ fate[q.cred] # "unused"
    BY DEF Init, Peer
  <2> QED BY <1>1, <2>1, <2>2, <2>3, <2>4 DEF Init, FatesMatchFiles
<1>5. Progress
  BY DEF Init, Progress, ProgressOf, SaveProgress, PairSteps, SaveSteps, UnpairSteps
<1> QED BY <1>1, <1>2, <1>3, <1>4, <1>5, InitType DEF SerialInv

(* While one command runs, every other slot is empty. *)
LEMMA OthersIdle ==
  ASSUME SerialInv, Serial, NEW p \in Procs, Step(p)
  PROVE  \A q \in Procs \ {p} : pc[q] = "idle" /\ fd[q] = "none"
<1>1. \A q \in Procs \ {p} : pc[q] = "idle"
  BY DEF SerialInv, OneRunner, Step, StartPair, StartUnpair, MayStart, PickAddress,
    SetLive, AppendConf, OpenTmp, WriteTmp, RenameTmp, ChownFails, PrintBundle,
    RemoveLive, ReadConf, RewriteConf, Abort
<1> QED BY <1>1 DEF SerialInv, Progress, ProgressOf, SaveProgress

(* ... and stays empty, so only the running command's progress matters. *)
LEMMA OthersStayIdle ==
  ASSUME SerialInv, Serial, NEW p \in Procs, Step(p), ProgressOf(p)'
  PROVE  OneRunner' /\ Progress'
<1>1. \A q \in Procs \ {p} : pc'[q] = "idle" /\ fd'[q] = "none"
  <2> SUFFICES ASSUME NEW q \in Procs, q # p
               PROVE  pc'[q] = pc[q] /\ (fd'[q] = fd[q] \/ fd'[q] = "none")
    BY OthersIdle
  <2>t. fd \in [Procs -> {"none", "tmp", "store", "gone"}] /\ pc \in [Procs -> Steps]
    BY DEF SerialInv, TypeOK
  <2>i. fd[q] = "none"
    BY OthersIdle
  <2>e. Exit(p) => pc'[q] = pc[q]
    BY <2>t DEF Exit
  <2>1. CASE \E n \in Names : StartPair(p, n) \/ StartUnpair(p, n)
    BY <2>1, <2>t DEF StartPair, StartUnpair, Begin
  <2>2. CASE PickAddress(p) \/ SetLive(p) \/ AppendConf(p)
    BY <2>2, <2>t DEF PickAddress, SetLive, AppendConf
  <2>3. CASE OpenTmp(p) \/ WriteTmp(p)
    BY <2>3, <2>t DEF OpenTmp, WriteTmp
  <2>4. CASE RenameTmp(p)
    BY <2>4, <2>t, <2>i, <2>e DEF RenameTmp, AfterRename, Unpaired
  <2>5. CASE ChownFails(p)
    BY <2>5, <2>t, <2>i, <2>e DEF ChownFails, Fail
  <2>6. CASE PrintBundle(p)
    BY <2>6, <2>t, <2>e DEF PrintBundle
  <2>7. CASE RemoveLive(p)
    BY <2>7, <2>t DEF RemoveLive
  <2>8. CASE ReadConf(p)
    BY <2>8, <2>t, <2>e DEF ReadConf, Unpaired
  <2>9. CASE RewriteConf(p)
    BY <2>9, <2>t, <2>e DEF RewriteConf, Unpaired
  <2>10. CASE Abort(p)
    BY <2>10, <2>t, <2>e DEF Abort, Fail
  <2> QED BY <2>1, <2>2, <2>3, <2>4, <2>5, <2>6, <2>7, <2>8, <2>9, <2>10 DEF Step
<1>2. OneRunner'
  BY <1>1 DEF OneRunner
<1>3. ASSUME NEW q \in Procs, q # p PROVE ProgressOf(q)'
  BY <1>1, <1>3 DEF ProgressOf, SaveProgress, PairSteps, SaveSteps, UnpairSteps
<1> QED BY <1>2, <1>3 DEF Progress

LEMMA StartPairKeeps ==
  ASSUME SerialInv, Serial, NEW p \in Procs, NEW n \in Names, StartPair(p, n)
  PROVE  SerialInv'
<1>1. Step(p) /\ TypeOK'
  BY StepType DEF Step, SerialInv
<1>2. /\ StoreAlwaysParses' /\ OneEntryPerDevice' /\ DistinctAddresses'
      /\ TokenImpliesPeer' /\ FatesMatchFiles'
  BY DEF SerialInv, StartPair, StoreAlwaysParses, OneEntryPerDevice, DistinctAddresses, Parsable,
    TokenImpliesPeer, FatesMatchFiles, files
<1>3. ProgressOf(p)'
  <2>1. /\ pc'[p] = "pick" /\ op'[p] = "pair" /\ entry'[p].name = n
        /\ snap'[p] = store.entries /\ fd'[p] = "none" /\ store' = store
    BY DEF SerialInv, TypeOK, StartPair, MayStart, Begin, files, NoEntry, Progress, ProgressOf, SaveProgress
  <2>2. \A e \in store.entries : e.name # n
    BY DEF StartPair
  <2> QED BY <2>1, <2>2 DEF ProgressOf, SaveProgress, PairProgress, PairSteps, SaveSteps, UnpairSteps
<1> QED BY <1>1, <1>2, <1>3, OthersStayIdle DEF SerialInv

LEMMA StartUnpairKeeps ==
  ASSUME SerialInv, Serial, NEW p \in Procs, NEW n \in Names, StartUnpair(p, n)
  PROVE  SerialInv'
<1>1. Step(p) /\ TypeOK'
  BY StepType DEF Step, SerialInv
<1>2. /\ StoreAlwaysParses' /\ OneEntryPerDevice' /\ DistinctAddresses'
      /\ TokenImpliesPeer' /\ FatesMatchFiles'
  BY DEF SerialInv, StartUnpair, StoreAlwaysParses, OneEntryPerDevice, DistinctAddresses, Parsable,
    TokenImpliesPeer, FatesMatchFiles, files
<1>3. ProgressOf(p)'
  BY DEF SerialInv, TypeOK, StartUnpair, MayStart, Begin, files, Progress, ProgressOf, SaveProgress, UnpairProgress, PairSteps, SaveSteps, UnpairSteps
<1> QED BY <1>1, <1>2, <1>3, OthersStayIdle DEF SerialInv

(* The command reads and draws, no file changes. *)
LEMMA PickAddressKeeps ==
  ASSUME SerialInv, Serial, NEW p \in Procs, PickAddress(p)
  PROVE  SerialInv'
<1>1. Step(p) /\ TypeOK'
  BY StepType DEF Step, SerialInv
<1>2. /\ store' = store /\ conf' = conf /\ live' = live
      /\ pc[p] = "pick" /\ pc'[p] = "setlive" /\ op[p] = "pair" /\ op' = op
      /\ fd' = fd /\ fd[p] = "none"
      /\ snap' = snap /\ snap[p] = store.entries
      /\ \A e \in store.entries : e.name # entry[p].name
  <2>1. pc[p] = "pick" /\ ProgressOf(p) /\ op[p] = "pair"
    BY DEF SerialInv, PickAddress, Progress, ProgressOf, PairSteps
  <2>2. fd[p] = "none" /\ snap[p] = store.entries /\ \A e \in store.entries : e.name # entry[p].name
    BY <2>1 DEF ProgressOf, SaveProgress, PairProgress, PairSteps
  <2> QED BY <2>1, <2>2 DEF SerialInv, TypeOK, PickAddress, files
<1>3. PICK i \in FreeIPs, c \in Creds :
        /\ fate[c] = "unused"
        /\ entry' = [entry EXCEPT ![p] = [@ EXCEPT !.cred = c, !.ip = i, !.tracked = TRUE]]
        /\ fate' = [fate EXCEPT ![c] = "pairing"]
  BY DEF PickAddress
<1>4. /\ i \in HostIPs /\ \A q \in conf : q.ip # i
  BY DEF FreeIPs
<1>5. /\ entry'[p] \in [name : Names, cred : Creds, ip : HostIPs, tracked : {TRUE}]
      /\ entry'[p].name = entry[p].name /\ entry'[p].cred = c /\ entry'[p].ip = i
  BY <1>3, <1>4 DEF SerialInv, TypeOK, Entry
<1>6. /\ fate' \in [Creds -> Fates] /\ fate'[c] = "pairing"
      /\ \A d \in Creds : d # c => fate'[d] = fate[d]
  BY <1>1, <1>3 DEF SerialInv, TypeOK, Fates
<1>7. \A e \in store.entries : e.cred \in Creds /\ e.cred # c
  <2>1. store.entries \subseteq Entry
    BY DEF SerialInv, TypeOK, File
  <2> QED BY <1>3, <2>1 DEF SerialInv, FatesMatchFiles, Entry
<1>8. /\ StoreAlwaysParses' /\ OneEntryPerDevice' /\ DistinctAddresses' /\ TokenImpliesPeer'
  BY <1>2 DEF SerialInv, StoreAlwaysParses, OneEntryPerDevice, DistinctAddresses, Parsable,
    TokenImpliesPeer
<1>9. FatesMatchFiles'
  <2>1. \A q \in conf \cup live : q.cred \in Creds /\ q.cred # c
    BY <1>3 DEF SerialInv, TypeOK, FatesMatchFiles, Peer, LivePeer
  <2> QED BY <1>2, <1>6, <1>7, <2>1 DEF SerialInv, FatesMatchFiles
<1>10. ProgressOf(p)'
  BY <1>2, <1>4, <1>5, <1>6, <1>7 DEF ProgressOf, SaveProgress, PairProgress, PairSteps, SaveSteps, UnpairSteps
<1> QED BY <1>1, <1>8, <1>9, <1>10, OthersStayIdle DEF SerialInv

(* `wg set` takes an address from peers that claim it, and no stored       *)
(* device's peer does: its own is in wg0.conf, where the new one is not.   *)
LEMMA SetLiveKeeps ==
  ASSUME SerialInv, Serial, NEW p \in Procs, SetLive(p)
  PROVE  SerialInv'
<1>1. Step(p) /\ TypeOK'
  BY StepType DEF Step, SerialInv
<1> DEFINE new == PeerOf(entry[p])
<1>2. /\ store' = store /\ conf' = conf /\ live' = WgSet(live, new)
      /\ pc[p] = "setlive" /\ pc'[p] = "append" /\ op[p] = "pair" /\ op' = op
      /\ fd' = fd /\ fd[p] = "none" /\ entry' = entry /\ fate' = fate
      /\ snap' = snap /\ snap[p] = store.entries
      /\ PairProgress(p)
  BY DEF SerialInv, TypeOK, SetLive, Progress, ProgressOf, SaveProgress, PairSteps, SaveSteps
<1>3. /\ \A e \in store.entries : e.name # entry[p].name /\ e.cred # entry[p].cred
      /\ \A q \in conf : q.ip # entry[p].ip
      /\ entry[p] \in [name : Names, cred : Creds, ip : HostIPs, tracked : {TRUE}]
      /\ fate[entry[p].cred] = "pairing"
  BY <1>2 DEF PairProgress, PairSteps
<1>4. ASSUME NEW l \in live, l.cred # new.cred, l.ip # new.ip PROVE l \in live'
  BY <1>2, <1>4 DEF WgSet, SerialInv, TypeOK, LivePeer
<1>5. TokenImpliesPeer'
  <2> SUFFICES ASSUME NEW e \in store.entries, e.tracked PROVE PeerOf(e) \in conf \cap live'
    BY <1>2 DEF TokenImpliesPeer
  <2>1. PeerOf(e) \in conf \cap live
    BY DEF SerialInv, TokenImpliesPeer
  <2> QED BY <1>2, <1>3, <1>4, <2>1 DEF PeerOf
<1>6. \A l \in live' : l = new \/ \E m \in live : l.cred = m.cred
  BY <1>2 DEF WgSet, SerialInv, TypeOK, LivePeer
<1>7. FatesMatchFiles'
  BY <1>2, <1>3, <1>6 DEF SerialInv, FatesMatchFiles, PeerOf
<1>8. StoreAlwaysParses' /\ OneEntryPerDevice' /\ DistinctAddresses'
  BY <1>2 DEF SerialInv, StoreAlwaysParses, OneEntryPerDevice, DistinctAddresses, Parsable
<1>9. new \in live'
  BY <1>2 DEF WgSet
<1>10. ProgressOf(p)'
  BY <1>2, <1>3, <1>9 DEF ProgressOf, SaveProgress, PairProgress, PairSteps, SaveSteps, UnpairSteps, PeerOf
<1> QED BY <1>1, <1>5, <1>7, <1>8, <1>10, OthersStayIdle DEF SerialInv

LEMMA AppendConfKeeps ==
  ASSUME SerialInv, Serial, NEW p \in Procs, AppendConf(p)
  PROVE  SerialInv'
<1>1. Step(p) /\ TypeOK'
  BY StepType DEF Step, SerialInv
<1>2. /\ store' = store /\ conf' = conf \cup {PeerOf(entry[p])} /\ live' = live
      /\ pc[p] = "append" /\ pc'[p] = "open" /\ op[p] = "pair" /\ op' = op
      /\ fd' = fd /\ fd[p] = "none" /\ entry' = entry /\ fate' = fate
      /\ snap' = snap /\ snap[p] = store.entries
      /\ PairProgress(p)
  BY DEF SerialInv, TypeOK, AppendConf, Progress, ProgressOf, SaveProgress, PairSteps, SaveSteps
<1>3. /\ \A e \in store.entries : e.name # entry[p].name /\ e.cred # entry[p].cred
      /\ \A q \in conf : q.ip # entry[p].ip
      /\ entry[p] \in [name : Names, cred : Creds, ip : HostIPs, tracked : {TRUE}]
      /\ fate[entry[p].cred] = "pairing"
      /\ PeerOf(entry[p]) \in live
  BY <1>2 DEF PairProgress, PairSteps
<1>4. StoreAlwaysParses' /\ OneEntryPerDevice' /\ TokenImpliesPeer'
  BY <1>2 DEF SerialInv, StoreAlwaysParses, OneEntryPerDevice, Parsable, TokenImpliesPeer
<1>5. DistinctAddresses'
  BY <1>2, <1>3 DEF SerialInv, DistinctAddresses, PeerOf
<1>6. FatesMatchFiles'
  BY <1>2, <1>3 DEF SerialInv, FatesMatchFiles, PeerOf
<1>7. ProgressOf(p)'
  BY <1>2, <1>3 DEF ProgressOf, SaveProgress, PairProgress, PairSteps, SaveSteps, UnpairSteps, PeerOf
<1> QED BY <1>1, <1>4, <1>5, <1>6, <1>7, OthersStayIdle DEF SerialInv

(* Facts of the state a command's step starts from. *)
LEMMA Current ==
  ASSUME SerialInv, NEW p \in Procs
  PROVE  /\ ProgressOf(p)
         /\ store.entries \subseteq Entry
         /\ \A e \in store.entries : e.cred \in Creds
         /\ \A q \in conf \cup live : q.cred \in Creds
<1>1. store.entries \subseteq Entry
  BY DEF SerialInv, TypeOK, File
<1> QED BY <1>1 DEF SerialInv, TypeOK, Progress, FatesMatchFiles, Entry, Peer, LivePeer

(* Steps that touch neither the store nor the tunnel nor a fate. *)
LEMMA FilesKept ==
  ASSUME SerialInv, store' = store, conf' = conf, live' = live, fate' = fate
  PROVE  /\ StoreAlwaysParses' /\ OneEntryPerDevice' /\ DistinctAddresses'
         /\ TokenImpliesPeer' /\ FatesMatchFiles'
BY DEF SerialInv, StoreAlwaysParses, OneEntryPerDevice, DistinctAddresses, Parsable,
  TokenImpliesPeer, FatesMatchFiles

LEMMA OpenTmpKeeps ==
  ASSUME SerialInv, Serial, NEW p \in Procs, OpenTmp(p)
  PROVE  SerialInv'
<1>1. Step(p) /\ TypeOK'
  BY StepType DEF Step, SerialInv
<1>2. /\ store' = store /\ conf' = conf /\ live' = live /\ tmp' = Empty
      /\ pc[p] = "open" /\ pc'[p] = "write" /\ op' = op
      /\ fd'[p] = "tmp" /\ entry' = entry /\ fate' = fate /\ snap' = snap
  BY DEF SerialInv, TypeOK, OpenTmp
<1>3. ProgressOf(p)'
  <2>1. ProgressOf(p)
    BY Current
  <2>2. SaveProgress(p)'
    BY <1>2, <2>1 DEF ProgressOf, SaveProgress, PairSteps, SaveSteps
  <2>3. op[p] = "pair" => PairProgress(p)'
    BY <1>2, <2>1 DEF ProgressOf, PairProgress, PairSteps, SaveSteps, PeerOf
  <2>4. op[p] = "unpair" => UnpairProgress(p)'
    BY <1>2, <2>1 DEF ProgressOf, UnpairProgress, SaveSteps, UnpairSteps
  <2> QED BY <1>2, <2>2, <2>3, <2>4 DEF ProgressOf, PairSteps, UnpairSteps
<1> QED BY <1>1, <1>2, <1>3, FilesKept, OthersStayIdle DEF SerialInv

LEMMA WriteTmpKeeps ==
  ASSUME SerialInv, Serial, NEW p \in Procs, WriteTmp(p)
  PROVE  SerialInv'
<1>1. Step(p) /\ TypeOK'
  BY StepType DEF Step, SerialInv
<1>2. pc[p] = "write" /\ fd[p] = "tmp" /\ tmp = Empty
  BY Current DEF WriteTmp, ProgressOf, SaveProgress
<1>3. Overwrite(tmp, ToSave(p)) = {Whole(ToSave(p))}
  BY <1>2 DEF Overwrite, Empty
<1>4. /\ store' = store /\ conf' = conf /\ live' = live /\ tmp' = Whole(ToSave(p))
      /\ pc'[p] = "rename" /\ op' = op
      /\ fd'[p] = "none" /\ entry' = entry /\ fate' = fate /\ snap' = snap
  BY <1>2, <1>3 DEF SerialInv, TypeOK, WriteTmp
<1>5. ToSave(p)' = ToSave(p)
  BY <1>4 DEF ToSave
<1>6. ProgressOf(p)'
  BY <1>2, <1>4, <1>5, Current DEF ProgressOf, SaveProgress, PairProgress, UnpairProgress,
    PairSteps, SaveSteps, UnpairSteps, PeerOf
<1> QED BY <1>1, <1>4, <1>6, FilesKept, OthersStayIdle DEF SerialInv

(* A command that ends leaves nothing of its progress to remember. *)
LEMMA ExitProgress ==
  ASSUME SerialInv, NEW p \in Procs, Exit(p), fd'[p] = "none"
  PROVE  ProgressOf(p)'
<1>1. pc'[p] = "idle"
  BY DEF Exit, SerialInv, TypeOK
<1> QED BY <1>1 DEF ProgressOf, SaveProgress, PairSteps, SaveSteps, UnpairSteps

(* A failed pair command's credential is the only one whose fate changes,  *)
(* and no stored device has it unless the save was already done.           *)
LEMMA FailKeeps ==
  ASSUME SerialInv, Serial, NEW p \in Procs, Step(p), TypeOK', Fail(p), fd'[p] = "none",
         store' = store, conf' = conf, live' = live
  PROVE  SerialInv'
<1>1. \A c \in Creds : \/ fate'[c] = fate[c]
                       \/ fate[c] = "pairing" /\ fate'[c] = "aborted"
  BY DEF Fail
<1>2. FatesMatchFiles'
  BY <1>1, Current DEF FatesMatchFiles, SerialInv
<1>3. ProgressOf(p)'
  BY ExitProgress DEF Fail
<1>4. /\ StoreAlwaysParses' /\ OneEntryPerDevice' /\ DistinctAddresses' /\ TokenImpliesPeer'
  BY DEF SerialInv, StoreAlwaysParses, OneEntryPerDevice, DistinctAddresses, Parsable,
    TokenImpliesPeer
<1> QED BY <1>2, <1>3, <1>4, OthersStayIdle DEF SerialInv

LEMMA ChownFailsKeeps ==
  ASSUME SerialInv, Serial, NEW p \in Procs, ChownFails(p)
  PROVE  SerialInv'
<1>1. Step(p) /\ TypeOK'
  BY StepType DEF Step, SerialInv
<1>2. fd[p] = "none"
  BY Current DEF ChownFails, ProgressOf, SaveProgress
<1>3. Fail(p) /\ fd'[p] = "none" /\ store' = store /\ conf' = conf /\ live' = live
  BY <1>2 DEF ChownFails
<1> QED BY <1>1, <1>3, FailKeeps

LEMMA AbortKeeps ==
  ASSUME SerialInv, Serial, NEW p \in Procs, Abort(p)
  PROVE  SerialInv'
<1>1. Step(p) /\ TypeOK'
  BY StepType DEF Step, SerialInv
<1>2. Fail(p) /\ fd'[p] = "none" /\ store' = store /\ conf' = conf /\ live' = live
  BY DEF Abort, files, SerialInv, TypeOK
<1> QED BY <1>1, <1>2, FailKeeps

LEMMA PrintBundleKeeps ==
  ASSUME SerialInv, Serial, NEW p \in Procs, PrintBundle(p)
  PROVE  SerialInv'
<1>1. Step(p) /\ TypeOK'
  BY StepType DEF Step, SerialInv
<1>2. /\ pc[p] = "print" /\ op[p] = "pair" /\ PairProgress(p) /\ fd[p] = "none"
  BY Current DEF PrintBundle, ProgressOf, SaveProgress
<1>3. entry[p].cred \in Creds /\ fate[entry[p].cred] = "pairing" /\ entry[p] \in store.entries
  BY <1>2 DEF PairProgress
<1>4. /\ store' = store /\ conf' = conf /\ live' = live /\ fd'[p] = "none" /\ Exit(p)
      /\ fate' = [fate EXCEPT ![entry[p].cred] = "paired"]
  BY <1>2, <1>3 DEF PrintBundle, files
<1>5. FatesMatchFiles'
  BY <1>3, <1>4, Current DEF FatesMatchFiles, SerialInv, TypeOK
<1>6. /\ StoreAlwaysParses' /\ OneEntryPerDevice' /\ DistinctAddresses' /\ TokenImpliesPeer'
  BY <1>4 DEF SerialInv, StoreAlwaysParses, OneEntryPerDevice, DistinctAddresses, Parsable,
    TokenImpliesPeer
<1> QED BY <1>1, <1>4, <1>5, <1>6, ExitProgress, OthersStayIdle DEF SerialInv

(* The commit of a save.  What becomes tokens.json is what this command    *)
(* wrote, and that is the current content with one entry more or less.     *)
LEMMA RenameTmpKeeps ==
  ASSUME SerialInv, Serial, NEW p \in Procs, RenameTmp(p)
  PROVE  SerialInv'
<1>1. Step(p) /\ TypeOK'
  BY StepType DEF Step, SerialInv
<1>2. ProgressOf(p) /\ pc[p] = "rename"
  BY Current DEF RenameTmp
<1>3. tmp = Whole(ToSave(p)) /\ snap[p] = store.entries /\ fd[p] = "none"
  BY <1>2 DEF ProgressOf, SaveProgress, PairSteps, SaveSteps
<1>4. store' = Whole(ToSave(p)) /\ conf' = conf /\ live' = live
  BY <1>3 DEF RenameTmp
<1>5. store'.entries = ToSave(p) /\ StoreAlwaysParses'
  BY <1>4 DEF Whole, StoreAlwaysParses, Parsable
<1>6. fd'[p] = "none"
  BY <1>3 DEF RenameTmp, AfterRename
<1>7. DistinctAddresses'
  BY <1>4 DEF SerialInv, DistinctAddresses
<1>8. CASE op[p] = "pair"
  <2>1. PairProgress(p)
    BY <1>2, <1>8 DEF ProgressOf
  <2>2. /\ entry[p] \in [name : Names, cred : Creds, ip : HostIPs, tracked : {TRUE}]
        /\ fate[entry[p].cred] = "pairing"
        /\ \A e \in store.entries : e.name # entry[p].name /\ e.cred # entry[p].cred
        /\ PeerOf(entry[p]) \in conf \cap live
    BY <1>2, <2>1 DEF PairProgress, SaveSteps, PairSteps
  <2>3. store'.entries = store.entries \cup {entry[p]}
    BY <1>3, <1>5, <1>8 DEF ToSave
  <2>4. /\ fate' = fate /\ op' = op /\ entry' = entry /\ pc'[p] = "print"
    BY <1>8 DEF RenameTmp, SerialInv, TypeOK
  <2>5. OneEntryPerDevice'
    BY <2>2, <2>3 DEF SerialInv, OneEntryPerDevice
  <2>6. TokenImpliesPeer'
    BY <1>4, <2>2, <2>3 DEF SerialInv, TokenImpliesPeer
  <2>7. FatesMatchFiles'
    <3>1. NoCred \notin Creds
      BY ConstantsAssumption
    <3> QED BY <1>4, <2>2, <2>3, <2>4, <3>1 DEF SerialInv, FatesMatchFiles
  <2>8. ProgressOf(p)'
    BY <1>6, <1>8, <2>2, <2>3, <2>4 DEF ProgressOf, SaveProgress, PairProgress,
      PairSteps, SaveSteps, UnpairSteps
  <2> QED BY <1>1, <1>5, <1>7, <2>5, <2>6, <2>7, <2>8, OthersStayIdle DEF SerialInv
<1>9. CASE op[p] = "unpair"
  <2>1. UnpairProgress(p)
    BY <1>2, <1>9 DEF ProgressOf
  <2>2. entry[p] \in store.entries /\ entry[p].cred \in Creds
    BY <1>2, <2>1, Current DEF UnpairProgress, SaveSteps
  <2>3. store'.entries = store.entries \ {entry[p]}
    BY <1>3, <1>5, <1>9 DEF ToSave
  <2>4. fate' = [fate EXCEPT ![entry[p].cred] = "revoked"]
    BY <1>9 DEF RenameTmp, Unpaired
  <2>5. OneEntryPerDevice' /\ TokenImpliesPeer'
    BY <1>4, <2>3 DEF SerialInv, OneEntryPerDevice, TokenImpliesPeer
  <2>6. \A e \in store'.entries : e.cred # entry[p].cred
    BY <2>2, <2>3 DEF SerialInv, OneEntryPerDevice
  <2>7. FatesMatchFiles'
    <3>1. fate \in [Creds -> Fates]
      BY DEF SerialInv, TypeOK
    <3>2. /\ \A c \in Creds : c # entry[p].cred => fate'[c] = fate[c]
          /\ fate'[entry[p].cred] = "revoked"
      BY <2>2, <2>4, <3>1
    <3>3. \A e \in store'.entries :
            e.cred # NoCred /\ fate'[e.cred] \in {"pairing", "paired", "aborted"}
      BY <2>3, <2>6, <3>2, Current DEF SerialInv, FatesMatchFiles
    <3>4. \A c \in Creds : fate'[c] = "paired" => \E e \in store'.entries : e.cred = c
      BY <2>3, <3>2 DEF SerialInv, FatesMatchFiles
    <3>5. \A q \in conf \cup live : fate'[q.cred] \notin {"unused", "unpaired"}
      BY <3>2, Current DEF SerialInv, FatesMatchFiles
    <3> QED BY <1>4, <3>3, <3>4, <3>5 DEF FatesMatchFiles
  <2>8. ProgressOf(p)'
    <3>1. CASE entry[p].tracked
      <4>1. op' = op /\ entry' = entry /\ pc'[p] = "rmlive"
        BY <1>9, <3>1 DEF RenameTmp, SerialInv, TypeOK
      <4>2. fate'[entry[p].cred] = "revoked" /\ entry[p].cred # NoCred
        BY <2>2, <2>4, ConstantsAssumption DEF SerialInv, TypeOK
      <4> QED BY <1>6, <1>9, <4>1, <4>2 DEF ProgressOf, SaveProgress, UnpairProgress,
            PairSteps, SaveSteps, UnpairSteps
    <3>2. CASE ~entry[p].tracked
      <4>1. Exit(p)
        BY <1>9, <3>2 DEF RenameTmp, Unpaired
      <4> QED BY <1>6, <4>1, ExitProgress
    <3> QED BY <3>1, <3>2
  <2> QED BY <1>1, <1>5, <1>7, <2>5, <2>7, <2>8, OthersStayIdle DEF SerialInv
<1> QED BY <1>8, <1>9 DEF SerialInv, TypeOK

LEMMA RemoveLiveKeeps ==
  ASSUME SerialInv, Serial, NEW p \in Procs, RemoveLive(p)
  PROVE  SerialInv'
<1>1. Step(p) /\ TypeOK'
  BY StepType DEF Step, SerialInv
<1>2. /\ pc[p] = "rmlive" /\ op[p] = "unpair" /\ UnpairProgress(p) /\ fd[p] = "none"
  BY Current DEF RemoveLive, ProgressOf, SaveProgress, UnpairSteps
<1>3. entry[p].cred # NoCred /\ fate[entry[p].cred] = "revoked"
  BY <1>2 DEF UnpairProgress, UnpairSteps
<1>4. /\ store' = store /\ conf' = conf /\ fate' = fate /\ op' = op /\ entry' = entry
      /\ fd' = fd /\ pc'[p] = "readconf" /\ live' = {l \in live : l.cred # entry[p].cred}
  BY DEF RemoveLive, WgRemove, SerialInv, TypeOK
<1>5. TokenImpliesPeer'
  BY <1>3, <1>4 DEF SerialInv, TokenImpliesPeer, FatesMatchFiles, PeerOf
<1>6. FatesMatchFiles'
  BY <1>4 DEF SerialInv, FatesMatchFiles
<1>7. StoreAlwaysParses' /\ OneEntryPerDevice' /\ DistinctAddresses'
  BY <1>4 DEF SerialInv, StoreAlwaysParses, OneEntryPerDevice, DistinctAddresses, Parsable
<1>8. ProgressOf(p)'
  BY <1>2, <1>3, <1>4 DEF ProgressOf, SaveProgress, UnpairProgress, PairSteps, SaveSteps, UnpairSteps
<1> QED BY <1>1, <1>5, <1>6, <1>7, <1>8, OthersStayIdle DEF SerialInv

(* unpair exits 0 once its peer is in neither place. *)
LEMMA UnpairedKeeps ==
  ASSUME SerialInv, Serial, NEW p \in Procs, Step(p), TypeOK',
         Unpaired(p, "unpaired"), fate[entry[p].cred] = "revoked", entry[p].cred # NoCred,
         fd' = fd, fd[p] = "none", store' = store, live' = live,
         conf' = {q \in conf : q.cred # entry[p].cred},
         \A l \in live : l.cred # entry[p].cred
  PROVE  SerialInv'
<1>1. entry[p].cred \in Creds /\ fate \in [Creds -> Fates]
  BY DEF SerialInv, TypeOK, Entry
<1>2. /\ \A c \in Creds : c # entry[p].cred => fate'[c] = fate[c]
      /\ fate'[entry[p].cred] = "unpaired"
  BY <1>1 DEF Unpaired
<1>3. FatesMatchFiles'
  BY <1>1, <1>2, Current DEF SerialInv, FatesMatchFiles
<1>4. TokenImpliesPeer'
  BY DEF SerialInv, TokenImpliesPeer, FatesMatchFiles, PeerOf
<1>5. StoreAlwaysParses' /\ OneEntryPerDevice' /\ DistinctAddresses'
  BY DEF SerialInv, StoreAlwaysParses, OneEntryPerDevice, DistinctAddresses, Parsable
<1>6. ProgressOf(p)'
  BY ExitProgress DEF Unpaired
<1> QED BY <1>3, <1>4, <1>5, <1>6, OthersStayIdle DEF SerialInv

LEMMA ReadConfKeeps ==
  ASSUME SerialInv, Serial, NEW p \in Procs, ReadConf(p)
  PROVE  SerialInv'
<1>1. Step(p) /\ TypeOK'
  BY StepType DEF Step, SerialInv
<1>2. /\ pc[p] = "readconf" /\ op[p] = "unpair" /\ UnpairProgress(p) /\ fd[p] = "none"
  BY Current DEF ReadConf, ProgressOf, SaveProgress, UnpairSteps
<1>3. /\ entry[p].cred # NoCred /\ fate[entry[p].cred] = "revoked"
      /\ \A l \in live : l.cred # entry[p].cred
  BY <1>2 DEF UnpairProgress, UnpairSteps
<1>4. store' = store /\ conf' = conf /\ live' = live /\ fd' = fd
  BY DEF ReadConf, files
<1>5. CASE \E q \in conf : q.cred = entry[p].cred
  <2>1. /\ confSnap'[p] = conf /\ pc'[p] = "rewrite" /\ op' = op /\ entry' = entry /\ fate' = fate
    BY <1>5 DEF ReadConf, SerialInv, TypeOK
  <2>2. ProgressOf(p)'
    BY <1>2, <1>3, <1>4, <2>1 DEF ProgressOf, SaveProgress, UnpairProgress, PairSteps, SaveSteps, UnpairSteps
  <2> QED BY <1>1, <1>4, <2>1, <2>2, FilesKept, OthersStayIdle DEF SerialInv
<1>6. CASE ~ \E q \in conf : q.cred = entry[p].cred
  <2>1. conf' = {q \in conf : q.cred # entry[p].cred} /\ Unpaired(p, "unpaired")
    BY <1>4, <1>6 DEF ReadConf
  <2> QED BY <1>1, <1>2, <1>3, <1>4, <2>1, UnpairedKeeps
<1> QED BY <1>5, <1>6

LEMMA RewriteConfKeeps ==
  ASSUME SerialInv, Serial, NEW p \in Procs, RewriteConf(p)
  PROVE  SerialInv'
<1>1. Step(p) /\ TypeOK'
  BY StepType DEF Step, SerialInv
<1>2. /\ pc[p] = "rewrite" /\ op[p] = "unpair" /\ UnpairProgress(p) /\ fd[p] = "none"
  BY Current DEF RewriteConf, ProgressOf, SaveProgress, UnpairSteps
<1>3. /\ entry[p].cred # NoCred /\ fate[entry[p].cred] = "revoked"
      /\ \A l \in live : l.cred # entry[p].cred
      /\ confSnap[p] = conf
  BY <1>2 DEF UnpairProgress, UnpairSteps
<1>4. /\ store' = store /\ live' = live /\ fd' = fd /\ Unpaired(p, "unpaired")
      /\ conf' = {q \in conf : q.cred # entry[p].cred}
  BY <1>3 DEF RewriteConf, WithoutPeer
<1> QED BY <1>1, <1>2, <1>3, <1>4, UnpairedKeeps

(* With distinct addresses wg-quick brings up exactly what wg0.conf holds. *)
LEMMA BootRestoresConf ==
  ASSUME SerialInv, NEW w \in Winners
  PROVE  {BootPeer(q, w) : q \in conf} = conf
<1>1. ASSUME NEW q \in conf PROVE BootPeer(q, w) = q
  <2>1. q \in Peer
    BY DEF SerialInv, TypeOK
  <2>2. q.ip \in {r.ip : r \in conf}
    OBVIOUS
  <2>3. [cred |-> w[q.ip], ip |-> q.ip] \in conf
    BY <2>2 DEF Winners
  <2>4. w[q.ip] = q.cred
    BY <2>3 DEF SerialInv, DistinctAddresses
  <2> QED BY <2>1, <2>4 DEF BootPeer, Peer
<1> QED BY <1>1

LEMMA RebootKeeps ==
  ASSUME SerialInv, Reboot
  PROVE  SerialInv'
<1>1. TypeOK'
  BY OtherType DEF SerialInv
<1>2. store' = store /\ conf' = conf /\ live' = conf
  BY BootRestoresConf DEF Reboot
<1>3. \A c \in Creds : \/ fate'[c] = fate[c]
                       \/ fate[c] = "pairing" /\ fate'[c] = "aborted"
  BY DEF Reboot
<1>4. FatesMatchFiles'
  <2>1. /\ \A e \in store.entries : e.cred \in Creds
        /\ \A q \in conf : q.cred \in Creds
    <3>1. store.entries \subseteq Entry /\ conf \subseteq Peer
      BY DEF SerialInv, TypeOK, File
    <3> QED BY <3>1 DEF SerialInv, FatesMatchFiles, Entry, Peer
  <2> QED BY <1>2, <1>3, <2>1 DEF SerialInv, FatesMatchFiles
<1>5. StoreAlwaysParses' /\ OneEntryPerDevice' /\ DistinctAddresses' /\ TokenImpliesPeer'
  BY <1>2 DEF SerialInv, StoreAlwaysParses, OneEntryPerDevice, DistinctAddresses, Parsable, TokenImpliesPeer
<1>6. OneRunner'
  BY DEF Reboot, OneRunner
<1>7. Progress'
  BY DEF Reboot, Progress, ProgressOf, SaveProgress, PairSteps, SaveSteps, UnpairSteps
<1> QED BY <1>1, <1>4, <1>5, <1>6, <1>7 DEF SerialInv

(* Steps of the daemon change nothing SerialInv speaks of. *)
LEMMA UnchangedKeeps ==
  ASSUME SerialInv, TypeOK', UNCHANGED <<files, commands, fate>>
  PROVE  SerialInv'
<1> USE DEF files, commands
<1>1. OneRunner'
  BY DEF SerialInv, OneRunner
<1>2. ASSUME NEW p \in Procs PROVE ProgressOf(p)'
  <2>1. ProgressOf(p)
    BY DEF SerialInv, Progress
  <2>2. SaveProgress(p)'
    BY <2>1 DEF ProgressOf, SaveProgress, ToSave
  <2>3. PairProgress(p) => PairProgress(p)'
    BY DEF PairProgress, PeerOf
  <2>4. UnpairProgress(p) => UnpairProgress(p)'
    BY DEF UnpairProgress
  <2> QED BY <2>1, <2>2, <2>3, <2>4 DEF ProgressOf
<1>3. Progress'
  BY <1>2 DEF Progress
<1> QED BY <1>1, <1>3, FilesKept DEF SerialInv

(* While commands run one at a time, SerialInv is an invariant: every step *)
(* of pair and unpair, every failure between two steps and every reboot    *)
(* keeps tokens.json, wg0.conf and the interface in agreement.             *)
THEOREM SerialInvariant == ASSUME Serial PROVE Spec => []SerialInv
<1>1. Init => SerialInv
  BY InitSerialInv
<1>2. SerialInv /\ [Next]_vars => SerialInv'
  <2> SUFFICES ASSUME SerialInv, [Next]_vars PROVE SerialInv'
    OBVIOUS
  <2>1. ASSUME NEW p \in Procs, Step(p) PROVE SerialInv'
    BY <2>1, StartPairKeeps, StartUnpairKeeps, PickAddressKeeps, SetLiveKeeps,
      AppendConfKeeps, OpenTmpKeeps, WriteTmpKeeps, RenameTmpKeeps, ChownFailsKeeps,
      PrintBundleKeeps, RemoveLiveKeeps, ReadConfKeeps, RewriteConfKeeps, AbortKeeps DEF Step
  <2>2. CASE RestartDaemon \/ ReadFault
    <3>1. TypeOK'
      BY <2>2, OtherType DEF SerialInv
    <3> QED BY <2>2, <3>1, UnchangedKeeps DEF RestartDaemon, ReadFault
  <2>3. CASE Reboot
    BY <2>3, RebootKeeps
  <2>4. CASE UNCHANGED vars
    <3>1. TypeOK'
      BY <2>4 DEF SerialInv, TypeOK, vars, files, commands, daemon, PeerOf
    <3> QED BY <2>4, <3>1, UnchangedKeeps DEF vars
  <2> QED BY <2>1, <2>2, <2>3, <2>4 DEF Next
<1> QED BY <1>1, <1>2, PTL DEF Spec

(* A reader of tokens.json finds no file or a complete one. *)
THEOREM StoreParses == ASSUME Serial PROVE Spec => []StoreAlwaysParses
<1>1. SerialInv => StoreAlwaysParses
  BY DEF SerialInv
<1> QED BY <1>1, SerialInvariant, PTL

(* No two blocks of wg0.conf share a tunnel address. *)
THEOREM AddressesDistinct == ASSUME Serial PROVE Spec => []DistinctAddresses
<1>1. SerialInv => DistinctAddresses
  BY DEF SerialInv
<1> QED BY <1>1, SerialInvariant, PTL

(* A stored, tracked token has its peer in wg0.conf and on the interface. *)
THEOREM TokensHavePeers == ASSUME Serial PROVE Spec => []TokenImpliesPeer
<1>1. SerialInv => TokenImpliesPeer
  BY DEF SerialInv
<1> QED BY <1>1, SerialInvariant, PTL

(* An unpaired device keeps no peer, so no restart brings it back. *)
THEOREM UnpairedPeersGone == ASSUME Serial PROVE Spec => []UnpairedPeerGone
<1>1. SerialInv => UnpairedPeerGone
  BY DEF SerialInv, FatesMatchFiles, UnpairedPeerGone
<1> QED BY <1>1, SerialInvariant, PTL

(* While tokens.json can be opened the daemon runs and reads it: a restart *)
(* at any moment finds a file that parses.                                 *)
THEOREM DaemonStaysUp == ASSUME Serial, ~ReadFaults PROVE Spec => []DaemonUp
<1>1. Init => DaemonUp
  BY DEF Init, DaemonUp
<1>2. SerialInv /\ DaemonUp /\ [Next]_vars => DaemonUp'
  <2> SUFFICES ASSUME SerialInv, DaemonUp, [Next]_vars PROVE DaemonUp'
    OBVIOUS
  <2>1. ASSUME NEW p \in Procs, Step(p) PROVE DaemonUp'
    BY <2>1 DEF Step, StartPair, StartUnpair, PickAddress, SetLive, AppendConf, OpenTmp,
      WriteTmp, RenameTmp, ChownFails, PrintBundle, RemoveLive, ReadConf, RewriteConf,
      Abort, daemon, DaemonUp
  <2>2. CASE RestartDaemon \/ Reboot
    BY <2>2 DEF RestartDaemon, Reboot, LoadAtStartup, DaemonUp, SerialInv, StoreAlwaysParses
  <2>3. CASE ReadFault \/ UNCHANGED vars
    BY <2>3 DEF ReadFault, vars, daemon, DaemonUp
  <2> QED BY <2>1, <2>2, <2>3 DEF Next
<1> QED BY <1>1, <1>2, SerialInvariant, PTL DEF Spec

(* A daemon that can read the file decides by it. *)
LEMMA KnownIsStored ==
  ASSUME SerialInv, readable
  PROVE  Known = store.entries
BY DEF SerialInv, Known, StoreAlwaysParses

(* A revoked device is never accepted again. *)
THEOREM RevokedStaysOut == ASSUME Serial PROVE Spec => []RevokedLosesAccess
<1>1. SerialInv => RevokedLosesAccess
  BY KnownIsStored DEF SerialInv, FatesMatchFiles, Accepts, RevokedLosesAccess
<1> QED BY <1>1, SerialInvariant, PTL

(* A printed bundle works until its device is unpaired. *)
THEOREM BundlesWork == ASSUME Serial PROVE Spec => []PrintedBundleIsAccepted
<1>1. SerialInv => PrintedBundleIsAccepted
  <2> SUFFICES ASSUME SerialInv, readable, up, NEW c \in Creds, fate[c] = "paired"
               PROVE  Accepts(c)
    BY DEF PrintedBundleIsAccepted
  <2>1. \E e \in store.entries : e.cred = c
    BY DEF SerialInv, FatesMatchFiles
  <2> QED BY <2>1, KnownIsStored DEF Accepts
<1> QED BY <1>1, SerialInvariant, PTL

--------------------------------------------------------------------------------
(* Commands that overlap. *)

(* Credentials in use stay in use. *)
LEMMA DrawnStays ==
  ASSUME TypeOK, NEW S, S \subseteq Entry, Drawn(S),
         \A c \in Creds : fate[c] # "unused" => fate'[c] # "unused"
  PROVE  Drawn(S)'
BY DEF Drawn, Entry

(* What a save writes is sound when what the command holds is. *)
LEMMA SaveSound ==
  ASSUME SnapshotsInv, NEW p \in Procs, pc[p] \notin {"idle", "pick"}
  PROVE  Sound(ToSave(p)) /\ ToSave(p) \subseteq Entry
<1>1. snap[p] \subseteq Entry /\ entry[p] \in Entry /\ op[p] \in {"pair", "unpair"}
  BY DEF SnapshotsInv, TypeOK
<1>2. CASE op[p] = "pair"
  BY <1>1, <1>2 DEF SnapshotsInv, Adds, ToSave, Sound, Unique, Drawn
<1>3. CASE op[p] = "unpair"
  BY <1>1, <1>3 DEF SnapshotsInv, ToSave, Sound, Unique, Drawn
<1> QED BY <1>1, <1>2, <1>3

(* The obligations of a step, gathered: fates only move away from unused,  *)
(* the two files stay sound, and so does each command's memory.            *)
LEMMA SnapshotsStep ==
  ASSUME SnapshotsInv, NEW p \in Procs, Step(p)
  PROVE  \A c \in Creds : fate[c] # "unused" => fate'[c] # "unused"
<1> USE DEF SnapshotsInv, TypeOK
<1>1. ASSUME Fail(p) PROVE \A c \in Creds : fate[c] # "unused" => fate'[c] # "unused"
  BY <1>1 DEF Fail
<1>2. ASSUME Unpaired(p, "revoked") \/ Unpaired(p, "unpaired")
      PROVE  \A c \in Creds : fate[c] # "unused" => fate'[c] # "unused"
  BY <1>2 DEF Unpaired
<1>3. CASE Abort(p) \/ ChownFails(p)
  BY <1>1, <1>3 DEF Abort, ChownFails
<1>4. CASE ReadConf(p) \/ RewriteConf(p)
  BY <1>2, <1>4 DEF ReadConf, RewriteConf
<1>5. CASE RenameTmp(p)
  BY <1>2, <1>5 DEF RenameTmp
<1>6. CASE PickAddress(p) \/ PrintBundle(p)
  BY <1>6 DEF PickAddress, PrintBundle
<1>7. CASE \/ \E n \in Names : StartPair(p, n) \/ StartUnpair(p, n)
           \/ SetLive(p) \/ AppendConf(p) \/ OpenTmp(p) \/ WriteTmp(p) \/ RemoveLive(p)
  BY <1>7 DEF StartPair, StartUnpair, SetLive, AppendConf, OpenTmp, WriteTmp, RemoveLive
<1> QED BY <1>3, <1>4, <1>5, <1>6, <1>7 DEF Step

LEMMA NothingSound == Sound({}) /\ Sound({})'
BY DEF Sound, Unique, Drawn

(* Both files hold sound entries after any step of a command. *)
LEMMA FilesSound ==
  ASSUME SnapshotsInv, NEW p \in Procs, Step(p)
  PROVE  Sound(store.entries)' /\ Sound(tmp.entries)'
<1>0. \A c \in Creds : fate[c] # "unused" => fate'[c] # "unused"
  BY SnapshotsStep
<1>1. /\ store.entries \subseteq Entry /\ tmp.entries \subseteq Entry
      /\ Sound(store.entries) /\ Sound(tmp.entries) /\ TypeOK
  BY DEF SnapshotsInv, TypeOK, File
<1>2. ASSUME NEW S, S \subseteq Entry, Sound(S), store'.entries = S \/ store'.entries = {}
      PROVE  Sound(store.entries)'
  <2>1. Unique(S) /\ (\A e \in S : e.cred # NoCred /\ fate'[e.cred] # "unused")
    BY <1>0, <1>1, <1>2 DEF Sound, Drawn, Entry
  <2> QED BY <1>2, <2>1 DEF Sound, Unique, Drawn
<1>3. ASSUME NEW S, S \subseteq Entry, Sound(S), tmp'.entries = S \/ tmp'.entries = {}
      PROVE  Sound(tmp.entries)'
  <2>1. Unique(S) /\ (\A e \in S : e.cred # NoCred /\ fate'[e.cred] # "unused")
    BY <1>0, <1>1, <1>3 DEF Sound, Drawn, Entry
  <2> QED BY <1>3, <2>1 DEF Sound, Unique, Drawn
<1>4. CASE RenameTmp(p)
  BY <1>1, <1>2, <1>3, <1>4 DEF RenameTmp, Absent
<1>5. CASE OpenTmp(p) \/ ChownFails(p)
  BY <1>1, <1>2, <1>3, <1>5 DEF OpenTmp, ChownFails, Absent, Empty
<1>6. CASE WriteTmp(p)
  <2>1. Sound(ToSave(p)) /\ ToSave(p) \subseteq Entry
    BY <1>6, SaveSound DEF WriteTmp
  <2>2. \A f : \A g \in Overwrite(f, ToSave(p)) : g.entries = ToSave(p) \/ g.entries = {}
    BY DEF Overwrite, Whole, Torn
  <2>3. store' = store \/ store'.entries = ToSave(p) \/ store'.entries = {}
    BY <1>6, <2>2 DEF WriteTmp
  <2>4. tmp' = tmp \/ tmp'.entries = ToSave(p) \/ tmp'.entries = {}
    BY <1>6, <2>2 DEF WriteTmp
  <2> QED BY <1>1, <1>2, <1>3, <2>1, <2>3, <2>4
<1>7. CASE ~(RenameTmp(p) \/ OpenTmp(p) \/ ChownFails(p) \/ WriteTmp(p))
  <2>1. UNCHANGED <<store, tmp>>
    BY <1>7 DEF Step, StartPair, StartUnpair, PickAddress, SetLive, AppendConf,
      PrintBundle, RemoveLive, ReadConf, RewriteConf, Abort, files
  <2> QED BY <1>1, <1>2, <1>3, <2>1
<1> QED BY <1>4, <1>5, <1>6, <1>7

(* What one command holds, named to be proved for one command at a time.   *)
Memory(q) == Sound(snap[q]) /\ (pc[q] # "idle" /\ op[q] = "pair" => Adds(q))

(* A command whose memory a step does not touch stays as sound as it was. *)
LEMMA MemoryKept ==
  ASSUME SnapshotsInv, NEW q \in Procs,
         \A c \in Creds : fate[c] # "unused" => fate'[c] # "unused",
         pc'[q] = pc[q] \/ (pc'[q] # "pick" /\ pc[q] \notin {"idle", "pick"}),
         op'[q] = op[q], entry'[q] = entry[q], snap'[q] = snap[q]
  PROVE  Memory(q)'
<1>1. /\ snap[q] \subseteq Entry /\ entry[q] \in Entry
      /\ Sound(snap[q]) /\ (pc[q] # "idle" /\ op[q] = "pair" => Adds(q))
  BY DEF SnapshotsInv, TypeOK
<1>2. Drawn(snap[q])'
  BY <1>1 DEF Sound, Drawn, Entry
<1>3. Unique(snap[q])'
  BY <1>1 DEF Sound, Unique
<1>4. pc[q] # "idle" /\ op[q] = "pair" => Adds(q)'
  BY <1>1 DEF Adds, Drawn, Entry
<1>5. pc'[q] # "idle" => pc[q] # "idle"
  OBVIOUS
<1> QED BY <1>2, <1>3, <1>4, <1>5 DEF Memory, Sound

LEMMA IdleMemory ==
  ASSUME NEW q \in Procs, pc'[q] = "idle", snap'[q] = {}
  PROVE  Memory(q)'
BY NothingSound DEF Memory, Sound, Unique, Drawn

LEMMA MemorySound ==
  ASSUME SnapshotsInv, NEW p \in Procs, Step(p), NEW q \in Procs
  PROVE  Memory(q)'
<1> USE DEF SnapshotsInv, TypeOK
<1>0. \A c \in Creds : fate[c] # "unused" => fate'[c] # "unused"
  BY SnapshotsStep
<1>e. ASSUME Exit(p) PROVE Memory(q)'
  <2>1. CASE q = p
    BY <1>e, <2>1, IdleMemory DEF Exit
  <2>2. CASE q # p
    BY <1>e, <1>0, <2>2, MemoryKept DEF Exit
  <2> QED BY <2>1, <2>2
<1>m. ASSUME UNCHANGED <<op, entry, snap>>, NEW v, pc' = [pc EXCEPT ![p] = v],
             v # "pick", pc[p] \notin {"idle", "pick"}
      PROVE  Memory(q)'
  <2>1. pc'[q] = pc[q] \/ (pc'[q] # "pick" /\ pc[q] \notin {"idle", "pick"})
    BY <1>m
  <2> QED BY <1>0, <1>m, <2>1, MemoryKept
<1>1. ASSUME NEW n \in Names, StartPair(p, n) PROVE Memory(q)'
  <2>1. CASE q = p
    <3>1. /\ snap'[q] = store.entries /\ pc'[q] = "pick"
          /\ entry'[q] = [NoEntry EXCEPT !.name = n] /\ UNCHANGED fate
      BY <1>1, <2>1 DEF StartPair, Begin
    <3>2. entry'[q].name = n
      BY <3>1 DEF NoEntry
    <3>3. Sound(snap[q])'
      BY <3>1 DEF Sound, Unique, Drawn
    <3>4. \A e \in store.entries : e.name # n
      BY <1>1 DEF StartPair
    <3> QED BY <3>1, <3>2, <3>3, <3>4 DEF Memory, Adds
  <2>2. CASE q # p
    BY <1>0, <1>1, <2>2, MemoryKept DEF StartPair, Begin
  <2> QED BY <2>1, <2>2
<1>2. ASSUME NEW n \in Names, StartUnpair(p, n) PROVE Memory(q)'
  <2>1. CASE q = p
    <3>1. snap'[q] = store.entries /\ op'[q] = "unpair" /\ UNCHANGED fate
      BY <1>2, <2>1 DEF StartUnpair, Begin
    <3>2. Sound(snap[q])'
      BY <3>1 DEF Sound, Unique, Drawn
    <3> QED BY <3>1, <3>2 DEF Memory
  <2>2. CASE q # p
    BY <1>0, <1>2, <2>2, MemoryKept DEF StartUnpair, Begin
  <2> QED BY <2>1, <2>2
<1>3. CASE PickAddress(p)
  <2>1. CASE q = p
    <3>1. PICK i \in FreeIPs, c \in Creds :
            /\ fate[c] = "unused"
            /\ entry' = [entry EXCEPT ![p] = [@ EXCEPT !.cred = c, !.ip = i, !.tracked = TRUE]]
            /\ fate' = [fate EXCEPT ![c] = "pairing"]
      BY <1>3 DEF PickAddress
    <3>2. snap'[q] = snap[q] /\ pc'[q] = "setlive" /\ op' = op
      BY <1>3, <2>1 DEF PickAddress
    <3>3. entry[q] \in Entry /\ snap[q] \subseteq Entry
      OBVIOUS
    <3>4. entry'[q].name = entry[q].name /\ entry'[q].cred = c
      BY <3>1, <3>3, <2>1 DEF Entry
    <3>5. Sound(snap[q])'
      BY <1>0, <3>2, <3>3 DEF Sound, Unique, Drawn, Entry
    <3>6. Drawn({entry[q]})'
      <4>1. c # NoCred
        BY ConstantsAssumption
      <4>2. fate'[c] = "pairing"
        BY <3>1
      <4> QED BY <3>4, <4>1, <4>2 DEF Drawn
    <3>7. \A e \in snap[q] : e.cred # c
      BY <3>1 DEF Sound, Drawn
    <3>8. pc[q] = "pick"
      BY <1>3, <2>1 DEF PickAddress
    <3>9. op[q] = "pair" => Adds(q)'
      BY <3>2, <3>4, <3>6, <3>7, <3>8 DEF Adds
    <3> QED BY <3>2, <3>5, <3>9 DEF Memory
  <2>2. CASE q # p
    BY <1>0, <1>3, <2>2, MemoryKept DEF PickAddress
  <2> QED BY <2>1, <2>2
<1>4. CASE SetLive(p) \/ AppendConf(p) \/ OpenTmp(p) \/ WriteTmp(p) \/ RemoveLive(p)
  BY <1>m, <1>4 DEF SetLive, AppendConf, OpenTmp, WriteTmp, RemoveLive
<1>5. CASE RenameTmp(p)
  BY <1>e, <1>m, <1>5 DEF RenameTmp, Unpaired
<1>6. CASE ReadConf(p)
  BY <1>e, <1>m, <1>6 DEF ReadConf, Unpaired
<1>7. CASE ChownFails(p) \/ PrintBundle(p) \/ RewriteConf(p) \/ Abort(p)
  BY <1>e, <1>7 DEF ChownFails, PrintBundle, RewriteConf, Abort, Fail, Unpaired
<1> QED BY <1>1, <1>2, <1>3, <1>4, <1>5, <1>6, <1>7 DEF Step

(* Overlapping commands may tear tokens.json or lose each other's updates, *)
(* but none of them ever stores a name or a credential twice: each writes  *)
(* a snapshot whose names runPair has searched.                            *)
THEOREM SnapshotsInvariant == Spec => []SnapshotsInv
<1>1. Init => SnapshotsInv
  <2> SUFFICES ASSUME Init PROVE SnapshotsInv
    OBVIOUS
  <2>1. store.entries \subseteq InitEntries /\ tmp.entries = {}
    BY DEF Init, Absent, Whole
  <2>2. \A e \in InitEntries : e.cred \in Creds /\ fate[e.cred] = "paired"
    BY ConstantsAssumption DEF Init, Entry
  <2>3. Unique(InitEntries) /\ Drawn(InitEntries)
    BY <2>2, ConstantsAssumption DEF Unique, Drawn
  <2>4. Sound(store.entries) /\ Sound(tmp.entries)
    BY <2>1, <2>3 DEF Sound, Unique, Drawn
  <2>5. \A p \in Procs : pc[p] = "idle" /\ Sound(snap[p])
    BY DEF Init, Sound, Unique, Drawn
  <2> QED BY <2>4, <2>5, InitType DEF SnapshotsInv
<1>2. SnapshotsInv /\ [Next]_vars => SnapshotsInv'
  <2> SUFFICES ASSUME SnapshotsInv, [Next]_vars PROVE SnapshotsInv'
    OBVIOUS
  <2>1. ASSUME NEW p \in Procs, Step(p) PROVE SnapshotsInv'
    <3>1. TypeOK'
      BY <2>1, StepType DEF SnapshotsInv
    <3>2. \A q \in Procs : Memory(q)'
      BY <2>1, MemorySound
    <3> QED BY <2>1, <3>1, <3>2, FilesSound DEF SnapshotsInv, Memory
  <2>2. CASE RestartDaemon \/ ReadFault \/ UNCHANGED vars
    <3>1. UNCHANGED <<files, commands, fate>>
      BY <2>2 DEF RestartDaemon, ReadFault, vars
    <3>2. TypeOK'
      BY <2>2, OtherType DEF SnapshotsInv, TypeOK, vars, files, commands, daemon, PeerOf
    <3>3. Sound(store.entries)' /\ Sound(tmp.entries)'
      BY <3>1 DEF SnapshotsInv, files, Sound, Unique, Drawn
    <3>4. \A q \in Procs : Memory(q)'
      BY <3>1, MemoryKept DEF commands
    <3> QED BY <3>2, <3>3, <3>4 DEF SnapshotsInv, Memory
  <2>3. CASE Reboot
    <3>1. TypeOK'
      BY <2>3, OtherType DEF SnapshotsInv
    <3>2. \A c \in Creds : fate[c] # "unused" => fate'[c] # "unused"
      BY <2>3 DEF Reboot
    <3>3. /\ store' = store /\ tmp' = tmp
          /\ store.entries \subseteq Entry /\ tmp.entries \subseteq Entry
      BY <2>3 DEF Reboot, SnapshotsInv, TypeOK, File
    <3>4. Sound(store.entries)' /\ Sound(tmp.entries)'
      BY <3>2, <3>3 DEF SnapshotsInv, Sound, Unique, Drawn, Entry
    <3>5. \A q \in Procs : Memory(q)'
      BY <2>3, IdleMemory DEF Reboot
    <3> QED BY <3>1, <3>4, <3>5 DEF SnapshotsInv, Memory
  <2> QED BY <2>1, <2>2, <2>3 DEF Next
<1> QED BY <1>1, <1>2, PTL DEF Spec

(* No name is held twice and no credential stored twice. *)
THEOREM DevicesUnique == Spec => []OneEntryPerDevice
<1>1. SnapshotsInv => OneEntryPerDevice
  BY DEF SnapshotsInv, Sound, Unique, OneEntryPerDevice
<1> QED BY <1>1, SnapshotsInvariant, PTL

--------------------------------------------------------------------------------
(* Refinement: what tokens.json holds is the registry DeviceRegistry       *)
(* promises.                                                               *)

(* HolderOf, of any set of entries. *)
Holder(S, n) == IF \E e \in S : e.name = n
                THEN (CHOOSE e \in S : e.name = n).cred ELSE NoCred
Retired == {c \in Creds : fate[c] \in {"revoked", "unpaired"}}

LEMMA HolderHeld ==
  ASSUME NEW S, Unique(S), NEW e \in S
  PROVE  Holder(S, e.name) = e.cred
<1>1. (CHOOSE d \in S : d.name = e.name) = e
  BY DEF Unique
<1> QED BY <1>1 DEF Holder

LEMMA HolderFree ==
  ASSUME NEW S, NEW n, \A e \in S : e.name # n
  PROVE  Holder(S, n) = NoCred
BY DEF Holder

(* A new entry under a free name changes what that name holds, no other.   *)
LEMMA HolderAdded ==
  ASSUME NEW S, NEW e, Unique(S \cup {e}), \A d \in S : d.name # e.name, NEW n
  PROVE  Holder(S \cup {e}, n) = IF n = e.name THEN e.cred ELSE Holder(S, n)
<1>u. Unique(S)
  BY DEF Unique
<1>1. CASE n = e.name
  BY <1>1, HolderHeld
<1>2. CASE n # e.name /\ \E d \in S : d.name = n
  BY <1>2, <1>u, HolderHeld
<1>3. CASE n # e.name /\ ~ \E d \in S : d.name = n
  BY <1>3, HolderFree
<1> QED BY <1>1, <1>2, <1>3

(* Removing an entry frees its name, no other. *)
LEMMA HolderRemoved ==
  ASSUME NEW S, NEW e \in S, Unique(S), NEW n
  PROVE  Holder(S \ {e}, n) = IF n = e.name THEN NoCred ELSE Holder(S, n)
<1>u. Unique(S \ {e})
  BY DEF Unique
<1>1. CASE n = e.name
  BY <1>1, HolderFree DEF Unique
<1>2. CASE n # e.name /\ \E d \in S : d.name = n
  BY <1>2, <1>u, HolderHeld
<1>3. CASE n # e.name /\ ~ \E d \in S : d.name = n
  BY <1>3, HolderFree
<1> QED BY <1>1, <1>2, <1>3

LEMMA InitRegistry == Init => Registry!Init
<1> SUFFICES ASSUME Init PROVE Registry!Init
  OBVIOUS
<1>1. /\ Unique(InitEntries) /\ InitEntries \subseteq Entry /\ store.entries = InitEntries
      /\ \A e \in InitEntries : e.cred \in Creds
  BY ConstantsAssumption DEF Init, Absent, Whole, Unique, Entry
<1>2. \A n \in Names : HolderOf(n) = Holder(InitEntries, n)
  BY <1>1 DEF HolderOf, Holder
<1>3. \A n \in Names : \/ HolderOf(n) = NoCred
                       \/ \E e \in InitEntries : e.name = n /\ HolderOf(n) = e.cred
  BY <1>1, <1>2, HolderFree, HolderHeld
<1>4. [n \in Names |-> HolderOf(n)] \in [Names -> Creds \cup {NoCred}]
  BY <1>1, <1>3
<1>5. \A m, n \in Names : HolderOf(m) = HolderOf(n) => m = n \/ HolderOf(m) = NoCred
  BY <1>1, <1>3 DEF Unique
<1>6. {c \in Creds : fate[c] \in {"revoked", "unpaired"}} = {}
  BY DEF Init
<1> QED BY <1>4, <1>5, <1>6 DEF Registry!Init

(* What neither touches the store nor retires a credential is invisible.   *)
LEMMA RegistryStutters ==
  ASSUME store' = store, Retired' = Retired
  PROVE  UNCHANGED Registry!vars
<1>1. [n \in Names |-> HolderOf(n)]' = [n \in Names |-> HolderOf(n)]
  BY DEF HolderOf
<1> QED BY <1>1 DEF Registry!vars, Retired

(* The rename of a pair command is the grant. *)
LEMMA PairCommits ==
  ASSUME SerialInv, SerialInv', Serial, NEW p \in Procs, RenameTmp(p), op[p] = "pair"
  PROVE  Registry!Next
<1> DEFINE e == entry[p]
           S == store.entries
<1>1. ProgressOf(p) /\ pc[p] = "rename"
  BY DEF SerialInv, Progress, RenameTmp
<1>2. store'.entries = S \cup {e}
  BY <1>1 DEF RenameTmp, ProgressOf, SaveProgress, SaveSteps, ToSave, Whole
<1>3. /\ e.name \in Names /\ e.cred \in Creds /\ fate[e.cred] = "pairing"
      /\ \A d \in S : d.name # e.name /\ d.cred # e.cred
  BY <1>1 DEF ProgressOf, PairProgress, SaveSteps
<1>4. Unique(S) /\ Unique(S \cup {e})
  <2>1. OneEntryPerDevice /\ OneEntryPerDevice'
    BY DEF SerialInv
  <2> QED BY <1>2, <2>1 DEF OneEntryPerDevice, Unique
<1>5. \A n \in Names : HolderOf(n) = Holder(S, n)
  BY DEF HolderOf, Holder
<1>6. \A n \in Names : HolderOf(n)' = Holder(S \cup {e}, n)
  BY <1>2 DEF HolderOf, Holder
<1> HIDE DEF e, S
<1>7. \A n \in Names : HolderOf(n)' = IF n = e.name THEN e.cred ELSE HolderOf(n)
  BY <1>3, <1>4, <1>5, <1>6, HolderAdded
<1>8. HolderOf(e.name) = NoCred
  BY <1>3, <1>5, HolderFree
<1>9. \A m \in Names : HolderOf(m) # e.cred
  <2> SUFFICES ASSUME NEW m \in Names PROVE Holder(S, m) # e.cred
    BY <1>5
  <2>1. CASE \E d \in S : d.name = m
    BY <1>3, <1>4, <2>1, HolderHeld
  <2>2. CASE ~ \E d \in S : d.name = m
    BY <1>3, <2>2, HolderFree, ConstantsAssumption
  <2> QED BY <2>1, <2>2
<1>10. fate' = fate
  BY DEF RenameTmp
<1>11. PICK n \in Names, c \in Creds : n = e.name /\ c = e.cred
  BY <1>3
<1>12. Registry!Grant(n, c)
  BY <1>3, <1>7, <1>8, <1>9, <1>10, <1>11 DEF Registry!Grant
<1> QED BY <1>12 DEF Registry!Next

(* The rename of an unpair command is the revocation. *)
LEMMA UnpairCommits ==
  ASSUME SerialInv, SerialInv', Serial, NEW p \in Procs, RenameTmp(p), op[p] = "unpair"
  PROVE  Registry!Next
<1> DEFINE e == entry[p]
           S == store.entries
<1>1. ProgressOf(p) /\ pc[p] = "rename"
  BY DEF SerialInv, Progress, RenameTmp
<1>2. store'.entries = S \ {e}
  BY <1>1 DEF RenameTmp, ProgressOf, SaveProgress, SaveSteps, ToSave, Whole
<1>3. e \in S /\ e.name \in Names /\ e.cred \in Creds
  <2>1. e \in S
    BY <1>1 DEF ProgressOf, UnpairProgress, SaveSteps
  <2>2. e \in Entry /\ e.cred # NoCred
    BY <2>1 DEF SerialInv, TypeOK, FatesMatchFiles
  <2> QED BY <2>1, <2>2 DEF Entry
<1>4. Unique(S)
  BY DEF SerialInv, OneEntryPerDevice, Unique
<1>5. \A n \in Names : HolderOf(n) = Holder(S, n)
  BY DEF HolderOf, Holder
<1>6. \A n \in Names : HolderOf(n)' = Holder(S \ {e}, n)
  BY <1>2 DEF HolderOf, Holder
<1>7. fate' = [fate EXCEPT ![e.cred] = "revoked"] /\ fate \in [Creds -> Fates]
  BY DEF RenameTmp, Unpaired, SerialInv, TypeOK
<1> HIDE DEF e, S
<1>8. \A n \in Names : HolderOf(n)' = IF n = e.name THEN NoCred ELSE HolderOf(n)
  BY <1>3, <1>4, <1>5, <1>6, HolderRemoved
<1>9. HolderOf(e.name) = e.cred
  BY <1>3, <1>4, <1>5, HolderHeld
<1>10. Retired' = Retired \cup {e.cred}
  BY <1>3, <1>7 DEF Retired
<1>11. PICK n \in Names : n = e.name
  BY <1>3
<1>12. Registry!Revoke(n)
  <2>1. [m \in Names |-> HolderOf(m)]' = [[m \in Names |-> HolderOf(m)] EXCEPT ![n] = NoCred]
    BY <1>8, <1>11
  <2>2. {c \in Creds : fate[c] \in {"revoked", "unpaired"}}'
          = {c \in Creds : fate[c] \in {"revoked", "unpaired"}}
              \cup {[m \in Names |-> HolderOf(m)][n]}
    BY <1>9, <1>10, <1>11 DEF Retired
  <2>3. [m \in Names |-> HolderOf(m)][n] # NoCred
    BY <1>3, <1>9, <1>11, ConstantsAssumption
  <2> QED BY <2>1, <2>2, <2>3 DEF Registry!Revoke
<1> QED BY <1>12 DEF Registry!Next

(* Every other step of a command is invisible: a fate moves to or from     *)
(* "revoked" only in a rename, and "unpaired" only comes after it.         *)
LEMMA OtherStepsStutter ==
  ASSUME SerialInv, Serial, NEW p \in Procs, Step(p), ~RenameTmp(p)
  PROVE  UNCHANGED Registry!vars
<1>t. /\ fate \in [Creds -> Fates] /\ entry[p] \in Entry /\ ProgressOf(p)
  BY DEF SerialInv, TypeOK, Progress
<1>1. ASSUME Fail(p) PROVE Retired' = Retired
  BY <1>1 DEF Fail, Retired
<1>2. ASSUME Unpaired(p, "unpaired"), fate[entry[p].cred] = "revoked"
      PROVE  Retired' = Retired
  BY <1>2, <1>t DEF Unpaired, Retired
<1>3. CASE \/ \E n \in Names : StartPair(p, n) \/ StartUnpair(p, n)
           \/ SetLive(p) \/ AppendConf(p) \/ OpenTmp(p) \/ RemoveLive(p)
  BY <1>3, RegistryStutters DEF StartPair, StartUnpair, SetLive, AppendConf, OpenTmp, RemoveLive,
    files, Retired
<1>4. CASE WriteTmp(p)
  <2>1. fd[p] = "tmp"
    BY <1>4, <1>t DEF ProgressOf, SaveProgress, WriteTmp
  <2> QED BY <1>4, <2>1, RegistryStutters DEF WriteTmp, Retired
<1>5. CASE PickAddress(p)
  <2>1. Retired' = Retired
    BY <1>5, <1>t DEF PickAddress, Retired
  <2> QED BY <1>5, <2>1, RegistryStutters DEF PickAddress, files
<1>6. CASE PrintBundle(p)
  <2>1. Retired' = Retired
    BY <1>6, <1>t DEF PrintBundle, Retired
  <2> QED BY <1>6, <2>1, RegistryStutters DEF PrintBundle, files
<1>7. CASE ChownFails(p) \/ Abort(p)
  BY <1>1, <1>7, RegistryStutters DEF ChownFails, Abort, files
<1>8. CASE ReadConf(p) \/ RewriteConf(p)
  <2>1. fate[entry[p].cred] = "revoked"
    BY <1>8, <1>t DEF ReadConf, RewriteConf, ProgressOf, UnpairProgress, UnpairSteps
  <2> QED BY <1>2, <1>8, <2>1, RegistryStutters DEF ReadConf, RewriteConf, files, Retired
<1> QED BY <1>3, <1>4, <1>5, <1>6, <1>7, <1>8 DEF Step

(* Serial commands implement the abstract registry: whatever fails or is   *)
(* killed, and whenever the machine reboots, each step of a command either *)
(* changes nothing a device can rely on, or is exactly one grant of a      *)
(* fresh credential to a free name, or exactly one final revocation.       *)
THEOREM RegistryImplemented == ASSUME Serial PROVE Spec => ImplementsRegistry
<1>1. Init => Registry!Init
  BY InitRegistry
<1>2. SerialInv /\ SerialInv' /\ [Next]_vars => [Registry!Next]_(Registry!vars)
  <2> SUFFICES ASSUME SerialInv, SerialInv', [Next]_vars
               PROVE  Registry!Next \/ UNCHANGED Registry!vars
    OBVIOUS
  <2>1. ASSUME NEW p \in Procs, Step(p), RenameTmp(p) PROVE Registry!Next
    <3>1. op[p] \in {"pair", "unpair"}
      BY DEF SerialInv, TypeOK
    <3> QED BY <2>1, <3>1, PairCommits, UnpairCommits
  <2>2. ASSUME NEW p \in Procs, Step(p), ~RenameTmp(p) PROVE UNCHANGED Registry!vars
    BY <2>2, OtherStepsStutter
  <2>3. CASE RestartDaemon \/ ReadFault \/ UNCHANGED vars
    BY <2>3, RegistryStutters DEF RestartDaemon, ReadFault, vars, files, Retired
  <2>4. CASE Reboot
    <3>1. Retired' = Retired
      BY <2>4 DEF Reboot, Retired
    <3> QED BY <2>4, <3>1, RegistryStutters DEF Reboot
  <2> QED BY <2>1, <2>2, <2>3, <2>4 DEF Next
<1> QED BY <1>1, <1>2, SerialInvariant, PTL DEF Spec, ImplementsRegistry, Registry!Spec

(* What the abstract registry promises holds of the store, through the     *)
(* refinement.                                                             *)
LEMMA RegistrySafe == Registry!Spec => [](Registry!TypeOK /\ Registry!Safe)
<1>1. Registry!Init => Registry!TypeOK /\ Registry!Safe
  BY ConstantsAssumption DEF Registry!Init, Registry!TypeOK, Registry!Safe
<1>2. Registry!TypeOK /\ Registry!Safe /\ [Registry!Next]_(Registry!vars)
        => Registry!TypeOK' /\ Registry!Safe'
  <2> SUFFICES ASSUME Registry!TypeOK, Registry!Safe, Registry!Next \/ UNCHANGED Registry!vars
               PROVE  Registry!TypeOK' /\ Registry!Safe'
    OBVIOUS
  <2> DEFINE h == [n \in Names |-> HolderOf(n)]
             g == [n \in Names |-> HolderOf(n)']
  <2>t. /\ \A n \in Names : HolderOf(n) \in Creds \cup {NoCred}
        /\ \A m, n \in Names : HolderOf(m) = HolderOf(n) => m = n \/ HolderOf(m) = NoCred
        /\ Retired \subseteq Creds /\ \A n \in Names : HolderOf(n) \notin Retired
    BY DEF Registry!TypeOK, Registry!Safe, Retired
  <2>s. SUFFICES /\ \A n \in Names : HolderOf(n)' \in Creds \cup {NoCred}
                 /\ \A m, n \in Names : HolderOf(m)' = HolderOf(n)' => m = n \/ HolderOf(m)' = NoCred
                 /\ Retired' \subseteq Creds /\ \A n \in Names : HolderOf(n)' \notin Retired'
    BY DEF Registry!TypeOK, Registry!Safe, Retired
  <2>1. ASSUME NEW n \in Names, NEW c \in Creds, Registry!Grant(n, c)
        PROVE  /\ \A m \in Names : HolderOf(m)' = IF m = n THEN c ELSE HolderOf(m)
               /\ c \notin Retired /\ Retired' = Retired /\ \A m \in Names : HolderOf(m) # c
    BY <2>1 DEF Registry!Grant, Retired
  <2>2. ASSUME NEW n \in Names, Registry!Revoke(n)
        PROVE  /\ \A m \in Names : HolderOf(m)' = IF m = n THEN NoCred ELSE HolderOf(m)
               /\ HolderOf(n) # NoCred /\ Retired' = Retired \cup {HolderOf(n)}
    BY <2>2 DEF Registry!Revoke, Retired
  <2>3. CASE UNCHANGED Registry!vars
    <3>1. (\A m \in Names : HolderOf(m)' = HolderOf(m)) /\ Retired' = Retired
      BY <2>3 DEF Registry!vars, Retired
    <3> QED BY <2>t, <3>1
  <2>4. CASE \E n \in Names : Registry!Revoke(n)
    BY <2>t, <2>2, <2>4, ConstantsAssumption
  <2>5. CASE \E n \in Names : \E c \in Creds : Registry!Grant(n, c)
    BY <2>t, <2>1, <2>5, ConstantsAssumption
  <2> QED BY <2>3, <2>4, <2>5 DEF Registry!Next
<1> QED BY <1>1, <1>2, PTL DEF Registry!Spec

StaysRevoked == [][\A c \in Retired : c \in Retired' /\ \A n \in Names : HolderOf(n)' # c]_vars

(* A credential that was revoked stays revoked, and no later step of any   *)
(* command, failed save, kill or reboot puts it back into tokens.json,     *)
(* under this name or another.                                             *)
THEOREM RevokedForGood == ASSUME Serial PROVE Spec => StaysRevoked
<1> DEFINE Kept == \A c \in Retired : c \in Retired' /\ \A n \in Names : HolderOf(n)' # c
<1>1. Registry!Safe' /\ [Registry!Next]_(Registry!vars) => Kept
  <2> SUFFICES ASSUME Registry!Safe', Registry!Next \/ UNCHANGED Registry!vars
               PROVE  Kept
    OBVIOUS
  <2>1. Retired \subseteq Retired'
    <3>1. CASE \E n \in Names : Registry!Revoke(n)
      BY <3>1 DEF Registry!Revoke, Retired
    <3>2. CASE \E n \in Names : \E c \in Creds : Registry!Grant(n, c)
      BY <3>2 DEF Registry!Grant, Retired
    <3>3. CASE UNCHANGED Registry!vars
      BY <3>3 DEF Registry!vars, Retired
    <3> QED BY <3>1, <3>2, <3>3 DEF Registry!Next
  <2>2. \A n \in Names : HolderOf(n)' \notin Retired'
    BY DEF Registry!Safe, Retired
  <2> QED BY <2>1, <2>2
<1>2. Kept => [\A c \in Retired : c \in Retired' /\ \A n \in Names : HolderOf(n)' # c]_vars
  OBVIOUS
<1> HIDE DEF Kept
<1> QED BY <1>1, <1>2, RegistryImplemented, RegistrySafe, PTL DEF ImplementsRegistry, Registry!Spec, StaysRevoked

================================================================================
