-------------------------------- MODULE Pairing --------------------------------
(***************************************************************************)
(* Device pairing in archangeld.  One-shot commands `archangeld pair` and  *)
(* `archangeld unpair` (run by the owner over SSH, or spawned through      *)
(* systemd-run by the POST and DELETE /devices handlers) edit three places *)
(* without a lock: tokens.json, wg0.conf and the live WireGuard interface. *)
(* The daemon reads tokens.json on every request.                          *)
(*                                                                         *)
(* Each step of a command that touches one of the three places is an       *)
(* action; between two of them any other command may run, the command may  *)
(* fail or be killed, and the machine may reboot.                          *)
(***************************************************************************)
EXTENDS Integers, FiniteSets

CONSTANTS
  Procs,       \* slots in which a pair or unpair command runs
  Names,       \* device names that pass ValidateDeviceName
  Creds,       \* what one pair command generates: a WireGuard key and a token
  HostIPs,     \* the host part of the tunnel addresses a device may get
  InitPeers,   \* the peers of wg0.conf when a behaviour starts
  InitEntries, \* the entries of tokens.json then, tracked or from before
  Serial,      \* TRUE: commands run one at a time, as tokenstore assumes
  ReadFaults,  \* TRUE: the daemon may be unable to open tokens.json
  NoCred       \* no credential yet

ServerIP == 1
NoIP == 0

(* A tokenstore entry. "tracked" is FALSE for an entry without a recorded  *)
(* WireGuard public key and tunnel address.                                *)
Entry == [name : Names, cred : Creds \cup {NoCred},
          ip : HostIPs \cup {NoIP}, tracked : BOOLEAN]

Peer == [cred : Creds, ip : HostIPs]
LivePeer == [cred : Creds, ip : HostIPs \cup {NoIP}]
PeerOf(e) == [cred |-> e.cred, ip |-> e.ip]

ASSUME ConstantsAssumption ==
  /\ HostIPs \subseteq 2..254
  /\ Names # {}
  /\ Serial \in BOOLEAN /\ ReadFaults \in BOOLEAN
  /\ NoCred \notin Creds
  /\ InitPeers \subseteq Peer
  /\ \A q, r \in InitPeers : q.cred = r.cred \/ q.ip = r.ip => q = r
  /\ InitEntries \subseteq Entry
  /\ \A d, e \in InitEntries : d.name = e.name \/ d.cred = e.cred => d = e
  /\ \A e \in InitEntries : e.cred # NoCred
  /\ \A e \in InitEntries : e.tracked => PeerOf(e) \in InitPeers

(* What a reader of tokens.json or tokens.json.tmp finds: no file, a file  *)
(* just truncated, bytes that do not parse, or a whole array of entries.   *)
File == [st : {"absent", "empty", "torn", "whole"}, entries : SUBSET Entry]
Absent == [st |-> "absent", entries |-> {}]
Empty == [st |-> "empty", entries |-> {}]
Torn == [st |-> "torn", entries |-> {}]
Whole(S) == [st |-> "whole", entries |-> S]

(* Load succeeds: a missing file is an empty store.                        *)
Parsable(f) == f.st \in {"absent", "whole"}

PairSteps == {"pick", "setlive", "append"}
SaveSteps == {"open", "write", "rename"}
UnpairSteps == {"rmlive", "readconf", "rewrite"}
Steps == {"idle", "print"} \cup PairSteps \cup SaveSteps \cup UnpairSteps

(* The life of a credential, recorded for the properties.                  *)
Fates == {"unused", "manual", "pairing", "aborted", "paired", "revoked", "unpaired"}

VARIABLES
  store,     \* tokens.json
  tmp,       \* tokens.json.tmp, one path shared by all commands
  conf,      \* the [Peer] blocks of wg0.conf
  live,      \* the peers of the running WireGuard interface
  pc,        \* next step of the command in each slot
  op,        \* "pair" or "unpair"
  entry,     \* the entry the command adds or removes
  snap,      \* the entries the command loaded when it started
  confSnap,  \* the peer blocks RemovePeer read
  fd,        \* where an open tokens.json.tmp descriptor points now
  up,        \* the daemon is running
  boot,      \* the entries the daemon loaded when it started
  readable,  \* the daemon can open tokens.json
  fate       \* history: what became of each credential

files == <<store, tmp, conf, live>>
commands == <<pc, op, entry, snap, confSnap, fd>>
daemon == <<up, boot, readable>>
vars == <<files, commands, daemon, fate>>

TypeOK ==
  /\ store \in File /\ tmp \in File
  /\ conf \subseteq Peer
  /\ live \subseteq LivePeer
  /\ pc \in [Procs -> Steps]
  /\ op \in [Procs -> {"pair", "unpair"}]
  /\ entry \in [Procs -> Entry]
  /\ snap \in [Procs -> SUBSET Entry]
  /\ confSnap \in [Procs -> SUBSET Peer]
  /\ fd \in [Procs -> {"none", "tmp", "store", "gone"}]
  /\ up \in BOOLEAN /\ readable \in BOOLEAN
  /\ boot \subseteq Entry
  /\ fate \in [Creds -> Fates]
  /\ \A p \in Procs : pc[p] \in {"setlive", "append"} => PeerOf(entry[p]) \in Peer

--------------------------------------------------------------------------------
(* Helpers *)

FreeIPsFromServer == (HostIPs \cup {ServerIP}) \ {q.ip : q \in conf}
FreeIPsOnInterface == HostIPs \ {q.ip : q \in live}

(* wgpeer.NextFreeIP picks the lowest host number no block of wg0.conf     *)
(* uses.                                                                   *)
FreeIPs == HostIPs \ {q.ip : q \in conf}

(* `wg set <iface> peer <key> allowed-ips <ip>`: the kernel moves an       *)
(* address to the peer that claimed it last.                               *)
WgSet(L, q) == {[l EXCEPT !.ip = IF @ = q.ip THEN NoIP ELSE @] :
                  l \in {m \in L : m.cred # q.cred}} \cup {q}

(* `wg set <iface> peer <key> remove`.                                     *)
WgRemove(L, c) == {l \in L : l.cred # c}

(* wgpeer.RemovePeerFromConf.                                              *)
WithoutPeer(S, c) == {q \in S : q.cred # c}

(* Writing n entries at offset 0 of an open file: over bytes another       *)
(* command already wrote, a longer old tail may remain.                    *)
Overwrite(f, S) == IF f.st = "empty" THEN {Whole(S)} ELSE {Whole(S), Torn}

(* What store.Add and store.Remove save.                                   *)
ToSave(p) == IF op[p] = "pair" THEN snap[p] \cup {entry[p]}
                               ELSE snap[p] \ {entry[p]}

KnownAtStartup == boot
KnownEver == store.entries \cup boot

(* The verify closure of main: reload tokens.json, else use the snapshot.  *)
Known == IF Parsable(store) /\ readable THEN store.entries ELSE boot
Accepts(c) == up /\ \E e \in Known : e.cred = c

--------------------------------------------------------------------------------
(* Initial state: a server in use, or a fresh one.                          *)

NoEntry == [name |-> CHOOSE n \in Names : TRUE, cred |-> NoCred,
            ip |-> NoIP, tracked |-> FALSE]

Init ==
  /\ store = IF InitEntries = {} THEN Absent ELSE Whole(InitEntries)
  /\ tmp = Absent
  /\ conf = InitPeers
  /\ live = InitPeers
  /\ pc = [p \in Procs |-> "idle"]
  /\ op = [p \in Procs |-> "pair"]
  /\ entry = [p \in Procs |-> NoEntry]
  /\ snap = [p \in Procs |-> {}]
  /\ confSnap = [p \in Procs |-> {}]
  /\ fd = [p \in Procs |-> "none"]
  /\ up = TRUE
  /\ boot = InitEntries
  /\ readable = TRUE
  /\ fate = [c \in Creds |->
               IF \E e \in InitEntries : e.cred = c THEN "paired"
               ELSE IF \E q \in InitPeers : q.cred = c THEN "manual" ELSE "unused"]

--------------------------------------------------------------------------------
(* A command ends, and with it the memory and the descriptor it held.      *)

Exit(p) ==
  /\ pc' = [pc EXCEPT ![p] = "idle"]
  /\ op' = [op EXCEPT ![p] = "pair"]
  /\ entry' = [entry EXCEPT ![p] = NoEntry]
  /\ snap' = [snap EXCEPT ![p] = {}]
  /\ confSnap' = [confSnap EXCEPT ![p] = {}]

(* It exits with an error, or is killed.                                   *)
Fail(p) ==
  /\ Exit(p)
  /\ fate' = [c \in Creds |-> IF c = entry[p].cred /\ fate[c] = "pairing"
                              THEN "aborted" ELSE fate[c]]

(* runUnpair returns.                                                      *)
Unpaired(p, outcome) ==
  /\ Exit(p)
  /\ fate' = [fate EXCEPT ![entry[p].cred] = outcome]

--------------------------------------------------------------------------------
(* A command starts: it loads tokens.json and looks its name up.           *)

MayStart(p) == /\ pc[p] = "idle"
               /\ Serial => \A q \in Procs : pc[q] = "idle"
               /\ Parsable(store)

Begin(p, kind, e, step) ==
  /\ op' = [op EXCEPT ![p] = kind]
  /\ entry' = [entry EXCEPT ![p] = e]
  /\ snap' = [snap EXCEPT ![p] = store.entries]
  /\ pc' = [pc EXCEPT ![p] = step]

StartPairUnchecked(p, n) ==
  /\ MayStart(p)
  /\ Begin(p, "pair", [NoEntry EXCEPT !.name = n], "pick")
  /\ UNCHANGED <<files, confSnap, fd, daemon, fate>>

(* runPair refuses a name that is already paired.                          *)
StartPair(p, n) ==
  /\ MayStart(p)
  /\ \A e \in store.entries : e.name # n
  /\ Begin(p, "pair", [NoEntry EXCEPT !.name = n], "pick")
  /\ UNCHANGED <<files, confSnap, fd, daemon, fate>>

(* runUnpair removes the token first: store.Remove follows the lookup.     *)
StartUnpair(p, n) ==
  /\ MayStart(p)
  /\ \E e \in store.entries : e.name = n /\ Begin(p, "unpair", e, "open")
  /\ UNCHANGED <<files, confSnap, fd, daemon, fate>>

--------------------------------------------------------------------------------
(* runPair up to the token store. *)

(* NextFreeIP reads wg0.conf, then GenerateKeypair and GenerateToken draw  *)
(* a credential nobody has.                                                *)
PickAddress(p) ==
  /\ pc[p] = "pick"
  /\ \E i \in FreeIPs, c \in Creds :
       /\ \A j \in FreeIPs : i <= j
       /\ fate[c] = "unused"
       /\ entry' = [entry EXCEPT ![p] = [@ EXCEPT !.cred = c, !.ip = i, !.tracked = TRUE]]
       /\ fate' = [fate EXCEPT ![c] = "pairing"]
  /\ pc' = [pc EXCEPT ![p] = "setlive"]
  /\ UNCHANGED <<files, op, snap, confSnap, fd, daemon>>

(* AddPeer, live half. *)
SetLive(p) ==
  /\ pc[p] = "setlive"
  /\ live' = WgSet(live, PeerOf(entry[p]))
  /\ pc' = [pc EXCEPT ![p] = "append"]
  /\ UNCHANGED <<store, tmp, conf, op, entry, snap, confSnap, fd, daemon, fate>>

(* AddPeer, persistent half: an O_APPEND write to wg0.conf. *)
AppendConf(p) ==
  /\ pc[p] = "append"
  /\ conf' = conf \cup {PeerOf(entry[p])}
  /\ pc' = [pc EXCEPT ![p] = "open"]
  /\ UNCHANGED <<store, tmp, live, op, entry, snap, confSnap, fd, daemon, fate>>

--------------------------------------------------------------------------------
(* Store.save, shared by store.Add and store.Remove. *)

OpenInPlace(p) ==
  /\ pc[p] = "open"
  /\ store' = Empty
  /\ fd' = [fd EXCEPT ![p] = "store"]
  /\ pc' = [pc EXCEPT ![p] = "write"]
  /\ UNCHANGED <<tmp, conf, live, op, entry, snap, confSnap, daemon, fate>>

(* os.WriteFile opens tokens.json.tmp with O_CREATE and O_TRUNC. *)
OpenTmp(p) ==
  /\ pc[p] = "open"
  /\ tmp' = Empty
  /\ fd' = [fd EXCEPT ![p] = "tmp"]
  /\ pc' = [pc EXCEPT ![p] = "write"]
  /\ UNCHANGED <<store, conf, live, op, entry, snap, confSnap, daemon, fate>>

(* ... and writes the array through its descriptor, wherever another       *)
(* command's rename has moved the file meanwhile.                          *)
WriteTmp(p) ==
  /\ pc[p] = "write"
  /\ CASE fd[p] = "tmp" -> tmp' \in Overwrite(tmp, ToSave(p)) /\ UNCHANGED store
       [] fd[p] = "store" -> store' \in Overwrite(store, ToSave(p)) /\ UNCHANGED tmp
       [] OTHER -> UNCHANGED <<store, tmp>>
  /\ fd' = [fd EXCEPT ![p] = "none"]
  /\ pc' = [pc EXCEPT ![p] = "rename"]
  /\ UNCHANGED <<conf, live, op, entry, snap, confSnap, daemon, fate>>

(* Descriptors follow the file when tokens.json.tmp replaces tokens.json.  *)
AfterRename(d) == IF d = "tmp" THEN "store" ELSE IF d = "store" THEN "gone" ELSE d

(* os.Rename commits the save. *)
RenameTmp(p) ==
  /\ pc[p] = "rename"
  /\ tmp.st # "absent"
  /\ store' = tmp
  /\ tmp' = Absent
  /\ fd' = [q \in Procs |-> AfterRename(fd[q])]
  /\ IF op[p] = "unpair" /\ ~entry[p].tracked
     THEN Unpaired(p, "revoked")
     ELSE /\ pc' = [pc EXCEPT ![p] = IF op[p] = "pair" THEN "print" ELSE "rmlive"]
          /\ fate' = IF op[p] = "pair" THEN fate
                     ELSE [fate EXCEPT ![entry[p].cred] = "revoked"]
          /\ UNCHANGED <<op, entry, snap, confSnap>>
  /\ UNCHANGED <<conf, live, daemon>>

(* chownGroupToMatch fails: save removes the temporary file. *)
ChownFails(p) ==
  /\ pc[p] = "rename"
  /\ tmp' = Absent
  /\ fd' = [q \in Procs |-> IF fd[q] = "tmp" THEN "gone" ELSE fd[q]]
  /\ Fail(p)
  /\ UNCHANGED <<store, conf, live, daemon>>

(* runPair prints the bundle and exits 0. *)
PrintBundle(p) ==
  /\ pc[p] = "print"
  /\ Exit(p)
  /\ fate' = [fate EXCEPT ![entry[p].cred] = IF @ = "pairing" THEN "paired" ELSE @]
  /\ UNCHANGED <<files, fd, daemon>>

--------------------------------------------------------------------------------
(* RemovePeer. *)

RemoveLive(p) ==
  /\ pc[p] = "rmlive"
  /\ live' = WgRemove(live, entry[p].cred)
  /\ pc' = [pc EXCEPT ![p] = "readconf"]
  /\ UNCHANGED <<store, tmp, conf, op, entry, snap, confSnap, fd, daemon, fate>>

ReadConfLiveOnly(p) ==
  /\ pc[p] = "readconf"
  /\ Unpaired(p, "unpaired")
  /\ UNCHANGED <<files, fd, daemon>>

ReadConf(p) ==
  /\ pc[p] = "readconf"
  /\ IF \E q \in conf : q.cred = entry[p].cred
     THEN /\ confSnap' = [confSnap EXCEPT ![p] = conf]
          /\ pc' = [pc EXCEPT ![p] = "rewrite"]
          /\ UNCHANGED <<op, entry, snap, fate>>
     ELSE Unpaired(p, "unpaired")
  /\ UNCHANGED <<files, fd, daemon>>

(* The temporary file has a name of its own; its rename replaces whatever  *)
(* wg0.conf holds by now with what was read, less the peer.                *)
RewriteConf(p) ==
  /\ pc[p] = "rewrite"
  /\ conf' = WithoutPeer(confSnap[p], entry[p].cred)
  /\ Unpaired(p, "unpaired")
  /\ UNCHANGED <<store, tmp, live, fd, daemon>>

--------------------------------------------------------------------------------
(* Failures, reboots and the daemon. *)

(* Any step of a command fails, or the command is killed.  The descriptor  *)
(* it may hold is closed.                                                  *)
Abort(p) ==
  /\ pc[p] # "idle"
  /\ Fail(p)
  /\ fd' = [fd EXCEPT ![p] = "none"]
  /\ UNCHANGED <<files, daemon>>

(* The daemon starts: it exits if it cannot load tokens.json. *)
LoadAtStartup ==
  /\ up' = (Parsable(store) /\ readable)
  /\ boot' = IF up' THEN store.entries ELSE {}

RestartDaemon ==
  /\ LoadAtStartup
  /\ UNCHANGED <<files, commands, readable, fate>>

(* The peers wg-quick brings up: of two blocks with one address the later  *)
(* block gets it; the order of blocks is abstracted to a choice.           *)
Winners == {w \in [{q.ip : q \in conf} -> Creds] :
              \A i \in DOMAIN w : [cred |-> w[i], ip |-> i] \in conf}
BootPeer(q, w) == [cred |-> q.cred, ip |-> IF w[q.ip] = q.cred THEN q.ip ELSE NoIP]

Reboot ==
  /\ \E w \in Winners : live' = {BootPeer(q, w) : q \in conf}
  /\ pc' = [p \in Procs |-> "idle"]
  /\ op' = [p \in Procs |-> "pair"]
  /\ entry' = [p \in Procs |-> NoEntry]
  /\ snap' = [p \in Procs |-> {}]
  /\ confSnap' = [p \in Procs |-> {}]
  /\ fd' = [p \in Procs |-> "none"]
  /\ fate' = [c \in Creds |-> IF fate[c] = "pairing" THEN "aborted" ELSE fate[c]]
  /\ LoadAtStartup
  /\ UNCHANGED <<store, tmp, conf, readable>>

(* The daemon loses or regains the ability to open tokens.json: file       *)
(* permissions, or no descriptors left.                                    *)
ReadFault ==
  /\ ReadFaults
  /\ readable' = ~readable
  /\ UNCHANGED <<files, commands, up, boot, fate>>

--------------------------------------------------------------------------------

Step(p) ==
  \/ \E n \in Names : StartPair(p, n) \/ StartUnpair(p, n)
  \/ PickAddress(p) \/ SetLive(p) \/ AppendConf(p)
  \/ OpenTmp(p) \/ WriteTmp(p) \/ RenameTmp(p) \/ ChownFails(p)
  \/ PrintBundle(p)
  \/ RemoveLive(p) \/ ReadConf(p) \/ RewriteConf(p)
  \/ Abort(p)

Next == (\E p \in Procs : Step(p)) \/ RestartDaemon \/ Reboot \/ ReadFault

Spec == Init /\ [][Next]_vars

--------------------------------------------------------------------------------
(* Properties. *)

(* A reader of tokens.json finds no file or a complete one, never the      *)
(* truncated or mixed bytes of a save under way: the purpose of the        *)
(* temporary file and rename in Store.save.                                *)
StoreAlwaysParses == Parsable(store)

(* No name is held twice and no credential stored twice: every save writes *)
(* a snapshot that Find has searched.  The run checks it for commands one  *)
(* at a time; DevicesUnique proves it for overlapping commands as well.    *)
OneEntryPerDevice ==
  \A d, e \in store.entries : d.name = e.name \/ d.cred = e.cred => d = e

(* No two blocks of wg0.conf share a tunnel address (NextFreeIP), across   *)
(* failed, killed and repeated pair commands.                              *)
DistinctAddresses == \A q, r \in conf : q.ip = r.ip => q = r

(* A device whose token is stored has its peer, at the address the entry   *)
(* records, in wg0.conf and on the live interface: runPair adds the peer   *)
(* first and runUnpair removes the token first, and a reboot or a leftover *)
(* peer of a failed command takes the address from nobody.                 *)
TokenImpliesPeer ==
  \A e \in store.entries : e.tracked => PeerOf(e) \in conf \cap live

(* A device whose pairing bundle was printed is accepted by a daemon that  *)
(* is up and can read tokens.json, until it is unpaired: verify reloads    *)
(* the file, and no later command drops the entry.                         *)
PrintedBundleIsAccepted ==
  \A c \in Creds : fate[c] = "paired" /\ up /\ readable => Accepts(c)

(* Once unpair has removed a token, a daemon that can read tokens.json     *)
(* never accepts it again, whatever it loaded at startup, whatever read    *)
(* faults came and went, and whatever is paired later.                     *)
RevokedLosesAccess ==
  \A c \in Creds : fate[c] \in {"revoked", "unpaired"} /\ readable => ~Accepts(c)

(* Once unpair has removed a token, tokens.json does not hold it again.    *)
RevokedTokenDeleted ==
  \A e \in store.entries : fate[e.cred] \notin {"revoked", "unpaired"}

(* Once unpair has exited 0 for a device with a recorded key, its peer is  *)
(* neither live nor in wg0.conf, so no restart brings it back.             *)
UnpairedPeerGone ==
  \A c \in Creds : fate[c] = "unpaired" => \A q \in conf \cup live : q.cred # c

--------------------------------------------------------------------------------
(* The inductive invariant of serial commands. *)

OneRunner == \A p, q \in Procs : pc[p] # "idle" /\ pc[q] # "idle" => p = q

(* What the fate of a credential says about the files.                     *)
FatesMatchFiles ==
  /\ \A e \in store.entries : e.cred # NoCred /\ fate[e.cred] \in {"pairing", "paired", "aborted"}
  /\ \A c \in Creds : fate[c] = "paired" => \E e \in store.entries : e.cred = c
  /\ \A q \in conf \cup live : fate[q.cred] \notin {"unused", "unpaired"}

(* What a running pair command knows to be still true.                     *)
PairProgress(p) ==
  /\ pc[p] \in {"pick"} \cup SaveSteps \cup PairSteps =>
       \A e \in store.entries : e.name # entry[p].name
  /\ pc[p] # "pick" =>
       /\ entry[p] \in [name : Names, cred : Creds, ip : HostIPs, tracked : {TRUE}]
       /\ fate[entry[p].cred] = "pairing"
  /\ pc[p] \in {"setlive", "append"} \cup SaveSteps =>
       \A e \in store.entries : e.cred # entry[p].cred
  /\ pc[p] \in {"setlive", "append"} => \A q \in conf : q.ip # entry[p].ip
  /\ pc[p] \in {"append"} \cup SaveSteps => PeerOf(entry[p]) \in live
  /\ pc[p] \in SaveSteps => PeerOf(entry[p]) \in conf
  /\ pc[p] = "print" => entry[p] \in store.entries

(* What a running unpair command knows to be still true.                   *)
UnpairProgress(p) ==
  /\ pc[p] \in SaveSteps => entry[p] \in store.entries
  /\ pc[p] \in UnpairSteps =>
       entry[p].cred # NoCred /\ fate[entry[p].cred] = "revoked"
  /\ pc[p] \in {"readconf", "rewrite"} => \A l \in live : l.cred # entry[p].cred
  /\ pc[p] = "rewrite" => confSnap[p] = conf

(* The save under way: only the running command's own bytes are in the     *)
(* temporary file, and they extend or shrink what is stored.               *)
SaveProgress(p) ==
  /\ pc[p] \in PairSteps \cup SaveSteps => snap[p] = store.entries
  /\ fd[p] = IF pc[p] = "write" THEN "tmp" ELSE "none"
  /\ pc[p] = "write" => tmp = Empty
  /\ pc[p] = "rename" => tmp = Whole(ToSave(p))

ProgressOf(p) ==
  /\ SaveProgress(p)
  /\ pc[p] \in PairSteps \cup {"print"} => op[p] = "pair"
  /\ pc[p] \in UnpairSteps => op[p] = "unpair"
  /\ pc[p] # "idle" /\ op[p] = "pair" => PairProgress(p)
  /\ pc[p] # "idle" /\ op[p] = "unpair" => UnpairProgress(p)

Progress == \A p \in Procs : ProgressOf(p)

(* Everything serial commands keep true between any two of their steps,    *)
(* failures and reboots included.                                          *)
SerialInv ==
  /\ TypeOK /\ OneRunner /\ StoreAlwaysParses /\ OneEntryPerDevice
  /\ DistinctAddresses /\ TokenImpliesPeer /\ FatesMatchFiles /\ Progress

(* What commands keep true of every set of entries they load, hold or      *)
(* write, even when they overlap: names and credentials are unique, and a  *)
(* credential in use is never drawn again.                                 *)
Unique(S) == \A d, e \in S : d.name = e.name \/ d.cred = e.cred => d = e
Drawn(S) == \A e \in S : e.cred # NoCred /\ fate[e.cred] # "unused"
Sound(S) == Unique(S) /\ Drawn(S)

(* The entry a pair command adds is new to what it loaded.                 *)
Adds(p) ==
  /\ \A e \in snap[p] : e.name # entry[p].name
  /\ pc[p] # "pick" => /\ Drawn({entry[p]})
                       /\ \A e \in snap[p] : e.cred # entry[p].cred

SnapshotsInv ==
  /\ TypeOK
  /\ Sound(store.entries) /\ Sound(tmp.entries)
  /\ \A p \in Procs : Sound(snap[p]) /\ (pc[p] # "idle" /\ op[p] = "pair" => Adds(p))

(* The daemon is up when nothing has kept it from reading the store.       *)
DaemonUp == up /\ readable

--------------------------------------------------------------------------------
(* The entries of tokens.json implement the abstract registry: each commit *)
(* of a save grants one fresh credential a free name or retires one.       *)
HolderOf(n) == IF \E e \in store.entries : e.name = n
               THEN (CHOOSE e \in store.entries : e.name = n).cred
               ELSE NoCred

Registry == INSTANCE DeviceRegistry
  WITH Nobody <- NoCred,
       holder <- [n \in Names |-> HolderOf(n)],
       retired <- {c \in Creds : fate[c] \in {"revoked", "unpaired"}}

(* Serial commands implement DeviceRegistry.                               *)
ImplementsRegistry == Registry!Spec

================================================================================
