---------------------------------- MODULE Files ----------------------------------
(***************************************************************************)
(* The file browser of archangeld: requests that resolve a path, check     *)
(* that it is within files_root, and only then look at it and open it,     *)
(* while whoever else uses the server changes the files.                   *)
(***************************************************************************)
EXTENDS Integers, FiniteSets

CONSTANTS
  Paths,       \* absolute paths without links in their directories
  Inside,      \* those isWithinRoot holds of
  Readers,     \* requests that may be under way at once
  NoPath

ASSUME FilesAssumption ==
  /\ Inside \subseteq Paths /\ NoPath \notin Paths /\ Cardinality(Paths) <= 4
  /\ Paths \cap {"file", "dir", "none"} = {}

VARIABLES
  rooted,             \* files_root is configured
  tree,               \* what a path is: "file", "dir", "none", or the path a link names
  fop, asked,         \* what a request wants, and of which path
  fstep, real,        \* its step, and the path it goes on with
  served,             \* the file whose content it has answered with
  touched             \* the files have changed since it was asked

fileVars == <<rooted, tree, fop, asked, fstep, real, served, touched>>

Nodes == {"file", "dir", "none"} \cup Paths

FilesTypeOK ==
  /\ rooted \in BOOLEAN /\ tree \in [Paths -> Nodes]
  /\ fop \in [Readers -> {"read", "download"}] /\ asked \in [Readers -> Paths \cup {NoPath}]
  /\ fstep \in [Readers -> {"idle", "resolve", "stat", "open"}]
  /\ real \in [Readers -> Paths \cup {NoPath}] /\ served \in [Readers -> Paths \cup {NoPath}]
  /\ touched \in [Readers -> BOOLEAN]

FilesInit ==
  /\ rooted \in BOOLEAN /\ tree \in [Paths -> Nodes]
  /\ fop = [q \in Readers |-> "read"] /\ asked = [q \in Readers |-> NoPath]
  /\ fstep = [q \in Readers |-> "idle"] /\ real = asked /\ served = asked
  /\ touched = [q \in Readers |-> FALSE]

--------------------------------------------------------------------------------
(* Paths. *)

Follow(p) == IF tree[p] \in Paths THEN tree[p] ELSE p

(* Where the links of p lead, three at most here (the code: 255).          *)
End(p) == Follow(Follow(Follow(p)))
Loops(p) == tree[End(p)] \in Paths
Exists(p) == tree[End(p)] \in {"file", "dir"}

ResolveText(p) == IF rooted /\ p \in Inside THEN p ELSE NoPath

(* resolvePath: a path that leads nowhere is judged as it is written.      *)
Resolve(p) ==
  IF ~rooted \/ Loops(p) THEN NoPath
  ELSE IF Exists(p) THEN (IF End(p) \in Inside THEN End(p) ELSE NoPath)
  ELSE IF p \in Inside THEN p ELSE NoPath

(* is_broken of a link in the listing of files_root.                       *)
IsBroken(p) == ~Exists(p) \/ End(p) \notin Inside

--------------------------------------------------------------------------------

AskFile(q) ==
  /\ fstep[q] = "idle" /\ fstep' = [fstep EXCEPT ![q] = "resolve"]
  /\ \E o \in {"read", "download"}, p \in Paths :
       fop' = [fop EXCEPT ![q] = o] /\ asked' = [asked EXCEPT ![q] = p]
  /\ served' = [served EXCEPT ![q] = NoPath] /\ real' = [real EXCEPT ![q] = NoPath]
  /\ touched' = [touched EXCEPT ![q] = FALSE]
  /\ UNCHANGED <<rooted, tree>>

ResolvePath(q) ==
  /\ fstep[q] = "resolve"
  /\ real' = [real EXCEPT ![q] = Resolve(asked[q])]
  /\ fstep' = [fstep EXCEPT ![q] = IF Resolve(asked[q]) = NoPath THEN "idle" ELSE "stat"]
  /\ UNCHANGED <<rooted, tree, fop, asked, served, touched>>

(* os.Stat: no directory, and for a preview nothing but a regular file.    *)
StatFile(q) ==
  /\ fstep[q] = "stat"
  /\ fstep' = [fstep EXCEPT ![q] = IF tree[End(real[q])] = "file" THEN "open" ELSE "idle"]
  /\ UNCHANGED <<rooted, tree, fop, asked, real, served, touched>>

(* os.Open follows links again; a directory can be opened, not read.       *)
OpenFile(q) ==
  /\ fstep[q] = "open" /\ fstep' = [fstep EXCEPT ![q] = "idle"]
  /\ served' = [served EXCEPT ![q] = IF tree[End(real[q])] = "file" THEN End(real[q]) ELSE NoPath]
  /\ UNCHANGED <<rooted, tree, fop, asked, real, touched>>

FileChanges(p) ==
  /\ \E k \in Nodes \ {tree[p]} : tree' = [tree EXCEPT ![p] = k]
  /\ touched' = [q \in Readers |-> TRUE]
  /\ UNCHANGED <<rooted, fop, asked, fstep, real, served>>

FileRequest(q) == AskFile(q) \/ ResolvePath(q) \/ StatFile(q) \/ OpenFile(q)

FilesCut ==
  /\ fstep' = [q \in Readers |-> "idle"]
  /\ UNCHANGED <<rooted, tree, fop, asked, real, served, touched>>

--------------------------------------------------------------------------------
(* Properties. *)

(* Unless files change while it runs, a request answers with the file that *)
(* the links of the path it names lead to, and only with one that is       *)
(* within files_root.                                                      *)
ServesWhatWasAsked ==
  \A q \in Readers : served[q] # NoPath /\ ~touched[q] =>
    served[q] = End(asked[q]) /\ served[q] \in Inside /\ rooted

(* The listing and the reading of a link agree: one that is not shown as   *)
(* broken can be followed to something within files_root, and one that is  *)
(* shown as broken is refused, or leads to nothing.                        *)
ListedAsReadable ==
  rooted => \A p \in Inside : tree[p] \in Paths =>
    (IsBroken(p) <=> (Resolve(p) = NoPath \/ ~Exists(Resolve(p))))

================================================================================
