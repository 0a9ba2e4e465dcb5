------------------------------ MODULE Capture ------------------------------
(***************************************************************************)
(* How the private sidecar copies one dataset (scripts/portfolio_sidecar   *)
(* capture_dataset) from a checkout in which people go on working, and how *)
(* a restored copy is compared with what was committed.                    *)
(*                                                                         *)
(* A selector is a directory; its files have two parts, which are read one *)
(* after the other.  A change gives a file, and a change of the names      *)
(* below it gives a directory, a new time in its metadata (st_ctime_ns),   *)
(* which nobody can set back; two changes within one tick of the file      *)
(* system's clock, which would have one time, are left out.  So are sizes, *)
(* owners, devices and the checkout's own directory, whose changes make a  *)
(* capture fail too.                                                       *)
(***************************************************************************)
EXTENDS Naturals, Sequences, FiniteSets

CONSTANTS
  Selectors,      \* of the dataset
  Below,          \* [Selectors -> the paths there may be below them]
  MaxFiles,       \* max_files of the dataset
  MaxCaptures,    \* bound
  MaxEdits        \* bound: what people do in the checkout

Paths == UNION {Below[s] : s \in Selectors}

ASSUME CaptureAssumption ==
  /\ Below \in [Selectors -> SUBSET Paths] /\ IsFiniteSet(Paths)
  /\ Selectors \cap Paths = {}
  /\ \A s, t \in Selectors : s # t => Below[s] \cap Below[t] = {}
  /\ {MaxFiles, MaxCaptures, MaxEdits} \subseteq Nat

VARIABLES
  nodes,      \* [Paths -> what is there, its parts, its time]
  folders,    \* [Selectors -> the time of the directory]
  ignored,    \* [Paths -> untracked, and ignored by a rule that is tracked]
  ready,      \* the checkout is clean and the registered one
  clock,      \* the latest time of a change
  capture,    \* the run of capture_dataset
  snapshots,  \* what the targets hold: manifests with the files they came with
  committed,  \* the manifest in the state file
  verified,   \* what the last restore that was found good contained
  captures,   \* captures that were begun
  then,       \* history: the files at the moment all had been copied
  origin      \* history: the same for the capture that is committed

captureVars == <<nodes, folders, ignored, ready, clock, capture, snapshots, committed,
                 verified, captures, then, origin>>
disk == <<nodes, folders, ignored, ready, clock>>
kept == <<snapshots, committed, verified, origin>>

Nothing == <<>>
Vacant == [kind |-> "none", parts |-> <<0, 0>>, stamp |-> 0]
Unseen == [x \in Paths \cup Selectors |-> 0]
\* todo and names are what is left, of the selectors and of files; folder, opened,
\* file, before and bytes are of the one that is open.
AtRest == [at |-> "off", todo |-> {}, folder |-> "none", opened |-> 0, names |-> {},
           second |-> FALSE, listed |-> Unseen, again |-> Unseen, file |-> "none",
           before |-> 0, bytes |-> <<>>, got |-> [p \in Paths |-> Vacant]]

CaptureInit ==
  /\ clock = 1 /\ folders = [s \in Selectors |-> 1]
  /\ nodes = [p \in Paths |-> [kind |-> "file", parts |-> <<1, 1>>, stamp |-> 1]]
  /\ ignored = [p \in Paths |-> TRUE] /\ ready = TRUE
  /\ capture = AtRest /\ snapshots = {} /\ committed = Nothing /\ verified = Nothing
  /\ captures = 0 /\ then = Nothing /\ origin = Nothing

-----------------------------------------------------------------------------
(* People at work in the checkout.                                         *)

FolderOf(p) == CHOOSE s \in Selectors : p \in Below[s]
Changed == clock < MaxEdits + 1 /\ clock' = clock + 1

\* A part of a file is written in place.
WritePart(p, i) ==
  /\ Changed /\ nodes[p].kind = "file"
  /\ nodes' = [nodes EXCEPT ![p].parts[i] = clock', ![p].stamp = clock']
  /\ UNCHANGED <<folders, ignored, ready, capture, kept, captures, then>>

\* A file is made, removed, or replaced by a link.
SetNode(p, kind) ==
  /\ Changed /\ nodes[p].kind # kind
  /\ nodes' = [nodes EXCEPT ![p] = [kind |-> kind, parts |-> <<clock', clock'>>, stamp |-> clock']]
  /\ folders' = [folders EXCEPT ![FolderOf(p)] = clock']
  /\ UNCHANGED <<ignored, ready, capture, kept, captures, then>>

\* A rule is changed, or the file added to the index.
Track(p) ==
  /\ ignored' = [ignored EXCEPT ![p] = ~@]
  /\ UNCHANGED <<nodes, folders, ready, clock, capture, kept, captures, then>>

WorkInCheckout ==
  /\ ready' = ~ready
  /\ UNCHANGED <<nodes, folders, ignored, clock, capture, kept, captures, then>>

-----------------------------------------------------------------------------
(* A capture.                                                              *)

Reached(label) == capture.at = label

\* Selectors and names are dealt with in a fixed order; which one is left open.
First(set) == CHOOSE x \in set : TRUE
GiveUpCapture == capture' = AtRest
Found == {p \in Paths : capture.listed[p] # 0}

BeginCapture ==
  /\ Reached("off") /\ ready /\ captures < MaxCaptures /\ captures' = captures + 1
  /\ capture' = [AtRest EXCEPT !.at = "open", !.todo = Selectors]
  /\ UNCHANGED <<disk, kept, then>>

\* _open_verified_directory, and the names in it
OpenFolder == LET s == First(capture.todo) IN
  /\ Reached("open") /\ capture.todo # {}
  /\ capture' = [capture EXCEPT !.at = "stat", !.folder = s, !.opened = folders[s],
       !.names = {p \in Below[s] : nodes[p].kind # "none"}]
  /\ UNCHANGED <<disk, kept, captures, then>>

Noted(x, stamp) ==
  IF capture.second THEN [capture EXCEPT !.again[x] = stamp]
  ELSE [capture EXCEPT !.listed[x] = stamp]

\* Only regular files are taken.
StatNode == LET p == First(capture.names) IN
  /\ Reached("stat") /\ capture.names # {}
  /\ IF nodes[p].kind = "file"
     THEN capture' = [Noted(p, nodes[p].stamp) EXCEPT !.names = @ \ {p}]
     ELSE GiveUpCapture
  /\ UNCHANGED <<disk, kept, captures, then>>

\* _verify_open_directory
CloseFolder == LET s == capture.folder IN
  /\ Reached("stat") /\ capture.names = {}
  /\ IF folders[s] = capture.opened
     THEN capture' = [Noted(s, capture.opened) EXCEPT !.at = "open", !.todo = @ \ {s}]
     ELSE GiveUpCapture
  /\ UNCHANGED <<disk, kept, captures, then>>

\* _prove_untracked_and_ignored
AllIgnored == \A p \in Found : ignored[p]

AcceptList ==
  /\ Reached("open") /\ capture.todo = {} /\ ~capture.second
  /\ IF Found # {} /\ Cardinality(Found) <= MaxFiles /\ AllIgnored
     THEN capture' = [capture EXCEPT !.at = "copy", !.names = Found]
     ELSE GiveUpCapture
  /\ UNCHANGED <<disk, kept, captures, then>>

\* _capture_regular_file
OpenFile == LET p == First(capture.names) IN
  /\ Reached("copy") /\ capture.names # {}
  /\ IF nodes[p].kind = "file"
     THEN capture' = [capture EXCEPT !.at = "read", !.file = p, !.before = nodes[p].stamp,
                                     !.bytes = <<>>]
     ELSE GiveUpCapture
  /\ UNCHANGED <<disk, kept, captures, then>>

\* _copy_descriptor, chunk by chunk
ReadPart ==
  /\ Reached("read") /\ Len(capture.bytes) < 2
  /\ capture' = [capture EXCEPT
       !.bytes = Append(@, nodes[capture.file].parts[Len(@) + 1])]
  /\ UNCHANGED <<disk, kept, captures, then>>

CloseFile == LET p == capture.file IN
  /\ Reached("read") /\ Len(capture.bytes) = 2
  /\ IF nodes[p].stamp = capture.before
     THEN capture' = [capture EXCEPT !.at = "copy", !.names = @ \ {p},
            !.got[p] = [kind |-> "file", parts |-> capture.bytes, stamp |-> capture.before]]
     ELSE GiveUpCapture
  /\ UNCHANGED <<disk, kept, captures, then>>

Contents(table) == [p \in {q \in Paths : table[q].kind # "none"} |-> table[p].parts]

\* All selectors are enumerated again.
ListAgain ==
  /\ Reached("copy") /\ capture.names = {} /\ then' = Contents(nodes)
  /\ capture' = [capture EXCEPT !.at = "open", !.second = TRUE, !.todo = Selectors]
  /\ UNCHANGED <<disk, kept, captures>>

\* Mutant: only the names are compared.
SameNames == \A x \in Paths \cup Selectors : capture.again[x] = 0 <=> capture.listed[x] = 0

\* The same names and metadata as before, and as each file had when it was copied.
Unmoved ==
  /\ capture.again = capture.listed
  /\ \A p \in Found : capture.got[p].stamp = capture.again[p]

\* The manifest is written and the staging area frozen.
FinishCapture ==
  /\ Reached("open") /\ capture.todo = {} /\ capture.second
  /\ IF Unmoved /\ ready /\ AllIgnored
     THEN capture' = [capture EXCEPT !.at = "staged"]
     ELSE GiveUpCapture
  /\ UNCHANGED <<disk, kept, captures, then>>

-----------------------------------------------------------------------------
(* What becomes of the copy.                                               *)

Staged == Contents(capture.got)

\* A target takes the staged files with their manifest; the state records it, or
\* the backup fails after that.
Store(commits) ==
  /\ Reached("staged") /\ GiveUpCapture
  /\ snapshots' = snapshots \cup {[manifest |-> Staged, tree |-> Staged]}
  /\ committed' = (IF commits THEN Staged ELSE committed)
  /\ origin' = (IF commits THEN then ELSE origin)
  /\ UNCHANGED <<disk, verified, captures, then>>

\* What a target may give back: a snapshot, or one with a file lost, changed or
\* added, or the files of one with the manifest of another.
Damaged(tree) ==
  {tree} \cup {[q \in DOMAIN tree \ {p} |-> tree[q]] : p \in DOMAIN tree}
  \cup {[tree EXCEPT ![p] = <<0, 0>>] : p \in DOMAIN tree}
  \cup {[q \in DOMAIN tree \cup {p} |-> IF q = p THEN <<0, 0>> ELSE tree[q]] :
          p \in Paths \ DOMAIN tree}

Restorable ==
  UNION {{[manifest |-> m.manifest, tree |-> t] : t \in Damaged(s.tree)} :
           m \in snapshots, s \in snapshots}

\* _parse_portable_manifest compares the digest with the state's.
ManifestIsCommitted(r) == r.manifest = committed

\* Mutant: files that are there and not in the manifest are not noticed.
NoneMissing(r) == DOMAIN r.manifest \subseteq DOMAIN r.tree

\* _collect_restored_nodes
SameNodes(r) == DOMAIN r.tree = DOMAIN r.manifest

\* _hash_restored_file, one after the other
SameDigests(r) == \A p \in DOMAIN r.manifest \cap DOMAIN r.tree : r.tree[p] = r.manifest[p]

\* _verify_restored_snapshot
VerifyRestored ==
  /\ Reached("off") /\ committed # Nothing
  /\ \E r \in Restorable :
       /\ ManifestIsCommitted(r) /\ SameNodes(r) /\ SameDigests(r)
       /\ verified' = r.tree
  /\ UNCHANGED <<disk, capture, snapshots, committed, captures, then, origin>>

CaptureNext ==
  \/ BeginCapture \/ OpenFolder \/ StatNode \/ CloseFolder \/ AcceptList
  \/ OpenFile \/ ReadPart \/ CloseFile \/ ListAgain \/ FinishCapture
  \/ (\E commits \in BOOLEAN : Store(commits)) \/ VerifyRestored \/ WorkInCheckout
  \/ \E p \in Paths :
       \/ Track(p) \/ (\E i \in {1, 2} : WritePart(p, i))
       \/ \E kind \in {"none", "file", "link"} : SetNode(p, kind)

CaptureSpec == CaptureInit /\ [][CaptureNext]_captureVars

-----------------------------------------------------------------------------
(* Properties.                                                             *)

\* No time is later than the clock's; a file is as old as its youngest part; what
\* was accepted for copying are files the policy's limit allows.
CaptureTypeOK ==
  /\ clock \in 1 .. MaxEdits + 1 /\ folders \in [Selectors -> 1 .. clock]
  /\ \A p \in Paths :
       /\ nodes[p].kind \in {"none", "file", "link"} /\ nodes[p].stamp \in 1 .. clock
       /\ nodes[p].stamp \in {nodes[p].parts[1], nodes[p].parts[2]}
       /\ capture.got[p].kind = "file" => p \in Found
  /\ capture.at \in {"off", "open", "stat", "copy", "read", "staged"}
  /\ Reached("copy") \/ Reached("read") => Cardinality(Found) \in 1 .. MaxFiles

\* docs/private-sidecar.md: changes of the source during a capture fail closed.  The
\* files are copied one after the other while people write to them; a copy that is
\* handed to a backup is what all selected files were at one moment.
CapturedAtOneMoment == Reached("staged") => Staged = then

\* A restored copy that is found good is what the files were at one moment of the
\* capture that the state file records, whatever else the target holds.
RestoredWasThere == [][verified' # verified => verified' = origin]_captureVars
=============================================================================
