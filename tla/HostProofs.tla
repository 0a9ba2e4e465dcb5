----------------------------- MODULE HostProofs -----------------------------
(***************************************************************************)
(* What is true of the programs that look at a host while it changes: the  *)
(* capture of a dataset (Capture), for every dataset and every bound, and  *)
(* the supervision of a subprocess (Supervision), for every set of         *)
(* helpers, on both systems and for any number of runs.                    *)
(***************************************************************************)
EXTENDS MCHost, JobGuardProofs, SequenceTheorems

-----------------------------------------------------------------------------
(* Capture: the inductive invariant                                        *)

Nodes == [kind : {"none", "file", "link"}, parts : [1 .. 2 -> Nat], stamp : Nat]
Times == [Paths \cup Selectors -> Nat]
Captures ==
  [at : {"off", "open", "stat", "copy", "read", "staged"}, todo : SUBSET Selectors,
   folder : Selectors \cup {"none"}, opened : Nat, names : SUBSET Paths, second : BOOLEAN,
   listed : Times, again : Times, file : Paths \cup {"none"}, before : Nat,
   bytes : Seq(Nat), got : [Paths -> Nodes]]

DataInv ==
  /\ clock \in Nat /\ nodes \in [Paths -> Nodes] /\ folders \in [Selectors -> Nat]
  /\ capture \in Captures
  /\ Reached("stat") => capture.folder \in Selectors
  /\ Reached("read") => capture.file \in Paths
  /\ Reached("copy") \/ Reached("read") => ~capture.second
  /\ Reached("staged") => capture.second
  /\ ~capture.second => \A x \in Paths \cup Selectors : capture.again[x] = 0

\* No time that was read is in the future, so that a change makes a new one.
TimesInv ==
  /\ \A p \in Paths :
       /\ nodes[p].stamp \in 1 .. clock /\ capture.listed[p] <= clock
       /\ capture.got[p].kind \in {"none", "file"}
       /\ capture.got[p].kind = "file" => capture.got[p].stamp \in 1 .. clock
  /\ \A s \in Selectors : folders[s] \in 1 .. clock /\ capture.listed[s] <= clock
  /\ Reached("stat") => capture.opened \in 1 .. clock
  /\ Reached("read") => capture.before <= clock

FirstListing == (Reached("open") \/ Reached("stat")) /\ ~capture.second
Present(p) == nodes[p].kind # "none"

\* A directory that has not changed since it was listed has no other files.
ListedInv ==
  /\ \A s \in Selectors :
       capture.listed[s] # 0 /\ folders[s] = capture.listed[s] =>
         \A p \in Below[s] : Present(p) => p \in Found
  /\ Reached("stat") /\ ~capture.second /\ folders[capture.folder] = capture.opened =>
       \A p \in Below[capture.folder] : Present(p) => p \in Found \cup capture.names
  /\ ~Reached("off") => \A s \in Selectors :
       capture.listed[s] # 0 \/ (FirstListing /\ s \in capture.todo)

\* A file that has not changed since it was opened is what was copied of it.
CopiedInv ==
  /\ \A p \in Paths :
       capture.got[p].kind = "file" =>
         /\ p \in Found
         /\ nodes[p].stamp = capture.got[p].stamp =>
              nodes[p].kind = "file" /\ nodes[p].parts = capture.got[p].parts
  /\ Reached("read") =>
       /\ Len(capture.bytes) <= 2 /\ capture.file \in Found
       /\ nodes[capture.file].stamp = capture.before =>
            /\ nodes[capture.file].kind = "file"
            /\ \A i \in 1 .. Len(capture.bytes) :
                 capture.bytes[i] = nodes[capture.file].parts[i]
  /\ Reached("copy") \/ Reached("read") =>
       /\ capture.names \subseteq Found
       /\ Cardinality(Found) \in 1 .. MaxFiles
       /\ \A p \in Found : p \in capture.names \/ capture.got[p].kind = "file"
  /\ capture.second => \A p \in Found : capture.got[p].kind = "file"

\* What has not changed since it was copied or listed, or had not when it was seen
\* again, was so when the last file had been copied.
ThenInv ==
  capture.second =>
    /\ then = [p \in DOMAIN then |-> then[p]] /\ DOMAIN then \subseteq Paths
    /\ \A p \in Found :
         capture.got[p].stamp \in {nodes[p].stamp, capture.again[p]} =>
           p \in DOMAIN then /\ then[p] = capture.got[p].parts
    /\ \A s \in Selectors :
         capture.listed[s] \in {folders[s], capture.again[s]} =>
           DOMAIN then \cap Below[s] \subseteq Found

CInv == /\ DataInv /\ TimesInv /\ ListedInv /\ CopiedInv /\ ThenInv /\ CapturedAtOneMoment

-----------------------------------------------------------------------------
(* Helpers                                                                 *)

LEMMA FirstIsIn ==
  ASSUME NEW set, set # {}
  PROVE  First(set) \in set
BY DEF First

LEMMA FolderOfPath ==
  ASSUME NEW s \in Selectors, NEW p \in Below[s]
  PROVE  p \in Paths /\ FolderOf(p) = s
<1>1. p \in Paths
  BY DEF Paths
<1>2. \A t \in Selectors : p \in Below[t] => t = s
  BY CaptureAssumption
<1> QED BY <1>1, <1>2 DEF FolderOf

LEMMA PathHasFolder ==
  ASSUME NEW p \in Paths
  PROVE  FolderOf(p) \in Selectors /\ p \in Below[FolderOf(p)]
BY DEF Paths, FolderOf

LEMMA SelectorsApart ==
  /\ \A p \in Paths : p \in Paths \cup Selectors /\ p \notin Selectors
  /\ \A s \in Selectors : s \in Paths \cup Selectors /\ s \notin Paths
  /\ \A s \in Selectors : Below[s] \subseteq Paths
BY CaptureAssumption DEF Paths

LEMMA PairTyped ==
  ASSUME NEW a \in Nat, NEW b \in Nat
  PROVE  <<a, b>> \in [1 .. 2 -> Nat]
OBVIOUS

Written(n, parts, t) == [[n EXCEPT !.parts = parts] EXCEPT !.stamp = t]
LEMMA WrittenNode ==
  ASSUME NEW n \in Nodes, NEW parts \in [1 .. 2 -> Nat], NEW t \in Nat
  PROVE  /\ Written(n, parts, t) \in Nodes
         /\ Written(n, parts, t).kind = n.kind /\ Written(n, parts, t).stamp = t
         /\ Written(n, parts, t).parts = parts
<1>1. [n EXCEPT !.parts = parts] = [kind |-> n.kind, parts |-> parts, stamp |-> n.stamp]
  BY DEF Nodes
<1> QED BY <1>1 DEF Nodes, Written

LEMMA RestTyped == AtRest \in Captures
<1>1. Vacant \in Nodes
  BY PairTyped DEF Vacant, Nodes
<1>2. Unseen \in Times
  BY DEF Unseen, Times
<1> QED BY <1>1, <1>2 DEF AtRest, Captures

\* A capture that is given up, or over, leaves nothing to keep.
LEMMA AtRestInv ==
  ASSUME CInv, capture' = AtRest, UNCHANGED disk
  PROVE  CInv'
<1> USE DEF CInv
<1>1. /\ capture' = AtRest /\ nodes' = nodes /\ folders' = folders /\ clock' = clock
  BY DEF disk
<1>2. /\ AtRest.at = "off" /\ AtRest.second = FALSE
      /\ \A x \in Paths \cup Selectors : AtRest.listed[x] = 0 /\ AtRest.again[x] = 0
      /\ \A p \in Paths : AtRest.got[p] = Vacant
  BY DEF AtRest, Unseen
<1>3. DataInv'
  BY <1>1, <1>2, RestTyped DEF DataInv, Reached
<1>4. TimesInv'
  BY <1>1, <1>2 DEF TimesInv, DataInv, Reached, Vacant
<1>5. ListedInv' /\ CopiedInv' /\ ThenInv' /\ CapturedAtOneMoment'
  BY <1>1, <1>2 DEF ListedInv, CopiedInv, ThenInv, CapturedAtOneMoment, Reached, Vacant
<1> QED BY <1>3, <1>4, <1>5

LEMMA CaptureInitInv == CaptureInit => CInv
<1> SUFFICES ASSUME CaptureInit PROVE CInv
  OBVIOUS
<1>1. /\ clock = 1 /\ capture = AtRest
      /\ \A p \in Paths : nodes[p] = [kind |-> "file", parts |-> <<1, 1>>, stamp |-> 1]
      /\ \A s \in Selectors : folders[s] = 1
  BY DEF CaptureInit
<1>2. /\ AtRest.at = "off" /\ AtRest.second = FALSE
      /\ \A x \in Paths \cup Selectors : AtRest.listed[x] = 0 /\ AtRest.again[x] = 0
      /\ \A p \in Paths : AtRest.got[p] = Vacant
  BY DEF AtRest, Unseen
<1>3. DataInv
  <2>1. [kind |-> "file", parts |-> <<1, 1>>, stamp |-> 1] \in Nodes
    BY PairTyped DEF Nodes
  <2> QED BY <1>1, <1>2, <2>1, RestTyped DEF DataInv, CaptureInit, Reached
<1>4. TimesInv
  BY <1>1, <1>2 DEF TimesInv, Reached, Vacant
<1>5. ListedInv /\ CopiedInv /\ ThenInv /\ CapturedAtOneMoment
  BY <1>1, <1>2 DEF ListedInv, CopiedInv, ThenInv, CapturedAtOneMoment, Reached, Vacant
<1> QED BY <1>3, <1>4, <1>5 DEF CInv

-----------------------------------------------------------------------------
(* People at work: what they change has a time that nobody has seen, and a  *)
(* name that comes or goes changes its directory.                           *)

Edited ==
  /\ clock' \in {clock, clock + 1} /\ nodes' \in [Paths -> Nodes] /\ folders' \in [Selectors -> Nat]
  /\ \A p \in Paths : nodes'[p] = nodes[p] \/ (nodes'[p].stamp = clock' /\ clock' = clock + 1)
  /\ \A s \in Selectors : folders'[s] = folders[s] \/ (folders'[s] = clock' /\ clock' = clock + 1)
  /\ \A s \in Selectors : \A p \in Below[s] :
       Present(p)' = Present(p) \/ (folders'[s] = clock' /\ clock' = clock + 1)
  /\ capture' = capture /\ then' = then

LEMMA EditsAreSeen ==
  ASSUME DataInv, \/ WorkInCheckout
                  \/ \E p \in Paths :
                       \/ Track(p) \/ (\E i \in {1, 2} : WritePart(p, i))
                       \/ \E kind \in {"none", "file", "link"} : SetNode(p, kind)
  PROVE  Edited
<1> USE DEF DataInv
<1>1. CASE WorkInCheckout \/ \E p \in Paths : Track(p)
  BY <1>1 DEF WorkInCheckout, Track, Edited, Present
<1>2. ASSUME NEW p \in Paths, NEW i \in {1, 2}, WritePart(p, i) PROVE Edited
  <2>1. /\ clock' = clock + 1 /\ clock' \in Nat
        /\ nodes' = [nodes EXCEPT ![p].parts[i] = clock', ![p].stamp = clock']
        /\ folders' = folders /\ capture' = capture /\ then' = then
    BY <1>2 DEF WritePart, Changed
  <2>2. nodes[p] \in Nodes /\ nodes[p].parts \in [1 .. 2 -> Nat]
    BY DEF Nodes
  <2> DEFINE parts == [nodes[p].parts EXCEPT ![i] = clock']
  <2>3. nodes' = [nodes EXCEPT ![p] = Written(nodes[p], parts, clock')]
    BY <2>1 DEF Written
  <2>4. parts \in [1 .. 2 -> Nat]
    BY <2>1, <2>2
  <2> HIDE DEF parts
  <2>5. nodes'[p] \in Nodes /\ nodes'[p].kind = nodes[p].kind /\ nodes'[p].stamp = clock'
    <3>1. nodes'[p] = Written(nodes[p], parts, clock')
      BY <2>3
    <3> QED BY <2>1, <2>2, <2>4, <3>1, WrittenNode
  <2>6. \A q \in Paths : q # p => nodes'[q] = nodes[q]
    BY <2>3
  <2>7. nodes' \in [Paths -> Nodes]
    <3>1. nodes' = [q \in Paths |-> nodes'[q]]
      BY <2>3
    <3>2. \A q \in Paths : nodes'[q] \in Nodes
      BY <2>5, <2>6
    <3> QED BY <3>1, <3>2
  <2> QED BY <2>1, <2>5, <2>6, <2>7, SelectorsApart DEF Edited, Present
<1>3. ASSUME NEW p \in Paths, NEW kind \in {"none", "file", "link"}, SetNode(p, kind)
      PROVE  Edited
  <2>1. /\ clock' = clock + 1 /\ clock' \in Nat
        /\ nodes' = [nodes EXCEPT ![p] = [kind |-> kind, parts |-> <<clock', clock'>>,
                                          stamp |-> clock']]
        /\ folders' = [folders EXCEPT ![FolderOf(p)] = clock']
        /\ capture' = capture /\ then' = then
    BY <1>3 DEF SetNode, Changed
  <2>2. nodes' \in [Paths -> Nodes]
    <3>1. [kind |-> kind, parts |-> <<clock', clock'>>, stamp |-> clock'] \in Nodes
      BY <2>1, PairTyped DEF Nodes
    <3> QED BY <2>1, <3>1
  <2>3. folders' \in [Selectors -> Nat] /\ FolderOf(p) \in Selectors
    BY <2>1, PathHasFolder
  <2>4. \A q \in Paths : nodes'[q] = nodes[q] \/ (q = p /\ nodes'[q].stamp = clock')
    BY <2>1
  <2>5. ASSUME NEW s \in Selectors, NEW q \in Below[s]
        PROVE  Present(q)' = Present(q) \/ folders'[s] = clock'
    <3>1. q \in Paths /\ FolderOf(q) = s
      BY FolderOfPath
    <3>2. CASE q = p
      BY <3>1, <3>2, <2>1, <2>3
    <3>3. CASE q # p
      BY <3>1, <3>3, <2>1 DEF Present
    <3> QED BY <3>2, <3>3
  <2> QED BY <2>1, <2>2, <2>3, <2>4, <2>5 DEF Edited
<1> QED BY <1>1, <1>2, <1>3

LEMMA EditInv ==
  ASSUME CInv, Edited
  PROVE  CInv'
<1> USE DEF CInv, Edited
<1>1. clock \in Nat /\ clock' \in Nat /\ clock <= clock' /\ capture \in Captures
  BY DEF DataInv
<1>2. \A x \in Paths \cup Selectors : capture.listed[x] \in Nat /\ capture.again[x] \in Nat
  BY <1>1 DEF Captures, Times
<1>3. /\ \A p \in Paths : nodes[p].stamp \in Nat /\ capture.got[p].stamp \in Nat
      /\ \A s \in Selectors : folders[s] \in Nat
      /\ capture.opened \in Nat /\ capture.before \in Nat
  BY <1>1 DEF DataInv, Captures, Nodes
<1>4. DataInv'
  BY <1>1 DEF DataInv, Reached
<1>5. TimesInv'
  BY <1>1, <1>2, <1>3 DEF TimesInv, Reached
<1>6. ListedInv'
  <2>1. ASSUME NEW s \in Selectors, capture.listed[s] # 0, folders'[s] = capture.listed[s],
               NEW p \in Below[s], Present(p)'
        PROVE  p \in Found
    <3>1. folders[s] = capture.listed[s] /\ Present(p)
      BY <2>1, <1>1, <1>2, SelectorsApart DEF TimesInv
    <3> QED BY <2>1, <3>1 DEF ListedInv
  <2>2. ASSUME Reached("stat"), ~capture.second, folders'[capture.folder] = capture.opened,
               NEW p \in Below[capture.folder], Present(p)'
        PROVE  p \in Found \cup capture.names
    <3>1. capture.folder \in Selectors
      BY <2>2 DEF DataInv
    <3>2. folders[capture.folder] = capture.opened /\ Present(p)
      BY <2>2, <3>1, <1>1, <1>3 DEF TimesInv
    <3> QED BY <2>2, <3>2 DEF ListedInv
  <2>3. Found' = Found
    BY DEF Found
  <2> QED BY <2>1, <2>2, <2>3 DEF ListedInv, Reached, FirstListing
<1>7. CopiedInv'
  <2>1. Found' = Found
    BY DEF Found
  <2>2. \A p \in Paths : capture.got[p].kind = "file" /\ nodes'[p].stamp = capture.got[p].stamp
          => nodes'[p] = nodes[p]
    BY <1>1, <1>3 DEF TimesInv
  <2>3. Reached("read") /\ nodes'[capture.file].stamp = capture.before
          => nodes'[capture.file] = nodes[capture.file]
    BY <1>1, <1>3 DEF TimesInv, DataInv
  <2>4. \A p \in Paths : capture.got[p].kind = "file" =>
          /\ p \in Found
          /\ nodes'[p].stamp = capture.got[p].stamp =>
               nodes'[p].kind = "file" /\ nodes'[p].parts = capture.got[p].parts
    BY <2>2 DEF CopiedInv
  <2>5. Reached("read") =>
       /\ Len(capture.bytes) <= 2 /\ capture.file \in Found
       /\ nodes'[capture.file].stamp = capture.before =>
            /\ nodes'[capture.file].kind = "file"
            /\ \A i \in 1 .. Len(capture.bytes) :
                 capture.bytes[i] = nodes'[capture.file].parts[i]
    BY <2>3 DEF CopiedInv
  <2> QED BY <2>1, <2>4, <2>5 DEF CopiedInv, Reached
<1>8. ThenInv'
  <2>1. Found' = Found /\ Found \subseteq Paths
    BY DEF Found
  <2>2. SUFFICES ASSUME capture.second PROVE ThenInv'
    BY DEF ThenInv
  <2>3. \A p \in Found : nodes'[p].stamp = capture.got[p].stamp => nodes'[p] = nodes[p]
    BY <2>1, <2>2, <1>1, <1>3 DEF TimesInv, CopiedInv
  <2>4. \A s \in Selectors : folders'[s] = capture.listed[s] => folders'[s] = folders[s]
    BY <1>1, <1>2, <1>3, SelectorsApart DEF TimesInv
  <2>5. \A p \in Found :
         capture.got[p].stamp \in {nodes'[p].stamp, capture.again[p]} =>
           p \in DOMAIN then /\ then[p] = capture.got[p].parts
    BY <2>2, <2>3 DEF ThenInv
  <2>6. \A s \in Selectors :
         capture.listed[s] \in {folders'[s], capture.again[s]} =>
           DOMAIN then \cap Below[s] \subseteq Found
    BY <2>2, <2>4 DEF ThenInv
  <2> QED BY <2>1, <2>2, <2>5, <2>6 DEF ThenInv
<1>9. CapturedAtOneMoment'
  BY DEF CapturedAtOneMoment, Reached, Staged
<1> QED BY <1>4, <1>5, <1>6, <1>7, <1>8, <1>9

-----------------------------------------------------------------------------
(* The listing of the directories.                                         *)

LEMMA BeginInv ==
  ASSUME CInv, BeginCapture
  PROVE  CInv'
<1> USE DEF CInv
<1>1. /\ nodes' = nodes /\ folders' = folders /\ clock' = clock
      /\ capture' = [AtRest EXCEPT !.at = "open", !.todo = Selectors]
  BY DEF BeginCapture, disk
<1>2. /\ capture'.at = "open" /\ capture'.todo = Selectors /\ capture'.second = FALSE
      /\ \A x \in Paths \cup Selectors : capture'.listed[x] = 0 /\ capture'.again[x] = 0
      /\ \A p \in Paths : capture'.got[p] = Vacant
  BY <1>1 DEF AtRest, Unseen
<1>3. capture' \in Captures
  BY <1>1, RestTyped DEF Captures
<1>4. DataInv' /\ TimesInv'
  BY <1>1, <1>2, <1>3 DEF DataInv, TimesInv, Reached, Vacant
<1>5. ListedInv' /\ CopiedInv' /\ ThenInv' /\ CapturedAtOneMoment'
  BY <1>1, <1>2 DEF ListedInv, CopiedInv, ThenInv, CapturedAtOneMoment, Reached, Vacant,
       FirstListing
<1> QED BY <1>4, <1>5

LEMMA OpenFolderInv ==
  ASSUME CInv, OpenFolder
  PROVE  CInv'
<1> USE DEF CInv
<1> DEFINE s == First(capture.todo)
           names == {p \in Below[s] : nodes[p].kind # "none"}
<1>1. /\ nodes' = nodes /\ folders' = folders /\ clock' = clock /\ then' = then
      /\ Reached("open") /\ capture.todo # {}
      /\ capture' = [capture EXCEPT !.at = "stat", !.folder = s, !.opened = folders[s],
                                    !.names = names]
  BY DEF OpenFolder, disk
<1>2. capture \in Captures /\ s \in capture.todo /\ s \in Selectors
  BY <1>1, FirstIsIn DEF DataInv, Captures
<1>3. names \subseteq Paths
  BY <1>2, SelectorsApart
<1> HIDE DEF s, names
<1>4. /\ capture'.at = "stat" /\ capture'.folder = s /\ capture'.opened = folders[s]
      /\ capture'.names = names /\ capture'.todo = capture.todo
      /\ capture'.second = capture.second /\ capture'.listed = capture.listed
      /\ capture'.again = capture.again /\ capture'.got = capture.got
  BY <1>1, <1>2 DEF Captures
<1>5. capture' \in Captures
  BY <1>1, <1>2, <1>3 DEF Captures, DataInv
<1>6. DataInv' /\ TimesInv'
  BY <1>1, <1>2, <1>4, <1>5 DEF DataInv, TimesInv, Reached
<1>7. Found' = Found
  BY <1>4 DEF Found
<1>8. ListedInv'
  <2>1. \A p \in Below[s] : Present(p) => p \in names
    BY DEF Present, names
  <2>2. \A p \in Paths : Present(p)' = Present(p)
    BY <1>1 DEF Present
  <2> QED BY <1>1, <1>2, <1>4, <1>7, <2>1, <2>2, SelectorsApart DEF ListedInv, Reached, FirstListing
<1>9. CopiedInv' /\ ThenInv' /\ CapturedAtOneMoment'
  BY <1>1, <1>4, <1>7 DEF CopiedInv, ThenInv, CapturedAtOneMoment, Reached
<1> QED BY <1>6, <1>8, <1>9

LEMMA StatNodeInv ==
  ASSUME CInv, StatNode
  PROVE  CInv'
<1> USE DEF CInv
<1> DEFINE p == First(capture.names)
<1>1. /\ nodes' = nodes /\ folders' = folders /\ clock' = clock /\ then' = then
      /\ Reached("stat") /\ capture.names # {} /\ UNCHANGED disk
  BY DEF StatNode, disk
<1>2. capture \in Captures /\ p \in capture.names /\ p \in Paths
  BY <1>1, FirstIsIn DEF DataInv, Captures
<1>3. CASE nodes[p].kind # "file"
  BY <1>1, <1>3, AtRestInv DEF StatNode, GiveUpCapture
<1>4. CASE nodes[p].kind = "file"
  <2>1. capture' = [Noted(p, nodes[p].stamp) EXCEPT !.names = @ \ {p}]
    BY <1>4 DEF StatNode
  <2> HIDE DEF p
  <2>2. nodes[p].stamp \in 1 .. clock /\ nodes[p].stamp \in Nat /\ clock \in Nat
    BY <1>2 DEF TimesInv, DataInv
  <2>3. p \in Paths \cup Selectors /\ p \notin Selectors
    BY <1>2, SelectorsApart
  <2>4. /\ capture'.at = "stat" /\ capture'.folder = capture.folder
        /\ capture'.opened = capture.opened /\ capture'.names = capture.names \ {p}
        /\ capture'.todo = capture.todo /\ capture'.second = capture.second
        /\ capture'.got = capture.got
    BY <1>1, <1>2, <2>1 DEF Captures, Noted, Reached
  <2>5. /\ capture'.listed = (IF capture.second THEN capture.listed
                              ELSE [capture.listed EXCEPT ![p] = nodes[p].stamp])
        /\ capture'.again = (IF capture.second THEN [capture.again EXCEPT ![p] = nodes[p].stamp]
                             ELSE capture.again)
    BY <1>2, <2>1 DEF Captures, Noted
  <2>6. /\ capture.listed \in Times /\ capture.again \in Times
        /\ capture'.listed \in Times /\ capture'.again \in Times
    BY <1>2, <2>2, <2>5 DEF Captures, Times
  <2>7. capture' \in Captures
    <3>1. capture' = [capture EXCEPT !.names = capture'.names, !.listed = capture'.listed,
                                     !.again = capture'.again]
      BY <1>2, <2>1 DEF Captures, Noted
    <3> QED BY <1>2, <2>4, <2>6, <3>1 DEF Captures
  <2>8. \A x \in Paths \cup Selectors : x # p => capture'.listed[x] = capture.listed[x]
                                                /\ capture'.again[x] = capture.again[x]
    BY <2>5, <2>6 DEF Times
  <2>9. IF capture.second
        THEN capture'.again[p] = nodes[p].stamp /\ Found' = Found
        ELSE capture'.listed[p] = nodes[p].stamp /\ Found' = Found \cup {p}
    BY <1>2, <2>2, <2>3, <2>5, <2>6 DEF Times, Found
  <2>10. DataInv'
    BY <1>1, <2>4, <2>5, <2>7 DEF DataInv, Reached
  <2>11. TimesInv'
    <3>1. \A x \in Paths \cup Selectors : capture'.listed[x] <= clock
      BY <2>2, <2>3, <2>5, <2>6, <2>8, <2>9, SelectorsApart DEF TimesInv, Times
    <3> QED BY <1>1, <2>4, <3>1, SelectorsApart DEF TimesInv, Reached
  <2>12. ListedInv'
    <3>1. \A s \in Selectors : capture'.listed[s] = capture.listed[s]
      BY <2>3, <2>8, SelectorsApart
    <3>2. \A q \in Paths : Present(q)' = Present(q)
      BY <1>1 DEF Present
    <3>3. Found \subseteq Found'
      BY <2>9
    <3>4. capture.folder \in Selectors
      BY <1>1 DEF DataInv
    <3>5. \A s \in Selectors :
       capture'.listed[s] # 0 /\ folders[s] = capture'.listed[s] =>
         \A q \in Below[s] : Present(q)' => q \in Found'
      BY <3>1, <3>2, <3>3, SelectorsApart DEF ListedInv
    <3>6. ~capture.second /\ folders[capture.folder] = capture.opened =>
            \A q \in Below[capture.folder] : Present(q)' => q \in Found' \cup capture'.names
      BY <1>1, <2>4, <2>9, <3>2, <3>4, SelectorsApart DEF ListedInv
    <3>7. ~Reached("off")
      BY <1>1 DEF Reached
    <3>8. \A s \in Selectors :
            capture'.listed[s] # 0 \/ (FirstListing' /\ s \in capture'.todo)
      BY <1>1, <2>4, <3>1, <3>7 DEF ListedInv, FirstListing, Reached
    <3> QED BY <1>1, <2>4, <3>5, <3>6, <3>8 DEF ListedInv, Reached
  <2>13. CopiedInv'
    BY <1>1, <2>4, <2>9 DEF CopiedInv, Reached
  <2>14. ThenInv'
    <3>1. SUFFICES ASSUME capture.second PROVE ThenInv'
      BY <2>4 DEF ThenInv
    <3>2. /\ Found' = Found /\ Found \subseteq Paths /\ capture'.listed = capture.listed
          /\ \A s \in Selectors : capture'.again[s] = capture.again[s]
      BY <2>3, <2>5, <2>8, <2>9, <3>1, SelectorsApart DEF Found
    <3>3. \A q \in Found :
            capture.got[q].stamp \in {nodes[q].stamp, capture'.again[q]} =>
              capture.got[q].stamp \in {nodes[q].stamp, capture.again[q]}
      BY <2>8, <2>9, <3>1, <3>2
    <3> QED BY <1>1, <2>4, <3>1, <3>2, <3>3 DEF ThenInv
  <2>15. CapturedAtOneMoment'
    BY <2>4 DEF CapturedAtOneMoment, Reached
  <2> QED BY <2>10, <2>11, <2>12, <2>13, <2>14, <2>15
<1> QED BY <1>3, <1>4

LEMMA CloseFolderInv ==
  ASSUME CInv, CloseFolder
  PROVE  CInv'
<1> USE DEF CInv
<1> DEFINE s == capture.folder
<1>1. /\ nodes' = nodes /\ folders' = folders /\ clock' = clock /\ then' = then
      /\ Reached("stat") /\ capture.names = {} /\ UNCHANGED disk
  BY DEF CloseFolder, disk
<1>2. capture \in Captures /\ s \in Selectors
  BY <1>1 DEF DataInv
<1>3. CASE folders[s] # capture.opened
  BY <1>1, <1>3, AtRestInv DEF CloseFolder, GiveUpCapture
<1>4. CASE folders[s] = capture.opened
  <2>1. capture' = [Noted(s, capture.opened) EXCEPT !.at = "open", !.todo = @ \ {s}]
    BY <1>4 DEF CloseFolder
  <2>2. capture.opened \in 1 .. clock /\ capture.opened \in Nat /\ clock \in Nat
    BY <1>1, <1>2 DEF TimesInv, DataInv, Captures
  <2>3. s \in Paths \cup Selectors /\ s \notin Paths
    BY <1>2, SelectorsApart
  <2>4. /\ capture'.at = "open" /\ capture'.names = capture.names
        /\ capture'.todo = capture.todo \ {s} /\ capture'.second = capture.second
        /\ capture'.got = capture.got
    BY <1>2, <2>1 DEF Captures, Noted
  <2>5. /\ capture'.listed = (IF capture.second THEN capture.listed
                              ELSE [capture.listed EXCEPT ![s] = capture.opened])
        /\ capture'.again = (IF capture.second THEN [capture.again EXCEPT ![s] = capture.opened]
                             ELSE capture.again)
    BY <1>2, <2>1 DEF Captures, Noted
  <2>6. /\ capture.listed \in Times /\ capture.again \in Times
        /\ capture'.listed \in Times /\ capture'.again \in Times
    BY <1>2, <2>2, <2>5 DEF Captures, Times
  <2>7. capture' \in Captures
    <3>1. capture' = [capture EXCEPT !.at = "open", !.todo = capture'.todo,
                        !.listed = capture'.listed, !.again = capture'.again]
      BY <1>2, <2>1 DEF Captures, Noted
    <3> QED BY <1>2, <2>4, <2>6, <3>1 DEF Captures
  <2>8. \A x \in Paths \cup Selectors : x # s => capture'.listed[x] = capture.listed[x]
                                                /\ capture'.again[x] = capture.again[x]
    BY <2>5, <2>6 DEF Times
  <2>9. IF capture.second
        THEN capture'.again[s] = capture.opened /\ capture'.listed = capture.listed
        ELSE capture'.listed[s] = capture.opened /\ capture'.again = capture.again
    BY <1>2, <2>3, <2>5, <2>6 DEF Times
  <2>10. Found' = Found
    BY <2>3, <2>8, SelectorsApart DEF Found
  <2>11. DataInv'
    BY <1>1, <2>4, <2>7, <2>9 DEF DataInv, Reached
  <2>12. TimesInv'
    <3>1. \A x \in Paths \cup Selectors : capture'.listed[x] <= clock
      BY <2>2, <2>6, <2>8, <2>9, SelectorsApart DEF TimesInv, Times
    <3> QED BY <1>1, <2>4, <3>1, SelectorsApart DEF TimesInv, Reached
  <2>13. ListedInv'
    <3>1. \A q \in Paths : Present(q)' = Present(q)
      BY <1>1 DEF Present
    <3>2. ~capture.second => \A q \in Below[s] : Present(q) => q \in Found
      BY <1>1, <1>4 DEF ListedInv
    <3>3. \A t \in Selectors :
       capture'.listed[t] # 0 /\ folders[t] = capture'.listed[t] =>
         \A q \in Below[t] : Present(q)' => q \in Found'
      BY <2>8, <2>9, <2>10, <3>1, <3>2, SelectorsApart DEF ListedInv
    <3>4. ~Reached("off")
      BY <1>1 DEF Reached
    <3>5. \A t \in Selectors :
            capture'.listed[t] # 0 \/ (FirstListing' /\ t \in capture'.todo)
      BY <1>1, <2>2, <2>4, <2>8, <2>9, <3>4, SelectorsApart DEF ListedInv, FirstListing, Reached
    <3> QED BY <1>1, <2>4, <3>3, <3>5 DEF ListedInv, Reached
  <2>14. CopiedInv'
    BY <1>1, <2>4, <2>10 DEF CopiedInv, Reached
  <2>15. ThenInv'
    <3>1. SUFFICES ASSUME capture.second PROVE ThenInv'
      BY <2>4 DEF ThenInv
    <3>2. \A p \in Found : capture'.again[p] = capture.again[p]
      BY <2>3, <2>8, SelectorsApart DEF Found
    <3>3. \A t \in Selectors :
            capture.listed[t] \in {folders[t], capture'.again[t]} =>
              capture.listed[t] \in {folders[t], capture.again[t]}
      BY <1>4, <2>8, <2>9, <3>1, SelectorsApart
    <3> QED BY <1>1, <2>4, <2>9, <2>10, <3>1, <3>2, <3>3 DEF ThenInv
  <2>16. CapturedAtOneMoment'
    BY <2>4 DEF CapturedAtOneMoment, Reached
  <2> QED BY <2>11, <2>12, <2>13, <2>14, <2>15, <2>16
<1> QED BY <1>3, <1>4

-----------------------------------------------------------------------------
(* The copying of the files.                                               *)

LEMMA AcceptListInv ==
  ASSUME CInv, AcceptList
  PROVE  CInv'
<1> USE DEF CInv
<1>1. /\ nodes' = nodes /\ folders' = folders /\ clock' = clock /\ UNCHANGED disk
      /\ Reached("open") /\ capture.todo = {} /\ ~capture.second /\ capture \in Captures
  BY DEF AcceptList, disk, DataInv
<1> DEFINE accepted == Found # {} /\ Cardinality(Found) <= MaxFiles /\ AllIgnored
<1>2. CASE ~accepted
  BY <1>1, <1>2, AtRestInv DEF AcceptList, GiveUpCapture
<1>3. CASE accepted
  <2>1. capture' = [capture EXCEPT !.at = "copy", !.names = Found]
    BY <1>3 DEF AcceptList
  <2>2. Found \subseteq Paths /\ Found' = Found
    BY <1>1, <2>1 DEF Found, Captures
  <2>3. /\ capture' \in Captures /\ capture'.at = "copy" /\ capture'.names = Found
        /\ capture'.second = capture.second /\ capture'.listed = capture.listed
        /\ capture'.again = capture.again /\ capture'.got = capture.got
    BY <1>1, <2>1, <2>2 DEF Captures
  <2>4. DataInv' /\ TimesInv'
    BY <1>1, <2>3 DEF DataInv, TimesInv, Reached
  <2>5. ListedInv'
    BY <1>1, <2>2, <2>3 DEF ListedInv, Reached, FirstListing, Present
  <2>6. Cardinality(Found) \in 1 .. MaxFiles
    <3>1. IsFiniteSet(Found)
      BY <2>2, CaptureAssumption, FS_Subset
    <3>2. Cardinality(Found) \in Nat /\ Cardinality(Found) # 0
      BY <1>3, <3>1, FS_CardinalityType, FS_EmptySet
    <3> QED BY <1>3, <3>2, CaptureAssumption
  <2>7. CopiedInv'
    BY <1>1, <2>2, <2>3, <2>6 DEF CopiedInv, Reached
  <2>8. ThenInv' /\ CapturedAtOneMoment'
    BY <1>1, <2>3 DEF ThenInv, CapturedAtOneMoment, Reached
  <2> QED BY <2>4, <2>5, <2>7, <2>8
<1> QED BY <1>2, <1>3

LEMMA OpenFileInv ==
  ASSUME CInv, OpenFile
  PROVE  CInv'
<1> USE DEF CInv
<1> DEFINE p == First(capture.names)
<1>1. /\ nodes' = nodes /\ folders' = folders /\ clock' = clock /\ UNCHANGED disk
      /\ Reached("copy") /\ capture.names # {} /\ capture \in Captures /\ ~capture.second
  BY DEF OpenFile, disk, DataInv
<1>2. p \in capture.names /\ p \in Paths /\ p \in Found
  BY <1>1, FirstIsIn DEF Captures, CopiedInv
<1>3. CASE nodes[p].kind # "file"
  BY <1>1, <1>3, AtRestInv DEF OpenFile, GiveUpCapture
<1>4. CASE nodes[p].kind = "file"
  <2>1. capture' = [capture EXCEPT !.at = "read", !.file = p, !.before = nodes[p].stamp,
                                   !.bytes = <<>>]
    BY <1>4 DEF OpenFile
  <2> HIDE DEF p
  <2>2. nodes[p].stamp \in Nat /\ nodes[p].stamp <= clock
    BY <1>2 DEF DataInv, Nodes, TimesInv
  <2>3. /\ capture' \in Captures /\ capture'.at = "read" /\ capture'.file = p
        /\ capture'.before = nodes[p].stamp /\ capture'.bytes = <<>>
        /\ capture'.names = capture.names
        /\ capture'.second = capture.second /\ capture'.listed = capture.listed
        /\ capture'.again = capture.again /\ capture'.got = capture.got
    <3>1. <<>> \in Seq(Nat)
      OBVIOUS
    <3> QED BY <1>1, <1>2, <2>1, <2>2, <3>1 DEF Captures
  <2>4. Found' = Found
    BY <2>3 DEF Found
  <2>5. DataInv' /\ TimesInv'
    BY <1>1, <1>2, <2>2, <2>3 DEF DataInv, TimesInv, Reached
  <2>6. ListedInv'
    BY <1>1, <2>3, <2>4 DEF ListedInv, Reached, FirstListing, Present
  <2>7. CopiedInv'
    BY <1>1, <1>2, <1>4, <2>3, <2>4 DEF CopiedInv, Reached
  <2>8. ThenInv' /\ CapturedAtOneMoment'
    BY <1>1, <2>3 DEF ThenInv, CapturedAtOneMoment, Reached
  <2> QED BY <2>5, <2>6, <2>7, <2>8
<1> QED BY <1>3, <1>4

LEMMA ReadPartInv ==
  ASSUME CInv, ReadPart
  PROVE  CInv'
<1> USE DEF CInv
<1> DEFINE p == capture.file
           part == nodes[p].parts[Len(capture.bytes) + 1]
<1>1. /\ nodes' = nodes /\ folders' = folders /\ clock' = clock
      /\ Reached("read") /\ capture \in Captures /\ ~capture.second
      /\ p \in Paths /\ p \in Found /\ capture.bytes \in Seq(Nat) /\ Len(capture.bytes) < 2
      /\ capture' = [capture EXCEPT !.bytes = Append(@, part)]
  BY DEF ReadPart, disk, DataInv, Captures, CopiedInv
<1>2. part \in Nat
  <2>1. nodes[p].parts \in [1 .. 2 -> Nat]
    BY <1>1 DEF DataInv, Nodes
  <2>2. Len(capture.bytes) + 1 \in 1 .. 2
    BY <1>1
  <2> QED BY <2>1, <2>2
<1>3. /\ Append(capture.bytes, part) \in Seq(Nat)
      /\ Len(Append(capture.bytes, part)) = Len(capture.bytes) + 1
      /\ \A i \in 1 .. Len(capture.bytes) + 1 :
           Append(capture.bytes, part)[i] =
             IF i = Len(capture.bytes) + 1 THEN part ELSE capture.bytes[i]
  BY <1>1, <1>2
<1>4. /\ capture' \in Captures /\ capture'.at = "read" /\ capture'.file = p
      /\ capture'.before = capture.before /\ capture'.bytes = Append(capture.bytes, part)
      /\ capture'.names = capture.names
      /\ capture'.second = capture.second /\ capture'.listed = capture.listed
      /\ capture'.again = capture.again /\ capture'.got = capture.got
  BY <1>1, <1>3 DEF Captures, Reached
<1>5. Found' = Found
  BY <1>4 DEF Found
<1>6. DataInv' /\ TimesInv'
  BY <1>1, <1>4 DEF DataInv, TimesInv, Reached
<1>7. ListedInv'
  BY <1>1, <1>4, <1>5 DEF ListedInv, Reached, FirstListing, Present
<1>8. CopiedInv'
  <2>1. Len(capture'.bytes) <= 2
    BY <1>1, <1>3, <1>4
  <2>2. ASSUME nodes[p].stamp = capture.before
        PROVE  /\ nodes[p].kind = "file"
               /\ \A i \in 1 .. Len(capture'.bytes) : capture'.bytes[i] = nodes[p].parts[i]
    <3>1. /\ nodes[p].kind = "file"
          /\ \A i \in 1 .. Len(capture.bytes) : capture.bytes[i] = nodes[p].parts[i]
      BY <1>1, <2>2 DEF CopiedInv
    <3> QED BY <1>1, <1>3, <1>4, <3>1
  <2> QED BY <1>1, <1>4, <1>5, <2>1, <2>2 DEF CopiedInv, Reached
<1>9. ThenInv' /\ CapturedAtOneMoment'
  BY <1>1, <1>4 DEF ThenInv, CapturedAtOneMoment, Reached
<1> QED BY <1>6, <1>7, <1>8, <1>9

LEMMA CloseFileInv ==
  ASSUME CInv, CloseFile
  PROVE  CInv'
<1> USE DEF CInv
<1> DEFINE p == capture.file
           copy == [kind |-> "file", parts |-> capture.bytes, stamp |-> capture.before]
<1>1. /\ nodes' = nodes /\ folders' = folders /\ clock' = clock /\ UNCHANGED disk
      /\ Reached("read") /\ capture \in Captures /\ ~capture.second
      /\ p \in Paths /\ p \in Found /\ capture.bytes \in Seq(Nat) /\ Len(capture.bytes) = 2
  BY DEF CloseFile, disk, DataInv, Captures, CopiedInv
<1>2. CASE nodes[p].stamp # capture.before
  BY <1>1, <1>2, AtRestInv DEF CloseFile, GiveUpCapture
<1>3. CASE nodes[p].stamp = capture.before
  <2>1. capture' = [capture EXCEPT !.at = "copy", !.names = @ \ {p}, !.got[p] = copy]
    BY <1>3 DEF CloseFile
  <2>2. /\ nodes[p].kind = "file" /\ nodes[p].parts \in [1 .. 2 -> Nat]
        /\ \A i \in 1 .. 2 : capture.bytes[i] = nodes[p].parts[i]
    BY <1>1, <1>3 DEF CopiedInv, DataInv, Nodes
  <2>3. capture.bytes = nodes[p].parts
    <3>1. capture.bytes \in [1 .. 2 -> Nat]
      BY <1>1, LenProperties
    <3> QED BY <2>2, <3>1
  <2>4. copy \in Nodes /\ copy.stamp \in 1 .. clock
    BY <1>1, <1>3, <2>2, <2>3 DEF Nodes, TimesInv, DataInv
  <2>5. copy.kind = "file" /\ copy.parts = nodes[p].parts /\ copy.stamp = nodes[p].stamp
    BY <1>3, <2>3
  <2> HIDE DEF copy
  <2>6. /\ capture' \in Captures /\ capture'.at = "copy"
        /\ capture'.names = capture.names \ {p}
        /\ capture'.second = capture.second /\ capture'.listed = capture.listed
        /\ capture'.again = capture.again /\ capture'.got = [capture.got EXCEPT ![p] = copy]
    BY <1>1, <2>1, <2>4 DEF Captures
  <2>7. /\ capture'.got[p] = copy
        /\ \A q \in Paths : q # p => capture'.got[q] = capture.got[q]
    BY <1>1, <2>6 DEF Captures
  <2>8. Found' = Found
    BY <2>6 DEF Found
  <2>9. DataInv' /\ TimesInv'
    BY <1>1, <2>4, <2>5, <2>6, <2>7 DEF DataInv, TimesInv, Reached
  <2>10. ListedInv'
    BY <1>1, <2>6, <2>8 DEF ListedInv, Reached, FirstListing, Present
  <2>11. CopiedInv'
    BY <1>1, <2>2, <2>5, <2>6, <2>7, <2>8 DEF CopiedInv, Reached, Found
  <2>12. ThenInv' /\ CapturedAtOneMoment'
    BY <1>1, <2>6 DEF ThenInv, CapturedAtOneMoment, Reached
  <2> QED BY <2>9, <2>10, <2>11, <2>12
<1> QED BY <1>2, <1>3

-----------------------------------------------------------------------------
(* The second listing, and what it shows.                                  *)

LEMMA ListAgainInv ==
  ASSUME CInv, ListAgain
  PROVE  CInv'
<1> USE DEF CInv
<1>1. /\ nodes' = nodes /\ folders' = folders /\ clock' = clock /\ then' = Contents(nodes)
      /\ Reached("copy") /\ capture.names = {} /\ capture \in Captures /\ ~capture.second
      /\ capture' = [capture EXCEPT !.at = "open", !.second = TRUE, !.todo = Selectors]
  BY DEF ListAgain, disk, DataInv
<1>2. /\ capture' \in Captures /\ capture'.at = "open" /\ capture'.second
      /\ capture'.names = {} /\ capture'.listed = capture.listed
      /\ capture'.again = capture.again /\ capture'.got = capture.got
  BY <1>1 DEF Captures
<1>3. Found' = Found /\ Found \subseteq Paths
  BY <1>2 DEF Found
<1>4. DataInv' /\ TimesInv'
  BY <1>1, <1>2 DEF DataInv, TimesInv, Reached
<1>5. ListedInv'
  BY <1>1, <1>2, <1>3 DEF ListedInv, Reached, FirstListing, Present
<1>6. CopiedInv'
  BY <1>1, <1>2, <1>3 DEF CopiedInv, Reached
<1>7. ThenInv'
  <2>1. /\ DOMAIN then' = {p \in Paths : nodes[p].kind # "none"}
        /\ then' = [p \in DOMAIN then' |-> then'[p]]
        /\ \A p \in DOMAIN then' : then'[p] = nodes[p].parts
    BY <1>1 DEF Contents
  <2>2. \A p \in Found :
         capture.got[p].stamp \in {nodes[p].stamp, capture.again[p]} =>
           p \in DOMAIN then' /\ then'[p] = capture.got[p].parts
    <3> SUFFICES ASSUME NEW p \in Found,
                        capture.got[p].stamp \in {nodes[p].stamp, capture.again[p]}
                 PROVE  p \in DOMAIN then' /\ then'[p] = capture.got[p].parts
      OBVIOUS
    <3>1. p \in Paths /\ capture.got[p].kind = "file" /\ capture.got[p].stamp \in 1 .. clock
      BY <1>1, <1>3 DEF CopiedInv, TimesInv
    <3>2. capture.again[p] = 0 /\ clock \in Nat
      BY <1>1, <3>1 DEF DataInv
    <3>3. nodes[p].kind = "file" /\ nodes[p].parts = capture.got[p].parts
      BY <3>1, <3>2 DEF CopiedInv
    <3> QED BY <2>1, <3>1, <3>3
  <2>3. \A s \in Selectors :
         capture.listed[s] \in {folders[s], capture.again[s]} =>
           DOMAIN then' \cap Below[s] \subseteq Found
    <3> SUFFICES ASSUME NEW s \in Selectors,
                        capture.listed[s] \in {folders[s], capture.again[s]}
                 PROVE  DOMAIN then' \cap Below[s] \subseteq Found
      OBVIOUS
    <3>1. capture.listed[s] # 0 /\ capture.again[s] = 0
      BY <1>1, SelectorsApart DEF ListedInv, FirstListing, Reached, DataInv
    <3> QED BY <2>1, <3>1 DEF ListedInv, Present
  <2> QED BY <1>1, <1>2, <1>3, <2>1, <2>2, <2>3 DEF ThenInv
<1>8. CapturedAtOneMoment'
  BY <1>2 DEF CapturedAtOneMoment, Reached
<1> QED BY <1>4, <1>5, <1>6, <1>7, <1>8

\* Names, directories and files are those of the first listing, and so they were
\* those of the moment between the two.
LEMMA UnmovedSince ==
  ASSUME CInv, capture.second, Unmoved
  PROVE  Staged = then
<1> USE DEF CInv
<1>1. DOMAIN then \subseteq Found
  <2> SUFFICES ASSUME NEW p \in DOMAIN then PROVE p \in Found
    OBVIOUS
  <2>1. p \in Paths
    BY DEF ThenInv
  <2>2. PICK s \in Selectors : p \in Below[s]
    BY <2>1, PathHasFolder
  <2>3. capture.listed[s] = capture.again[s]
    BY SelectorsApart DEF Unmoved
  <2> QED BY <2>2, <2>3 DEF ThenInv
<1>2. \A p \in Found : p \in DOMAIN then /\ then[p] = capture.got[p].parts
  BY DEF Unmoved, ThenInv
<1>3. {q \in Paths : capture.got[q].kind # "none"} = Found
  BY DEF TimesInv, CopiedInv, Found
<1>4. Staged = [p \in Found |-> capture.got[p].parts]
  BY <1>3 DEF Staged, Contents
<1>5. then = [p \in DOMAIN then |-> then[p]] /\ DOMAIN then = Found
  BY <1>1, <1>2 DEF ThenInv
<1> QED BY <1>2, <1>4, <1>5

LEMMA FinishInv ==
  ASSUME CInv, FinishCapture
  PROVE  CInv'
<1> USE DEF CInv
<1>1. /\ nodes' = nodes /\ folders' = folders /\ clock' = clock /\ then' = then
      /\ UNCHANGED disk /\ Reached("open") /\ capture \in Captures /\ capture.second
  BY DEF FinishCapture, disk, DataInv
<1>2. CASE ~(Unmoved /\ ready /\ AllIgnored)
  BY <1>1, <1>2, AtRestInv DEF FinishCapture, GiveUpCapture
<1>3. CASE Unmoved /\ ready /\ AllIgnored
  <2>1. capture' = [capture EXCEPT !.at = "staged"]
    BY <1>3 DEF FinishCapture
  <2>2. /\ capture' \in Captures /\ capture'.at = "staged" /\ capture'.second
        /\ capture'.listed = capture.listed /\ capture'.again = capture.again
        /\ capture'.got = capture.got
    BY <1>1, <2>1 DEF Captures
  <2>3. Found' = Found
    BY <2>2 DEF Found
  <2>4. DataInv' /\ TimesInv'
    BY <1>1, <2>2 DEF DataInv, TimesInv, Reached
  <2>5. ListedInv'
    BY <1>1, <2>2, <2>3 DEF ListedInv, Reached, FirstListing, Present
  <2>6. CopiedInv' /\ ThenInv'
    BY <1>1, <2>2, <2>3 DEF CopiedInv, ThenInv, Reached
  <2>7. CapturedAtOneMoment'
    <3>1. Staged' = Staged
      BY <2>2 DEF Staged
    <3> QED BY <1>1, <1>3, <3>1, UnmovedSince DEF CapturedAtOneMoment
  <2> QED BY <2>4, <2>5, <2>6, <2>7
<1> QED BY <1>2, <1>3

-----------------------------------------------------------------------------
(* Steps                                                                   *)

LEMMA CaptureStepInv == CInv /\ [CaptureNext]_captureVars => CInv'
<1> SUFFICES ASSUME CInv, [CaptureNext]_captureVars PROVE CInv'
  OBVIOUS
<1>1. CASE BeginCapture \/ OpenFolder \/ StatNode \/ CloseFolder \/ AcceptList
  BY <1>1, BeginInv, OpenFolderInv, StatNodeInv, CloseFolderInv, AcceptListInv
<1>2. CASE OpenFile \/ ReadPart \/ CloseFile \/ ListAgain \/ FinishCapture
  BY <1>2, OpenFileInv, ReadPartInv, CloseFileInv, ListAgainInv, FinishInv
<1>3. CASE \E commits \in BOOLEAN : Store(commits)
  BY <1>3, AtRestInv DEF Store, GiveUpCapture
<1>4. CASE VerifyRestored \/ UNCHANGED captureVars
  <2>1. UNCHANGED <<nodes, folders, clock, capture, then>>
    BY <1>4 DEF VerifyRestored, captureVars, disk
  <2> QED BY <2>1 DEF CInv, DataInv, TimesInv, ListedInv, CopiedInv, ThenInv,
       CapturedAtOneMoment, Reached, Found, FirstListing, Present, Staged, Contents
<1>5. CASE \/ WorkInCheckout
           \/ \E p \in Paths :
                \/ Track(p) \/ (\E i \in {1, 2} : WritePart(p, i))
                \/ \E kind \in {"none", "file", "link"} : SetNode(p, kind)
  <2>1. Edited
    BY <1>5, EditsAreSeen DEF CInv
  <2> QED BY <2>1, EditInv
<1> QED BY <1>1, <1>2, <1>3, <1>4, <1>5 DEF CaptureNext

\* A file is as old as its youngest part, and the clock stays below its bound.
AgeInv ==
  /\ clock \in 1 .. MaxEdits + 1
  /\ \A p \in Paths : nodes[p].stamp \in {nodes[p].parts[1], nodes[p].parts[2]}

LEMMA AgeStep == CInv /\ AgeInv /\ [CaptureNext]_captureVars => AgeInv'
<1> SUFFICES ASSUME CInv, AgeInv, [CaptureNext]_captureVars PROVE AgeInv'
  OBVIOUS
<1>1. CASE nodes' = nodes /\ clock' = clock
  BY <1>1 DEF AgeInv
<1>2. ASSUME NEW p \in Paths, NEW i \in {1, 2}, WritePart(p, i) PROVE AgeInv'
  <2>1. /\ clock' = clock + 1 /\ clock' \in 1 .. MaxEdits + 1
        /\ nodes' = [nodes EXCEPT ![p].parts[i] = clock', ![p].stamp = clock']
    BY <1>2, CaptureAssumption DEF WritePart, Changed, AgeInv
  <2>2. nodes \in [Paths -> Nodes] /\ nodes[p].parts \in [1 .. 2 -> Nat]
    BY DEF CInv, DataInv, Nodes
  <2> DEFINE parts == [nodes[p].parts EXCEPT ![i] = clock']
  <2>3. nodes' = [nodes EXCEPT ![p] = Written(nodes[p], parts, clock')]
    BY <2>1 DEF Written
  <2>4. parts[1] = clock' \/ parts[2] = clock'
    BY <2>2
  <2>5. parts \in [1 .. 2 -> Nat] /\ clock' \in Nat
    BY <2>1, <2>2 DEF AgeInv
  <2> HIDE DEF parts
  <2>6. nodes'[p].stamp = clock' /\ nodes'[p].parts = parts
    <3>1. nodes'[p] = Written(nodes[p], parts, clock')
      BY <2>2, <2>3
    <3> QED BY <2>2, <2>5, <3>1, WrittenNode
  <2>7. \A q \in Paths : q # p => nodes'[q] = nodes[q]
    BY <2>2, <2>3
  <2> QED BY <2>1, <2>4, <2>6, <2>7 DEF AgeInv
<1>3. ASSUME NEW p \in Paths, NEW kind \in {"none", "file", "link"}, SetNode(p, kind)
      PROVE  AgeInv'
  <2>1. /\ clock' \in 1 .. MaxEdits + 1
        /\ nodes' = [nodes EXCEPT ![p] = [kind |-> kind, parts |-> <<clock', clock'>>,
                                          stamp |-> clock']]
    BY <1>3, CaptureAssumption DEF SetNode, Changed, AgeInv
  <2> QED BY <2>1 DEF AgeInv, CInv, DataInv
<1>4. CASE VerifyRestored \/ UNCHANGED captureVars
  BY <1>1, <1>4 DEF VerifyRestored, captureVars, disk
<1>5. CASE WorkInCheckout \/ \E p \in Paths : Track(p)
  BY <1>1, <1>5 DEF WorkInCheckout, Track
<1>6. CASE \/ BeginCapture \/ OpenFolder \/ StatNode \/ CloseFolder \/ AcceptList
           \/ OpenFile \/ ReadPart \/ CloseFile \/ ListAgain \/ FinishCapture
           \/ \E commits \in BOOLEAN : Store(commits)
  BY <1>1, <1>6 DEF disk, BeginCapture, OpenFolder, StatNode, CloseFolder, AcceptList,
       OpenFile, ReadPart, CloseFile, ListAgain, FinishCapture, Store
<1> QED BY <1>2, <1>3, <1>4, <1>5, <1>6 DEF CaptureNext

-----------------------------------------------------------------------------
(* What is stored and what a restore accepts                               *)

IsMap(f) == f = [x \in DOMAIN f |-> f[x]]

StoredInv ==
  /\ committed = origin
  /\ \A m \in snapshots : IsMap(m.manifest) /\ IsMap(m.tree)

LEMMA StoredStep == CInv /\ StoredInv /\ [CaptureNext]_captureVars => StoredInv'
<1> SUFFICES ASSUME CInv, StoredInv, [CaptureNext]_captureVars PROVE StoredInv'
  OBVIOUS
<1>1. CASE UNCHANGED <<committed, origin, snapshots>>
  BY <1>1 DEF StoredInv
<1>2. ASSUME NEW commits \in BOOLEAN, Store(commits) PROVE StoredInv'
  <2>1. Staged = then
    BY <1>2 DEF Store, CInv, CapturedAtOneMoment
  <2>2. IsMap(Staged)
    BY DEF Staged, Contents, IsMap
  <2>3. /\ snapshots' = snapshots \cup {[manifest |-> Staged, tree |-> Staged]}
        /\ committed' = origin'
    BY <1>2, <2>1 DEF Store, StoredInv
  <2> QED BY <2>2, <2>3 DEF StoredInv
<1>3. CASE VerifyRestored \/ UNCHANGED captureVars
  BY <1>1, <1>3 DEF VerifyRestored, captureVars
<1>4. CASE WorkInCheckout \/ \E p \in Paths : Track(p)
  BY <1>1, <1>4 DEF WorkInCheckout, Track, kept
<1>5. CASE \E p \in Paths : \/ \E i \in {1, 2} : WritePart(p, i)
                            \/ \E kind \in {"none", "file", "link"} : SetNode(p, kind)
  BY <1>1, <1>5 DEF WritePart, SetNode, kept
<1>6. CASE \/ BeginCapture \/ OpenFolder \/ StatNode \/ CloseFolder \/ AcceptList
           \/ OpenFile \/ ReadPart \/ CloseFile \/ ListAgain \/ FinishCapture
  BY <1>1, <1>6 DEF kept, BeginCapture, OpenFolder, StatNode, CloseFolder, AcceptList,
       OpenFile, ReadPart, CloseFile, ListAgain, FinishCapture
<1> QED BY <1>2, <1>3, <1>4, <1>5, <1>6 DEF CaptureNext

LEMMA DamagedIsMap ==
  ASSUME NEW tree, IsMap(tree), NEW t \in Damaged(tree)
  PROVE  IsMap(t)
<1>1. CASE t = tree
  BY <1>1
<1>2. CASE t \in {[q \in DOMAIN tree \ {p} |-> tree[q]] : p \in DOMAIN tree}
  BY <1>2 DEF IsMap
<1>3. CASE t \in {[tree EXCEPT ![p] = <<0, 0>>] : p \in DOMAIN tree}
  BY <1>3 DEF IsMap
<1>4. CASE t \in {[q \in DOMAIN tree \cup {p} |-> IF q = p THEN <<0, 0>> ELSE tree[q]] :
                  p \in Paths \ DOMAIN tree}
  BY <1>4 DEF IsMap
<1> QED BY <1>1, <1>2, <1>3, <1>4 DEF Damaged

LEMMA RestoredStep ==
  StoredInv /\ [CaptureNext]_captureVars => (verified' # verified => verified' = origin)
<1> SUFFICES ASSUME StoredInv, [CaptureNext]_captureVars, verified' # verified
             PROVE  verified' = origin
  OBVIOUS
<1>1. CASE VerifyRestored
  <2>1. PICK r \in Restorable :
          ManifestIsCommitted(r) /\ SameNodes(r) /\ SameDigests(r) /\ verified' = r.tree
    BY <1>1 DEF VerifyRestored
  <2>2. PICK m \in snapshots, s \in snapshots :
          \E t \in Damaged(s.tree) : r = [manifest |-> m.manifest, tree |-> t]
    BY <2>1 DEF Restorable
  <2>3. IsMap(r.manifest) /\ IsMap(r.tree)
    BY <2>2, DamagedIsMap DEF StoredInv
  <2>4. r.tree = r.manifest
    BY <2>1, <2>3 DEF SameNodes, SameDigests, IsMap
  <2> QED BY <2>1, <2>4 DEF ManifestIsCommitted, StoredInv
<1>2. CASE \/ UNCHANGED captureVars \/ WorkInCheckout
           \/ \E p \in Paths :
                \/ Track(p) \/ (\E i \in {1, 2} : WritePart(p, i))
                \/ \E kind \in {"none", "file", "link"} : SetNode(p, kind)
  BY <1>2 DEF captureVars, WorkInCheckout, Track, WritePart, SetNode, kept
<1>3. CASE \/ BeginCapture \/ OpenFolder \/ StatNode \/ CloseFolder \/ AcceptList
           \/ OpenFile \/ ReadPart \/ CloseFile \/ ListAgain \/ FinishCapture
           \/ \E commits \in BOOLEAN : Store(commits)
  BY <1>3 DEF kept, BeginCapture, OpenFolder, StatNode, CloseFolder, AcceptList, OpenFile,
       ReadPart, CloseFile, ListAgain, FinishCapture, Store
<1> QED BY <1>1, <1>2, <1>3 DEF CaptureNext

-----------------------------------------------------------------------------
(* Theorems                                                                *)

LEMMA CaptureAlways == CaptureSpec => [](CInv /\ AgeInv /\ StoredInv)
<1>1. CaptureInit => CInv
  BY CaptureInitInv
<1>2. CaptureInit => AgeInv
  BY CaptureAssumption DEF CaptureInit, AgeInv
<1>3. CaptureInit => StoredInv
  BY DEF CaptureInit, StoredInv
<1>4. CInv /\ AgeInv /\ StoredInv /\ [CaptureNext]_captureVars
        => (CInv /\ AgeInv /\ StoredInv)'
  BY CaptureStepInv, AgeStep, StoredStep
<1> QED BY <1>1, <1>2, <1>3, <1>4, PTL DEF CaptureSpec

\* No time that capture_dataset reads is in the future, and no more files are copied
\* than the policy allows.
THEOREM CaptureTypeCorrect == CaptureSpec => []CaptureTypeOK
<1>1. CInv /\ AgeInv => CaptureTypeOK
  <2> SUFFICES ASSUME CInv, AgeInv PROVE CaptureTypeOK
    OBVIOUS
  <2>1. folders \in [Selectors -> 1 .. clock]
    BY DEF CInv, DataInv, TimesInv
  <2>2. \A p \in Paths :
          /\ nodes[p].kind \in {"none", "file", "link"} /\ nodes[p].stamp \in 1 .. clock
          /\ capture.got[p].kind = "file" => p \in Found
    BY DEF CInv, DataInv, Nodes, TimesInv, CopiedInv
  <2>3. capture.at \in {"off", "open", "stat", "copy", "read", "staged"}
    BY DEF CInv, DataInv, Captures
  <2> QED BY <2>1, <2>2, <2>3 DEF CInv, AgeInv, CopiedInv, CaptureTypeOK
<1> QED BY <1>1, CaptureAlways, PTL

\* For any number of directories and files, of writers and of changes: what
\* capture_dataset hands to a backup is what all the files were at one moment.
THEOREM CapturesAreOfOneMoment == CaptureSpec => []CapturedAtOneMoment
<1>1. CInv => CapturedAtOneMoment
  BY DEF CInv
<1> QED BY <1>1, CaptureAlways, PTL

\* Whatever a target gives back, _verify_restored_snapshot accepts nothing but what
\* the files were at one moment of the capture in the state file.
THEOREM RestoresWereThere == CaptureSpec => RestoredWasThere
<1>1. StoredInv /\ [CaptureNext]_captureVars
        => [verified' # verified => verified' = origin]_captureVars
  BY RestoredStep
<1> QED BY <1>1, CaptureAlways, PTL DEF RestoredWasThere, CaptureSpec

-----------------------------------------------------------------------------
(* Supervision: the inductive invariant                                    *)

\* A number is free only when nobody has it: restic was collected, nobody of the
\* group is left.
ForeignInv ==
  foreign => members[Restic] = "gone" /\ \A p \in Members : ~Grouped(p)

\* Nobody forks after the first signal.
NobodyLives ==
  at \notin {"listening", "watching", "kill"} => \A p \in Members : members[p] # "live"

\* Who is struck again cannot go away: the coordinator itself has to collect it.
StrikeInv == at = "strike" => \E p \in Members : Grouped(p) /\ parent[p] = Us

ProbeInv == at = "probe" => system = "darwin"

\* The parents: alive, a forest, and on Linux never process 1.
ParentLives ==
  \A p \in Members : parent[p] \in Members => members[parent[p]] \in {"live", "dying", "left"}
Forest == \A S \in SUBSET Members : S # {} => \E p \in S : parent[p] \notin S
Subreaper == system = "linux" => \A p \in Members : parent[p] # Launchd

ParentInv == ParentLives /\ Forest /\ Subreaper

SInv == /\ SupervisionTypeOK /\ ForeignInv /\ NobodyLives /\ StrikeInv /\ ProbeInv
        /\ ParentInv /\ GroupIsOurs

-----------------------------------------------------------------------------
(* The heart of the collection on Linux: when nobody who runs is the        *)
(* coordinator's child, and nobody has left, nobody runs; and whoever has   *)
(* exited has the coordinator for a parent.                                 *)

LEMMA NobodyIsLeft ==
  ASSUME SupervisionTypeOK, ParentInv, system = "linux", ~OwnedChild,
         \A h \in Helpers : members[h] # "left",
         NEW p \in Members, Grouped(p)
  PROVE  members[p] = "zombie" /\ parent[p] = Us
<1> DEFINE S == {q \in Members : Running(q)}
<1>1. \A q \in Members : members[q] # "left"
  BY DEF SupervisionTypeOK, Members
<1>2. \A q \in Members : parent[q] = Us \/ (parent[q] \in Members /\ parent[q] \in S)
  BY <1>1 DEF SupervisionTypeOK, ParentInv, ParentLives, Subreaper, Running
<1>3. S = {}
  <2>1. SUFFICES ASSUME S # {} PROVE FALSE
    OBVIOUS
  <2>2. PICK q \in S : parent[q] \notin S
    <3>1. S \in SUBSET Members
      OBVIOUS
    <3> QED BY <3>1, <2>1 DEF ParentInv, Forest
  <2>3. parent[q] = Us
    BY <1>2, <2>2
  <2> QED BY <2>2, <2>3 DEF OwnedChild
<1> QED BY <1>2, <1>3 DEF Grouped, Running

-----------------------------------------------------------------------------
(* The parents stay a forest                                               *)

LEMMA ForestGrows ==
  ASSUME SupervisionTypeOK, ParentInv, NEW p \in Members, NEW h \in Helpers, Fork(p, h)
  PROVE  ParentInv'
<1>1. h \in Members /\ p # h /\ parent' = [parent EXCEPT ![h] = p]
      /\ members' = [members EXCEPT ![h] = "live"] /\ system' = system
  BY DEF Fork, Members, others
<1>2. \A q \in Members : parent[q] # h
  BY <1>1 DEF ParentInv, ParentLives, Fork
<1>3. ParentLives'
  BY <1>1, <1>2 DEF ParentInv, ParentLives, Fork, SupervisionTypeOK
<1>4. Forest'
  <2> SUFFICES ASSUME NEW S \in SUBSET Members, S # {}
               PROVE  \E q \in S : parent'[q] \notin S
    BY DEF Forest
  <2>1. CASE h \notin S
    <3>1. PICK q \in S : parent[q] \notin S
      BY DEF ParentInv, Forest
    <3> QED BY <3>1, <2>1, <1>1 DEF SupervisionTypeOK
  <2>2. CASE S = {h}
    BY <2>2, <1>1 DEF SupervisionTypeOK
  <2>3. CASE h \in S /\ S # {h}
    <3> DEFINE R == S \ {h}
    <3>1. R \in SUBSET Members /\ R # {}
      BY <2>3
    <3>2. PICK q \in R : parent[q] \notin R
      BY <3>1 DEF ParentInv, Forest
    <3>3. parent'[q] = parent[q] /\ parent[q] # h
      BY <3>2, <1>1, <1>2 DEF SupervisionTypeOK
    <3> QED BY <3>2, <3>3
  <2> QED BY <2>1, <2>2, <2>3
<1>5. Subreaper'
  BY <1>1, SupervisionAssumption DEF ParentInv, Subreaper, SupervisionTypeOK, Members
<1> QED BY <1>3, <1>4, <1>5 DEF ParentInv

\* The children of a process that exits get a parent outside the group.
LEMMA ForestOrphans ==
  ASSUME SupervisionTypeOK, ParentInv, NEW p \in Members, Exit(p)
  PROVE  ParentInv'
<1>1. /\ \A q \in Members : \/ parent[q] # p /\ parent'[q] = parent[q]
                            \/ system = "linux" /\ parent'[q] = Us
                            \/ system # "linux" /\ parent'[q] = Launchd
      /\ members' = [members EXCEPT ![p] = "zombie"] /\ system' = system
  BY DEF Exit, others
<1>2. Us \notin Members /\ Launchd \notin Members /\ Us # Launchd
  BY SupervisionAssumption DEF Members
<1>3. ParentLives'
  BY <1>1, <1>2 DEF ParentInv, ParentLives, SupervisionTypeOK
<1>4. Forest'
  <2> SUFFICES ASSUME NEW S \in SUBSET Members, S # {}
               PROVE  \E q \in S : parent'[q] \notin S
    BY DEF Forest
  <2>1. PICK q \in S : parent[q] \notin S
    BY DEF ParentInv, Forest
  <2> QED BY <2>1, <1>1, <1>2
<1>5. Subreaper'
  BY <1>1, <1>2 DEF ParentInv, Subreaper
<1> QED BY <1>3, <1>4, <1>5 DEF ParentInv

\* All other steps leave the parents, and nobody who is one exits.
LEMMA ForestStays ==
  ASSUME SupervisionTypeOK, ParentInv, parent' = parent, system' = system,
         \A p \in Members : members[p] \in {"live", "dying", "left"} =>
                              members'[p] \in {"live", "dying", "left"}
  PROVE  ParentInv'
BY DEF ParentInv, ParentLives, Forest, Subreaper

-----------------------------------------------------------------------------
(* Initial states and steps                                                *)

LEMMA SupervisionInitInv == SupervisionInit => SInv
<1> SUFFICES ASSUME SupervisionInit PROVE SInv
  OBVIOUS
<1> USE DEF SupervisionInit
<1>1. Restic \in Members /\ Us \notin Members /\ Us # Launchd
  BY SupervisionAssumption DEF Members
<1>2. SupervisionTypeOK
  BY <1>1 DEF SupervisionTypeOK, Running
<1>3. ParentInv
  BY <1>1 DEF ParentInv, ParentLives, Forest, Subreaper
<1>4. ForeignInv /\ NobodyLives /\ StrikeInv /\ ProbeInv
  BY DEF ForeignInv, NobodyLives, StrikeInv, ProbeInv
<1>5. GroupIsOurs
  BY DEF GroupIsOurs, Grouped
<1> QED BY <1>2, <1>3, <1>4, <1>5 DEF SInv

\* What the processes and the kernel do.
LEMMA WorldInv ==
  ASSUME SInv, \/ Recycle
               \/ \E p \in Members : Exit(p) \/ ClosePipes(p) \/ \E h \in Helpers : Fork(p, h)
               \/ \E h \in Helpers : LeaveGroup(h) \/ Collect(h)
  PROVE  SInv'
<1> USE SupervisionAssumption DEF SInv
<1>1. Restic \in Members /\ Restic \notin Helpers /\ Helpers \subseteq Members
      /\ Us \notin Members /\ Launchd \notin Members
  BY DEF Members
<1>2. CASE Recycle
  BY <1>2 DEF Recycle, SupervisionTypeOK, ForeignInv, NobodyLives, StrikeInv, ProbeInv,
       ParentInv, ParentLives, Forest, Subreaper, GroupIsOurs, Grouped, Running
<1>3. ASSUME NEW p \in Members, Exit(p) PROVE SInv'
  <2>1. SupervisionTypeOK'
    BY <1>1, <1>3 DEF Exit, others, SupervisionTypeOK, Running
  <2>2. ParentInv'
    BY <1>3, ForestOrphans
  <2>3. ForeignInv' /\ NobodyLives' /\ StrikeInv' /\ ProbeInv'
    BY <1>1, <1>3 DEF Exit, others, SupervisionTypeOK, Running, ForeignInv, NobodyLives,
         StrikeInv, ProbeInv, Grouped
  <2>4. GroupIsOurs'
    BY <1>1, <1>3 DEF Exit, others, SupervisionTypeOK, Running, GroupIsOurs, Grouped
  <2> QED BY <2>1, <2>2, <2>3, <2>4
<1>4. ASSUME NEW p \in Members, ClosePipes(p) PROVE SInv'
  BY <1>4 DEF ClosePipes, others, SupervisionTypeOK, ForeignInv, NobodyLives, StrikeInv,
       ProbeInv, ParentInv, ParentLives, Forest, Subreaper, GroupIsOurs, Grouped, Running
<1>5. ASSUME NEW p \in Members, NEW h \in Helpers, Fork(p, h) PROVE SInv'
  <2>1. SupervisionTypeOK'
    BY <1>1, <1>5 DEF Fork, others, SupervisionTypeOK, Running
  <2>2. ParentInv'
    BY <1>5, ForestGrows
  <2>3. at \in {"listening", "watching", "kill"} /\ ~foreign
    BY <1>5 DEF Fork, NobodyLives, ForeignInv, Grouped
  <2>4. ForeignInv' /\ NobodyLives' /\ StrikeInv' /\ ProbeInv' /\ GroupIsOurs'
    BY <2>3, <1>5 DEF Fork, others, ForeignInv, NobodyLives, StrikeInv, ProbeInv,
         GroupIsOurs
  <2> QED BY <2>1, <2>2, <2>4
<1>6. ASSUME NEW h \in Helpers, LeaveGroup(h) PROVE SInv'
  <2>1. SupervisionTypeOK'
    BY <1>1, <1>6 DEF LeaveGroup, others, SupervisionTypeOK, Running
  <2>2. ParentInv'
    BY <1>1, <1>6, ForestStays DEF LeaveGroup, others, SupervisionTypeOK
  <2>3. at \in {"listening", "watching", "kill"} /\ ~foreign
    BY <1>1, <1>6 DEF LeaveGroup, NobodyLives, ForeignInv, Grouped
  <2>4. ForeignInv' /\ NobodyLives' /\ StrikeInv' /\ ProbeInv' /\ GroupIsOurs'
    BY <2>3, <1>6 DEF LeaveGroup, others, ForeignInv, NobodyLives, StrikeInv, ProbeInv,
         GroupIsOurs
  <2> QED BY <2>1, <2>2, <2>4
<1>7. ASSUME NEW h \in Helpers, Collect(h) PROVE SInv'
  <2>1. SupervisionTypeOK'
    BY <1>1, <1>7 DEF Collect, others, SupervisionTypeOK, Running
  <2>2. ParentInv'
    BY <1>1, <1>7, ForestStays DEF Collect, others, SupervisionTypeOK
  <2>3. ForeignInv' /\ NobodyLives' /\ StrikeInv' /\ ProbeInv'
    BY <1>1, <1>7 DEF Collect, others, SupervisionTypeOK, ForeignInv, NobodyLives,
         StrikeInv, ProbeInv, Grouped
  <2>4. GroupIsOurs'
    BY <1>1, <1>7 DEF Collect, others, SupervisionTypeOK, GroupIsOurs, Grouped
  <2> QED BY <2>1, <2>2, <2>3, <2>4
<1> QED BY <1>2, <1>3, <1>4, <1>5, <1>6, <1>7

\* What the coordinator does.
LEMMA CoordinatorInv ==
  ASSUME SInv, Launch \/ CoordinatorStep
  PROVE  SInv'
<1> USE SupervisionAssumption DEF SInv
<1>1. Restic \in Members /\ Restic \notin Helpers /\ Helpers \subseteq Members
      /\ Us \notin Members /\ Launchd \notin Members /\ Members = {Restic} \cup Helpers
  BY DEF Members
<1>2. CASE Launch
  <2>1. SupervisionTypeOK'
    BY <1>1, <1>2 DEF Launch, SupervisionTypeOK, Running
  <2>2. ParentInv'
    BY <1>1, <1>2 DEF Launch, ParentInv, ParentLives, Forest, Subreaper
  <2>3. ForeignInv' /\ NobodyLives' /\ StrikeInv' /\ ProbeInv' /\ GroupIsOurs'
    BY <1>2 DEF Launch, ForeignInv, NobodyLives, StrikeInv, ProbeInv, GroupIsOurs
  <2> QED BY <2>1, <2>2, <2>3
<1>3. CASE PipesClosed \/ SeeExit \/ Expired
  <2>1. /\ UNCHANGED <<system, members, parent, talking, foreign, barred, struck>>
        /\ at \in {"listening", "watching"} /\ at' \in {"watching", "kill"}
        /\ outcome' \in {outcome, "good", "failed"}
    BY <1>3 DEF PipesClosed, SeeExit, Expired
  <2> QED BY <2>1 DEF SupervisionTypeOK, ForeignInv, NobodyLives, StrikeInv, ProbeInv,
       ParentInv, ParentLives, Forest, Subreaper, GroupIsOurs, Grouped, Running
<1>4. CASE KillGroup
  <2>1. ~foreign
    BY <1>4 DEF KillGroup, ForeignInv, SupervisionTypeOK
  <2>2. SupervisionTypeOK'
    BY <1>1, <1>4, <2>1 DEF KillGroup, Struck, SupervisionTypeOK, Running
  <2>3. ParentInv'
    BY <1>4, ForestStays DEF KillGroup, Struck
  <2>4. ForeignInv' /\ NobodyLives' /\ StrikeInv' /\ ProbeInv' /\ GroupIsOurs'
    BY <1>4, <2>1 DEF KillGroup, Struck, ForeignInv, NobodyLives, StrikeInv, ProbeInv,
         GroupIsOurs
  <2> QED BY <2>2, <2>3, <2>4
<1>5. CASE WaitLeader
  <2>1. SupervisionTypeOK'
    BY <1>1, <1>5 DEF WaitLeader, SupervisionTypeOK, Running
  <2>2. ParentInv'
    BY <1>1, <1>5, ForestStays DEF WaitLeader, SupervisionTypeOK
  <2>3. ForeignInv' /\ NobodyLives' /\ StrikeInv' /\ ProbeInv'
    BY <1>1, <1>5 DEF WaitLeader, SupervisionTypeOK, ForeignInv, NobodyLives, StrikeInv,
         ProbeInv, Grouped
  <2>4. GroupIsOurs'
    BY <1>1, <1>5 DEF WaitLeader, SupervisionTypeOK, NobodyLives, GroupIsOurs
  <2> QED BY <2>1, <2>2, <2>3, <2>4
<1>6. CASE Probe
  BY <1>6 DEF Probe, SupervisionTypeOK, ForeignInv, NobodyLives, StrikeInv, ProbeInv,
       ParentInv, ParentLives, Forest, Subreaper, GroupIsOurs, Grouped, Running
<1>7. CASE ReapGroup
  <2>1. SupervisionTypeOK'
    BY <1>1, <1>7 DEF ReapGroup, SupervisionTypeOK, Running
  <2>2. ParentInv'
    BY <1>7, ForestStays DEF ReapGroup
  <2>3. ForeignInv' /\ NobodyLives' /\ ProbeInv'
    BY <1>1, <1>7 DEF ReapGroup, SupervisionTypeOK, ForeignInv, NobodyLives, ProbeInv, Grouped
  <2>4. StrikeInv'
    BY <1>7 DEF ReapGroup, StrikeInv, OwnedChild, Grouped, Running
  <2>5. GroupIsOurs'
    <3>1. ~struck' /\ \A p \in Members : members'[p] # "live"
      BY <1>7 DEF ReapGroup, NobodyLives, GroupIsOurs
    <3>2. ASSUME at' = "off", system' = "linux", NEW p \in Members, Grouped(p)'
          PROVE  \E h \in Helpers : members'[h] = "left"
      <4>1. ~OwnedChild /\ system = "linux"
        BY <1>7, <3>2 DEF ReapGroup
      <4>2. Grouped(p) /\ ~(members[p] = "zombie" /\ parent[p] = Us)
        BY <1>7, <3>2 DEF ReapGroup, Grouped
      <4>3. PICK h \in Helpers : members[h] = "left"
        BY <4>1, <4>2, NobodyIsLeft
      <4> QED BY <4>3, <1>1, <1>7 DEF ReapGroup
    <3> QED BY <3>1, <3>2 DEF GroupIsOurs
  <2> QED BY <2>1, <2>2, <2>3, <2>4, <2>5
<1>8. ASSUME NEW expired \in BOOLEAN, StrikeAgain(expired) PROVE SInv'
  <2>1. ~foreign
    BY <1>8 DEF StrikeAgain, ForeignInv, StrikeInv
  <2>2. SupervisionTypeOK'
    BY <1>1, <1>8, <2>1 DEF StrikeAgain, Struck, SupervisionTypeOK, Running
  <2>3. ParentInv'
    BY <1>8, ForestStays DEF StrikeAgain, Struck
  <2>4. /\ at' \in {"off", "reap"} /\ (at' = "off" => outcome' = "unreaped")
        /\ foreign' = foreign /\ struck' = struck
        /\ \A p \in Members : members'[p] # "live"
    BY <1>8, <2>1 DEF StrikeAgain, Struck, SupervisionTypeOK
  <2>5. ForeignInv' /\ NobodyLives' /\ StrikeInv' /\ ProbeInv' /\ GroupIsOurs'
    BY <2>1, <2>4 DEF ForeignInv, NobodyLives, StrikeInv, ProbeInv, GroupIsOurs
  <2> QED BY <2>2, <2>3, <2>5
<1> QED BY <1>2, <1>3, <1>4, <1>5, <1>6, <1>7, <1>8 DEF CoordinatorStep

LEMMA SupervisionStepInv == SInv /\ [SupervisionNext]_superVars => SInv'
<1> SUFFICES ASSUME SInv, [SupervisionNext]_superVars PROVE SInv'
  OBVIOUS
<1>1. CASE SupervisionNext
  BY <1>1, WorldInv, CoordinatorInv DEF SupervisionNext
<1>2. CASE UNCHANGED superVars
  BY <1>2 DEF superVars, SInv, SupervisionTypeOK, ForeignInv, NobodyLives, StrikeInv,
       ProbeInv, ParentInv, ParentLives, Forest, Subreaper, GroupIsOurs, Grouped, Running
<1> QED BY <1>1, <1>2

-----------------------------------------------------------------------------
(* Theorems                                                                *)

LEMMA SupervisionAlways == SupervisionInit /\ [][SupervisionNext]_superVars => []SInv
BY SupervisionInitInv, SupervisionStepInv, PTL

LEMMA SupervisionInvOurs == SInv => SupervisionTypeOK /\ GroupIsOurs
BY DEF SInv

\* restic is collected by _kill_process_group alone, and only after the signal.
THEOREM SupervisionTypeCorrect == SupervisionSpec => []SupervisionTypeOK
BY SupervisionInvOurs, SupervisionAlways, PTL DEF SupervisionSpec

\* However many helpers restic starts, and whatever they do: no signal of
\* _kill_process_group and _reap_linux_process_group goes to a stranger, and who
\* stays in the group does not outlive the run.
THEOREM GroupsAreOurs == SupervisionSpec => []GroupIsOurs
BY SupervisionInvOurs, SupervisionAlways, PTL DEF SupervisionSpec

-----------------------------------------------------------------------------
(* The guard with the two                                                  *)

LEMMA HostParts ==
  ASSUME [HostNext]_hostVars
  PROVE  [Next]_vars /\ [CaptureNext]_captureVars /\ [SupervisionNext]_superVars
BY DEF HostNext, hostVars

\* A behaviour of the three is one of each of them, though not a fair one.
LEMMA HostBehaviour ==
  HostSpec => Spec /\ CaptureSpec /\ SupervisionInit /\ [][SupervisionNext]_superVars
<1>1. HostInit => Init /\ CaptureInit /\ SupervisionInit
  BY DEF HostInit
<1>2. [HostNext]_hostVars =>
        [Next]_vars /\ [CaptureNext]_captureVars /\ [SupervisionNext]_superVars
  BY HostParts
<1> QED BY <1>1, <1>2, PTL DEF HostSpec, Spec, CaptureSpec

(***************************************************************************)
(* Whichever of the three goes on at the host: heavy jobs take turns and   *)
(* wait in no circle, a capture is the files of one moment and a restore   *)
(* finds no other content than that, and no stranger's group is signalled. *)
(***************************************************************************)
THEOREM HostIsSafe ==
  HostSpec =>
    /\ []OneHeavyAtATime /\ []NoCircularWait
    /\ []CapturedAtOneMoment /\ RestoredWasThere /\ []GroupIsOurs
<1>1. HostSpec => []OneHeavyAtATime /\ []NoCircularWait
  BY HostBehaviour, HeavyJobsTakeTurns, NobodyWaitsInCircles, PTL
<1>2. HostSpec => []CapturedAtOneMoment /\ RestoredWasThere
  BY HostBehaviour, CapturesAreOfOneMoment, RestoresWereThere
<1>3. HostSpec => []GroupIsOurs
  BY HostBehaviour, SupervisionAlways, SupervisionInvOurs, PTL
<1> QED BY <1>1, <1>2, <1>3
=============================================================================
