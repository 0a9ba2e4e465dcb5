--------------------------- MODULE BootstrapProofs ---------------------------
(***************************************************************************)
(* Theorems about the first files of the sidecar (Bootstrap): the locks,   *)
(* the pair of documents and the inventory, for all sets of runs and       *)
(* ignored paths.                                                          *)
(***************************************************************************)
EXTENDS Bootstrap, TLAPS, FiniteSetTheorems

-----------------------------------------------------------------------------
(* Bootstrap: the types                                                    *)

BootLabels == {"off", "control", "look", "registry", "policy", "targets", "check", "catalog",
               "inspect", "pick", "prove", "again", "recheck", "write", "inventory", "undo",
               "leave"}
CandidateEntry == [path : Ignored, counted : Nat, proved : Nat]
Boots == [at : BootLabels, seen : Nat \X Nat, made : SUBSET Papers, stamp : 0 .. MaxBootEvents,
          todo : Seq(Ignored), listed : SUBSET Ignored, nodes : Int, counted : Nat,
          proved : Nat, found : SUBSET CandidateEntry, status : {"none", "old", "new"}]
Files == [by : Programs \cup {"person", "nobody"}, links : 0 .. 2, bound : Nat \X Nat,
          stamp : 0 .. MaxBootEvents]
Takers == Programs \cup {"free"}

BTyped ==
  /\ papers \in [Papers -> Files] /\ generations \in Nat \X Nat
  /\ holders \in [control : Takers, registry : Takers, catalog : Takers]
  /\ checkout \in BOOLEAN /\ rules \in [Ignored -> {"tracked", "other", "none"}]
  /\ versions \in [Ignored -> Nat] /\ boots \in [Programs -> Boots]
  /\ bootEvents \in 0 .. MaxBootEvents /\ disturbed \in BOOLEAN

LEMMA Papery == Papers = {"policy", "targets", "inventory"} /\ Documents \subseteq Papers
BY DEF Papers, Documents

LEMMA WaitingTyped == Waiting \in Boots
<1>1. <<>> \in Seq(Ignored)
  OBVIOUS
<1>2. 0 \in 0 .. MaxBootEvents
  BY BootstrapAssumption
<1> QED BY <1>1, <1>2 DEF Waiting, Boots, BootLabels

LEMMA AbsentTyped == Absent \in Files
<1>2. 0 \in 0 .. MaxBootEvents
  BY BootstrapAssumption
<1> QED BY <1>2 DEF Absent, Files

LEMMA PlaceTyped ==
  ASSUME NEW r \in Boots, NEW l \in BootLabels
  PROVE  /\ [r EXCEPT !.at = l] \in Boots
         /\ [r EXCEPT !.at = l].at = l
         /\ [r EXCEPT !.at = l].made = r.made /\ [r EXCEPT !.at = l].seen = r.seen
         /\ [r EXCEPT !.at = l].todo = r.todo /\ [r EXCEPT !.at = l].found = r.found
         /\ [r EXCEPT !.at = l].counted = r.counted
         /\ [r EXCEPT !.at = l].proved = r.proved
BY DEF Boots

\* A step to another place changes the place only.
LEMMA Goes ==
  ASSUME BTyped, NEW p \in Programs, NEW l \in BootLabels, GoTo(p, l)
  PROVE  /\ boots' \in [Programs -> Boots]
         /\ \A q \in Programs \ {p} : boots'[q] = boots[q]
         /\ boots'[p].at = l
         /\ boots'[p].made = boots[p].made /\ boots'[p].seen = boots[p].seen
         /\ boots'[p].todo = boots[p].todo /\ boots'[p].found = boots[p].found
         /\ boots'[p].counted = boots[p].counted /\ boots'[p].proved = boots[p].proved
<1>1. boots \in [Programs -> Boots] /\ boots' = [boots EXCEPT ![p] = [boots[p] EXCEPT !.at = l]]
  BY DEF GoTo, BTyped
<1> QED BY <1>1, PlaceTyped

LEMMA ReleasedTyped ==
  ASSUME BTyped, NEW p \in Programs
  PROVE  /\ Released(p) \in [control : Takers, registry : Takers, catalog : Takers]
         /\ Released(p).control = IF holders.control = p THEN "free" ELSE holders.control
         /\ Released(p).registry = IF holders.registry = p THEN "free" ELSE holders.registry
         /\ Released(p).catalog = IF holders.catalog = p THEN "free" ELSE holders.catalog
<1> DEFINE F(x) == IF x = p THEN "free" ELSE x
           R == [control |-> F(holders.control), registry |-> F(holders.registry),
                 catalog |-> F(holders.catalog)]
<1>1. DOMAIN holders = {"control", "registry", "catalog"}
  BY DEF BTyped
<1>2. Released(p) = R
  <2>1. Released(p) = [l \in {"control", "registry", "catalog"} |-> F(holders[l])]
    BY <1>1, Zenon DEF Released
  <2> QED BY <2>1
<1>3. R \in [control : Takers, registry : Takers, catalog : Takers]
  BY DEF BTyped, Takers
<1> QED BY <1>2, <1>3

LEMMA PublishTyped ==
  ASSUME BTyped, NEW p \in Programs, NEW n \in Papers, Publish(p, n)
  PROVE  papers' \in [Papers -> Files] /\ boots' \in [Programs -> Boots]
<1>1. CASE There(n)
  BY <1>1, Goes DEF Publish, BootLabels, BTyped
<1>2. CASE ~There(n)
  <2>1. [by |-> p, links |-> 2, bound |-> boots[p].seen, stamp |-> 0] \in Files
    BY BootstrapAssumption DEF BTyped, Boots, Files
  <2>2. papers' \in [Papers -> Files]
    BY <1>2, <2>1 DEF Publish, BTyped
  <2>3. boots' = [boots EXCEPT ![p].at = n, ![p].made = @ \cup {n}] /\ n \in BootLabels
    BY <1>2, Papery DEF Publish, BootLabels
  <2> DEFINE r == boots[p]
             m == r.made \cup {n}
  <2>4. [[r EXCEPT !.at = n] EXCEPT !.made = m] \in Boots
    <3>1. r \in Boots /\ m \in SUBSET Papers
      BY DEF BTyped, Boots
    <3> HIDE DEF r, m
    <3>2. [r EXCEPT !.at = n] \in Boots
      BY <3>1, <2>3, PlaceTyped
    <3> QED BY <3>1, <3>2 DEF Boots
  <2>5. boots' = [boots EXCEPT ![p] = [boots[p] EXCEPT !.at = n, !.made = @ \cup {n}]]
    BY <2>3 DEF BTyped, Boots
  <2> QED BY <2>2, <2>4, <2>5 DEF BTyped
<1> QED BY <1>1, <1>2

LEMMA SettleTyped ==
  ASSUME BTyped, NEW p \in Programs, NEW n \in Papers, NEW l \in BootLabels, Settle(p, n, l)
  PROVE  papers' \in [Papers -> Files] /\ boots' \in [Programs -> Boots]
<1>1. "undo" \in BootLabels
  BY DEF BootLabels
<1> QED BY <1>1, Goes DEF Settle, BTyped, Files

\* Every step is one of these.
LEMMA BootCases ==
  ASSUME NEW P, [BootstrapNext]_bootVars, UNCHANGED bootVars => P,
         \A p \in Programs :
           /\ LoadRegistry(p) => P
           /\ TakeControl(p) => P
           /\ HoldRegistry(p) => P
           /\ ReleaseAll(p) => P
           /\ NothingThere(p) => P
           /\ \A n \in Documents : WriteDocument(p, n) => P
           /\ CheckPair(p) => P
           /\ Undo(p) => P
           /\ BootFails(p) => P
           /\ BootKilled(p) => P,
         LookAtOutput => P, HoldCatalog => P, StartInspection => P, Enumerate => P,
         ProveIgnored => P, EnumerateAgain => P, EndInspection => P, RecheckAll => P,
         WriteInventory => P, SettleInventory => P, TreeWork => P,
         \A n \in Papers : PersonWrites(n) => P,
         \A n \in Documents : RemoveLone(n) => P,
         \A i \in {1, 2} : Governance(i) => P
  PROVE  P
BY DEF BootstrapNext, BootStep, ListerStep

\* The lister alone changes its own record, in one of these ways.
LEMMA ListerIn == Lister \in Programs
BY DEF Programs

LEMMA ListerTyped ==
  ASSUME BTyped, NEW r \in Boots, boots' = [boots EXCEPT ![Lister] = r]
  PROVE  boots' \in [Programs -> Boots]
BY ListerIn DEF BTyped

LEMMA PassedOver ==
  ASSUME BTyped, boots[Lister].todo # <<>>
  PROVE  LET r == [[boots[Lister] EXCEPT !.at = "pick"] EXCEPT !.todo = Tail(boots[Lister].todo)]
         IN  PassOver = [boots EXCEPT ![Lister] = r] /\ r \in Boots
<1> DEFINE b == boots[Lister]
           t == Tail(b.todo)
           r == [[b EXCEPT !.at = "pick"] EXCEPT !.todo = t]
<1>1. b \in Boots /\ t \in Seq(Ignored) /\ "pick" \in BootLabels
  BY ListerIn DEF BTyped, Boots, BootLabels
<1>2. r \in Boots
  <2> HIDE DEF b, t
  <2>1. [b EXCEPT !.at = "pick"] \in Boots
    BY <1>1, PlaceTyped
  <2> QED BY <1>1, <2>1 DEF Boots
<1>3. PassOver = [boots EXCEPT ![Lister] = r]
  BY ListerIn DEF PassOver, BTyped, Boots
<1> QED BY <1>2, <1>3

LEMMA FieldTyped ==
  ASSUME NEW r \in Boots
  PROVE  /\ \A v \in Seq(Ignored) : [r EXCEPT !.todo = v] \in Boots
         /\ \A v \in SUBSET Ignored : [r EXCEPT !.listed = v] \in Boots
         /\ \A v \in Int : [r EXCEPT !.nodes = v] \in Boots
         /\ \A v \in Nat : [r EXCEPT !.counted = v] \in Boots
         /\ \A v \in Nat : [r EXCEPT !.proved = v] \in Boots
         /\ \A v \in SUBSET CandidateEntry : [r EXCEPT !.found = v] \in Boots
         /\ \A v \in Nat \X Nat : [r EXCEPT !.seen = v] \in Boots
         /\ \A v \in 0 .. MaxBootEvents : [r EXCEPT !.stamp = v] \in Boots
         /\ \A v \in {"none", "old", "new"} : [r EXCEPT !.status = v] \in Boots
BY DEF Boots

\* A candidate is proved and counted again while it heads the list.
Picked == boots[Lister].at \in {"prove", "again"} => boots[Lister].todo # <<>>

LEMMA BootsStep ==
  ASSUME BTyped, Picked, [BootstrapNext]_bootVars
  PROVE  boots' \in [Programs -> Boots]
<1> DEFINE P == boots' \in [Programs -> Boots]
           b == boots[Lister]
<1>0. boots \in [Programs -> Boots] /\ Lister \in Programs /\ b \in Boots
  BY ListerIn DEF BTyped
<1>1. ASSUME UNCHANGED boots PROVE P
  BY <1>1, <1>0
<1>2. \A p \in Programs : LoadRegistry(p) => P
  <2> SUFFICES ASSUME NEW p \in Programs, LoadRegistry(p) PROVE P
    OBVIOUS
  <2> DEFINE w == [Waiting EXCEPT !.at = "control"]
             v == [w EXCEPT !.seen = generations]
  <2>1. boots' = [boots EXCEPT ![p] = v]
    BY DEF LoadRegistry
  <2>2. w \in Boots
    BY WaitingTyped, PlaceTyped DEF BootLabels
  <2>3. v \in Boots
    <3> HIDE DEF w
    <3> QED BY <2>2, FieldTyped DEF BTyped
  <2> HIDE DEF v
  <2> QED BY <2>1, <2>3, <1>0
<1>3. ASSUME NEW p \in Programs, NEW l \in BootLabels, GoTo(p, l) PROVE P
  BY <1>3, Goes
<1>4. \A p \in Programs : (ReleaseAll(p) \/ BootKilled(p)) => P
  BY <1>0, WaitingTyped DEF ReleaseAll, BootKilled
<1>5. \A p \in Programs, n \in Documents : WriteDocument(p, n) => P
  <2> SUFFICES ASSUME NEW p \in Programs, NEW n \in Documents, WriteDocument(p, n) PROVE P
    OBVIOUS
  <2>1. n \in Papers /\ Following(n) \in BootLabels
    BY DEF Papers, Documents, Following, BootLabels
  <2> QED BY <2>1, SettleTyped, PublishTyped DEF WriteDocument
<1>6. \A p \in Programs : Undo(p) => P
  <2> SUFFICES ASSUME NEW p \in Programs, Undo(p) PROVE P
    OBVIOUS
  <2>1. CASE GoTo(p, "leave")
    BY <2>1, <1>3 DEF BootLabels
  <2>2. CASE \E n : boots' = [boots EXCEPT ![p].made = @ \ {n}]
    <3>1. PICK n : boots' = [boots EXCEPT ![p].made = @ \ {n}]
      BY <2>2
    <3> DEFINE r == boots[p]
               m == r.made \ {n}
    <3>2. r \in Boots /\ m \in SUBSET Papers
      BY DEF BTyped, Boots
    <3>3. [r EXCEPT !.made = m] \in Boots
      <4> HIDE DEF r, m
      <4> QED BY <3>2 DEF Boots
    <3> QED BY <3>1, <3>3, <1>0
  <2> QED BY <2>1, <2>2 DEF Undo
<1>7. \A p \in Programs : (TakeControl(p) \/ HoldRegistry(p) \/ NothingThere(p)
                           \/ CheckPair(p) \/ BootFails(p)) => P
  BY <1>3 DEF TakeControl, HoldRegistry, NothingThere, CheckPair, BootFails, BootLabels
<1>8. (HoldCatalog \/ RecheckAll) => P
  BY <1>0, <1>3 DEF HoldCatalog, RecheckAll, BootLabels
<1>9. LookAtOutput => P
  <2> SUFFICES ASSUME LookAtOutput PROVE P
    OBVIOUS
  <2> DEFINE s == papers["inventory"].stamp
             r == [b EXCEPT !.stamp = s]
             st == IF There("inventory") THEN "old" ELSE "new"
             t == [r EXCEPT !.status = st]
             l == IF Acceptable THEN "registry" ELSE "leave"
             u == [t EXCEPT !.at = l]
  <2>1. boots' = [boots EXCEPT ![Lister] = u]
    BY <1>0 DEF LookAtOutput
  <2>2. s \in 0 .. MaxBootEvents
    BY Papery DEF BTyped, Files
  <2>3. r \in Boots
    BY <1>0, <2>2, FieldTyped
  <2>4. t \in Boots
    <3> HIDE DEF r
    <3> QED BY <2>3, FieldTyped
  <2>5. u \in Boots
    <3> HIDE DEF t
    <3> QED BY <2>4, PlaceTyped DEF BootLabels
  <2> HIDE DEF u
  <2> QED BY <2>1, <2>5, <1>0
<1>10. StartInspection => P
  <2> SUFFICES ASSUME StartInspection PROVE P
    OBVIOUS
  <2> DEFINE r == [b EXCEPT !.at = "pick"]
             t == [r EXCEPT !.todo = Listing]
             u == [t EXCEPT !.listed = ListedNow]
             v == [u EXCEPT !.nodes = MaxNodes]
  <2>1. r \in Boots
    BY <1>0, PlaceTyped DEF BootLabels
  <2>2. t \in Boots
    <3> HIDE DEF r
    <3> QED BY <2>1, FieldTyped, BootstrapAssumption
  <2>3. u \in Boots
    <3> HIDE DEF t
    <3>1. ListedNow \in SUBSET Ignored
      BY DEF ListedNow
    <3> QED BY <2>2, <3>1, FieldTyped
  <2>4. v \in Boots
    <3> HIDE DEF u
    <3>1. MaxNodes \in Int
      BY BootstrapAssumption
    <3> QED BY <2>3, <3>1, FieldTyped
  <2>5. \/ boots' = [boots EXCEPT ![Lister] = v]
        \/ boots' = [boots EXCEPT ![Lister] = [b EXCEPT !.at = "recheck"]]
    BY <1>0 DEF StartInspection
  <2>6. [b EXCEPT !.at = "recheck"] \in Boots
    BY <1>0, PlaceTyped DEF BootLabels
  <2> HIDE DEF v
  <2> QED BY <2>4, <2>5, <2>6, <1>0
<1> DEFINE q == [[b EXCEPT !.at = "pick"] EXCEPT !.todo = Tail(b.todo)]
<1>11. ASSUME b.todo # <<>>
       PROVE  PassOver = [boots EXCEPT ![Lister] = q] /\ q \in Boots /\ Current \in Ignored
  <2>1. b.todo \in Seq(Ignored)
    BY <1>0 DEF Boots
  <2> QED BY <2>1, <1>11, PassedOver DEF Current
<1>12. ASSUME b.todo # <<>>, boots' = PassOver PROVE P
  <2> HIDE DEF q
  <2> QED BY <1>11, <1>12, <1>0
<1>13. Enumerate => P
  <2> SUFFICES ASSUME Enumerate PROVE P
    OBVIOUS
  <2>0. b.todo # <<>>
    BY DEF Enumerate
  <2>4. Current \in Ignored /\ versions[Current] \in Nat
    BY <1>11, <2>0 DEF BTyped
  <2>5. b.nodes \in Int /\ Size[Current] \in Int
    BY <2>4, <1>0, BootstrapAssumption DEF Boots
  <2>1. CASE boots' = PassOver
    BY <2>0, <2>1, <1>12
  <2>2. CASE boots' = [PassOver EXCEPT ![Lister].nodes = 0]
    <3> DEFINE r == [q EXCEPT !.nodes = 0]
    <3>1. r \in Boots
      <4>1. q \in Boots /\ 0 \in Int
        BY <2>0, <1>11
      <4> HIDE DEF q
      <4> QED BY <4>1, FieldTyped
    <3>2. boots' = [boots EXCEPT ![Lister] = r]
      <4> HIDE DEF q
      <4> QED BY <2>0, <2>2, <1>11, <1>0
    <3> HIDE DEF r
    <3> QED BY <3>1, <3>2, <1>0
  <2>3. CASE boots' = [boots EXCEPT ![Lister].at = "prove",
                        ![Lister].nodes = @ - Size[Current],
                        ![Lister].counted = versions[Current]]
    <3> DEFINE r == [b EXCEPT !.at = "prove"]
               n == b.nodes - Size[Current]
               t == [r EXCEPT !.nodes = n]
               u == [t EXCEPT !.counted = versions[Current]]
    <3>1. r \in Boots
      BY <1>0, PlaceTyped DEF BootLabels
    <3>2. n \in Int /\ versions[Current] \in Nat
      BY <2>4, <2>5
    <3>3. t \in Boots
      <4> HIDE DEF r, n
      <4> QED BY <3>1, <3>2, FieldTyped
    <3>4. u \in Boots
      <4> HIDE DEF t
      <4> QED BY <3>2, <3>3, FieldTyped
    <3>5. boots' = [boots EXCEPT ![Lister] = u]
      BY <2>3, <1>0 DEF Boots
    <3> HIDE DEF u
    <3> QED BY <3>4, <3>5, <1>0
  <2>6. Excluded(Current) \/ Size[Current] > b.nodes \/ Size[Current] <= b.nodes
    BY <2>5
  <2> QED
    <3> HIDE DEF P
    <3> QED BY <2>1, <2>2, <2>3, <2>6 DEF Enumerate
<1>14. ProveIgnored => P
  <2> SUFFICES ASSUME ProveIgnored PROVE P
    OBVIOUS
  <2>0. b.todo # <<>>
    BY DEF ProveIgnored, Picked, Label
  <2>1. CASE boots' = PassOver
    BY <2>0, <2>1, <1>12
  <2>2. CASE boots' = [boots EXCEPT ![Lister].at = "again", ![Lister].proved = versions[Current]]
    <3> DEFINE r == [b EXCEPT !.at = "again"]
               t == [r EXCEPT !.proved = versions[Current]]
    <3>1. r \in Boots
      BY <1>0, PlaceTyped DEF BootLabels
    <3>2. versions[Current] \in Nat
      BY <1>11, <2>0 DEF BTyped
    <3>3. t \in Boots
      <4> HIDE DEF r
      <4> QED BY <3>1, <3>2, FieldTyped
    <3>4. boots' = [boots EXCEPT ![Lister] = t]
      BY <2>2, <1>0
    <3> HIDE DEF t
    <3> QED BY <3>3, <3>4, <1>0
  <2> QED
    <3> HIDE DEF P
    <3> QED BY <2>1, <2>2 DEF ProveIgnored
<1>15. EnumerateAgain => P
  <2> SUFFICES ASSUME EnumerateAgain PROVE P
    OBVIOUS
  <2>0. b.todo # <<>>
    BY DEF EnumerateAgain, Picked, Label
  <2>1. CASE boots' = PassOver
    BY <2>0, <2>1, <1>12
  <2> DEFINE c == [path |-> Current, counted |-> b.counted, proved |-> b.proved]
             f == b.found \cup {c}
  <2>2. CASE boots' = [PassOver EXCEPT ![Lister].found = @ \cup {c}]
    <3> DEFINE t == [q EXCEPT !.found = f]
    <3>1. q \in Boots /\ q.found = b.found /\ PassOver = [boots EXCEPT ![Lister] = q]
      <4>1. [b EXCEPT !.at = "pick"] \in Boots /\ [b EXCEPT !.at = "pick"].found = b.found
        BY <1>0, PlaceTyped DEF BootLabels
      <4> QED BY <4>1, <2>0, <1>11 DEF Boots
    <3>2. f \in SUBSET CandidateEntry
      <4>1. Current \in Ignored
        BY <1>11, <2>0
      <4>2. b.found \in SUBSET CandidateEntry /\ b.counted \in Nat /\ b.proved \in Nat
        BY <1>0 DEF Boots
      <4>3. c \in CandidateEntry
        BY <4>1, <4>2 DEF CandidateEntry
      <4> QED BY <4>2, <4>3
    <3>3. boots' = [boots EXCEPT ![Lister] = t]
      <4> HIDE DEF q, c
      <4> QED BY <2>2, <3>1, <1>0
    <3>4. t \in Boots
      <4> HIDE DEF q, f
      <4> QED BY <3>1, <3>2, FieldTyped
    <3> HIDE DEF t
    <3> QED BY <3>3, <3>4, <1>0
  <2> QED
    <3> HIDE DEF P
    <3> QED BY <2>1, <2>2 DEF EnumerateAgain
<1>16. EndInspection => P
  <2> SUFFICES ASSUME EndInspection PROVE P
    OBVIOUS
  <2> DEFINE r == [b EXCEPT !.at = "recheck"]
             f == IF Ready /\ ListedNow = b.listed THEN b.found ELSE {}
             t == [r EXCEPT !.found = f]
  <2>1. r \in Boots /\ r.found = b.found
    BY <1>0, PlaceTyped DEF BootLabels
  <2>2. f \in SUBSET CandidateEntry
    BY <1>0 DEF Boots
  <2>3. boots' = [boots EXCEPT ![Lister] = t]
    BY <1>0, <2>1 DEF EndInspection
  <2>4. t \in Boots
    <3> HIDE DEF r, f
    <3> QED BY <2>1, <2>2, FieldTyped
  <2> HIDE DEF t
  <2> QED BY <2>3, <2>4, <1>0
<1>17. WriteInventory => P
  <2>1. "inventory" \in Papers /\ "leave" \in BootLabels
    BY DEF Papers, BootLabels
  <2> QED BY <2>1, <1>0, <1>3, PublishTyped DEF WriteInventory
<1>18. SettleInventory => P
  <2>1. "inventory" \in Papers /\ "leave" \in BootLabels
    BY DEF Papers, BootLabels
  <2> QED BY <2>1, <1>0, SettleTyped DEF SettleInventory
<1>19. /\ UNCHANGED bootVars => P
       /\ TreeWork => P
       /\ \A n \in Papers : PersonWrites(n) => P
       /\ \A n \in Documents : RemoveLone(n) => P
       /\ \A i \in {1, 2} : Governance(i) => P
  BY <1>1 DEF bootVars, TreeWork, PersonWrites, RemoveLone, Governance
<1>20. P
  <2> HIDE DEF P
  <2> QED BY <1>2, <1>4, <1>5, <1>6, <1>7, <1>8, <1>9, <1>10, <1>13, <1>14, <1>15, <1>16,
             <1>17, <1>18, <1>19, BootCases
<1> QED BY <1>20

LEMMA BTypedStep ==
  ASSUME BTyped, Picked, [BootstrapNext]_bootVars
  PROVE  BTyped'
<1>1. boots' \in [Programs -> Boots]
  BY BootsStep
<1>2. papers' \in [Papers -> Files]
  <2> DEFINE P == papers' \in [Papers -> Files]
  <2>0. papers \in [Papers -> Files] /\ Documents \subseteq Papers /\ "inventory" \in Papers
    BY Papery DEF BTyped
  <2>1. ASSUME UNCHANGED papers PROVE P
    BY <2>0, <2>1
  <2>2. \A p \in Programs, n \in Documents : WriteDocument(p, n) => P
    <3>1. \A n \in Documents : Following(n) \in BootLabels
      BY DEF Following, BootLabels
    <3> QED BY <3>1, <2>0, SettleTyped, PublishTyped DEF WriteDocument
  <2>3. \A p \in Programs : Undo(p) => P
    BY <2>0, <2>1, AbsentTyped DEF Undo
  <2>4. WriteInventory => P
    <3>1. [by |-> Lister, links |-> 1, bound |-> boots[Lister].seen, stamp |-> 0] \in Files
      BY ListerIn, BootstrapAssumption DEF Files, BTyped, Boots
    <3> QED BY <3>1, <2>0, ListerIn, PublishTyped DEF WriteInventory
  <2>5. SettleInventory => P
    BY <2>0, ListerIn, SettleTyped DEF SettleInventory, BootLabels
  <2>6. \A n \in Papers : PersonWrites(n) => P
    <3> SUFFICES ASSUME NEW n \in Papers, PersonWrites(n) PROVE P
      OBVIOUS
    <3>1. [by |-> "person", links |-> 1, bound |-> <<0, 0>>, stamp |-> bootEvents'] \in Files
      BY BootstrapAssumption DEF Files, BTyped, PersonWrites, BootEvent
    <3> QED BY <3>1, <2>0 DEF PersonWrites
  <2>7. \A n \in Documents : RemoveLone(n) => P
    BY <2>0, AbsentTyped DEF RemoveLone
  <2>8. P
    <3>1. /\ UNCHANGED bootVars => P
          /\ TreeWork => P
          /\ \A i \in {1, 2} : Governance(i) => P
      BY <2>1 DEF bootVars, TreeWork, Governance
    <3>2. \A p \in Programs : (LoadRegistry(p) \/ TakeControl(p) \/ HoldRegistry(p)
             \/ ReleaseAll(p) \/ NothingThere(p) \/ CheckPair(p) \/ BootFails(p)
             \/ BootKilled(p)) => P
      BY <2>1 DEF LoadRegistry, TakeControl, HoldRegistry, ReleaseAll, NothingThere, CheckPair,
                  BootFails, BootKilled
    <3>3. (LookAtOutput \/ HoldCatalog \/ StartInspection \/ Enumerate \/ ProveIgnored
             \/ EnumerateAgain \/ EndInspection \/ RecheckAll) => P
      BY <2>1 DEF LookAtOutput, HoldCatalog, StartInspection, Enumerate, ProveIgnored,
                  EnumerateAgain, EndInspection, RecheckAll
    <3> HIDE DEF P
    <3> QED BY <2>2, <2>3, <2>4, <2>5, <2>6, <2>7, <3>1, <3>2, <3>3, BootCases
  <2> QED BY <2>8
<1>3. holders' \in [control : Takers, registry : Takers, catalog : Takers]
  <2>1. \/ UNCHANGED holders
        \/ \E p \in Programs : \/ holders' = [holders EXCEPT !.control = p]
                               \/ holders' = [holders EXCEPT !.registry = p]
                               \/ holders' = [holders EXCEPT !.catalog = p]
                               \/ holders' = Released(p)
    BY ListerIn DEF BootstrapNext, BootStep, ListerStep, bootVars, LoadRegistry, TakeControl,
       HoldRegistry, ReleaseAll, NothingThere, WriteDocument, CheckPair, Undo, BootFails,
       BootKilled, LookAtOutput, HoldCatalog, HeldCatalog, StartInspection, Enumerate,
       ProveIgnored, EnumerateAgain, EndInspection, RecheckAll, WriteInventory,
       SettleInventory, TreeWork, PersonWrites, RemoveLone, Governance
  <2> QED BY <2>1, ReleasedTyped DEF BTyped, Takers
<1>4. generations' \in Nat \X Nat /\ bootEvents' \in 0 .. MaxBootEvents
      /\ disturbed' \in BOOLEAN
  <2>1. UNCHANGED generations \/ \E i \in {1, 2} : generations' = [generations EXCEPT ![i] = @ + 1]
    BY DEF BootstrapNext, BootStep, ListerStep, bootVars, LoadRegistry, TakeControl,
       HoldRegistry, ReleaseAll, NothingThere, WriteDocument, CheckPair, Undo, BootFails,
       BootKilled, LookAtOutput, HoldCatalog, HeldCatalog, StartInspection, Enumerate,
       ProveIgnored, EnumerateAgain, EndInspection, RecheckAll, WriteInventory,
       SettleInventory, TreeWork, PersonWrites, RemoveLone, Governance
  <2>2. (UNCHANGED bootEvents \/ BootEvent) /\ (UNCHANGED disturbed \/ disturbed' = TRUE)
    BY DEF BootstrapNext, BootStep, ListerStep, bootVars, LoadRegistry, TakeControl,
       HoldRegistry, ReleaseAll, NothingThere, WriteDocument, CheckPair, Undo, BootFails,
       BootKilled, LookAtOutput, HoldCatalog, HeldCatalog, StartInspection, Enumerate,
       ProveIgnored, EnumerateAgain, EndInspection, RecheckAll, WriteInventory,
       SettleInventory, TreeWork, PersonWrites, RemoveLone, Governance
  <2>3. generations' \in Nat \X Nat
    BY <2>1 DEF BTyped
  <2>4. bootEvents' \in 0 .. MaxBootEvents
    <3>1. bootEvents \in 0 .. MaxBootEvents /\ MaxBootEvents \in Nat
      BY BootstrapAssumption DEF BTyped
    <3> QED BY <2>2, <3>1 DEF BootEvent
  <2>5. disturbed' \in BOOLEAN
    BY <2>2 DEF BTyped
  <2> QED BY <2>3, <2>4, <2>5
<1>5. checkout' \in BOOLEAN /\ rules' \in [Ignored -> {"tracked", "other", "none"}]
      /\ versions' \in [Ignored -> Nat]
  <2>1. TreeWork \/ UNCHANGED tree
    BY DEF BootstrapNext, BootStep, ListerStep, bootVars, LoadRegistry, TakeControl,
       HoldRegistry, ReleaseAll, NothingThere, WriteDocument, CheckPair, Undo, BootFails,
       BootKilled, LookAtOutput, HoldCatalog, HeldCatalog, StartInspection, Enumerate,
       ProveIgnored, EnumerateAgain, EndInspection, RecheckAll, WriteInventory,
       SettleInventory, PersonWrites, RemoveLone, Governance, tree
  <2>2. CASE UNCHANGED tree
    BY <2>2 DEF BTyped, tree
  <2>3. CASE TreeWork
    <3>1. CASE checkout' = ~checkout /\ UNCHANGED <<rules, versions>>
      BY <3>1 DEF BTyped
    <3>2. ASSUME NEW c \in Ignored, versions' = [versions EXCEPT ![c] = @ + 1],
                 UNCHANGED <<checkout, rules>>
          PROVE  versions' \in [Ignored -> Nat]
      BY <3>2 DEF BTyped
    <3>3. ASSUME NEW c \in Ignored, NEW x \in {"tracked", "other", "none"},
                 rules' = [rules EXCEPT ![c] = x]
          PROVE  rules' \in [Ignored -> {"tracked", "other", "none"}]
      BY <3>3 DEF BTyped
    <3> QED BY <2>3, <3>1, <3>2, <3>3 DEF TreeWork, BTyped
  <2> QED BY <2>1, <2>2, <2>3
<1> QED BY <1>1, <1>2, <1>3, <1>4, <1>5 DEF BTyped

\* What the lister does between its looks at the output and the last comparison.
LEMMA ListerWorks ==
  ASSUME BTyped, Picked,
         LookAtOutput \/ StartInspection \/ Enumerate \/ ProveIgnored \/ EnumerateAgain
           \/ EndInspection
  PROVE  /\ \A q \in Programs \ {Lister} : boots'[q] = boots[q]
         /\ boots'[Lister].made = boots[Lister].made
         /\ boots'[Lister].seen = boots[Lister].seen
         /\ UNCHANGED <<papers, generations, holders, tree, bootEvents, disturbed>>
         /\ \/ boots[Lister].at = "look" /\ boots'[Lister].at \in {"registry", "leave"}
            \/ /\ boots[Lister].at \in {"inspect", "pick", "prove", "again"}
               /\ boots'[Lister].at \in {"pick", "prove", "again", "recheck"}
<1> DEFINE b == boots[Lister]
           q == [[b EXCEPT !.at = "pick"] EXCEPT !.todo = Tail(b.todo)]
<1>0. boots \in [Programs -> Boots] /\ Lister \in Programs /\ b \in Boots
  BY ListerIn DEF BTyped
<1>1. CASE LookAtOutput
  BY <1>0, <1>1 DEF LookAtOutput, Boots, Label
<1>2. CASE StartInspection
  BY <1>0, <1>2 DEF StartInspection, Boots, Label
<1>3. /\ q.at = "pick" /\ q.made = b.made /\ q.seen = b.seen
      /\ b.todo # <<>> => PassOver = [boots EXCEPT ![Lister] = q] /\ q \in Boots
  BY <1>0, PassedOver DEF Boots
<1>4. CASE Enumerate
  <2>1. b.todo # <<>> /\ b.at = "pick"
    BY <1>4 DEF Enumerate, Label
  <2>2. Current \in Ignored /\ b.nodes \in Int
    BY <2>1, <1>0 DEF Current, Boots
  <2>3. Excluded(Current) \/ Size[Current] > b.nodes \/ Size[Current] <= b.nodes
    BY <2>2, BootstrapAssumption
  <2>4. \/ boots' = PassOver
        \/ boots' = [PassOver EXCEPT ![Lister].nodes = 0]
        \/ boots' = [boots EXCEPT ![Lister].at = "prove", ![Lister].nodes = @ - Size[Current],
                          ![Lister].counted = versions[Current]]
    BY <1>4, <2>3 DEF Enumerate
  <2> HIDE DEF q
  <2>5. CASE boots' = [boots EXCEPT ![Lister].at = "prove",
                         ![Lister].nodes = @ - Size[Current],
                         ![Lister].counted = versions[Current]]
    <3> DEFINE n == b.nodes - Size[Current]
               r == [[[b EXCEPT !.at = "prove"] EXCEPT !.nodes = n]
                     EXCEPT !.counted = versions[Current]]
    <3>1. boots' = [boots EXCEPT ![Lister] = r]
      BY <1>0, <2>5 DEF Boots
    <3>2. r.at = "prove" /\ r.made = b.made /\ r.seen = b.seen
      <4> HIDE DEF n
      <4> QED BY <1>0 DEF Boots
    <3> HIDE DEF r
    <3> QED BY <1>0, <1>4, <2>1, <3>1, <3>2 DEF Enumerate
  <2>6. CASE boots' = PassOver
    BY <1>0, <1>3, <1>4, <2>1, <2>6 DEF Enumerate
  <2>7. CASE boots' = [PassOver EXCEPT ![Lister].nodes = 0]
    <3> DEFINE r == [q EXCEPT !.nodes = 0]
    <3>1. boots' = [boots EXCEPT ![Lister] = r]
      BY <1>0, <1>3, <2>1, <2>7
    <3>2. r.at = "pick" /\ r.made = b.made /\ r.seen = b.seen
      BY <1>3, <2>1 DEF Boots
    <3> HIDE DEF r
    <3> QED BY <1>0, <1>4, <2>1, <3>1, <3>2 DEF Enumerate
  <2> QED BY <2>4, <2>5, <2>6, <2>7
<1>5. CASE ProveIgnored
  <2>1. b.todo # <<>> /\ b.at = "prove"
    BY <1>5 DEF ProveIgnored, Label, Picked
  <2> HIDE DEF q
  <2> QED BY <1>0, <1>3, <1>5, <2>1 DEF ProveIgnored, Boots
<1>6. CASE EnumerateAgain
  <2>1. b.todo # <<>> /\ b.at = "again"
    BY <1>6 DEF EnumerateAgain, Label, Picked
  <2> HIDE DEF q
  <2> QED BY <1>0, <1>3, <1>6, <2>1 DEF EnumerateAgain, Boots
<1>7. CASE EndInspection
  BY <1>0, <1>7 DEF EndInspection, Boots, Label
<1> QED BY <1>1, <1>2, <1>4, <1>5, <1>6, <1>7

-----------------------------------------------------------------------------
(* Bootstrap: the locks                                                    *)

Outside == {"off", "control"}
Inspecting == {"inspect", "pick", "prove", "again", "recheck", "write", "inventory"}
Governing == Inspecting \cup {"catalog"}

\* Whoever is past the control lock holds it; the other two are taken under it.
LocksNested ==
  /\ \A p \in Programs : boots[p].at \notin Outside <=> holders.control = p
  /\ holders.registry \in {"free", holders.control}
  /\ holders.catalog \in {"free", holders.control}

\* The places of the two programs, and what each may have created.
PlacesHeld ==
  /\ \A p \in Programs : boots[p].at \in Outside \cup {"look", "registry"} => boots[p].made = {}
  /\ \A p \in Programs \ {Lister} : boots[p].at \notin Governing /\ boots[p].made \subseteq Documents
  /\ boots[Lister].at \notin {"policy", "targets", "check"}
  /\ boots[Lister].made \subseteq {"inventory"}

\* While the lister inspects, registry and catalog cannot move.
Governed ==
  /\ boots[Lister].at \in Governing => holders.registry = Lister
  /\ boots[Lister].at \in Inspecting =>
       holders.catalog = Lister /\ boots[Lister].seen = generations

LockInv == LocksNested /\ PlacesHeld /\ Governed

\* A program past the control lock takes a step inside.
LEMMA InsideStep ==
  ASSUME BTyped, LockInv, NEW p \in Programs, boots[p].at \notin Outside,
         boots' \in [Programs -> Boots], \A q \in Programs \ {p} : boots'[q] = boots[q],
         boots'[p].at \notin Outside \cup {"look"}, UNCHANGED generations,
         boots'[p].seen = boots[p].seen,
         boots'[p].at = "registry" => boots'[p].made = {},
         p # Lister => boots'[p].at \notin Governing /\ boots'[p].made \subseteq Documents,
         p = Lister => /\ boots'[p].at \notin {"policy", "targets", "check"}
                       /\ boots'[p].made \subseteq {"inventory"}
                       /\ boots'[p].at \in Governing => holders'.registry = Lister
                       /\ boots'[p].at \in Inspecting =>
                            holders'.catalog = Lister /\ boots[p].seen = generations,
         p # Lister => boots[Lister].at \in Outside,
         holders'.control = holders.control,
         holders'.registry \in {holders.registry, p},
         holders'.catalog \in {holders.catalog, p}
  PROVE  LockInv'
<1>1. holders.control = p
  BY DEF LockInv, LocksNested
<1>2. LocksNested'
  BY <1>1 DEF LockInv, LocksNested
<1>3. PlacesHeld'
  <2>1. ASSUME NEW q \in Programs, boots'[q].at \in Outside \cup {"look", "registry"}
        PROVE  boots'[q].made = {}
    <3>1. CASE q = p
      BY <2>1, <3>1 DEF Outside
    <3>2. CASE q # p
      BY <2>1, <3>2 DEF LockInv, PlacesHeld
    <3> QED BY <3>1, <3>2
  <2>2. ASSUME NEW q \in Programs \ {Lister}
        PROVE  boots'[q].at \notin Governing /\ boots'[q].made \subseteq Documents
    <3>1. CASE q = p
      BY <3>1
    <3>2. CASE q # p
      BY <3>2 DEF LockInv, PlacesHeld
    <3> QED BY <3>1, <3>2
  <2>3. boots'[Lister].at \notin {"policy", "targets", "check"}
        /\ boots'[Lister].made \subseteq {"inventory"}
    BY ListerIn DEF LockInv, PlacesHeld
  <2> QED BY <2>1, <2>2, <2>3 DEF PlacesHeld
<1>4. Governed'
  BY ListerIn DEF LockInv, Governed, Governing, Inspecting, Outside
<1> QED BY <1>2, <1>3, <1>4 DEF LockInv

LEMMA AloneInside ==
  ASSUME LockInv, NEW p \in Programs, boots[p].at \notin Outside
  PROVE  /\ holders.control = p
         /\ \A q \in Programs \ {p} : boots[q].at \in Outside /\ boots[q].made = {}
BY DEF LockInv, LocksNested, PlacesHeld

\* The effects of the steps that write.
LEMMA PublishEffect ==
  ASSUME BTyped, NEW p \in Programs, NEW n \in Papers, Publish(p, n)
  PROVE  /\ \A q \in Programs \ {p} : boots'[q] = boots[q]
         /\ boots'[p].seen = boots[p].seen /\ boots'[p].found = boots[p].found
         /\ \/ /\ There(n) /\ UNCHANGED papers
               /\ boots'[p].at = "undo" /\ boots'[p].made = boots[p].made
            \/ /\ ~There(n) /\ boots'[p].at = n /\ boots'[p].made = boots[p].made \cup {n}
               /\ papers' = [papers EXCEPT ![n] = [by |-> p, links |-> 2,
                                                   bound |-> boots[p].seen, stamp |-> 0]]
<1>1. CASE There(n)
  BY <1>1, Goes DEF Publish, BootLabels
<1>2. CASE ~There(n)
  <2> DEFINE r == boots[p]
             m == r.made \cup {n}
             t == [[r EXCEPT !.at = n] EXCEPT !.made = m]
  <2>1. boots' = [boots EXCEPT ![p] = t]
    BY <1>2 DEF Publish, BTyped, Boots
  <2>2. t.at = n /\ t.made = m /\ t.seen = r.seen /\ t.found = r.found
    <3>1. r \in Boots
      BY DEF BTyped
    <3> HIDE DEF r, m
    <3> QED BY <3>1 DEF Boots
  <2> HIDE DEF t
  <2> QED BY <1>2, <2>1, <2>2 DEF Publish, BTyped
<1> QED BY <1>1, <1>2

LEMMA UndoEffect ==
  ASSUME BTyped, NEW p \in Programs, Undo(p)
  PROVE  /\ \A q \in Programs \ {p} : boots'[q] = boots[q]
         /\ boots'[p].seen = boots[p].seen /\ boots'[p].found = boots[p].found
         /\ boots[p].at = "undo"
         /\ \/ /\ UNCHANGED papers
               /\ boots'[p].at = "leave" /\ boots'[p].made = boots[p].made
               /\ boots[p].made = {} \/ \E n \in boots[p].made : There(n) /\ papers[n].by # p
            \/ \E n \in boots[p].made :
                 /\ boots'[p].at = "undo" /\ boots'[p].made = boots[p].made \ {n}
                 /\ papers' = [papers EXCEPT ![n] = Absent]
<1> DEFINE r == boots[p]
           n == IF "targets" \in ToUndo(p) THEN "targets" ELSE CHOOSE m \in ToUndo(p) : TRUE
<1>0. r \in Boots /\ boots \in [Programs -> Boots] /\ r.at = "undo"
  BY DEF BTyped, Undo, Label
<1>1. ToUndo(p) # {} => n \in boots[p].made
  BY DEF ToUndo
<1>2. CASE ToUndo(p) = {} \/ (There(n) /\ ~Unchanged(p, n))
  <2>1. GoTo(p, "leave") /\ UNCHANGED papers
    BY <1>2 DEF Undo
  <2>2. boots[p].made = {} \/ (n \in boots[p].made /\ There(n) /\ papers[n].by # p)
    BY <1>1, <1>2 DEF Unchanged, Own, ToUndo
  <2> HIDE DEF n
  <2> QED BY <1>0, <2>1, <2>2, Goes DEF BootLabels
<1>3. CASE ~(ToUndo(p) = {} \/ (There(n) /\ ~Unchanged(p, n)))
  <2>1. papers' = [papers EXCEPT ![n] = Absent] /\ boots' = [boots EXCEPT ![p].made = @ \ {n}]
    BY <1>3 DEF Undo
  <2>2. n \in boots[p].made
    BY <1>1, <1>3
  <2> HIDE DEF n
  <2> DEFINE m == r.made \ {n}
             t == [r EXCEPT !.made = m]
  <2>3. boots' = [boots EXCEPT ![p] = t]
    BY <2>1
  <2>4. t.at = "undo" /\ t.made = m /\ t.seen = r.seen /\ t.found = r.found
    <3> HIDE DEF r, m
    <3> QED BY <1>0 DEF Boots
  <2> HIDE DEF t
  <2> QED BY <1>0, <2>1, <2>2, <2>3, <2>4
<1> QED BY <1>2, <1>3

LEMMA LockStep ==
  ASSUME BTyped, Picked, LockInv, [BootstrapNext]_bootVars
  PROVE  LockInv'
<1> DEFINE P == LockInv'
<1>0. /\ boots \in [Programs -> Boots] /\ boots' \in [Programs -> Boots] /\ Lister \in Programs
      /\ holders \in [control : Takers, registry : Takers, catalog : Takers]
      /\ "free" \notin Programs
  BY ListerIn, BootsStep, BootstrapAssumption DEF BTyped, Programs
<1>1. ASSUME UNCHANGED <<boots, holders, generations>> PROVE P
  BY <1>1 DEF LockInv, LocksNested, PlacesHeld, Governed
<1>2. \A p \in Programs : LoadRegistry(p) => P
  <2> SUFFICES ASSUME NEW p \in Programs, LoadRegistry(p) PROVE P
    OBVIOUS
  <2>1. boots[p].at = "off" /\ UNCHANGED <<holders, generations>>
    BY DEF LoadRegistry, Label
  <2>2. boots'[p].at = "control" /\ boots'[p].made = {}
        /\ \A q \in Programs \ {p} : boots'[q] = boots[q]
    BY <1>0 DEF LoadRegistry, Waiting
  <2>3. LocksNested'
    BY <2>1, <2>2 DEF LockInv, LocksNested, Outside
  <2>4. PlacesHeld' /\ Governed'
    BY <1>0, <2>1, <2>2 DEF LockInv, PlacesHeld, Governed, Outside, Governing, Inspecting
  <2> QED BY <2>3, <2>4 DEF LockInv
<1>3. \A p \in Programs : TakeControl(p) => P
  <2> SUFFICES ASSUME NEW p \in Programs, TakeControl(p) PROVE P
    OBVIOUS
  <2>1. /\ boots[p].at = "control" /\ holders.control = "free" /\ UNCHANGED generations
        /\ holders' = [holders EXCEPT !.control = p]
    BY DEF TakeControl, Label
  <2>2. boots'[p].at = "look" /\ boots'[p].made = boots[p].made
        /\ \A q \in Programs \ {p} : boots'[q] = boots[q]
    BY Goes DEF TakeControl, BootLabels
  <2>3. boots[p].made = {} /\ holders.registry = "free" /\ holders.catalog = "free"
        /\ \A q \in Programs : boots[q].at \in Outside
    BY <1>0, <2>1 DEF LockInv, LocksNested, PlacesHeld, Outside
  <2>4. LocksNested'
    BY <1>0, <2>1, <2>2, <2>3 DEF LocksNested, Outside
  <2>5. PlacesHeld'
    BY <1>0, <2>2, <2>3 DEF LockInv, PlacesHeld, Outside, Governing, Inspecting
  <2>6. Governed'
    BY <1>0, <2>2, <2>3 DEF Governed, Outside, Governing, Inspecting
  <2> QED BY <2>4, <2>5, <2>6 DEF LockInv
<1>4. \A p \in Programs : (ReleaseAll(p) \/ BootKilled(p)) => P
  <2> SUFFICES ASSUME NEW p \in Programs, ReleaseAll(p) \/ BootKilled(p) PROVE P
    OBVIOUS
  <2>1. holders' = Released(p) /\ boots[p].at # "off" /\ UNCHANGED generations
    BY DEF ReleaseAll, BootKilled, Label
  <2>2. boots'[p].at = "off" /\ boots'[p].made = {}
        /\ \A q \in Programs \ {p} : boots'[q] = boots[q]
    BY <1>0 DEF ReleaseAll, BootKilled, Waiting
  <2> DEFINE F(x) == IF x = p THEN "free" ELSE x
  <2>3. /\ holders'.control = F(holders.control) /\ holders'.registry = F(holders.registry)
        /\ holders'.catalog = F(holders.catalog)
    BY <2>1, ReleasedTyped
  <2>4. LocksNested'
    BY <1>0, <2>2, <2>3 DEF LockInv, LocksNested, Outside
  <2>5. PlacesHeld'
    BY <1>0, <2>2 DEF LockInv, PlacesHeld, Outside, Governing, Inspecting
  <2>6. Governed'
    BY <1>0, <2>1, <2>2, <2>3 DEF LockInv, Governed, Governing, Inspecting
  <2> QED BY <2>4, <2>5, <2>6 DEF LockInv
<1>5. \A p \in Programs : HoldRegistry(p) => P
  <2> SUFFICES ASSUME NEW p \in Programs, HoldRegistry(p) PROVE P
    OBVIOUS
  <2> DEFINE l == IF boots[p].seen[1] # generations[1] THEN "undo"
                  ELSE IF p = Lister THEN "catalog" ELSE "policy"
  <2>1. boots[p].at = "registry" /\ GoTo(p, l) /\ l \in BootLabels /\ UNCHANGED generations
        /\ holders' = [holders EXCEPT !.registry = p]
    BY DEF HoldRegistry, Label, BootLabels
  <2>2. boots[p].made = {} /\ boots[p].at \notin Outside
    BY <2>1 DEF LockInv, PlacesHeld, Outside
  <2>3. /\ l \in {"undo", "catalog", "policy"} /\ (l = "catalog" => p = Lister)
        /\ (l = "policy" => p # Lister)
    OBVIOUS
  <2> HIDE DEF l
  <2>4. boots'[p].at = l /\ boots'[p].made = {} /\ boots'[p].seen = boots[p].seen
        /\ \A q \in Programs \ {p} : boots'[q] = boots[q]
    BY <2>1, <2>2, Goes
  <2>5. holders'.control = holders.control /\ holders'.registry = p
        /\ holders'.catalog = holders.catalog
    BY <1>0, <2>1
  <2>6. p # Lister => boots[Lister].at \in Outside
    BY <1>0, <2>2, AloneInside
  <2> QED BY <1>0, <2>1, <2>2, <2>3, <2>4, <2>5, <2>6, InsideStep
          DEF Outside, Governing, Inspecting
\* The steps of init-config, and those that both take, leave the locks alone.
<1>6. ASSUME NEW p \in Programs, UNCHANGED <<holders, generations>>,
             boots[p].at \notin Outside,
             \A q \in Programs \ {p} : boots'[q] = boots[q], boots'[p].seen = boots[p].seen,
             boots'[p].at \in {"policy", "targets", "check"} => p # Lister,
             boots'[p].at \in {"policy", "targets", "check", "undo", "leave"}
               \/ (boots'[p].at = "registry" /\ boots'[p].made = {}),
             boots'[p].made \subseteq IF p = Lister THEN {"inventory"} ELSE Documents
      PROVE  P
  <2>1. p # Lister => boots[Lister].at \in Outside
    BY <1>0, <1>6, AloneInside
  <2> QED BY <1>0, <1>6, <2>1, InsideStep DEF Outside, Governing, Inspecting
<1>7. \A p \in Programs : boots[p].made \subseteq IF p = Lister THEN {"inventory"} ELSE Documents
  BY DEF LockInv, PlacesHeld
<1>8. \A p \in Programs : NothingThere(p) => P
  <2> SUFFICES ASSUME NEW p \in Programs, NothingThere(p) PROVE P
    OBVIOUS
  <2> DEFINE l == IF \E n \in Documents : There(n) THEN "leave" ELSE "registry"
  <2>1. boots[p].at = "look" /\ GoTo(p, l) /\ l \in BootLabels /\ l \in {"leave", "registry"}
        /\ UNCHANGED <<generations, holders>>
    BY DEF NothingThere, Label, BootLabels
  <2>2. boots[p].made = {} /\ boots[p].at \notin Outside
    BY <2>1 DEF LockInv, PlacesHeld, Outside
  <2> HIDE DEF l
  <2>3. boots'[p].at = l /\ boots'[p].made = {} /\ boots'[p].seen = boots[p].seen
        /\ \A q \in Programs \ {p} : boots'[q] = boots[q]
    BY <2>1, <2>2, Goes
  <2> QED BY <1>6, <2>1, <2>2, <2>3
<1>9. \A p \in Programs, n \in Documents : WriteDocument(p, n) => P
  <2> SUFFICES ASSUME NEW p \in Programs, NEW n \in Documents, WriteDocument(p, n) PROVE P
    OBVIOUS
  <2>1. boots[p].at = n /\ UNCHANGED <<generations, holders>> /\ n \in {"policy", "targets"}
    BY DEF WriteDocument, Label, Documents
  <2>2. p # Lister /\ boots[p].at \notin Outside
    BY <2>1 DEF LockInv, PlacesHeld, Outside
  <2>3. Following(n) \in {"targets", "check"} /\ Following(n) \in BootLabels
    BY DEF Following, BootLabels
  <2>4. CASE Settle(p, n, Following(n))
    <3>1. \E l \in {"targets", "check", "undo"} : GoTo(p, l)
      BY <2>3, <2>4 DEF Settle
    <3>2. PICK l \in {"targets", "check", "undo"} : GoTo(p, l)
      BY <3>1
    <3>3. boots'[p].at = l /\ boots'[p].made = boots[p].made /\ boots'[p].seen = boots[p].seen
          /\ \A q \in Programs \ {p} : boots'[q] = boots[q]
      BY <3>2, Goes DEF BootLabels
    <3> QED BY <1>6, <1>7, <2>1, <2>2, <3>3
  <2>5. CASE Publish(p, n)
    <3>1. /\ \A q \in Programs \ {p} : boots'[q] = boots[q]
          /\ boots'[p].seen = boots[p].seen /\ boots'[p].at \in {n, "undo"}
          /\ boots'[p].made \subseteq boots[p].made \cup {n}
      BY <2>5, Papery, PublishEffect
    <3> QED BY <1>6, <1>7, <2>1, <2>2, <3>1
  <2> QED BY <2>4, <2>5 DEF WriteDocument
<1>10. \A p \in Programs : (CheckPair(p) \/ BootFails(p)) => P
  <2> SUFFICES ASSUME NEW p \in Programs, CheckPair(p) \/ BootFails(p) PROVE P
    OBVIOUS
  <2>1. /\ \E l \in {"leave", "undo"} : GoTo(p, l)
        /\ boots[p].at \notin Outside /\ UNCHANGED <<holders, generations>>
    BY DEF CheckPair, BootFails, Label, Outside
  <2>2. PICK l \in {"leave", "undo"} : GoTo(p, l)
    BY <2>1
  <2>3. boots'[p].at = l /\ boots'[p].made = boots[p].made /\ boots'[p].seen = boots[p].seen
        /\ \A q \in Programs \ {p} : boots'[q] = boots[q]
    BY <2>2, Goes DEF BootLabels
  <2> QED BY <1>6, <1>7, <2>1, <2>3
<1>11. \A p \in Programs : Undo(p) => P
  <2> SUFFICES ASSUME NEW p \in Programs, Undo(p) PROVE P
    OBVIOUS
  <2>1. /\ boots[p].at \notin Outside /\ UNCHANGED <<holders, generations>>
        /\ \A q \in Programs \ {p} : boots'[q] = boots[q]
        /\ boots'[p].seen = boots[p].seen /\ boots'[p].at \in {"undo", "leave"}
        /\ boots'[p].made \subseteq boots[p].made
    BY UndoEffect DEF Undo, Label, Outside
  <2> QED BY <1>6, <1>7, <2>1
<1>12. HoldCatalog => P
  <2> SUFFICES ASSUME HoldCatalog PROVE P
    OBVIOUS
  <2> DEFINE l == IF boots[Lister].seen = generations THEN "inspect" ELSE "leave"
  <2>1. boots[Lister].at = "catalog" /\ holders' = [holders EXCEPT !.catalog = Lister]
        /\ GoTo(Lister, l) /\ l \in BootLabels /\ UNCHANGED generations
    BY DEF HoldCatalog, HeldCatalog, Label, BootLabels
  <2>2. l \in {"inspect", "leave"} /\ (l = "inspect" => boots[Lister].seen = generations)
    OBVIOUS
  <2>3. boots[Lister].at \notin Outside /\ holders.registry = Lister
    BY <2>1 DEF LockInv, Governed, Governing, Outside
  <2> HIDE DEF l
  <2>4. boots'[Lister].at = l /\ boots'[Lister].made = boots[Lister].made
        /\ boots'[Lister].seen = boots[Lister].seen
        /\ \A q \in Programs \ {Lister} : boots'[q] = boots[q]
    BY <1>0, <2>1, Goes
  <2>5. holders'.control = holders.control /\ holders'.registry = Lister
        /\ holders'.catalog = Lister
    BY <1>0, <2>1, <2>3
  <2> QED BY <1>0, <1>7, <2>1, <2>2, <2>3, <2>4, <2>5, InsideStep
          DEF Outside, Governing, Inspecting
\* The other steps of the lister leave the locks alone, and govern no more than before.
<1>13. ASSUME UNCHANGED <<holders, generations>>, boots[Lister].at \notin Outside,
              \A q \in Programs \ {Lister} : boots'[q] = boots[q],
              boots'[Lister].seen = boots[Lister].seen,
              boots'[Lister].made \subseteq {"inventory"},
              \/ boots'[Lister].at \in {"undo", "leave"}
              \/ boots'[Lister].at = "registry" /\ boots'[Lister].made = {}
              \/ boots'[Lister].at \in Inspecting /\ boots[Lister].at \in Inspecting
       PROVE  P
  <2>1. boots[Lister].at \in Inspecting =>
          /\ holders.registry = Lister /\ holders.catalog = Lister
          /\ boots[Lister].seen = generations
    BY DEF LockInv, Governed, Governing
  <2> QED BY <1>0, <1>13, <2>1, InsideStep DEF Outside, Governing, Inspecting
<1>14. (LookAtOutput \/ StartInspection \/ Enumerate \/ ProveIgnored \/ EnumerateAgain
           \/ EndInspection) => P
  <2> SUFFICES ASSUME LookAtOutput \/ StartInspection \/ Enumerate \/ ProveIgnored
                        \/ EnumerateAgain \/ EndInspection
               PROVE  P
    OBVIOUS
  <2>1. boots[Lister].at = "look" => boots[Lister].made = {}
    BY <1>0 DEF LockInv, PlacesHeld
  <2> QED BY <1>7, <1>13, <2>1, ListerWorks, <1>0 DEF Outside, Inspecting
<1>15. RecheckAll => P
  <2> SUFFICES ASSUME RecheckAll PROVE P
    OBVIOUS
  <2>1. /\ \E l \in {"leave", "write"} : GoTo(Lister, l)
        /\ boots[Lister].at = "recheck" /\ UNCHANGED <<holders, generations>>
    BY DEF RecheckAll, Label
  <2>2. PICK l \in {"leave", "write"} : GoTo(Lister, l)
    BY <2>1
  <2>3. boots'[Lister].at = l /\ boots'[Lister].made = boots[Lister].made
        /\ boots'[Lister].seen = boots[Lister].seen
        /\ \A q \in Programs \ {Lister} : boots'[q] = boots[q]
    BY <2>2, Goes, <1>0 DEF BootLabels
  <2> QED BY <1>0, <1>7, <1>13, <2>1, <2>3 DEF Outside, Inspecting
<1>16. WriteInventory => P
  <2> SUFFICES ASSUME WriteInventory PROVE P
    OBVIOUS
  <2>1. boots[Lister].at = "write" /\ UNCHANGED <<holders, generations>>
        /\ (Publish(Lister, "inventory") \/ GoTo(Lister, "leave"))
    BY DEF WriteInventory, Label
  <2>2. /\ \A q \in Programs \ {Lister} : boots'[q] = boots[q]
        /\ boots'[Lister].seen = boots[Lister].seen
        /\ boots'[Lister].at \in {"inventory", "undo", "leave"}
        /\ boots'[Lister].made \subseteq boots[Lister].made \cup {"inventory"}
    BY <2>1, <1>0, Papery, PublishEffect, Goes DEF BootLabels
  <2> QED BY <1>0, <1>7, <1>13, <2>1, <2>2 DEF Outside, Inspecting
<1>17. SettleInventory => P
  <2> SUFFICES ASSUME SettleInventory PROVE P
    OBVIOUS
  <2>1. boots[Lister].at = "inventory" /\ UNCHANGED <<holders, generations>>
        /\ (GoTo(Lister, "undo") \/ GoTo(Lister, "leave"))
    BY DEF SettleInventory, Settle, Label
  <2>2. /\ \A q \in Programs \ {Lister} : boots'[q] = boots[q]
        /\ boots'[Lister].seen = boots[Lister].seen
        /\ boots'[Lister].at \in {"undo", "leave"}
        /\ boots'[Lister].made = boots[Lister].made
    BY <2>1, <1>0, Goes DEF BootLabels
  <2> QED BY <1>0, <1>7, <1>13, <2>1, <2>2 DEF Outside, Inspecting
<1>18. \A i \in {1, 2} : Governance(i) => P
  <2> SUFFICES ASSUME NEW i \in {1, 2}, Governance(i) PROVE P
    OBVIOUS
  <2>1. UNCHANGED <<boots, holders>>
        /\ (holders.registry = "free" \/ holders.catalog = "free")
    BY DEF Governance
  <2>2. boots[Lister].at \notin Inspecting
    BY <1>0, <2>1 DEF LockInv, Governed, Governing
  <2> QED BY <2>1, <2>2 DEF LockInv, LocksNested, PlacesHeld, Governed
<1>19. /\ UNCHANGED bootVars => P
       /\ TreeWork => P
       /\ \A n \in Papers : PersonWrites(n) => P
       /\ \A n \in Documents : RemoveLone(n) => P
  BY <1>1 DEF bootVars, TreeWork, PersonWrites, RemoveLone
<1>20. P
  <2> HIDE DEF P
  <2> QED BY <1>2, <1>3, <1>4, <1>5, <1>8, <1>9, <1>10, <1>11, <1>12, <1>14, <1>15, <1>16,
             <1>17, <1>18, <1>19, BootCases
<1> QED BY <1>20

-----------------------------------------------------------------------------
(* Bootstrap: the files                                                    *)

\* A file is there or absent as a whole.
Solid == \A n \in Papers : papers[n].links = 0 <=> papers[n] = Absent

\* What a run has created and not removed is there, and still its own.
Owned == \A p \in Programs : \A n \in boots[p].made : There(n) /\ papers[n].by = p

\* A second link is that of a run which is writing, or undoing.
Linked ==
  \A n \in Papers : papers[n].links = 2 =>
    \E p \in Programs : /\ papers[n].by = p /\ n \in boots[p].made
                        /\ boots[p].at \in {n, "undo"}

Whole == (There("policy") <=> There("targets")) /\ papers["policy"].bound = papers["targets"].bound

\* The documents that are there are those that p has created, of p's registry.
Mine(p) ==
  \A n \in Documents : /\ There(n) <=> n \in boots[p].made
                       /\ There(n) => papers[n].bound = boots[p].seen

\* How far a run of init-config is with the pair, when it is past the control lock.
Phase(p) ==
  /\ boots[p].at \in {"look", "leave"} => Whole
  /\ boots[p].at \in {"registry", "policy", "targets", "check"} => Mine(p)
  /\ boots[p].at = "policy" => "targets" \notin boots[p].made
  /\ boots[p].at = "targets" => "policy" \in boots[p].made
  /\ boots[p].at = "check" => boots[p].made = Documents
  /\ boots[p].at = "undo" => Mine(p) \/ (Whole /\ boots[p].made = {})

EachPhase == \A p \in Programs \ {Lister} : Phase(p)

FilesInv ==
  Solid /\ (~disturbed => Owned /\ Linked /\ EachPhase
                          /\ (holders.control \in {"free", Lister} => Whole))

\* A candidate was counted before it was proved, and both before now.
Counted ==
  LET b == boots[Lister] IN
    /\ b.at = "prove" => b.counted <= versions[Current]
    /\ b.at = "again" => b.counted <= b.proved /\ b.proved <= versions[Current]
    /\ \A f \in b.found : f.counted = f.proved

BootInv == BTyped /\ Picked /\ LockInv /\ FilesInv /\ Counted

LEMMA SolidStep ==
  ASSUME BTyped, Picked, LockInv, Solid, [BootstrapNext]_bootVars
  PROVE  Solid'
<1> DEFINE P == Solid'
<1>0. papers \in [Papers -> Files] /\ Documents \subseteq Papers /\ "inventory" \in Papers
      /\ Absent.links = 0 /\ Lister \in Programs
  BY Papery, ListerIn DEF BTyped, Absent
<1>1. ASSUME UNCHANGED papers PROVE P
  BY <1>1 DEF Solid
<1>2. ASSUME NEW n \in Papers, NEW f, f.links = 0 <=> f = Absent,
             papers' = [papers EXCEPT ![n] = f]
      PROVE  P
  BY <1>0, <1>2 DEF Solid
<1>3. ASSUME NEW n \in Papers, NEW a, NEW l, l # 0, NEW v, NEW s,
             papers' = [papers EXCEPT ![n] = [by |-> a, links |-> l, bound |-> v, stamp |-> s]]
      PROVE  P
  <2> DEFINE f == [by |-> a, links |-> l, bound |-> v, stamp |-> s]
  <2>1. f.links = l
    OBVIOUS
  <2>2. papers' = [papers EXCEPT ![n] = f] /\ l # 0
    BY <1>3
  <2> HIDE DEF f
  <2>3. f.links # 0 /\ f # Absent
    BY <1>0, <2>1, <2>2
  <2> QED BY <1>2, <2>2, <2>3
<1>4. ASSUME NEW n \in Papers, papers' = [papers EXCEPT ![n] = Absent] PROVE P
  <2> DEFINE f == Absent
  <2>1. (f.links = 0 <=> f = Absent) /\ papers' = [papers EXCEPT ![n] = f]
    BY <1>0, <1>4
  <2> HIDE DEF f
  <2> QED BY <1>2, <2>1
<1>5. ASSUME NEW n \in Papers, papers' = [papers EXCEPT ![n].links = 1] PROVE P
  <2> DEFINE f == [papers[n] EXCEPT !.links = 1]
  <2>1. papers' = [papers EXCEPT ![n] = f]
    BY <1>5
  <2>2. f.links = 1
    BY <1>0 DEF Files
  <2> HIDE DEF f
  <2>3. f.links # 0 /\ f # Absent
    BY <1>0, <2>2
  <2> QED BY <1>2, <2>1, <2>3
<1>6. \A p \in Programs, n \in Papers, l \in BootLabels :
        (Publish(p, n) \/ Settle(p, n, l)) => P
  <2> SUFFICES ASSUME NEW p \in Programs, NEW n \in Papers, NEW l \in BootLabels,
                      Publish(p, n) \/ Settle(p, n, l)
               PROVE  P
    OBVIOUS
  <2>1. CASE Publish(p, n)
    BY <1>1, <1>3, <2>1 DEF Publish
  <2>2. CASE Settle(p, n, l)
    BY <1>1, <1>5, <2>2 DEF Settle
  <2> QED BY <2>1, <2>2
<1>7. \A p \in Programs, n \in Documents : WriteDocument(p, n) => P
  <2>1. \A n \in Documents : Following(n) \in BootLabels
    BY DEF Following, BootLabels
  <2> QED BY <1>0, <1>6, <2>1 DEF WriteDocument
<1>8. \A p \in Programs : Undo(p) => P
  <2>1. \A p \in Programs : boots[p].made \subseteq Papers
    BY DEF BTyped, Boots
  <2> QED BY <1>1, <1>4, <2>1, UndoEffect
<1>9. WriteInventory => P
  <2>1. "leave" \in BootLabels
    BY DEF BootLabels
  <2> QED BY <1>0, <1>3, <1>6, <2>1 DEF WriteInventory
<1>10. SettleInventory => P
  <2>1. "leave" \in BootLabels
    BY DEF BootLabels
  <2> QED BY <1>0, <1>6, <2>1 DEF SettleInventory
<1>11. /\ \A n \in Papers : PersonWrites(n) => P
       /\ \A n \in Documents : RemoveLone(n) => P
  BY <1>0, <1>3, <1>4 DEF PersonWrites, RemoveLone
<1>12. /\ UNCHANGED bootVars => P
       /\ TreeWork => P
       /\ \A i \in {1, 2} : Governance(i) => P
  BY <1>1 DEF bootVars, TreeWork, Governance
<1>13. \A p \in Programs : (LoadRegistry(p) \/ TakeControl(p) \/ HoldRegistry(p)
          \/ ReleaseAll(p) \/ NothingThere(p) \/ CheckPair(p) \/ BootFails(p)
          \/ BootKilled(p)) => P
  BY <1>1 DEF LoadRegistry, TakeControl, HoldRegistry, ReleaseAll, NothingThere, CheckPair,
              BootFails, BootKilled
<1>14. (LookAtOutput \/ HoldCatalog \/ StartInspection \/ Enumerate \/ ProveIgnored
          \/ EnumerateAgain \/ EndInspection \/ RecheckAll) => P
  BY <1>1 DEF LookAtOutput, HoldCatalog, StartInspection, Enumerate, ProveIgnored,
              EnumerateAgain, EndInspection, RecheckAll
<1>15. P
  <2> HIDE DEF P
  <2> QED BY <1>7, <1>8, <1>9, <1>10, <1>11, <1>12, <1>13, <1>14, BootCases
<1> QED BY <1>15

OwnedBy(p) == \A n \in boots[p].made : There(n) /\ papers[n].by = p
LinkedBy(p) ==
  \A n \in Papers : papers[n].links = 2 =>
    papers[n].by = p /\ n \in boots[p].made /\ boots[p].at \in {n, "undo"}

\* Only the program that is past the control lock matters to the files.
LEMMA Inside ==
  ASSUME LockInv, FilesInv, ~disturbed, NEW p \in Programs, boots[p].at \notin Outside
  PROVE  /\ OwnedBy(p) /\ LinkedBy(p)
         /\ p # Lister => Phase(p)
         /\ p = Lister => Whole
<1>1. /\ holders.control = p
      /\ \A q \in Programs \ {p} : boots[q].at \in Outside /\ boots[q].made = {}
  BY AloneInside
<1>2. OwnedBy(p) /\ LinkedBy(p)
  BY <1>1 DEF FilesInv, Owned, Linked, OwnedBy, LinkedBy
<1>3. (p # Lister => Phase(p)) /\ (p = Lister => Whole)
  BY <1>1 DEF FilesInv, EachPhase
<1> QED BY <1>2, <1>3

LEMMA InsideFiles ==
  ASSUME LockInv', Solid', NEW p \in Programs, boots'[p].at \notin Outside,
         OwnedBy(p)', LinkedBy(p)', p # Lister => Phase(p)', p = Lister => Whole'
  PROVE  FilesInv'
<1>0. "free" \notin Programs
  BY BootstrapAssumption DEF Programs
<1>1. /\ holders'.control = p
      /\ \A q \in Programs \ {p} : boots'[q].at \in Outside /\ boots'[q].made = {}
  BY DEF LockInv, LocksNested, PlacesHeld
<1>2. Owned' /\ Linked'
  BY <1>1 DEF Owned, Linked, OwnedBy, LinkedBy
<1>3. EachPhase'
  <2> SUFFICES ASSUME NEW q \in Programs \ {Lister} PROVE Phase(q)'
    BY DEF EachPhase
  <2>1. CASE q = p
    BY <2>1
  <2>2. CASE q # p
    BY <1>1, <2>2 DEF Phase, Outside
  <2> QED BY <2>1, <2>2
<1>4. holders'.control \in {"free", Lister} => Whole'
  BY <1>0, <1>1
<1> QED BY <1>2, <1>3, <1>4 DEF FilesInv

\* Nobody else, and nothing in the papers, tells one step from another.
LEMMA FilesStep ==
  ASSUME BTyped, Picked, LockInv, FilesInv, [BootstrapNext]_bootVars
  PROVE  FilesInv'
<1> DEFINE P == FilesInv'
<1>0. /\ boots \in [Programs -> Boots] /\ papers \in [Papers -> Files] /\ Lister \in Programs
      /\ holders \in [control : Takers, registry : Takers, catalog : Takers]
      /\ "free" \notin Programs /\ Absent.links = 0 /\ Absent.by = "nobody"
      /\ {"nobody", "person"} \cap Programs = {}
      /\ "policy" \in Papers /\ "targets" \in Papers /\ "inventory" \in Papers
      /\ disturbed \in BOOLEAN
  BY ListerIn, BootstrapAssumption DEF BTyped, Programs, Absent, Papers, Documents
<1>a. LockInv' /\ Solid'
  BY LockStep, SolidStep DEF FilesInv
<1>b. ASSUME disturbed' PROVE P
  BY <1>a, <1>b DEF FilesInv
<1>c. ASSUME UNCHANGED disturbed, disturbed PROVE P
  BY <1>b, <1>c
<1>1. ASSUME UNCHANGED <<boots, holders, papers, disturbed>> PROVE P
  BY <1>1, <1>a DEF FilesInv, Owned, Linked, EachPhase, Phase, Mine, Whole, There
\* A step of one program past the control lock.
<1>2. ASSUME NEW p \in Programs, boots'[p].at \notin Outside, UNCHANGED disturbed,
             ~disturbed => /\ OwnedBy(p)' /\ LinkedBy(p)'
                           /\ p # Lister => Phase(p)'
                           /\ p = Lister => Whole'
      PROVE  P
  <2>1. CASE disturbed
    BY <1>b, <1>2, <2>1
  <2>2. CASE ~disturbed
    BY <1>2, <1>a, <2>2, InsideFiles
  <2> QED BY <2>1, <2>2
\* Such a step that writes no file.
<1>3. ASSUME NEW p \in Programs, UNCHANGED <<papers, disturbed>>,
             boots[p].at \notin Outside, boots'[p].at \notin Outside,
             boots'[p].made = boots[p].made, boots'[p].seen = boots[p].seen,
             ~disturbed => /\ boots[p].at \in Papers \cup {"undo"} =>
                                boots'[p].at \in {boots[p].at, "undo"}
                                  \/ \A n \in Papers : papers[n].links # 2
                           /\ p # Lister => Phase(p)'
      PROVE  P
  <2> SUFFICES ASSUME ~disturbed PROVE /\ OwnedBy(p)' /\ LinkedBy(p)'
                                       /\ p = Lister => Whole'
    BY <1>2, <1>3
  <2>1. OwnedBy(p) /\ LinkedBy(p) /\ (p = Lister => Whole)
    BY <1>3, Inside
  <2>2. OwnedBy(p)' /\ (p = Lister => Whole')
    BY <1>3, <2>1 DEF OwnedBy, There, Whole
  <2>3. LinkedBy(p)'
    BY <1>3, <2>1 DEF LinkedBy
  <2> QED BY <2>2, <2>3
<1>4. \A p \in Programs : LoadRegistry(p) => P
  <2> SUFFICES ASSUME NEW p \in Programs, LoadRegistry(p) PROVE P
    OBVIOUS
  <2>1. boots[p].at = "off" /\ UNCHANGED <<holders, papers, disturbed>>
    BY DEF LoadRegistry, Label
  <2>2. boots'[p].at = "control" /\ boots'[p].made = {} /\ boots[p].made = {}
        /\ \A q \in Programs \ {p} : boots'[q] = boots[q]
    BY <1>0, <2>1 DEF LoadRegistry, Waiting, LockInv, PlacesHeld, Outside
  <2> SUFFICES ASSUME ~disturbed
               PROVE  Owned' /\ Linked' /\ EachPhase' /\ (holders'.control \in {"free", Lister} => Whole')
    BY <1>a, <2>1 DEF FilesInv
  <2>3. Owned'
    BY <2>1, <2>2 DEF FilesInv, Owned, There
  <2>4. Linked'
    BY <2>1, <2>2 DEF FilesInv, Linked
  <2>5. EachPhase'
    <3> SUFFICES ASSUME NEW q \in Programs \ {Lister} PROVE Phase(q)'
      BY DEF EachPhase
    <3>1. CASE q = p
      BY <2>2, <3>1 DEF Phase
    <3>2. CASE q # p
      BY <2>1, <2>2, <3>2 DEF FilesInv, EachPhase, Phase, Mine, Whole, There
    <3> QED BY <3>1, <3>2
  <2>6. holders'.control \in {"free", Lister} => Whole'
    BY <2>1 DEF FilesInv, Whole, There
  <2> QED BY <2>3, <2>4, <2>5, <2>6
\* Whoever leaves by himself leaves both documents or neither.
<1>5. \A p \in Programs : ReleaseAll(p) => P
  <2> SUFFICES ASSUME NEW p \in Programs, ReleaseAll(p) PROVE P
    OBVIOUS
  <2>0. UNCHANGED disturbed
    BY DEF ReleaseAll
  <2> SUFFICES ASSUME ~disturbed PROVE P
    BY <1>c, <2>0
  <2>1. boots[p].at = "leave" /\ boots[p].at \notin Outside /\ UNCHANGED <<papers, disturbed>>
    BY DEF ReleaseAll, Label, Outside
  <2>2. boots'[p].at = "off" /\ boots'[p].made = {}
        /\ \A q \in Programs \ {p} : boots'[q] = boots[q]
    BY <1>0 DEF ReleaseAll, Waiting
  <2>3. Whole /\ \A n \in Papers : papers[n].links # 2
    BY <2>1, Inside DEF Phase, LinkedBy, Papers, Documents
  <2>4. \A q \in Programs : boots'[q].at \in Outside /\ boots'[q].made = {}
    BY <2>1, <2>2, AloneInside DEF Outside
  <2>5. Owned' /\ Linked' /\ Whole'
    BY <2>1, <2>3, <2>4 DEF Owned, Linked, Whole, There
  <2>6. EachPhase'
    BY <2>4 DEF EachPhase, Phase, Outside
  <2> QED BY <1>a, <2>5, <2>6 DEF FilesInv
<1>6. \A p \in Programs : TakeControl(p) => P
  <2> SUFFICES ASSUME NEW p \in Programs, TakeControl(p) PROVE P
    OBVIOUS
  <2>0. UNCHANGED disturbed
    BY DEF TakeControl
  <2> SUFFICES ASSUME ~disturbed PROVE P
    BY <1>c, <2>0
  <2>1. /\ boots[p].at = "control" /\ holders.control = "free"
        /\ UNCHANGED <<papers, disturbed>>
    BY DEF TakeControl, Label
  <2>2. boots'[p].at = "look" /\ boots'[p].made = boots[p].made
    BY Goes DEF TakeControl, BootLabels
  <2>3. \A q \in Programs : boots[q].at \in Outside /\ boots[q].made = {}
    BY <1>0, <2>1 DEF LockInv, LocksNested, PlacesHeld
  <2>4. Whole /\ \A n \in Papers : papers[n].links # 2
    BY <2>1, <2>3 DEF FilesInv, Linked
  <2>5. OwnedBy(p)' /\ LinkedBy(p)' /\ Phase(p)' /\ Whole'
    BY <2>1, <2>2, <2>3, <2>4 DEF OwnedBy, LinkedBy, Phase, Whole, There
  <2> QED BY <1>2, <2>1, <2>2, <2>5 DEF Outside
<1>7. \A p \in Programs : HoldRegistry(p) => P
  <2> SUFFICES ASSUME NEW p \in Programs, HoldRegistry(p) PROVE P
    OBVIOUS
  <2> DEFINE l == IF boots[p].seen[1] # generations[1] THEN "undo"
                  ELSE IF p = Lister THEN "catalog" ELSE "policy"
  <2>1. boots[p].at = "registry" /\ GoTo(p, l) /\ l \in BootLabels
        /\ l \in {"undo", "catalog", "policy"} /\ (p # Lister => l # "catalog")
        /\ UNCHANGED <<papers, disturbed>>
    BY DEF HoldRegistry, Label, BootLabels
  <2> HIDE DEF l
  <2>2. boots'[p].at = l /\ boots'[p].made = boots[p].made /\ boots'[p].seen = boots[p].seen
    BY <2>1, Goes
  <2>3. boots[p].at \notin Outside /\ boots[p].made = {}
    BY <2>1 DEF LockInv, PlacesHeld, Outside
  <2>4. ASSUME ~disturbed, p # Lister PROVE Phase(p)'
    <3>1. Mine(p)
      BY <2>1, <2>3, <2>4, Inside DEF Phase
    <3>2. Mine(p)'
      BY <2>1, <2>2, <3>1 DEF Mine, There
    <3> QED BY <2>1, <2>2, <2>3, <2>4, <3>2 DEF Phase
  <2> QED BY <1>3, <2>1, <2>2, <2>3, <2>4 DEF Outside, Papers, Documents
<1>8. \A p \in Programs : NothingThere(p) => P
  <2> SUFFICES ASSUME NEW p \in Programs, NothingThere(p) PROVE P
    OBVIOUS
  <2> DEFINE l == IF \E n \in Documents : There(n) THEN "leave" ELSE "registry"
  <2>1. boots[p].at = "look" /\ GoTo(p, l) /\ l \in BootLabels
        /\ UNCHANGED <<papers, disturbed>> /\ p # Lister
    BY DEF NothingThere, Label, BootLabels
  <2>2. l = "leave" \/ (l = "registry" /\ \A n \in Documents : ~There(n))
    OBVIOUS
  <2> HIDE DEF l
  <2>3. boots'[p].at = l /\ boots'[p].made = boots[p].made /\ boots'[p].seen = boots[p].seen
    BY <2>1, Goes
  <2>4. boots[p].at \notin Outside /\ boots[p].made = {}
    BY <2>1 DEF LockInv, PlacesHeld, Outside
  <2>5. ASSUME ~disturbed PROVE Phase(p)'
    <3>1. Whole
      BY <2>1, <2>4, <2>5, Inside DEF Phase
    <3>2. Whole'
      BY <2>1, <3>1 DEF Whole, There
    <3>3. l = "registry" => Mine(p)'
      BY <2>1, <2>2, <2>3, <2>4 DEF Mine, There
    <3> QED BY <2>2, <2>3, <3>2, <3>3 DEF Phase
  <2> QED BY <1>3, <2>1, <2>2, <2>3, <2>4, <2>5 DEF Outside, Papers, Documents
<1>9. \A p \in Programs : CheckPair(p) => P
  <2> SUFFICES ASSUME NEW p \in Programs, CheckPair(p) PROVE P
    OBVIOUS
  <2>1. /\ \E l \in {"leave", "undo"} : GoTo(p, l)
        /\ boots[p].at = "check" /\ UNCHANGED <<papers, disturbed>>
    BY DEF CheckPair, Label
  <2>2. PICK l \in {"leave", "undo"} : GoTo(p, l)
    BY <2>1
  <2>3. boots'[p].at = l /\ boots'[p].made = boots[p].made /\ boots'[p].seen = boots[p].seen
    BY <2>2, Goes DEF BootLabels
  <2>4. boots[p].at \notin Outside
    BY <2>1 DEF Outside
  <2>5. ASSUME ~disturbed, p # Lister PROVE Phase(p)'
    <3>1. Mine(p) /\ boots[p].made = Documents
      BY <2>1, <2>4, <2>5, Inside DEF Phase
    <3>2. Mine(p)' /\ Whole'
      BY <2>1, <2>3, <3>1 DEF Mine, There, Whole, Documents
    <3> QED BY <2>3, <3>2 DEF Phase
  <2> QED BY <1>3, <2>1, <2>3, <2>4, <2>5 DEF Outside, Papers, Documents
<1>10. \A p \in Programs : BootFails(p) => P
  <2> SUFFICES ASSUME NEW p \in Programs, BootFails(p) PROVE P
    OBVIOUS
  <2>1. /\ GoTo(p, "undo") /\ boots[p].at \notin {"off", "control", "undo", "leave"}
        /\ UNCHANGED <<papers, disturbed>>
    BY DEF BootFails
  <2>2. boots'[p].at = "undo" /\ boots'[p].made = boots[p].made
        /\ boots'[p].seen = boots[p].seen
    BY <2>1, Goes DEF BootLabels
  <2>3. boots[p].at \notin Outside
    BY <2>1 DEF Outside
  <2>4. ASSUME ~disturbed, p # Lister PROVE Phase(p)'
    <3>1. Phase(p) /\ boots[p].at \in {"look", "registry", "policy", "targets", "check"}
      <4>1. boots[p].at \in BootLabels /\ boots[p].at \notin Governing
        BY <1>0, <2>4 DEF Boots, LockInv, PlacesHeld
      <4> QED BY <2>1, <2>3, <2>4, <4>1, Inside DEF BootLabels, Governing, Inspecting
    <3>2. Mine(p) \/ (Whole /\ boots[p].made = {})
      BY <3>1 DEF Phase, LockInv, PlacesHeld
    <3>3. Mine(p)' \/ (Whole' /\ boots'[p].made = {})
      BY <2>1, <2>2, <3>2 DEF Mine, Whole, There
    <3> QED BY <2>2, <3>3 DEF Phase
  <2> QED BY <1>3, <2>1, <2>2, <2>3, <2>4 DEF Outside
<1>11. \A p \in Programs, n \in Documents : WriteDocument(p, n) => P
  <2> SUFFICES ASSUME NEW p \in Programs, NEW n \in Documents, WriteDocument(p, n) PROVE P
    OBVIOUS
  <2>1. boots[p].at = n /\ UNCHANGED disturbed /\ n \in {"policy", "targets"} /\ n \in Papers
    BY DEF WriteDocument, Label, Documents, Papers
  <2>2. p # Lister /\ boots[p].at \notin Outside
    BY <2>1 DEF LockInv, PlacesHeld, Outside
  <2>3. boots[p].made \subseteq {"policy", "targets"}
    BY <2>2 DEF LockInv, PlacesHeld, Documents
  <2>4. ~disturbed => OwnedBy(p) /\ LinkedBy(p) /\ Mine(p) /\ Phase(p)
    BY <2>1, <2>2, Inside DEF Phase
  <2>5. CASE Publish(p, n) /\ n \notin boots[p].made
    <3>1. /\ boots'[p].seen = boots[p].seen
          /\ \/ /\ There(n) /\ UNCHANGED papers
                /\ boots'[p].at = "undo" /\ boots'[p].made = boots[p].made
             \/ /\ ~There(n) /\ boots'[p].at = n /\ boots'[p].made = boots[p].made \cup {n}
                /\ papers' = [papers EXCEPT ![n] = [by |-> p, links |-> 2,
                                                    bound |-> boots[p].seen, stamp |-> 0]]
      BY <2>1, <2>5, PublishEffect
    <3>2. CASE There(n) /\ UNCHANGED papers /\ boots'[p].at = "undo"
               /\ boots'[p].made = boots[p].made
      <4>1. ~disturbed => Phase(p)'
        BY <2>4, <3>1, <3>2 DEF Phase, Mine, There
      <4> QED BY <1>3, <2>1, <2>2, <3>1, <3>2, <4>1 DEF Outside
    <3>3. CASE /\ ~There(n) /\ boots'[p].at = n /\ boots'[p].made = boots[p].made \cup {n}
               /\ papers' = [papers EXCEPT ![n] = [by |-> p, links |-> 2,
                                                   bound |-> boots[p].seen, stamp |-> 0]]
      <4>1. /\ papers'[n].links = 2 /\ papers'[n].by = p
            /\ papers'[n].bound = boots[p].seen
            /\ \A m \in Papers \ {n} : papers'[m] = papers[m]
        BY <1>0, <2>1, <3>3
      <4>2. ASSUME ~disturbed PROVE OwnedBy(p)' /\ LinkedBy(p)' /\ Phase(p)'
        <5>1. OwnedBy(p)'
          BY <2>3, <2>4, <3>3, <4>1, <4>2, <1>0 DEF OwnedBy, There
        <5>2. LinkedBy(p)'
          BY <2>1, <2>4, <2>5, <3>3, <4>1, <4>2 DEF LinkedBy
        <5>3. Mine(p)'
          BY <1>0, <2>4, <3>1, <3>3, <4>1, <4>2 DEF Mine, There, Documents
        <5>4. Phase(p)'
          BY <2>1, <2>4, <3>3, <5>3, <4>2 DEF Phase
        <5> QED BY <5>1, <5>2, <5>4
      <4> QED BY <1>2, <2>1, <2>2, <3>3, <4>2 DEF Outside
    <3> QED BY <3>1, <3>2, <3>3
  <2>6. CASE Settle(p, n, Following(n)) /\ n \in boots[p].made
    <3>1. CASE ~Own(p, n)
      <4>1. GoTo(p, "undo") /\ UNCHANGED papers
        BY <2>6, <3>1 DEF Settle
      <4>2. boots'[p].at = "undo" /\ boots'[p].made = boots[p].made
            /\ boots'[p].seen = boots[p].seen
        BY <4>1, Goes DEF BootLabels
      <4>3. ~disturbed => Phase(p)'
        BY <2>4, <4>1, <4>2 DEF Phase, Mine, There
      <4> QED BY <1>3, <2>1, <2>2, <4>1, <4>2, <4>3 DEF Outside
    <3>2. CASE Own(p, n)
      <4> DEFINE l == Following(n)
      <4>1. /\ papers' = [papers EXCEPT ![n].links = 1] /\ GoTo(p, l) /\ l \in BootLabels
            /\ l = IF n = "policy" THEN "targets" ELSE "check"
        BY <2>6, <3>2 DEF Settle, Following, BootLabels
      <4> HIDE DEF l
      <4>2. boots'[p].at = l /\ boots'[p].made = boots[p].made
            /\ boots'[p].seen = boots[p].seen
        BY <4>1, Goes
      <4>3. /\ papers'[n].links = 1 /\ papers'[n].by = papers[n].by
            /\ papers'[n].bound = papers[n].bound
            /\ \A m \in Papers \ {n} : papers'[m] = papers[m]
        BY <1>0, <2>1, <4>1 DEF Files
      <4>4. ASSUME ~disturbed PROVE OwnedBy(p)' /\ LinkedBy(p)' /\ Phase(p)'
        <5>0. OwnedBy(p) /\ LinkedBy(p) /\ Mine(p) /\ Phase(p) /\ There(n)
          BY <2>4, <2>6, <4>4 DEF OwnedBy
        <5>1. OwnedBy(p)'
          BY <1>0, <2>3, <4>2, <4>3, <5>0 DEF OwnedBy, There
        <5>2. LinkedBy(p)'
          <6>1. \A m \in Papers : papers'[m].links # 2
            BY <2>1, <4>3, <5>0 DEF LinkedBy
          <6> QED BY <6>1 DEF LinkedBy
        <5>3. Mine(p)'
          BY <1>0, <4>2, <4>3, <5>0 DEF Mine, There, Documents
        <5>4. Phase(p)'
          <6>1. CASE n = "policy"
            BY <2>6, <4>1, <4>2, <5>3, <6>1 DEF Phase
          <6>2. CASE n = "targets"
            <7>1. boots[p].made = {"policy", "targets"}
              BY <2>1, <2>3, <2>6, <5>0, <6>2 DEF Phase
            <7> QED BY <4>1, <4>2, <5>3, <6>2, <7>1 DEF Phase, Documents
          <6> QED BY <2>1, <6>1, <6>2
        <5> QED BY <5>1, <5>2, <5>4
      <4>5. boots'[p].at \notin Outside
        BY <4>1, <4>2 DEF Outside
      <4> QED BY <1>2, <2>1, <2>2, <4>4, <4>5
    <3> QED BY <3>1, <3>2
  <2> QED BY <2>5, <2>6 DEF WriteDocument
<1>12. \A p \in Programs : Undo(p) => P
  <2> SUFFICES ASSUME NEW p \in Programs, Undo(p) PROVE P
    OBVIOUS
  <2>1. /\ boots[p].at = "undo" /\ boots'[p].seen = boots[p].seen
        /\ \/ /\ UNCHANGED papers
              /\ boots'[p].at = "leave" /\ boots'[p].made = boots[p].made
              /\ boots[p].made = {} \/ \E n \in boots[p].made : There(n) /\ papers[n].by # p
           \/ \E n \in boots[p].made :
                /\ boots'[p].at = "undo" /\ boots'[p].made = boots[p].made \ {n}
                /\ papers' = [papers EXCEPT ![n] = Absent]
    BY UndoEffect
  <2>2. UNCHANGED disturbed /\ boots[p].at \notin Outside /\ boots[p].made \subseteq Papers
    BY <1>0, <2>1 DEF Undo, Outside, Boots
  <2>3. ~disturbed => /\ OwnedBy(p) /\ LinkedBy(p)
                      /\ p # Lister => Mine(p) \/ (Whole /\ boots[p].made = {})
                      /\ p = Lister => Whole /\ boots[p].made \subseteq {"inventory"}
    BY <2>1, <2>2, Inside DEF Phase, LockInv, PlacesHeld
  <2>4. CASE /\ UNCHANGED papers
             /\ boots'[p].at = "leave" /\ boots'[p].made = boots[p].made
             /\ boots[p].made = {} \/ \E n \in boots[p].made : There(n) /\ papers[n].by # p
    <3>1. ASSUME ~disturbed PROVE (p # Lister => Phase(p)') /\ \A n \in Papers : papers[n].links # 2
      <4>1. boots[p].made = {}
        BY <2>3, <2>4, <3>1 DEF OwnedBy
      <4>2. p # Lister => Whole
        <5>1. CASE Mine(p)
          <6>1. papers["policy"] = Absent /\ papers["targets"] = Absent
            BY <1>0, <4>1, <5>1 DEF Mine, There, Documents, FilesInv, Solid, Files
          <6> QED BY <6>1 DEF Whole, There
        <5> QED BY <2>3, <3>1, <5>1
      <4>3. p # Lister => Whole'
        BY <2>4, <4>2 DEF Whole, There
      <4> QED BY <2>3, <2>4, <3>1, <4>1, <4>3 DEF Phase, LinkedBy
    <3>2. boots'[p].at \notin Outside
      BY <2>4 DEF Outside
    <3> QED BY <1>3, <2>1, <2>2, <2>4, <3>1, <3>2
  <2>5. ASSUME NEW n \in boots[p].made,
               boots'[p].at = "undo", boots'[p].made = boots[p].made \ {n},
               papers' = [papers EXCEPT ![n] = Absent]
        PROVE  P
    <3>1. /\ papers'[n] = Absent /\ n \in Papers
          /\ \A m \in Papers \ {n} : papers'[m] = papers[m]
      BY <1>0, <2>2, <2>5
    <3>2. ASSUME ~disturbed
          PROVE  /\ OwnedBy(p)' /\ LinkedBy(p)'
                 /\ p # Lister => Phase(p)'
                 /\ p = Lister => Whole'
      <4>1. OwnedBy(p)'
        BY <2>2, <2>3, <2>5, <3>1, <3>2 DEF OwnedBy, There
      <4>2. LinkedBy(p)'
        BY <1>0, <2>3, <2>5, <3>1, <3>2 DEF LinkedBy
      <4>3. p # Lister => Phase(p)'
        <5>1. p # Lister => Mine(p)
          BY <2>3, <2>5, <3>2
        <5>2. Mine(p) => Mine(p)'
          BY <1>0, <2>1, <2>5, <3>1 DEF Mine, There, Documents
        <5> QED BY <2>5, <5>1, <5>2 DEF Phase
      <4>4. p = Lister => Whole'
        BY <1>0, <2>3, <3>1, <3>2 DEF Whole, There
      <4> QED BY <4>1, <4>2, <4>3, <4>4
    <3>3. boots'[p].at \notin Outside
      BY <2>5 DEF Outside
    <3> QED BY <1>2, <2>2, <3>2, <3>3
  <2> QED BY <2>1, <2>4, <2>5
\* The lister creates no document.
<1>13. ASSUME UNCHANGED <<papers, disturbed>>, boots[Lister].at \notin Outside \cup Papers,
              boots[Lister].at # "undo", boots'[Lister].at \notin Outside,
              boots'[Lister].made = boots[Lister].made,
              boots'[Lister].seen = boots[Lister].seen
       PROVE  P
  BY <1>0, <1>3, <1>13
<1>14. (LookAtOutput \/ StartInspection \/ Enumerate \/ ProveIgnored \/ EnumerateAgain
           \/ EndInspection) => P
  <2> SUFFICES ASSUME LookAtOutput \/ StartInspection \/ Enumerate \/ ProveIgnored
                        \/ EnumerateAgain \/ EndInspection
               PROVE  P
    OBVIOUS
  <2>1. boots[Lister].at \in {"look", "inspect", "pick", "prove", "again"}
        /\ boots'[Lister].at \in {"registry", "leave", "pick", "prove", "again", "recheck"}
    BY ListerWorks
  <2> QED BY <1>13, <2>1, ListerWorks DEF Outside, Papers, Documents
<1>15. (HoldCatalog \/ RecheckAll) => P
  <2> SUFFICES ASSUME HoldCatalog \/ RecheckAll PROVE P
    OBVIOUS
  <2>1. /\ \E l \in {"inspect", "leave", "write"} : GoTo(Lister, l)
        /\ boots[Lister].at \in {"catalog", "recheck"} /\ UNCHANGED <<papers, disturbed>>
    BY DEF HoldCatalog, RecheckAll, Label
  <2>2. PICK l \in {"inspect", "leave", "write"} : GoTo(Lister, l)
    BY <2>1
  <2>3. boots'[Lister].at = l /\ boots'[Lister].made = boots[Lister].made
        /\ boots'[Lister].seen = boots[Lister].seen
    BY <2>2, Goes, <1>0 DEF BootLabels
  <2> QED BY <1>13, <2>1, <2>3 DEF Outside, Papers, Documents
<1>16. WriteInventory => P
  <2> SUFFICES ASSUME WriteInventory PROVE P
    OBVIOUS
  <2>1. boots[Lister].at = "write" /\ UNCHANGED disturbed /\ boots[Lister].at \notin Outside
    BY DEF WriteInventory, Label, Outside
  <2>2. ~disturbed => OwnedBy(Lister) /\ LinkedBy(Lister) /\ Whole
                      /\ \A n \in Papers : papers[n].links # 2
    BY <1>0, <2>1, Inside DEF LinkedBy, Papers, Documents
  <2>3. boots[Lister].made \subseteq {"inventory"}
    BY DEF LockInv, PlacesHeld
  <2>4. /\ boots'[Lister].at \in {"inventory", "undo", "leave"}
        /\ boots'[Lister].made \in {boots[Lister].made, boots[Lister].made \cup {"inventory"}}
        /\ \/ UNCHANGED papers /\ boots'[Lister].made = boots[Lister].made
           \/ /\ boots'[Lister].at = "inventory" /\ "inventory" \in boots'[Lister].made
              /\ papers' = [papers EXCEPT !["inventory"] = [by |-> Lister, links |-> 2,
                                            bound |-> boots[Lister].seen, stamp |-> 0]]
           \/ papers' = [papers EXCEPT !["inventory"] = [by |-> Lister, links |-> 1,
                                            bound |-> boots[Lister].seen, stamp |-> 0]]
    <3>1. CASE Publish(Lister, "inventory")
      BY <1>0, <3>1, PublishEffect
    <3>2. CASE /\ papers' = [papers EXCEPT !["inventory"] =
                    [by |-> Lister, links |-> 1, bound |-> boots[Lister].seen, stamp |-> 0]]
               /\ GoTo(Lister, "leave")
      BY <1>0, <3>2, Goes DEF BootLabels
    <3> QED BY <3>1, <3>2 DEF WriteInventory
  <2>5. /\ \A n \in Documents : papers'[n] = papers[n]
        /\ \/ UNCHANGED papers /\ boots'[Lister].made = boots[Lister].made
           \/ papers'["inventory"].by = Lister /\ papers'["inventory"].links \in {1, 2}
              /\ (papers'["inventory"].links = 2 => boots'[Lister].at = "inventory"
                    /\ "inventory" \in boots'[Lister].made)
    BY <1>0, <2>4 DEF Documents
  <2>6. ASSUME ~disturbed PROVE OwnedBy(Lister)' /\ LinkedBy(Lister)' /\ Whole'
    <3>1. Whole'
      BY <2>2, <2>5, <2>6 DEF Whole, There, Documents
    <3>2. OwnedBy(Lister)'
      BY <2>2, <2>3, <2>4, <2>5, <2>6 DEF OwnedBy, There
    <3>3. LinkedBy(Lister)'
      BY <2>2, <2>5, <2>6 DEF LinkedBy, Papers
    <3> QED BY <3>1, <3>2, <3>3
  <2>7. boots'[Lister].at \notin Outside
    BY <2>4 DEF Outside
  <2> QED BY <1>0, <1>2, <2>1, <2>6, <2>7
<1>17. SettleInventory => P
  <2> SUFFICES ASSUME SettleInventory PROVE P
    OBVIOUS
  <2>1. /\ boots[Lister].at = "inventory" /\ UNCHANGED disturbed
        /\ \E l \in {"undo", "leave"} : GoTo(Lister, l)
        /\ \/ papers' = [papers EXCEPT !["inventory"].links = 1]
           \/ UNCHANGED papers /\ GoTo(Lister, "undo")
    BY DEF SettleInventory, Settle, Label
  <2>2. PICK l \in {"undo", "leave"} : GoTo(Lister, l)
    BY <2>1
  <2>3. boots'[Lister].at = l /\ boots'[Lister].made = boots[Lister].made
        /\ boots'[Lister].seen = boots[Lister].seen
    BY <2>2, Goes, <1>0 DEF BootLabels
  <2>4. boots[Lister].at \notin Outside /\ boots'[Lister].at \notin Outside
    BY <2>1, <2>3 DEF Outside
  <2>5. CASE UNCHANGED papers /\ GoTo(Lister, "undo")
    <3>1. boots'[Lister].at = "undo"
      BY <2>5, Goes, <1>0 DEF BootLabels
    <3> QED BY <1>0, <1>3, <2>1, <2>3, <2>4, <2>5, <3>1
  <2>6. CASE papers' = [papers EXCEPT !["inventory"].links = 1]
    <3>1. /\ papers'["inventory"].links = 1 /\ papers'["inventory"].by = papers["inventory"].by
          /\ \A m \in Papers \ {"inventory"} : papers'[m] = papers[m]
      BY <1>0, <2>6 DEF Files
    <3>2. ASSUME ~disturbed PROVE OwnedBy(Lister)' /\ LinkedBy(Lister)' /\ Whole'
      <4>1. OwnedBy(Lister) /\ LinkedBy(Lister) /\ Whole
            /\ boots[Lister].made \subseteq {"inventory"}
        BY <1>0, <2>4, <3>2, Inside DEF LockInv, PlacesHeld
      <4>2. \A m \in Papers : papers'[m].links # 2
        BY <2>1, <3>1, <4>1 DEF LinkedBy
      <4>3. OwnedBy(Lister)'
        BY <2>3, <3>1, <4>1 DEF OwnedBy, There
      <4>4. LinkedBy(Lister)' /\ Whole'
        BY <1>0, <3>1, <4>1, <4>2 DEF LinkedBy, Whole, There
      <4> QED BY <4>3, <4>4
    <3> QED BY <1>0, <1>2, <2>1, <2>4, <3>2
  <2> QED BY <2>1, <2>5, <2>6
\* While nobody was disturbed there is no lone document to remove.
<1>18. \A n \in Documents : RemoveLone(n) => P
  <2> SUFFICES ASSUME NEW n \in Documents, RemoveLone(n) PROVE P
    OBVIOUS
  <2>1. /\ holders.control = "free" /\ papers[n].by \in Configurers /\ UNCHANGED disturbed
        /\ \A m \in Documents \ {n} : ~There(m)
    BY DEF RemoveLone
  <2> SUFFICES ASSUME ~disturbed PROVE FALSE
    BY <1>c, <2>1
  <2>2. Whole
    BY <2>1 DEF FilesInv
  <2>3. n \in Papers /\ papers[n] # Absent /\ papers[n] \in Files
    BY <1>0, <2>1 DEF Documents, Programs
  <2>4. There(n)
    BY <2>3 DEF FilesInv, Solid, There, Files
  <2> QED BY <2>1, <2>2, <2>4 DEF Whole, Documents
<1>19. /\ UNCHANGED bootVars => P
       /\ TreeWork => P
       /\ \A i \in {1, 2} : Governance(i) => P
  BY <1>1 DEF bootVars, TreeWork, Governance
<1>20. /\ \A p \in Programs : BootKilled(p) => P
       /\ \A n \in Papers : PersonWrites(n) => P
  BY <1>b DEF BootKilled, PersonWrites
<1>21. P
  <2> HIDE DEF P
  <2> QED BY <1>4, <1>5, <1>6, <1>7, <1>8, <1>9, <1>10, <1>11, <1>12, <1>14, <1>15, <1>16,
             <1>17, <1>18, <1>19, <1>20, BootCases
<1> QED BY <1>21

\* What the inspection counted and proved is in the order of time.
LEMMA CountedStep ==
  ASSUME BTyped, Picked, LockInv, Counted, [BootstrapNext]_bootVars
  PROVE  Picked' /\ Counted'
<1> DEFINE P == Picked' /\ Counted'
           b == boots[Lister]
<1>0. /\ boots \in [Programs -> Boots] /\ Lister \in Programs /\ b \in Boots
      /\ versions \in [Ignored -> Nat] /\ Waiting.at = "off" /\ Waiting.found = {}
  BY ListerIn DEF BTyped, Waiting
\* A step of another program, or one after which no candidate is in hand.
<1>1. ASSUME boots'[Lister] = b, UNCHANGED versions PROVE P
  BY <1>1 DEF Picked, Counted, Current
<1>2. ASSUME UNCHANGED versions, boots'[Lister].at \notin {"prove", "again"},
             boots'[Lister].found \subseteq b.found
      PROVE  P
  BY <1>2 DEF Picked, Counted
<1>3. ASSUME NEW p \in Programs, NEW l \in BootLabels, GoTo(p, l), l \notin {"prove", "again"},
             UNCHANGED versions
      PROVE  P
  <2>1. CASE p = Lister
    BY <1>2, <1>3, <2>1, Goes
  <2>2. CASE p # Lister
    BY <1>0, <1>1, <1>3, <2>2, Goes
  <2> QED BY <2>1, <2>2
<1>4. \A p \in Programs : LoadRegistry(p) => P
  <2> SUFFICES ASSUME NEW p \in Programs, LoadRegistry(p) PROVE P
    OBVIOUS
  <2>1. UNCHANGED versions
    BY DEF LoadRegistry, tree
  <2>2. CASE p = Lister
    <3>1. boots'[Lister].at = "control" /\ boots'[Lister].found = {}
      BY <1>0, <2>2 DEF LoadRegistry, Waiting
    <3> QED BY <1>2, <2>1, <3>1
  <2>3. CASE p # Lister
    BY <1>0, <1>1, <2>1, <2>3 DEF LoadRegistry
  <2> QED BY <2>2, <2>3
<1>5. \A p \in Programs : (ReleaseAll(p) \/ BootKilled(p)) => P
  <2> SUFFICES ASSUME NEW p \in Programs, ReleaseAll(p) \/ BootKilled(p) PROVE P
    OBVIOUS
  <2>1. UNCHANGED versions /\ boots' = [boots EXCEPT ![p] = Waiting]
    BY DEF ReleaseAll, BootKilled, tree
  <2>2. CASE p = Lister
    BY <1>0, <1>2, <2>1, <2>2
  <2>3. CASE p # Lister
    BY <1>0, <1>1, <2>1, <2>3
  <2> QED BY <2>2, <2>3
<1>6. \A p \in Programs : (TakeControl(p) \/ HoldRegistry(p) \/ NothingThere(p)
                           \/ CheckPair(p) \/ BootFails(p)) => P
  BY <1>3 DEF TakeControl, HoldRegistry, NothingThere, CheckPair, BootFails, BootLabels, tree
<1>7. (HoldCatalog \/ RecheckAll) => P
  BY <1>0, <1>3 DEF HoldCatalog, RecheckAll, BootLabels, tree
<1>8. \A p \in Programs, n \in Papers : Publish(p, n) /\ UNCHANGED versions => P
  <2> SUFFICES ASSUME NEW p \in Programs, NEW n \in Papers, Publish(p, n), UNCHANGED versions
               PROVE  P
    OBVIOUS
  <2>1. /\ \A q \in Programs \ {p} : boots'[q] = boots[q]
        /\ boots'[p].at \in {n, "undo"} /\ boots'[p].found = boots[p].found
    BY PublishEffect
  <2>2. n \notin {"prove", "again"}
    BY DEF Papers, Documents
  <2> QED BY <1>0, <1>1, <1>2, <2>1, <2>2
<1>9. \A p \in Programs, n \in Documents : WriteDocument(p, n) => P
  <2> SUFFICES ASSUME NEW p \in Programs, NEW n \in Documents, WriteDocument(p, n) PROVE P
    OBVIOUS
  <2>1. UNCHANGED versions /\ n \in Papers
        /\ (Publish(p, n) \/ GoTo(p, Following(n)) \/ GoTo(p, "undo"))
    BY Papery DEF WriteDocument, Settle, tree
  <2>2. Following(n) \in BootLabels \ {"prove", "again"} /\ "undo" \in BootLabels
    BY DEF Following, BootLabels
  <2> QED BY <1>3, <1>8, <2>1, <2>2
<1>10. \A p \in Programs : Undo(p) => P
  <2> SUFFICES ASSUME NEW p \in Programs, Undo(p) PROVE P
    OBVIOUS
  <2>1. /\ \A q \in Programs \ {p} : boots'[q] = boots[q]
        /\ boots'[p].at \in {"undo", "leave"} /\ boots'[p].found = boots[p].found
        /\ UNCHANGED versions
    BY UndoEffect DEF Undo, tree
  <2> QED BY <1>0, <1>1, <1>2, <2>1
<1>11. LookAtOutput => P
  <2> SUFFICES ASSUME LookAtOutput PROVE P
    OBVIOUS
  <2>1. boots'[Lister].at \in {"registry", "leave"} /\ boots'[Lister].found = b.found
        /\ UNCHANGED versions
    BY <1>0 DEF LookAtOutput, Boots, tree
  <2> QED BY <1>2, <2>1
<1>12. StartInspection => P
  <2> SUFFICES ASSUME StartInspection PROVE P
    OBVIOUS
  <2>1. boots'[Lister].at \in {"pick", "recheck"} /\ boots'[Lister].found = b.found
        /\ UNCHANGED versions
    BY <1>0 DEF StartInspection, Boots, tree
  <2> QED BY <1>2, <2>1
<1> DEFINE q == [[b EXCEPT !.at = "pick"] EXCEPT !.todo = Tail(b.todo)]
<1>13. /\ q.at = "pick" /\ q.found = b.found
       /\ b.todo # <<>> => /\ PassOver = [boots EXCEPT ![Lister] = q] /\ q \in Boots
                           /\ Current \in Ignored /\ versions[Current] \in Nat
  <2>1. b.todo \in Seq(Ignored)
    BY <1>0 DEF Boots
  <2> QED BY <1>0, <2>1, PassedOver DEF Boots, Current
<1>14. ASSUME b.todo # <<>>, boots' = PassOver, UNCHANGED versions PROVE P
  <2> HIDE DEF q
  <2> QED BY <1>0, <1>2, <1>13, <1>14
<1>15. Enumerate => P
  <2> SUFFICES ASSUME Enumerate PROVE P
    OBVIOUS
  <2>1. b.todo # <<>> /\ b.at = "pick" /\ UNCHANGED versions
    BY DEF Enumerate, Label, tree
  <2>2. b.nodes \in Int /\ Size[Current] \in Int
    BY <1>0, <1>13, <2>1, BootstrapAssumption DEF Boots
  <2>3. Excluded(Current) \/ Size[Current] > b.nodes \/ Size[Current] <= b.nodes
    BY <2>2
  <2>4. \/ boots' = PassOver
        \/ boots' = [PassOver EXCEPT ![Lister].nodes = 0]
        \/ boots' = [boots EXCEPT ![Lister].at = "prove", ![Lister].nodes = @ - Size[Current],
                          ![Lister].counted = versions[Current]]
    BY <2>3 DEF Enumerate
  <2>5. CASE boots' = PassOver
    BY <1>14, <2>1, <2>5
  <2>6. CASE boots' = [PassOver EXCEPT ![Lister].nodes = 0]
    <3> DEFINE r == [q EXCEPT !.nodes = 0]
    <3> HIDE DEF q
    <3>1. boots' = [boots EXCEPT ![Lister] = r]
      BY <1>0, <1>13, <2>1, <2>6
    <3>2. r.at = "pick" /\ r.found = b.found
      BY <1>13, <2>1 DEF Boots
    <3> HIDE DEF r
    <3> QED BY <1>0, <1>2, <2>1, <3>1, <3>2
  <2>7. CASE boots' = [boots EXCEPT ![Lister].at = "prove",
                         ![Lister].nodes = @ - Size[Current],
                         ![Lister].counted = versions[Current]]
    <3> DEFINE n == b.nodes - Size[Current]
               r == [[[b EXCEPT !.at = "prove"] EXCEPT !.nodes = n]
                     EXCEPT !.counted = versions[Current]]
    <3>1. boots' = [boots EXCEPT ![Lister] = r]
      BY <1>0, <2>7 DEF Boots
    <3>2. r.at = "prove" /\ r.todo = b.todo /\ r.found = b.found
          /\ r.counted = versions[Current]
      <4> HIDE DEF n
      <4> QED BY <1>0 DEF Boots
    <3> HIDE DEF r
    <3>3. boots'[Lister] = r
      BY <1>0, <3>1
    <3>4. Current' = Current
      BY <3>2, <3>3 DEF Current
    <3>5. Picked'
      BY <2>1, <3>2, <3>3 DEF Picked
    <3>6. Counted'
      BY <1>13, <2>1, <3>2, <3>3, <3>4 DEF Counted
    <3> QED BY <3>5, <3>6
  <2> QED BY <2>4, <2>5, <2>6, <2>7
<1>16. ProveIgnored => P
  <2> SUFFICES ASSUME ProveIgnored PROVE P
    OBVIOUS
  <2>1. b.todo # <<>> /\ b.at = "prove" /\ UNCHANGED versions
    BY DEF ProveIgnored, Label, Picked, tree
  <2>2. CASE boots' = PassOver
    BY <1>14, <2>1, <2>2
  <2>3. CASE boots' = [boots EXCEPT ![Lister].at = "again", ![Lister].proved = versions[Current]]
    <3> DEFINE r == [[b EXCEPT !.at = "again"] EXCEPT !.proved = versions[Current]]
    <3>1. boots' = [boots EXCEPT ![Lister] = r]
      BY <1>0, <2>3 DEF Boots
    <3>2. r.at = "again" /\ r.todo = b.todo /\ r.found = b.found
          /\ r.counted = b.counted /\ r.proved = versions[Current]
      BY <1>0 DEF Boots
    <3> HIDE DEF r
    <3>3. boots'[Lister] = r
      BY <1>0, <3>1
    <3>4. Current' = Current
      BY <3>2, <3>3 DEF Current
    <3>5. Picked'
      BY <2>1, <3>2, <3>3 DEF Picked
    <3>6. Counted'
      BY <1>13, <2>1, <3>2, <3>3, <3>4 DEF Counted
    <3> QED BY <3>5, <3>6
  <2> QED BY <2>2, <2>3 DEF ProveIgnored
\* It is counted as before, and it was proved in between.
<1>17. EnumerateAgain => P
  <2> SUFFICES ASSUME EnumerateAgain PROVE P
    OBVIOUS
  <2>1. b.todo # <<>> /\ b.at = "again" /\ UNCHANGED versions
    BY DEF EnumerateAgain, Label, Picked, tree
  <2>2. CASE boots' = PassOver
    BY <1>14, <2>1, <2>2
  <2> DEFINE c == [path |-> Current, counted |-> b.counted, proved |-> b.proved]
  <2>3. CASE SameAgain /\ boots' = [PassOver EXCEPT ![Lister].found = @ \cup {c}]
    <3>1. b.counted = b.proved
      <4>1. b.counted \in Nat /\ b.proved \in Nat /\ versions[Current] = b.counted
        BY <1>0, <2>3 DEF Boots, SameAgain
      <4>2. b.counted <= b.proved /\ b.proved <= versions[Current]
        BY <2>1 DEF Counted
      <4> QED BY <4>1, <4>2
    <3>2. c.counted = c.proved
      BY <3>1
    <3> HIDE DEF q, c
    <3> DEFINE f == q.found \cup {c}
               r == [q EXCEPT !.found = f]
    <3>3. boots' = [boots EXCEPT ![Lister] = r]
      BY <1>0, <1>13, <2>1, <2>3
    <3>4. r.at = "pick" /\ r.found = b.found \cup {c}
      BY <1>13, <2>1 DEF Boots
    <3> HIDE DEF r
    <3>5. boots'[Lister] = r
      BY <1>0, <3>3
    <3> QED BY <3>2, <3>4, <3>5 DEF Picked, Counted
  <2> QED BY <2>2, <2>3 DEF EnumerateAgain
<1>18. EndInspection => P
  <2> SUFFICES ASSUME EndInspection PROVE P
    OBVIOUS
  <2>1. boots'[Lister].at = "recheck" /\ boots'[Lister].found \subseteq b.found
        /\ UNCHANGED versions
    BY <1>0 DEF EndInspection, Boots, tree
  <2> QED BY <1>2, <2>1
<1>19. WriteInventory => P
  <2> SUFFICES ASSUME WriteInventory PROVE P
    OBVIOUS
  <2>1. UNCHANGED versions /\ (Publish(Lister, "inventory") \/ GoTo(Lister, "leave"))
    BY DEF WriteInventory, tree
  <2> QED BY <1>0, <1>3, <1>8, <2>1 DEF BootLabels, Papers
<1>20. SettleInventory => P
  BY <1>0, <1>3 DEF SettleInventory, Settle, BootLabels, tree
\* Versions only grow.
<1>21. TreeWork => P
  <2> SUFFICES ASSUME TreeWork PROVE P
    OBVIOUS
  <2>1. UNCHANGED boots
        /\ (UNCHANGED versions \/ \E c \in Ignored : versions' = [versions EXCEPT ![c] = @ + 1])
    BY DEF TreeWork
  <2>2. \A c \in Ignored : versions[c] \in Nat /\ versions'[c] \in Nat
                           /\ versions[c] <= versions'[c]
    BY <1>0, <2>1
  <2>3. b.todo # <<>> => Current \in Ignored
    BY <1>13
  <2>4. Picked' /\ Current' = Current
    BY <2>1 DEF Picked, Current
  <2>5. b.counted \in Nat /\ b.proved \in Nat
    BY <1>0 DEF Boots
  <2>6. Counted'
    BY <2>1, <2>2, <2>3, <2>4, <2>5 DEF Counted, Picked
  <2> QED BY <2>4, <2>6
<1>22. /\ UNCHANGED bootVars => P
       /\ \A n \in Papers : PersonWrites(n) => P
       /\ \A n \in Documents : RemoveLone(n) => P
       /\ \A i \in {1, 2} : Governance(i) => P
  BY <1>1 DEF bootVars, PersonWrites, RemoveLone, Governance, tree
<1>23. P
  <2> HIDE DEF P
  <2> QED BY <1>4, <1>5, <1>6, <1>7, <1>9, <1>10, <1>11, <1>12, <1>15, <1>16, <1>17, <1>18,
             <1>19, <1>20, <1>21, <1>22, BootCases
<1> QED BY <1>23

LEMMA BootInvStart == BootstrapInit => BootInv
<1> SUFFICES ASSUME BootstrapInit PROVE BootInv
  OBVIOUS
<1>1. /\ "free" \notin Programs /\ Waiting.at = "off" /\ Waiting.made = {}
      /\ Waiting.found = {} /\ Absent.links = 0 /\ Absent.bound = <<0, 0>> /\ Lister \in Programs
      /\ Free.control = "free" /\ Free.registry = "free" /\ Free.catalog = "free"
  BY ListerIn, BootstrapAssumption DEF Programs, Waiting, Absent, Free
<1>2. \A p \in Programs : boots[p] = Waiting
  BY DEF BootstrapInit
<1>3. \A n \in Papers : papers[n] = Absent
  BY DEF BootstrapInit
<1>4. BTyped
  <2>1. papers \in [Papers -> Files] /\ boots \in [Programs -> Boots]
    BY WaitingTyped, AbsentTyped DEF BootstrapInit
  <2>2. holders \in [control : Takers, registry : Takers, catalog : Takers]
    BY DEF BootstrapInit, Free, Takers
  <2>3. bootEvents \in 0 .. MaxBootEvents
    BY BootstrapAssumption DEF BootstrapInit
  <2> QED BY <2>1, <2>2, <2>3 DEF BootstrapInit, BTyped
<1>5. Picked /\ Counted
  BY <1>1, <1>2 DEF Picked, Counted
<1>6. LockInv
  BY <1>1, <1>2 DEF BootstrapInit, LockInv, LocksNested, PlacesHeld, Governed, Outside, Governing,
                    Inspecting
<1>7. FilesInv
  BY <1>1, <1>2, <1>3 DEF FilesInv, Solid, Owned, Linked, EachPhase, Phase, Whole, There,
                          Papers, Documents
<1> QED BY <1>4, <1>5, <1>6, <1>7 DEF BootInv

LEMMA BootInvStep == BootInv /\ [BootstrapNext]_bootVars => BootInv'
BY BTypedStep, LockStep, FilesStep, CountedStep DEF BootInv

LEMMA BootAlways == BootstrapSpec => []BootInv
BY BootInvStart, BootInvStep, PTL DEF BootstrapSpec

\* Runs keep their locks in order, the two governed files' under the control
\* directory's, and a file with two links is being written by a run that is under way.
THEOREM BootstrapTypeCorrect == BootstrapSpec => []BootstrapTypeOK
<1>1. BootInv => BootstrapTypeOK
  <2> SUFFICES ASSUME BootInv PROVE BootstrapTypeOK
    OBVIOUS
  <2>1. papers \in [Papers -> [by : Programs \cup {"person", "nobody"}, links : 0 .. 2,
                               bound : Nat \X Nat, stamp : 0 .. MaxBootEvents]]
    BY DEF BootInv, BTyped, Files
  <2>2. \A n \in Papers : papers[n].links = 0 <=> papers[n] = Absent
    BY DEF BootInv, FilesInv, Solid
  <2>3. \A n \in Papers : papers[n].links = 2 /\ ~disturbed => ~Label(papers[n].by, "off")
    <3>1. \A n \in Papers : n # "off"
      BY DEF Papers, Documents
    <3> QED BY <3>1 DEF BootInv, FilesInv, Linked, Label
  <2>4. \A l \in {"registry", "catalog"} : holders[l] # "free" => holders[l] = holders.control
    BY DEF BootInv, BTyped, LockInv, LocksNested
  <2>5. \A p \in Programs : boots[p].at \notin {"off", "control"} <=> holders.control = p
    BY DEF BootInv, LockInv, LocksNested, Outside
  <2> QED BY <2>1, <2>2, <2>3, <2>4, <2>5 DEF BootstrapTypeOK
<1> QED BY <1>1, BootAlways, PTL

\* Wherever a run of init-config stops of itself, the policy and the targets are both
\* there afterwards, of one registry, or neither is.
THEOREM PairIsWhole == BootstrapSpec => []BothOrNeither
<1>1. BootInv => BothOrNeither
  BY DEF BootInv, FilesInv, Whole, BothOrNeither
<1> QED BY <1>1, BootAlways, PTL

\* No document of a person's is removed or overwritten by init-config, and an inventory
\* is of the registry and the catalog of its moment, with candidates as they were proved.
THEOREM InventoryIsHonest == BootstrapSpec => InventoryHonest
<1> DEFINE A == /\ \A n \in Documents : papers[n].by = "person" => papers'[n].by = "person"
                /\ WriteInventory /\ papers' # papers =>
                     /\ papers'["inventory"].bound = generations
                     /\ \A f \in boots[Lister].found : f.counted = f.proved
<1>1. BootInv /\ [BootstrapNext]_bootVars => [A]_bootVars
  <2> SUFFICES ASSUME BootInv, [BootstrapNext]_bootVars PROVE [A]_bootVars
    OBVIOUS
  <2>0. /\ papers \in [Papers -> Files] /\ "person" \notin Programs /\ Lister \in Programs
        /\ Documents \subseteq Papers /\ "inventory" \in Papers \ Documents /\ BTyped
        /\ LockInv
    BY ListerIn, BootstrapAssumption DEF BootInv, BTyped, Programs, Papers, Documents
  <2>1. \A n \in Documents : papers[n].by = "person" => papers'[n].by = "person"
    <3> SUFFICES ASSUME NEW n \in Documents, papers[n].by = "person"
                 PROVE  papers'[n].by = "person"
      OBVIOUS
    <3> DEFINE P == papers'[n].by = "person"
    <3>1. There(n)
      BY <2>0 DEF BootInv, FilesInv, Solid, There, Files, Absent
    <3>2. ASSUME papers'[n] = papers[n] PROVE P
      BY <3>2
    <3>3. ASSUME NEW p \in Programs, NEW m \in Papers, Publish(p, m) PROVE P
      BY <2>0, <3>1, <3>2, <3>3 DEF Publish
    <3>4. ASSUME NEW p \in Programs, NEW m \in Papers, NEW l, Settle(p, m, l) PROVE P
      BY <2>0, <3>2, <3>4 DEF Settle, Files
    <3>5. \A p \in Programs, m \in Documents : WriteDocument(p, m) => P
      BY <2>0, <3>3, <3>4 DEF WriteDocument
    <3>6. \A p \in Programs : Undo(p) => P
      <4> SUFFICES ASSUME NEW p \in Programs, Undo(p) PROVE P
        OBVIOUS
      <4> DEFINE d == IF "targets" \in ToUndo(p) THEN "targets" ELSE CHOOSE m \in ToUndo(p) : TRUE
      <4>1. UNCHANGED papers
            \/ (papers' = [papers EXCEPT ![d] = Absent] /\ ~(There(d) /\ ~Unchanged(p, d)))
        BY DEF Undo
      <4> HIDE DEF d
      <4>2. CASE papers' = [papers EXCEPT ![d] = Absent] /\ ~(There(d) /\ ~Unchanged(p, d))
        <5>1. d # n \/ papers[d].by = p
          BY <3>1, <4>2 DEF Unchanged, Own
        <5> QED BY <2>0, <3>2, <4>2, <5>1
      <4> QED BY <3>2, <4>1, <4>2
    <3>7. (WriteInventory \/ SettleInventory) => P
      BY <2>0, <3>2, <3>3, <3>4 DEF WriteInventory, SettleInventory
    <3>8. /\ \A m \in Papers : PersonWrites(m) => P
          /\ \A m \in Documents : RemoveLone(m) => P
      BY <2>0, <3>2 DEF PersonWrites, RemoveLone, Programs
    <3>9. /\ UNCHANGED bootVars => P
          /\ TreeWork => P
          /\ \A i \in {1, 2} : Governance(i) => P
      BY <3>2 DEF bootVars, TreeWork, Governance
    <3>10. \A p \in Programs : (LoadRegistry(p) \/ TakeControl(p) \/ HoldRegistry(p)
              \/ ReleaseAll(p) \/ NothingThere(p) \/ CheckPair(p) \/ BootFails(p)
              \/ BootKilled(p)) => P
      BY <3>2 DEF LoadRegistry, TakeControl, HoldRegistry, ReleaseAll, NothingThere, CheckPair,
                  BootFails, BootKilled
    <3>11. (LookAtOutput \/ HoldCatalog \/ StartInspection \/ Enumerate \/ ProveIgnored
              \/ EnumerateAgain \/ EndInspection \/ RecheckAll) => P
      BY <3>2 DEF LookAtOutput, HoldCatalog, StartInspection, Enumerate, ProveIgnored,
                  EnumerateAgain, EndInspection, RecheckAll
    <3>12. P
      <4> HIDE DEF P
      <4> QED BY <3>5, <3>6, <3>7, <3>8, <3>9, <3>10, <3>11, BootCases
    <3> QED BY <3>12
  <2>2. ASSUME WriteInventory, papers' # papers
        PROVE  /\ papers'["inventory"].bound = generations
               /\ \A f \in boots[Lister].found : f.counted = f.proved
    <3>1. boots[Lister].seen = generations
      BY <2>2 DEF BootInv, LockInv, Governed, Inspecting, WriteInventory, Label
    <3>2. papers'["inventory"].bound = boots[Lister].seen
      BY <2>0, <2>2 DEF WriteInventory, Publish
    <3>3. \A f \in boots[Lister].found : f.counted = f.proved
      BY DEF BootInv, Counted
    <3> QED BY <3>1, <3>2, <3>3
  <2> QED BY <2>1, <2>2
<1>2. BootstrapSpec => [][A]_bootVars
  <2> HIDE DEF A
  <2> QED BY <1>1, BootAlways, PTL DEF BootstrapSpec
<1> QED BY <1>2 DEF InventoryHonest
=============================================================================
