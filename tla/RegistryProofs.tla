--------------------------- MODULE RegistryProofs ---------------------------
(***************************************************************************)
(* Theorems about Registry for every set of processes, ids and slugs and   *)
(* every bound.                                                            *)
(***************************************************************************)
EXTENDS Registry, TLAPS

----------------------------------------------------------------------------
(* The inductive invariant                                                 *)

\* A writer holds the lock from its load to its last check.
Working == {"load", "replace private", "replace public", "verify"}
LockInv == \A p \in Procs : pc[p] \in Working => lock = p

\* The coherent pairs are one history: a generation for each, the latest last.
HistoryInv ==
  /\ coherent = NoPair => past = {}
  /\ coherent # NoPair => coherent \in past
  /\ \A q \in past : /\ Accepted(q["private"], q["public"])
                     /\ q["private"].generation <= coherent["private"].generation
  /\ \A q, r \in past : q["private"].generation = r["private"].generation => q = r

\* The public file is of the latest coherent pair; the private file is, or is
\* of the generation that follows.
NextGeneration(pair) ==
  IF pair = NoPair THEN 0 ELSE pair["private"].generation + 1
DiskInv ==
  /\ file["public"] = coherent["public"]
  /\ \/ file["private"] = coherent["private"]
     \/ /\ file["private"] # Missing
        /\ file["private"].generation = NextGeneration(coherent)

\* What a writer writes follows from the latest coherent pair.
WriterInv ==
  \A p \in Procs :
    /\ pc[p] \in {"replace private", "replace public"} =>
         new[p] # NoPair /\ new[p] = Planned(coherent, op[p])
    /\ pc[p] = "replace private" => file = coherent
    /\ pc[p] = "replace public" => file["private"] = new[p]["private"]

\* What a reader holds is of the private file as it is, or of a coherent pair.
ReaderInv ==
  \A p \in Procs :
    /\ pc[p] = "read public" =>
         /\ got[p] # Missing
         /\ \/ got[p] = file["private"]
            \/ \E q \in past : got[p] = q["private"]
    /\ answer[p] # NoPair => answer[p] \in past

\* What is recorded on the strength of an observation was shown.
WasShown(i, slug, side) == <<i, slug, side>> \in shown
PublicShown(pair) ==
  \A e \in pair["public"].entries : WasShown(e[1], e[2], "public")
Past == {"lock", "load", "replace private", "replace public"}
ShownInv ==
  /\ ShownNow(github) \subseteq shown
  /\ \A p \in Procs :
       pc[p] \in Past /\ op[p].kind \in {"record-public", "reconcile"} =>
         WasShown(op[p].id, op[p].slug, Target(op[p]))
  /\ coherent # NoPair => PublicShown(coherent)

Inv == /\ TypeOK /\ LockInv /\ HistoryInv /\ DiskInv /\ WriterInv
       /\ ReaderInv /\ ShownInv

----------------------------------------------------------------------------
(* Documents and pairs                                                     *)

\* A change names an id, a slug and a side.
LEMMA ChangeTyped ==
  ASSUME NEW o \in Ops, o.kind \in Changes
  PROVE  o.id \in Ids /\ o.slug \in Slugs /\ Target(o) \in Sides
BY DEF Ops, Changes, NoOp, Target, Sides

\* What load_pair accepts are two documents.
LEMMA UsableTyped ==
  ASSUME NEW pair \in [Sides -> Documents \cup {Missing}], Usable(pair)
  PROVE  pair \in Pairs /\ pair # NoPair
BY DEF Usable, Accepted, WellFormed, Pairs, NoPair, Sides

\* A pair with one entry moved is typed, and of the next generation.
LEMMA MovedTyped ==
  ASSUME NEW pair \in Pairs, NEW i \in Ids, NEW slug \in Slugs, NEW to \in Sides
  PROVE  /\ Moved(pair, i, slug, to) \in Pairs
         /\ \A s \in Sides : Moved(pair, i, slug, to)[s].generation
                             = pair[s].generation + 1
<1> DEFINE n == Moved(pair, i, slug, to)
<1>1. ASSUME NEW s \in Sides
      PROVE  n[s] \in Documents /\ n[s].generation = pair[s].generation + 1
  <2>1. pair[s] \in Documents /\ pair[to] \in Documents
    BY DEF Pairs
  <2>2. Other(to) \in Sides /\ pair[Other(to)] \in Documents
    BY DEF Pairs, Other, Sides
  <2>3. /\ Without(pair[to], i) \cup {<<i, slug>>} \in SUBSET (Ids \X Slugs)
        /\ Without(pair[Other(to)], i) \in SUBSET (Ids \X Slugs)
    BY <2>1, <2>2 DEF Documents, Without
  <2>4. n[s] = [generation |-> pair[s].generation + 1,
                entries |-> IF s = to THEN Without(pair[to], i) \cup {<<i, slug>>}
                                      ELSE Without(pair[Other(to)], i)]
    BY DEF Moved, Advanced
  <2>5. pair[s].generation + 1 \in Nat
    BY <2>1 DEF Documents
  <2> QED BY <2>3, <2>4, <2>5 DEF Documents
<1>2. n = [s \in Sides |-> n[s]]
  BY DEF Moved, Advanced
<1>3. n \in [Sides -> Documents]
  BY <1>1, <1>2
<1> QED BY <1>1, <1>3 DEF Pairs

\* A pair with one entry moved is accepted again: the id had one entry, and
\* nobody else has the slug.
LEMMA MovedAccepted ==
  ASSUME NEW pair \in Pairs, NEW i \in Ids, NEW slug \in Slugs, NEW to \in Sides,
         Usable(pair), ~Collides(pair, i, slug)
  PROVE  Usable(Moved(pair, i, slug, to))
<1> DEFINE n == Moved(pair, i, slug, to)
           here == Without(pair[to], i) \cup {<<i, slug>>}
           there == Without(pair[Other(to)], i)
<1>1. n \in Pairs /\ \A s \in Sides : n[s].generation = pair[s].generation + 1
  BY MovedTyped
<1>2. n[to].entries = here /\ n[Other(to)].entries = there
  BY DEF Moved, Advanced, Other, Sides
<1>3. /\ Other(to) \in Sides
      /\ Sides = {to, Other(to)}
  BY DEF Other, Sides
<1>4. /\ \A e, f \in pair[to].entries : e[1] = f[1] \/ e[2] = f[2] => e = f
      /\ \A e, f \in pair[Other(to)].entries : e[1] = f[1] \/ e[2] = f[2] => e = f
      /\ \A e \in pair[to].entries, f \in pair[Other(to)].entries :
            e[1] # f[1] /\ e[2] # f[2]
  BY DEF Usable, Accepted, WellFormed, IdsOf, SlugsOf, Other, Sides
<1>5. /\ \A e \in pair[to].entries : e[2] = slug => e[1] = i
      /\ \A e \in pair[Other(to)].entries : e[2] = slug => e[1] = i
  BY <1>3 DEF Collides
<1>6. \A e, f \in here : e[1] = f[1] \/ e[2] = f[2] => e = f
  BY <1>4, <1>5 DEF Without
<1>7. \A e, f \in there : e[1] = f[1] \/ e[2] = f[2] => e = f
  BY <1>4 DEF Without
<1>8. \A e \in here, f \in there : e[1] # f[1] /\ e[2] # f[2]
  BY <1>4, <1>5 DEF Without
<1>9. n[to] # Missing /\ n[Other(to)] # Missing
  BY <1>1, <1>3, RegistryAssumption DEF Pairs, Documents
<1>10. n[to].generation = n[Other(to)].generation
  BY <1>1, <1>3 DEF Usable, Accepted, Sides
<1>11. /\ WellFormed(n[to]) /\ WellFormed(n[Other(to)])
       /\ IdsOf(n[to]) \cap IdsOf(n[Other(to)]) = {}
       /\ SlugsOf(n[to]) \cap SlugsOf(n[Other(to)]) = {}
  BY <1>2, <1>6, <1>7, <1>8, <1>9 DEF WellFormed, IdsOf, SlugsOf
<1> QED BY <1>10, <1>11 DEF Usable, Accepted, Other, Sides

\* What a writer plans is typed, accepted, and of the next generation.
LEMMA PlannedNext ==
  ASSUME NEW pair \in [Sides -> Documents \cup {Missing}], NEW o \in Ops,
         Planned(pair, o) # NoPair
  PROVE  /\ Planned(pair, o) \in Pairs
         /\ Usable(Planned(pair, o))
         /\ Planned(pair, o)["private"].generation = NextGeneration(pair)
<1>1. CASE o.kind = "init" /\ pair = NoPair
  <2>1. Planned(pair, o) = [s \in Sides |-> Empty]
    BY <1>1 DEF Planned, Changes
  <2>2. Empty \in Documents /\ Empty.generation = 0 /\ Empty.entries = {}
    BY DEF Empty, Documents
  <2>3. WellFormed(Empty) /\ IdsOf(Empty) = {} /\ SlugsOf(Empty) = {}
    BY <2>2, RegistryAssumption DEF WellFormed, IdsOf, SlugsOf, Documents
  <2> QED BY <1>1, <2>1, <2>2, <2>3 DEF Pairs, Usable, Accepted, Sides, NextGeneration
<1>2. CASE /\ ~(o.kind = "init" /\ pair = NoPair)
           /\ o.kind \in Changes /\ Usable(pair) /\ MayChange(pair, o)
  <2>1. Planned(pair, o) = Moved(pair, o.id, o.slug, Target(o))
    BY <1>2 DEF Planned, Changes
  <2>2. o.id \in Ids /\ o.slug \in Slugs /\ Target(o) \in Sides
    BY <1>2, ChangeTyped
  <2>3. pair \in Pairs /\ pair # NoPair
    BY <1>2, UsableTyped
  <2>4. ~Collides(pair, o.id, o.slug)
    BY <1>2 DEF MayChange
  <2>5. "private" \in Sides
    BY DEF Sides
  <2> QED BY <1>2, <2>1, <2>2, <2>3, <2>4, <2>5, MovedTyped, MovedAccepted DEF NextGeneration
<1> QED BY <1>1, <1>2 DEF Planned, Changes

----------------------------------------------------------------------------
(* Types                                                                   *)

\* A command that ends leaves typed locals.
LEMMA EndedTyped ==
  ASSUME TypeOK, NEW p \in Procs, Ended(p)
  PROVE  /\ lock' \in Procs \cup {NoOne}
         /\ pc' \in [Procs -> {"idle", "observe", "lock", "load", "replace private",
                              "replace public", "verify", "read private", "read public"}]
         /\ op' \in [Procs -> Ops]
         /\ got' \in [Procs -> Documents \cup {Missing}]
         /\ new' \in [Procs -> Pairs \cup {NoPair}]
BY DEF TypeOK, Ended, Goto, Release, Ops

LEMMA TypeStep ==
  ASSUME TypeOK, [Next]_vars
  PROVE  TypeOK'
<1> USE DEF TypeOK
<1> DEFINE NextPairs == \A p \in Procs : new[p] # NoPair => new[p] \in Pairs
<1>1. ASSUME NEW p \in Procs, Begin(p)
      PROVE  TypeOK'
  <2>1. PICK o \in Ops : op' = [op EXCEPT ![p] = o] /\ pc' \in [Procs ->
               {"idle", "observe", "lock", "load", "replace private",
                "replace public", "verify", "read private", "read public"}]
    BY <1>1 DEF Begin, Goto
  <2> QED BY <1>1, <2>1 DEF Begin, world, history
<1>2. ASSUME NEW p \in Procs, Observe(p)
      PROVE  TypeOK'
  BY <1>2 DEF Observe, Goto, world, history
<1>3. ASSUME NEW p \in Procs, Lock(p)
      PROVE  TypeOK'
  BY <1>3 DEF Lock, Locked, Goto, world, history
<1>4. ASSUME NEW p \in Procs, Load(p)
      PROVE  TypeOK'
  <2>1. Planned(file, op[p]) \in Pairs
    BY <1>4, PlannedNext DEF Load
  <2> QED BY <1>4, <2>1 DEF Load, Goto, world, history
<1>5. ASSUME NEW p \in Procs, ReplacePrivate(p)
      PROVE  TypeOK'
  <2>1. new[p]["private"] \in Documents \cup {Missing}
    <3>1. new[p] \in Pairs \/ new[p] = NoPair
      OBVIOUS
    <3> QED BY <3>1 DEF Pairs, NoPair, Sides
  <2> QED BY <1>5, <2>1 DEF ReplacePrivate, Goto, world, history
<1>6. ASSUME NEW p \in Procs, ReplacePublic(p)
      PROVE  TypeOK'
  <2>1. new[p]["public"] \in Documents \cup {Missing}
    <3>1. new[p] \in Pairs \/ new[p] = NoPair
      OBVIOUS
    <3> QED BY <3>1 DEF Pairs, NoPair, Sides
  <2>2. file' \in [Sides -> Documents \cup {Missing}]
    BY <1>6, <2>1 DEF ReplacePublic
  <2>3. PairOnDisk' => file' \in Pairs
    BY <2>2, UsableTyped DEF PairOnDisk, Usable
  <2>4. pc' \in [Procs -> {"idle", "observe", "lock", "load", "replace private",
                          "replace public", "verify", "read private", "read public"}]
    BY <1>6 DEF ReplacePublic, Goto
  <2>5. lock' \in Procs \cup {NoOne}
    BY <1>6 DEF ReplacePublic
  <2>6. coherent' \in Pairs \cup {NoPair} /\ past' \subseteq Pairs
    BY <1>6, <2>3 DEF ReplacePublic
  <2> QED BY <1>6, <2>2, <2>4, <2>5, <2>6 DEF ReplacePublic, world
<1>7. ASSUME NEW p \in Procs, Verify(p) \/ GiveUp(p)
      PROVE  TypeOK'
  BY <1>7, EndedTyped DEF Verify, GiveUp, world, history
<1>8. ASSUME NEW p \in Procs, ReadPrivate(p)
      PROVE  TypeOK'
  <2>1. file["private"] \in Documents \cup {Missing}
    BY DEF Sides
  <2> QED BY <1>8, <2>1 DEF ReadPrivate, Goto, world, history
<1>9. ASSUME NEW p \in Procs, ReadPublic(p)
      PROVE  TypeOK'
  <2>1. got[p] \in Documents /\ file["public"] \in Documents
    BY <1>9 DEF ReadPublic, Accepted, WellFormed, Sides
  <2>2. answer' \in [Procs -> Pairs \cup {NoPair}]
    BY <1>9, <2>1 DEF ReadPublic, Pairs
  <2> QED BY <1>9, <2>2, EndedTyped DEF ReadPublic, world, history
<1>10. ASSUME NEW i \in Ids, Change(i)
       PROVE  TypeOK'
  <2>1. changes' \in 0 .. MaxChanges
    <3>1. changes \in 0 .. MaxChanges
      OBVIOUS
    <3>2. changes < MaxChanges /\ changes' = changes + 1
      BY <1>10 DEF Change
    <3> HIDE DEF TypeOK
    <3> QED BY <3>1, <3>2, RegistryAssumption
  <2>2. github' \in [Ids -> [slug : Slugs, visibility : Sides]]
    BY <1>10 DEF Change
  <2> QED BY <1>10, <2>1, <2>2 DEF Change, local
<1>11. CASE UNCHANGED vars
  BY <1>11 DEF vars, local, world, history
<1> QED
  BY <1>1, <1>2, <1>3, <1>4, <1>5, <1>6, <1>7, <1>8, <1>9, <1>10, <1>11
     DEF Next, Continue

----------------------------------------------------------------------------
(* One writer at a time                                                    *)

LEMMA LockStep ==
  ASSUME TypeOK, LockInv, [Next]_vars
  PROVE  LockInv'
<1> SUFFICES ASSUME NEW r \in Procs, pc'[r] \in Working
             PROVE  lock' = r
  BY DEF LockInv
<1> USE DEF Working, Goto
<1>0. pc[r] \in Working => lock = r
  BY DEF LockInv
<1>1. /\ pc \in [Procs -> {"idle", "observe", "lock", "load", "replace private",
               "replace public", "verify", "read private", "read public"}]
      /\ \A p \in Procs : p # NoOne
      /\ op \in [Procs -> Ops]
  BY RegistryAssumption DEF TypeOK
<1>2. ASSUME NEW p \in Procs, Begin(p)
      PROVE  lock' = r
  BY <1>0, <1>1, <1>2 DEF Begin
<1>3. ASSUME NEW p \in Procs, Observe(p) \/ ReadPrivate(p)
      PROVE  lock' = r
  BY <1>0, <1>1, <1>3 DEF Observe, ReadPrivate
<1>4. ASSUME NEW p \in Procs, Lock(p)
      PROVE  lock' = r
  BY <1>0, <1>1, <1>4 DEF Lock, Locked
<1>5. ASSUME NEW p \in Procs, Load(p) \/ ReplacePrivate(p)
      PROVE  lock' = r
  BY <1>0, <1>1, <1>5 DEF Load, ReplacePrivate
<1>6. ASSUME NEW p \in Procs, ReplacePublic(p)
      PROVE  lock' = r
  <2>1. lock = p
    BY <1>6 DEF LockInv, ReplacePublic
  <2>2. CASE op[p].kind = "init"
    BY <1>0, <1>1, <1>6, <2>1, <2>2 DEF ReplacePublic
  <2>3. CASE op[p].kind # "init"
    BY <1>0, <1>1, <1>6, <2>1, <2>3 DEF ReplacePublic
  <2> QED BY <2>2, <2>3
<1>7. ASSUME NEW p \in Procs, Ended(p)
      PROVE  lock' = r
  BY <1>0, <1>1, <1>7 DEF Ended, Release
<1>8. CASE UNCHANGED <<pc, lock>>
  BY <1>0, <1>8
<1> QED
  BY <1>2, <1>3, <1>4, <1>5, <1>6, <1>7, <1>8
     DEF Next, Continue, Verify, GiveUp, ReadPublic, Change, vars, local

\* Two processes are never both between their load and their last check.
LEMMA OneWriter ==
  ASSUME LockInv, NEW p \in Procs, NEW r \in Procs,
         pc[p] \in Working, pc[r] \in Working
  PROVE  p = r
BY DEF LockInv

----------------------------------------------------------------------------
(* The files, their history and the writer                                 *)

Replacing == {"replace private", "replace public"}
CoreInv == HistoryInv /\ DiskInv /\ WriterInv

\* A step that replaces no file and takes nobody to a replacement keeps it.
LEMMA QuietStep ==
  ASSUME CoreInv, UNCHANGED <<file, coherent, past>>,
         \A p \in Procs : pc'[p] \in Replacing =>
           pc[p] = pc'[p] /\ op[p] = op'[p] /\ new[p] = new'[p]
  PROVE  CoreInv'
<1>1. HistoryInv'
  BY DEF CoreInv, HistoryInv
<1>2. DiskInv'
  BY DEF CoreInv, DiskInv, NextGeneration
<1>3. WriterInv'
  BY DEF CoreInv, WriterInv, Replacing
<1> QED BY <1>1, <1>2, <1>3 DEF CoreInv

\* The pair on disk is usable only when it is the latest coherent one.
LEMMA UsableIsCoherent ==
  ASSUME TypeOK, CoreInv, Usable(file)
  PROVE  file = coherent /\ coherent # NoPair
<1>1. file \in Pairs /\ file # NoPair
  BY UsableTyped DEF TypeOK
<1>2. file["public"] = coherent["public"] /\ file["public"] # Missing
  BY DEF CoreInv, DiskInv, Usable, Accepted, WellFormed
<1>3. coherent # NoPair /\ coherent \in Pairs
  BY <1>2 DEF NoPair, Sides, TypeOK
<1>4. Usable(coherent)
  BY <1>3 DEF CoreInv, HistoryInv, Usable
<1>5. file["private"].generation = coherent["private"].generation
  BY <1>2, <1>4 DEF Usable, Accepted
<1>6. coherent["private"].generation \in Nat
  BY <1>3 DEF Pairs, Documents, Sides
<1>7. file["private"] = coherent["private"]
  BY <1>3, <1>5, <1>6 DEF CoreInv, DiskInv, NextGeneration
<1> QED BY <1>1, <1>2, <1>3, <1>7 DEF Pairs, Sides

LEMMA LoadStep ==
  ASSUME TypeOK, CoreInv, NEW p \in Procs, Load(p)
  PROVE  CoreInv'
<1>1. Planned(file, op[p]) # NoPair /\ UNCHANGED <<file, coherent, past>>
  BY DEF Load, history
<1>2. file = NoPair \/ Usable(file)
  BY <1>1 DEF Planned
<1>3. file = coherent
  <2>1. CASE file = NoPair
    <3>1. coherent["public"] = Missing
      BY <2>1 DEF CoreInv, DiskInv, NoPair, Sides
    <3>2. coherent = NoPair
      BY <3>1, RegistryAssumption DEF TypeOK, Pairs, Documents, Sides
    <3> QED BY <2>1, <3>2
  <2> QED BY <1>2, <2>1, UsableIsCoherent
<1>4. HistoryInv' /\ DiskInv'
  BY <1>1 DEF CoreInv, HistoryInv, DiskInv, NextGeneration
<1>5. WriterInv'
  <2> SUFFICES ASSUME NEW r \in Procs
               PROVE  /\ pc'[r] \in {"replace private", "replace public"} =>
                            new'[r] # NoPair /\ new'[r] = Planned(coherent', op'[r])
                      /\ pc'[r] = "replace private" => file' = coherent'
                      /\ pc'[r] = "replace public" => file'["private"] = new'[r]["private"]
    BY DEF WriterInv
  <2>1. CASE r = p
    BY <1>1, <1>3, <2>1 DEF Load, Goto, TypeOK
  <2>2. CASE r # p
    BY <1>1, <2>2 DEF Load, Goto, TypeOK, CoreInv, WriterInv
  <2> QED BY <2>1, <2>2
<1> QED BY <1>4, <1>5 DEF CoreInv

\* A pair of the history is usable, and the next pair is not of it.
LEMMA NewIsNext ==
  ASSUME TypeOK, CoreInv, NEW p \in Procs, pc[p] \in Replacing
  PROVE  /\ new[p] \in Pairs /\ Usable(new[p])
         /\ new[p]["private"].generation = NextGeneration(coherent)
         /\ new[p]["private"].generation \in Nat
         /\ \A q \in past : /\ q["private"].generation \in Nat
                            /\ q["private"].generation < new[p]["private"].generation
<1>1. new[p] # NoPair /\ new[p] = Planned(coherent, op[p])
  BY DEF CoreInv, WriterInv, Replacing
<1>2. coherent \in [Sides -> Documents \cup {Missing}] /\ op[p] \in Ops
  BY DEF TypeOK, Pairs, NoPair
<1>3. /\ new[p] \in Pairs /\ Usable(new[p])
      /\ new[p]["private"].generation = NextGeneration(coherent)
  BY <1>1, <1>2, PlannedNext
<1>4. new[p]["private"].generation \in Nat
  BY <1>3 DEF Pairs, Documents, Sides
<1>5. ASSUME NEW q \in past
      PROVE  /\ q["private"].generation \in Nat
             /\ q["private"].generation < new[p]["private"].generation
  <2>1. coherent # NoPair /\ coherent \in Pairs /\ q \in Pairs
    BY DEF CoreInv, HistoryInv, TypeOK
  <2>2. /\ q["private"].generation \in Nat
        /\ coherent["private"].generation \in Nat
    BY <2>1 DEF Pairs, Documents, Sides
  <2>3. q["private"].generation <= coherent["private"].generation
    BY DEF CoreInv, HistoryInv
  <2> QED BY <1>3, <2>1, <2>2, <2>3 DEF NextGeneration
<1> QED BY <1>3, <1>4, <1>5

LEMMA ReplacePrivateStep ==
  ASSUME TypeOK, LockInv, CoreInv, NEW p \in Procs, ReplacePrivate(p)
  PROVE  CoreInv'
<1>1. /\ pc[p] = "replace private" /\ pc[p] \in Replacing
      /\ file' = [file EXCEPT !["private"] = new[p]["private"]]
      /\ pc' = [pc EXCEPT ![p] = "replace public"]
      /\ UNCHANGED <<op, new, coherent, past>>
  BY DEF ReplacePrivate, Replacing, Goto, history
<1>2. file'["private"] = new[p]["private"] /\ file'["public"] = file["public"]
  BY <1>1 DEF TypeOK, Sides
<1>3. new[p]["private"] # Missing
  BY <1>1, NewIsNext DEF Usable, Accepted, WellFormed
<1>4. HistoryInv'
  BY <1>1 DEF CoreInv, HistoryInv
<1>5. DiskInv'
  BY <1>1, <1>2, <1>3, NewIsNext DEF CoreInv, DiskInv, NextGeneration
<1>6. \A r \in Procs \ {p} : pc'[r] = pc[r] /\ pc[r] \notin Replacing
  BY <1>1, OneWriter DEF TypeOK, Working, Replacing
<1>7. pc'[p] = "replace public"
  BY <1>1 DEF TypeOK
<1>8. WriterInv'
  BY <1>1, <1>2, <1>6, <1>7 DEF CoreInv, WriterInv, Replacing
<1> QED BY <1>4, <1>5, <1>8 DEF CoreInv

LEMMA ReplacePublicStep ==
  ASSUME TypeOK, LockInv, CoreInv, NEW p \in Procs, ReplacePublic(p)
  PROVE  /\ CoreInv'
         /\ file' = new[p] /\ coherent' = file' /\ past' = past \cup {file'}
<1>1. /\ pc[p] = "replace public" /\ pc[p] \in Replacing
      /\ file' = [file EXCEPT !["public"] = new[p]["public"]]
      /\ pc' \in {[pc EXCEPT ![p] = "read private"], [pc EXCEPT ![p] = "verify"]}
      /\ UNCHANGED <<op, new>>
      /\ coherent' = IF PairOnDisk' THEN file' ELSE coherent
      /\ past' = IF PairOnDisk' THEN past \cup {file'} ELSE past
  BY DEF ReplacePublic, Replacing, Goto
<1>2. new[p] \in Pairs /\ Usable(new[p])
  BY <1>1, NewIsNext
<1>3. file["private"] = new[p]["private"]
  BY <1>1 DEF CoreInv, WriterInv
<1>4. file' = new[p]
  BY <1>1, <1>2, <1>3 DEF TypeOK, Pairs, Sides
<1>5. PairOnDisk'
  BY <1>2, <1>4 DEF PairOnDisk, Usable
<1>6. coherent' = new[p] /\ past' = past \cup {new[p]}
  BY <1>1, <1>4, <1>5
<1>7. new[p] # NoPair
  BY <1>1 DEF CoreInv, WriterInv
<1>8. HistoryInv'
  <2> DEFINE g == new[p]["private"].generation
  <2>0. /\ g \in Nat
        /\ \A q \in past : q["private"].generation \in Nat /\ q["private"].generation < g
    BY <1>1, NewIsNext
  <2>1. \A q \in past' : /\ Accepted(q["private"], q["public"])
                         /\ q["private"].generation <= coherent'["private"].generation
    <3>1. ASSUME NEW q \in past
          PROVE  Accepted(q["private"], q["public"]) /\ q["private"].generation <= g
      <4>1. Accepted(q["private"], q["public"])
        BY DEF CoreInv, HistoryInv
      <4>2. q["private"].generation <= g
        BY <2>0
      <4> QED BY <4>1, <4>2
    <3>2. Accepted(new[p]["private"], new[p]["public"]) /\ g <= g
      BY <1>2, <2>0 DEF Usable
    <3> QED BY <1>6, <3>1, <3>2
  <2>2. \A q, r \in past' : q["private"].generation = r["private"].generation => q = r
    <3>1. \A q \in past : q["private"].generation # g
      BY <2>0
    <3>2. \A q, r \in past : q["private"].generation = r["private"].generation => q = r
      BY DEF CoreInv, HistoryInv
    <3> QED BY <1>6, <3>1, <3>2
  <2> QED BY <1>6, <1>7, <2>1, <2>2 DEF HistoryInv
<1>9. DiskInv'
  BY <1>4, <1>6 DEF DiskInv
<1>10. \A r \in Procs : pc'[r] \notin Replacing
  BY <1>1, OneWriter DEF TypeOK, Working, Replacing
<1>11. WriterInv'
  BY <1>10 DEF WriterInv, Replacing
<1> QED BY <1>4, <1>6, <1>8, <1>9, <1>11 DEF CoreInv

LEMMA CoreStep ==
  ASSUME TypeOK, LockInv, CoreInv, [Next]_vars
  PROVE  CoreInv'
<1>1. ASSUME NEW p \in Procs, Begin(p)
      PROVE  CoreInv'
  <2>1. /\ \A r \in Procs \ {p} : pc'[r] = pc[r] /\ op'[r] = op[r]
        /\ pc'[p] \notin Replacing
        /\ UNCHANGED <<file, coherent, past, new>>
    BY <1>1 DEF Begin, Goto, history, TypeOK, Replacing
  <2> QED BY <2>1, QuietStep
<1>2. ASSUME NEW p \in Procs, Observe(p) \/ Lock(p) \/ ReadPrivate(p)
      PROVE  CoreInv'
  <2>1. /\ \A r \in Procs \ {p} : pc'[r] = pc[r]
        /\ pc'[p] \notin Replacing
        /\ UNCHANGED <<file, coherent, past, new, op>>
    BY <1>2 DEF Observe, Lock, ReadPrivate, Goto, history, TypeOK, Replacing
  <2> QED BY <2>1, QuietStep
<1>3. ASSUME NEW p \in Procs, Verify(p) \/ GiveUp(p) \/ ReadPublic(p)
      PROVE  CoreInv'
  <2>1. Ended(p) /\ UNCHANGED <<file, coherent, past>>
    BY <1>3 DEF Verify, GiveUp, ReadPublic, history
  <2>2. /\ \A r \in Procs \ {p} : pc'[r] = pc[r] /\ op'[r] = op[r] /\ new'[r] = new[r]
        /\ pc'[p] \notin Replacing
    BY <2>1 DEF Ended, Goto, TypeOK, Replacing
  <2> QED BY <2>1, <2>2, QuietStep
<1>4. CASE UNCHANGED <<file, coherent, past, pc, op, new>>
  BY <1>4, QuietStep
<1> QED
  BY <1>1, <1>2, <1>3, <1>4, LoadStep, ReplacePrivateStep, ReplacePublicStep
     DEF Next, Continue, Change, vars, local, history

----------------------------------------------------------------------------
(* Readers                                                                 *)

\* What a reader accepts is a pair of the history.
LEMMA AcceptedIsPast ==
  ASSUME TypeOK, CoreInv, ReaderInv, NEW p \in Procs, ReadPublic(p)
  PROVE  [s \in Sides |-> IF s = "private" THEN got[p] ELSE file["public"]] \in past
<1> DEFINE pair == [s \in Sides |-> IF s = "private" THEN got[p] ELSE file["public"]]
<1>1. /\ pc[p] = "read public"
      /\ got[p].generation = file["public"].generation
      /\ got[p] # Missing /\ file["public"] # Missing
  BY DEF ReadPublic, Accepted, WellFormed
<1>2. file["public"] = coherent["public"]
  BY DEF CoreInv, DiskInv
<1>3. coherent # NoPair /\ coherent \in Pairs /\ coherent \in past
  BY <1>1, <1>2 DEF NoPair, Sides, TypeOK, CoreInv, HistoryInv
<1>4. /\ coherent["private"].generation = coherent["public"].generation
      /\ coherent["private"].generation \in Nat
  BY <1>3 DEF CoreInv, HistoryInv, Accepted, Pairs, Documents, Sides
<1>5. got[p] = coherent["private"]
  <2>1. CASE got[p] = file["private"]
    <3>1. NextGeneration(coherent) = coherent["private"].generation + 1
      BY <1>3 DEF NextGeneration
    <3>2. got[p].generation = coherent["private"].generation
      BY <1>1, <1>2, <1>4
    <3>3. got[p].generation # NextGeneration(coherent)
      BY <1>4, <3>1, <3>2
    <3> QED BY <2>1, <3>3 DEF CoreInv, DiskInv
  <2>2. ASSUME NEW q \in past, got[p] = q["private"]
        PROVE  got[p] = coherent["private"]
    BY <1>1, <1>2, <1>3, <1>4, <2>2 DEF CoreInv, HistoryInv
  <2> QED BY <1>1, <2>1, <2>2 DEF ReaderInv
<1>6. pair = coherent
  BY <1>2, <1>3, <1>5 DEF Pairs, Sides
<1> QED BY <1>3, <1>6

LEMMA ReaderStep ==
  ASSUME TypeOK, LockInv, CoreInv, ReaderInv, [Next]_vars
  PROVE  ReaderInv'
<1> SUFFICES ASSUME NEW r \in Procs
             PROVE  /\ pc'[r] = "read public" =>
                          /\ got'[r] # Missing
                          /\ \/ got'[r] = file'["private"]
                             \/ \E q \in past' : got'[r] = q["private"]
                    /\ answer'[r] # NoPair => answer'[r] \in past'
  BY DEF ReaderInv
<1> DEFINE Goal == /\ pc'[r] = "read public" =>
                         /\ got'[r] # Missing
                         /\ \/ got'[r] = file'["private"]
                            \/ \E q \in past' : got'[r] = q["private"]
                   /\ answer'[r] # NoPair => answer'[r] \in past'
<1>0. /\ pc[r] = "read public" =>
           /\ got[r] # Missing
           /\ got[r] = file["private"] \/ \E q \in past : got[r] = q["private"]
      /\ answer[r] # NoPair => answer[r] \in past
  BY DEF ReaderInv
<1>1. ASSUME NEW p \in Procs, Begin(p)
      PROVE  Goal
  BY <1>0, <1>1 DEF Begin, Goto, history, TypeOK
<1>2. ASSUME NEW p \in Procs, Observe(p) \/ Lock(p) \/ Load(p)
      PROVE  Goal
  BY <1>0, <1>2 DEF Observe, Lock, Load, Goto, history, TypeOK
<1>3. ASSUME NEW p \in Procs, ReplacePrivate(p)
      PROVE  Goal
  <2>1. /\ pc[p] = "replace private" /\ file = coherent
        /\ UNCHANGED <<got, answer, past>>
        /\ pc'[r] = "read public" => pc[r] = "read public"
    BY <1>3 DEF ReplacePrivate, Goto, history, TypeOK, CoreInv, WriterInv
  <2>2. coherent # NoPair => coherent \in past
    BY DEF CoreInv, HistoryInv
  <2>3. CASE coherent # NoPair
    BY <1>0, <2>1, <2>2, <2>3
  <2>4. CASE coherent = NoPair
    <3>1. pc[r] = "read public" => got[r] # Missing
      BY DEF ReaderInv
    <3> QED BY <1>0, <2>1, <2>4, <3>1 DEF NoPair, Sides
  <2> QED BY <2>3, <2>4
<1>4. ASSUME NEW p \in Procs, ReplacePublic(p)
      PROVE  Goal
  <2>1. past' = past \cup {file'}
    BY <1>4, ReplacePublicStep
  <2>2. file'["private"] = file["private"] /\ UNCHANGED <<got, answer>>
    BY <1>4 DEF ReplacePublic, TypeOK, Sides
  <2>3. pc'[r] = "read public" => pc[r] = "read public"
    BY <1>4 DEF ReplacePublic, Goto, TypeOK
  <2> QED BY <1>0, <2>1, <2>2, <2>3
<1>5. ASSUME NEW p \in Procs, Verify(p) \/ GiveUp(p)
      PROVE  Goal
  BY <1>0, <1>5 DEF Verify, GiveUp, Ended, Goto, history, TypeOK
<1>6. ASSUME NEW p \in Procs, ReadPrivate(p)
      PROVE  Goal
  BY <1>0, <1>6 DEF ReadPrivate, Goto, history, TypeOK
<1>7. ASSUME NEW p \in Procs, ReadPublic(p)
      PROVE  Goal
  <2>1. [s \in Sides |-> IF s = "private" THEN got[p] ELSE file["public"]] \in past
    BY <1>7, AcceptedIsPast
  <2> QED BY <1>0, <1>7, <2>1 DEF ReadPublic, Ended, Goto, history, TypeOK
<1>8. CASE UNCHANGED <<file, past, pc, got, answer>>
  BY <1>0, <1>8
<1> QED
  BY <1>1, <1>2, <1>3, <1>4, <1>5, <1>6, <1>7, <1>8
     DEF Next, Continue, Change, vars, local, history

----------------------------------------------------------------------------
(* What GitHub has shown                                                   *)

\* The public entries of a planned pair are those of the pair it was planned
\* from, and the one that was observed.
LEMMA PlannedShown ==
  ASSUME NEW pair \in [Sides -> Documents \cup {Missing}], NEW o \in Ops,
         Planned(pair, o) # NoPair,
         pair # NoPair => PublicShown(pair),
         o.kind \in {"record-public", "reconcile"} =>
           WasShown(o.id, o.slug, Target(o))
  PROVE  PublicShown(Planned(pair, o))
<1>1. CASE o.kind = "init" /\ pair = NoPair
  <2>1. Planned(pair, o) = [s \in Sides |-> Empty]
    BY <1>1 DEF Planned, Changes
  <2>2. Planned(pair, o)["public"].entries = {}
    BY <2>1 DEF Sides, Empty
  <2> QED BY <2>2 DEF PublicShown
<1>2. CASE /\ ~(o.kind = "init" /\ pair = NoPair)
           /\ o.kind \in Changes /\ Usable(pair) /\ MayChange(pair, o)
  <2>1. Planned(pair, o) = Moved(pair, o.id, o.slug, Target(o))
    BY <1>2 DEF Planned, Changes
  <2>2. Target(o) \in Sides /\ PublicShown(pair)
    BY <1>2, ChangeTyped, UsableTyped
  <2>3. Target(o) = "public" => WasShown(o.id, o.slug, "public")
    BY <1>2 DEF Target, Changes
  <2>4. \A e \in Planned(pair, o)["public"].entries :
          e \in pair["public"].entries \/ (Target(o) = "public" /\ e = <<o.id, o.slug>>)
    BY <2>1, <2>2 DEF Moved, Advanced, Without, Other, Sides
  <2> QED BY <2>2, <2>3, <2>4 DEF PublicShown
<1> QED BY <1>1, <1>2 DEF Planned, Changes

LEMMA ShownStep ==
  ASSUME TypeOK, LockInv, CoreInv, ShownInv, [Next]_vars
  PROVE  ShownInv'
<1> DEFINE Seen(r) == pc[r] \in Past /\ op[r].kind \in {"record-public", "reconcile"}
                        => WasShown(op[r].id, op[r].slug, Target(op[r]))
<1>0. /\ ShownNow(github) \subseteq shown
      /\ \A r \in Procs : Seen(r)
      /\ coherent # NoPair => PublicShown(coherent)
  BY DEF ShownInv
<1>1. ASSUME NEW p \in Procs, Begin(p)
      PROVE  ShownInv'
  <2>1. UNCHANGED <<github, shown, coherent>>
    BY <1>1 DEF Begin, world, history
  <2>2. ASSUME NEW r \in Procs
        PROVE  Seen(r)'
    <3>1. CASE r = p
      BY <1>1, <3>1 DEF Begin, Goto, Past, TypeOK
    <3>2. CASE r # p
      BY <1>0, <1>1, <2>1, <3>2 DEF Begin, Goto, TypeOK, WasShown
    <3> QED BY <3>1, <3>2
  <2> QED BY <1>0, <2>1, <2>2 DEF ShownInv, PublicShown, WasShown, ShownNow
<1>2. ASSUME NEW p \in Procs, Observe(p)
      PROVE  ShownInv'
  <2>1. UNCHANGED <<github, shown, coherent, op>>
    BY <1>2 DEF Observe, world, history
  <2>2. ASSUME NEW r \in Procs
        PROVE  Seen(r)'
    <3>1. CASE r = p /\ op[p].kind \in {"record-public", "reconcile"}
      <4>1. op[p].id \in Ids
        BY <3>1, ChangeTyped DEF TypeOK, Changes
      <4>2. github[op[p].id] = [slug |-> op[p].slug, visibility |-> Target(op[p])]
        BY <1>2 DEF Observe, Observed
      <4>3. <<op[p].id, op[p].slug, Target(op[p])>> \in ShownNow(github)
        BY <4>1, <4>2 DEF ShownNow
      <4> QED BY <1>0, <2>1, <3>1, <4>3 DEF WasShown
    <3>2. CASE r = p /\ op[p].kind \notin {"record-public", "reconcile"}
      BY <2>1, <3>2
    <3>3. CASE r # p
      BY <1>0, <1>2, <2>1, <3>3 DEF Observe, Goto, TypeOK, WasShown
    <3> QED BY <3>1, <3>2, <3>3
  <2> QED BY <1>0, <2>1, <2>2 DEF ShownInv, PublicShown, WasShown, ShownNow
<1>3. ASSUME NEW p \in Procs, Lock(p) \/ Load(p) \/ ReplacePrivate(p)
      PROVE  ShownInv'
  <2>1. UNCHANGED <<github, shown, coherent, op>>
    BY <1>3 DEF Lock, Load, ReplacePrivate, world, history
  <2>2. \A r \in Procs : pc'[r] \in Past => pc[r] \in Past
    BY <1>3 DEF Lock, Load, ReplacePrivate, Goto, Past, TypeOK
  <2> QED BY <1>0, <2>1, <2>2 DEF ShownInv, PublicShown, WasShown, ShownNow
<1>4. ASSUME NEW p \in Procs, ReplacePublic(p)
      PROVE  ShownInv'
  <2>1. UNCHANGED <<github, shown, op>> /\ coherent' = new[p]
    BY <1>4, ReplacePublicStep DEF ReplacePublic, world
  <2>2. \A r \in Procs : pc'[r] \in Past => pc[r] \in Past
    BY <1>4 DEF ReplacePublic, Goto, Past, TypeOK
  <2>3. PublicShown(new[p])
    <3>1. new[p] # NoPair /\ new[p] = Planned(coherent, op[p])
      BY <1>4 DEF ReplacePublic, CoreInv, WriterInv
    <3>2. coherent \in [Sides -> Documents \cup {Missing}] /\ op[p] \in Ops
      BY DEF TypeOK, Pairs, NoPair
    <3>3. Seen(p) /\ pc[p] \in Past
      BY <1>0, <1>4 DEF ReplacePublic, Past
    <3> QED BY <1>0, <3>1, <3>2, <3>3, PlannedShown
  <2> QED BY <1>0, <2>1, <2>2, <2>3 DEF ShownInv, PublicShown, WasShown, ShownNow
<1>5. ASSUME NEW p \in Procs, Ended(p), UNCHANGED <<github, shown, coherent>>
      PROVE  ShownInv'
  <2>1. \A r \in Procs : pc'[r] \in Past => pc[r] \in Past /\ op'[r] = op[r]
    BY <1>5 DEF Ended, Goto, Past, TypeOK
  <2> QED BY <1>0, <1>5, <2>1 DEF ShownInv, PublicShown, WasShown, ShownNow
<1>6. ASSUME NEW p \in Procs, ReadPrivate(p)
      PROVE  ShownInv'
  <2>1. UNCHANGED <<github, shown, coherent, op>>
    BY <1>6 DEF ReadPrivate, world, history
  <2>2. \A r \in Procs : pc'[r] \in Past => pc[r] \in Past
    BY <1>6 DEF ReadPrivate, Goto, Past, TypeOK
  <2> QED BY <1>0, <2>1, <2>2 DEF ShownInv, PublicShown, WasShown, ShownNow
<1>7. ASSUME NEW i \in Ids, Change(i)
      PROVE  ShownInv'
  <2>1. /\ shown' = shown \cup ShownNow(github')
        /\ ShownNow(github)' = ShownNow(github')
        /\ UNCHANGED <<pc, op, coherent>>
    BY <1>7 DEF Change, local, ShownNow
  <2> QED BY <1>0, <2>1 DEF ShownInv, PublicShown, WasShown
<1>8. CASE UNCHANGED vars
  BY <1>0, <1>8 DEF vars, local, world, history, ShownInv, PublicShown, WasShown, ShownNow
<1> QED
  BY <1>1, <1>2, <1>3, <1>4, <1>5, <1>6, <1>7, <1>8
     DEF Next, Continue, Verify, GiveUp, ReadPublic, world, history

----------------------------------------------------------------------------
(* The theorems                                                            *)

LEMMA InitInv == Init => Inv
<1> SUFFICES ASSUME Init PROVE Inv
  OBVIOUS
<1>1. TypeOK
  <2>1. NoPair \in [Sides -> Documents \cup {Missing}] /\ NoOp \in Ops
    BY DEF NoPair, Ops
  <2>2. 0 \in 0 .. MaxChanges
    BY RegistryAssumption
  <2> QED BY <2>1, <2>2 DEF Init, TypeOK
<1>2. LockInv /\ HistoryInv /\ DiskInv /\ WriterInv /\ ReaderInv
  BY DEF Init, LockInv, Working, HistoryInv, DiskInv, WriterInv, ReaderInv
<1>3. ShownInv
  BY DEF Init, ShownInv, Past
<1> QED BY <1>1, <1>2, <1>3 DEF Inv

LEMMA NextInv == Inv /\ [Next]_vars => Inv'
BY TypeStep, LockStep, CoreStep, ReaderStep, ShownStep DEF Inv, CoreInv

\* The conjunction of the parts above is inductive.
THEOREM Invariant == Spec => []Inv
BY InitInv, NextInv, PTL DEF Spec

\* Every variable keeps its type: no command writes anything but a document.
THEOREM TypeCorrect == Spec => []TypeOK
BY Invariant, PTL DEF Inv

\* A reader, who takes no lock, never accepts one file of an older and one of
\* a newer generation, for any number of processes and generations.
THEOREM OneRegistryRead == Spec => []ReadersSeeOneRegistry
<1>1. Inv => ReadersSeeOneRegistry
  BY DEF Inv, ReaderInv, ReadersSeeOneRegistry
<1> QED BY <1>1, Invariant, PTL

\* Every entry of the public file was shown as public by GitHub.
THEOREM NothingUnseenIsPublic == Spec => []PublicWasShown
<1>1. ASSUME Inv PROVE PublicWasShown
  <2>1. file["public"] = coherent["public"]
    BY <1>1 DEF Inv, DiskInv
  <2>2. file["public"] # Missing => coherent # NoPair
    BY <2>1 DEF NoPair, Sides
  <2> QED BY <1>1, <2>1, <2>2 DEF Inv, ShownInv, PublicShown, WasShown, PublicWasShown
<1> QED BY <1>1, Invariant, PTL

\* A pair that a failed writer has left apart is touched by nobody.
THEOREM TornPairsStay == Spec => TornIsLeftAlone
<1>1. ASSUME Inv, [Next]_vars, ~PairOnDisk, file # NoPair,
             \A p \in Procs : pc[p] # "replace public"
      PROVE  file' = file
  <2>1. ASSUME NEW p \in Procs
        PROVE  pc[p] # "replace private"
    <3>1. CASE coherent = NoPair
      BY <1>1, <3>1 DEF Inv, WriterInv
    <3>2. CASE coherent # NoPair
      <4>1. Usable(coherent)
        BY <1>1, <3>2 DEF Inv, HistoryInv, Usable
      <4> QED BY <1>1, <4>1 DEF Inv, WriterInv, PairOnDisk, Usable
    <3> QED BY <3>1, <3>2
  <2> QED
    BY <1>1, <2>1
       DEF Next, Continue, Begin, Observe, Lock, Load, ReplacePrivate,
           ReplacePublic, Verify, GiveUp, ReadPrivate, ReadPublic, Change, vars
<1>2. Inv /\ [Next]_vars =>
        [ /\ ~PairOnDisk /\ file # NoPair
          /\ \A p \in Procs : pc[p] # "replace public"
          => file' = file ]_vars
  BY <1>1
<1> QED BY <1>2, Invariant, PTL DEF Spec, TornIsLeftAlone

----------------------------------------------------------------------------
(* The registry implements the classification                              *)

\* The class of an id is its one entry and the side of it.
LEMMA ClassIsEntry ==
  ASSUME NEW pair \in Pairs, Usable(pair), NEW s \in Sides,
         NEW e \in pair[s].entries
  PROVE  /\ e[1] \in Ids /\ e[2] \in Slugs /\ e = <<e[1], e[2]>>
         /\ Bound(pair, e[1])
         /\ ClassOf(pair)[e[1]] = [slug |-> e[2], visibility |-> s]
<1> DEFINE i == e[1]
           side == CHOOSE t \in Sides : i \in IdsOf(pair[t])
           f == CHOOSE g \in pair[side].entries : g[1] = i
<1>1. e \in Ids \X Slugs
  BY DEF Pairs, Documents
<1>2. i \in IdsOf(pair[s]) /\ Bound(pair, i) /\ pair # NoPair
  BY UsableTyped DEF IdsOf, Bound, Pairs
<1>3. side \in Sides /\ i \in IdsOf(pair[side])
  BY <1>2
<1>4. side = s
  BY <1>2, <1>3 DEF Usable, Accepted, Sides
<1>5. WellFormed(pair[s])
  BY DEF Usable, Accepted, Sides
<1>6. f \in pair[s].entries /\ f[1] = i
  BY <1>4
<1>7. f = e
  BY <1>5, <1>6 DEF WellFormed
<1>8. ClassOf(pair)[i] = [slug |-> f[2], visibility |-> side]
  BY <1>1, <1>2 DEF ClassOf
<1>9. e[1] \in Ids /\ e[2] \in Slugs /\ e = <<e[1], e[2]>>
  BY <1>1
<1> QED BY <1>2, <1>4, <1>7, <1>8, <1>9

LEMMA ClassOfUnbound ==
  ASSUME NEW pair, NEW i \in Ids, pair = NoPair \/ ~Bound(pair, i)
  PROVE  ClassOf(pair)[i] = Unclassified
BY DEF ClassOf

\* Moving one entry moves the class of one id.
LEMMA MovedClass ==
  ASSUME NEW pair \in Pairs, NEW i \in Ids, NEW slug \in Slugs, NEW to \in Sides,
         Usable(pair), ~Collides(pair, i, slug)
  PROVE  ClassOf(Moved(pair, i, slug, to))
         = [ClassOf(pair) EXCEPT ![i] = [slug |-> slug, visibility |-> to]]
<1> DEFINE n == Moved(pair, i, slug, to)
           entry == [slug |-> slug, visibility |-> to]
<1>1. n \in Pairs /\ Usable(n)
  BY MovedTyped, MovedAccepted
<1>2. ASSUME NEW s \in Sides
      PROVE  n[s].entries = IF s = to THEN Without(pair[to], i) \cup {<<i, slug>>}
                                      ELSE Without(pair[s], i)
  BY DEF Moved, Advanced, Other, Sides
<1>3. ClassOf(n)[i] = entry
  <2>1. <<i, slug>> \in n[to].entries
    BY <1>2
  <2> QED BY <1>1, <2>1, ClassIsEntry
<1>4. ASSUME NEW j \in Ids, j # i
      PROVE  ClassOf(n)[j] = ClassOf(pair)[j]
  <2>1. ASSUME NEW s \in Sides, NEW e \in pair[s].entries, e[1] = j
        PROVE  ClassOf(n)[j] = ClassOf(pair)[j]
    <3>1. e \in n[s].entries
      BY <1>2, <1>4, <2>1 DEF Without
    <3>2. ClassOf(n)[e[1]] = [slug |-> e[2], visibility |-> s]
      BY <1>1, <3>1, ClassIsEntry
    <3>3. ClassOf(pair)[e[1]] = [slug |-> e[2], visibility |-> s]
      BY ClassIsEntry
    <3> QED BY <2>1, <3>2, <3>3
  <2>2. CASE ~Bound(pair, j)
    <3>1. ASSUME NEW s \in Sides, NEW e \in n[s].entries
          PROVE  e[1] # j
      <4>1. \A g \in pair[s].entries : g[1] # j
        BY <2>2 DEF Bound, IdsOf
      <4>2. e \in pair[s].entries \/ e = <<i, slug>>
        BY <1>2 DEF Without
      <4> QED BY <1>4, <4>1, <4>2
    <3>2. ~Bound(n, j)
      BY <3>1 DEF Bound, IdsOf
    <3> QED BY <2>2, <3>2, ClassOfUnbound
  <2> QED BY <2>1, <2>2 DEF Bound, IdsOf
<1>5. ClassOf(n) = [j \in Ids |-> ClassOf(n)[j]] /\ ClassOf(pair) = [j \in Ids |-> ClassOf(pair)[j]]
  BY DEF ClassOf
<1> QED BY <1>3, <1>4, <1>5

\* A change is what the classification allows.
LEMMA ChangeClassifies ==
  ASSUME NEW pair \in Pairs, NEW o \in Ops, o.kind \in Changes, Usable(pair),
         MayChange(pair, o),
         o.kind \in {"record-public", "reconcile"} =>
           WasShown(o.id, o.slug, Target(o))
  PROVE  LET class == ClassOf(pair)
             entry == [slug |-> o.slug, visibility |-> Target(o)]
         IN  /\ o.id \in Ids /\ entry \in [slug : Slugs, visibility : Sides]
             /\ \A j \in Ids \ {o.id} :
                   class[j] # Unclassified => class[j].slug # o.slug
             /\ Target(o) = "public" => WasShown(o.id, o.slug, "public")
             /\ class[o.id] # Unclassified => WasShown(o.id, o.slug, Target(o))
             /\ class[o.id] # entry
             /\ ClassOf(Planned(pair, o)) = [class EXCEPT ![o.id] = entry]
<1> DEFINE class == ClassOf(pair)
           entry == [slug |-> o.slug, visibility |-> Target(o)]
<1>1. o.id \in Ids /\ o.slug \in Slugs /\ Target(o) \in Sides
  BY ChangeTyped
<1>2. ASSUME NEW j \in Ids \ {o.id}, class[j] # Unclassified
      PROVE  class[j].slug # o.slug
  <2>1. PICK s \in Sides : \E e \in pair[s].entries : e[1] = j
    BY <1>2, ClassOfUnbound DEF Bound, IdsOf
  <2>2. PICK e \in pair[s].entries : e[1] = j
    BY <2>1
  <2>3. class[j].slug = e[2]
    <3>1. class[e[1]] = [slug |-> e[2], visibility |-> s]
      BY ClassIsEntry
    <3> QED BY <2>2, <3>1
  <2>4. e[2] # o.slug
    BY <1>2, <2>2 DEF MayChange, Collides
  <2> QED BY <2>3, <2>4
<1>3. Target(o) = "public" => WasShown(o.id, o.slug, "public")
  BY DEF Target, Changes
<1>4. class[o.id] # Unclassified => WasShown(o.id, o.slug, Target(o))
  <2>1. class[o.id] # Unclassified => Bound(pair, o.id)
    BY <1>1, ClassOfUnbound
  <2> QED BY <2>1 DEF MayChange
<1>5. class[o.id] # entry
  <2>1. CASE Bound(pair, o.id)
    <3>1. PICK s \in Sides : \E e \in pair[s].entries : e[1] = o.id
      BY <2>1 DEF Bound, IdsOf
    <3>2. PICK e \in pair[s].entries : e[1] = o.id
      BY <3>1
    <3>3. class[o.id] = [slug |-> e[2], visibility |-> s] /\ e = <<o.id, e[2]>>
      BY <3>2, ClassIsEntry
    <3>4. <<o.id, o.slug>> \notin pair[Target(o)].entries
      BY DEF MayChange
    <3> QED BY <3>3, <3>4
  <2>2. CASE ~Bound(pair, o.id)
    <3>1. class[o.id] = Unclassified
      BY <1>1, <2>2, ClassOfUnbound
    <3> QED BY <1>1, <3>1, RegistryAssumption DEF Sides
  <2> QED BY <2>1, <2>2
<1>6. ClassOf(Planned(pair, o)) = [class EXCEPT ![o.id] = entry]
  <2>1. Planned(pair, o) = Moved(pair, o.id, o.slug, Target(o))
    BY DEF Planned, Changes
  <2> QED BY <1>1, <2>1, MovedClass DEF MayChange
<1> QED BY <1>1, <1>2, <1>3, <1>4, <1>5, <1>6

GenerationOf(pair) == IF pair = NoPair THEN -1 ELSE pair["private"].generation

\* The second replacement initialises the classification or changes it.
LEMMA ReplacePublicClassifies ==
  ASSUME Inv, NEW p \in Procs, ReplacePublic(p)
  PROVE  C!ClassNext
<1> USE DEF Inv
<1>1. /\ coherent' = new[p] /\ shown' = shown
      /\ pc[p] \in Replacing /\ pc[p] \in Past
  BY ReplacePublicStep DEF CoreInv, ReplacePublic, Replacing, Past
<1>2. new[p] # NoPair /\ new[p] = Planned(coherent, op[p])
  BY <1>1 DEF WriterInv, Replacing
<1>3. coherent \in [Sides -> Documents \cup {Missing}] /\ op[p] \in Ops
  BY DEF TypeOK, Pairs, NoPair
<1>4. GenerationOf(coherent) + 1 = GenerationOf(coherent')
  BY <1>1, <1>2, <1>3, PlannedNext DEF GenerationOf, NextGeneration
<1>5. CASE op[p].kind = "init" /\ coherent = NoPair
  <2>1. new[p] = [s \in Sides |-> Empty]
    BY <1>2, <1>5 DEF Planned, Changes
  <2>2. ClassOf(coherent') = ClassOf(coherent)
    <3>1. ASSUME NEW i \in Ids
          PROVE  ~Bound(new[p], i)
      BY <2>1 DEF Bound, IdsOf, Empty
    <3>2. \A i \in Ids : ClassOf(new[p])[i] = Unclassified
      BY <3>1, ClassOfUnbound
    <3>3. \A i \in Ids : ClassOf(coherent)[i] = Unclassified
      BY <1>5, ClassOfUnbound
    <3>4. \A pair : ClassOf(pair) = [i \in Ids |-> ClassOf(pair)[i]]
      BY DEF ClassOf
    <3> QED BY <1>1, <3>2, <3>3, <3>4
  <2>3. C!Initialise
    BY <1>1, <1>4, <1>5, <2>2 DEF C!Initialise, GenerationOf
  <2> QED BY <2>3 DEF C!ClassNext
<1>6. CASE /\ ~(op[p].kind = "init" /\ coherent = NoPair)
           /\ op[p].kind \in Changes /\ Usable(coherent) /\ MayChange(coherent, op[p])
  <2> DEFINE o == op[p]
             entry == [slug |-> o.slug, visibility |-> Target(o)]
  <2>1. coherent \in Pairs /\ coherent # NoPair
    BY <1>3, <1>6, UsableTyped
  <2>2. o.kind \in {"record-public", "reconcile"} => WasShown(o.id, o.slug, Target(o))
    BY <1>1 DEF ShownInv
  <2>3. /\ o.id \in Ids /\ entry \in [slug : Slugs, visibility : Sides]
        /\ \A j \in Ids \ {o.id} :
              ClassOf(coherent)[j] # Unclassified => ClassOf(coherent)[j].slug # o.slug
        /\ Target(o) = "public" => WasShown(o.id, o.slug, "public")
        /\ ClassOf(coherent)[o.id] # Unclassified => WasShown(o.id, o.slug, Target(o))
        /\ ClassOf(coherent)[o.id] # entry
        /\ ClassOf(Planned(coherent, o)) = [ClassOf(coherent) EXCEPT ![o.id] = entry]
    BY <1>3, <1>6, <2>1, <2>2, ChangeClassifies
  <2>4. GenerationOf(coherent) >= 0
    BY <2>1 DEF GenerationOf, Pairs, Documents, Sides
  <2>5. ClassOf(coherent') = [ClassOf(coherent) EXCEPT ![o.id] = entry]
    BY <1>1, <1>2, <2>3
  <2>6. C!SlugFree(o.id, entry.slug)
    BY <2>3 DEF C!SlugFree
  <2>7. C!Classify(o.id, entry)
    BY <1>1, <1>4, <2>3, <2>4, <2>5, <2>6 DEF C!Classify, GenerationOf, WasShown
  <2>8. entry \in C!Entries
    BY <2>3 DEF C!Entries, Sides
  <2> QED BY <2>3, <2>7, <2>8 DEF C!ClassNext
<1> QED BY <1>2, <1>5, <1>6 DEF Planned, Changes

LEMMA StepClassifies ==
  ASSUME Inv, [Next]_vars
  PROVE  C!ClassNext \/ UNCHANGED <<coherent, shown>>
<1>1. ASSUME NEW i \in Ids, Change(i)
      PROVE  C!ClassNext
  <2>1. shown \subseteq shown' /\ UNCHANGED coherent
    BY <1>1 DEF Change
  <2>2. C!Show
    BY <2>1 DEF C!Show, ClassOf
  <2> QED BY <2>2 DEF C!ClassNext
<1> QED
  BY <1>1, ReplacePublicClassifies
     DEF Next, Continue, Begin, Observe, Lock, Load, ReplacePrivate, Verify,
         GiveUp, ReadPrivate, ReadPublic, vars, history

\* Seen through the latest coherent pair, the files, the lock and the processes
\* implement the classification: one repository and one generation at a time,
\* no slug twice, and nothing public or moved that GitHub has not shown.
THEOREM RegistryImplements == Spec => ImplementsClassification
<1>1. Init => C!ClassInit
  BY DEF Init, C!ClassInit, ClassOf
<1>2. Inv /\ [Next]_vars => [C!ClassNext]_<<ClassOf(coherent), GenerationOf(coherent), shown>>
  BY StepClassifies DEF ClassOf, GenerationOf
<1>3. Inv /\ [Next]_vars =>
        [C!ClassNext]_<<ClassOf(coherent),
                        IF coherent = NoPair THEN -1 ELSE coherent["private"].generation,
                        shown>>
  BY <1>2 DEF GenerationOf
<1> QED
  BY <1>1, <1>3, Invariant, PTL DEF Spec, ImplementsClassification, C!ClassSpec
=============================================================================
