--------------------------- MODULE CatalogProofs ---------------------------
(***************************************************************************)
(* Theorems about Catalog for every set of processes, ids and slugs, every *)
(* choice of commands and every bound.                                     *)
(***************************************************************************)
EXTENDS Catalog, TLAPS

-----------------------------------------------------------------------------
(* The inductive invariant                                                 *)

RegistryMaps == {f \in UNION {[D -> Slugs] : D \in SUBSET Ids} : Distinct(f)}
PathMaps == {<<>>} \cup UNION {[D -> Places] : D \in SUBSET Ids}
Jobs == [at : Labels, cmd : Commands \cup {"none"},
         opts : SUBSET {"skip linked", "skip unverified", "skip github"}, snap : 1 .. Now,
         base : File, maps : PathMaps, todo : SUBSET Ids, row : Ids \cup {"nobody"},
         seen : SUBSET Ids, moves : Nat \cup {-1}, edits : Nat]

CTyped ==
  /\ registry \in Seq(RegistryMaps) /\ Now > 0
  /\ github \in [Slugs -> Ids \cup {"nobody"}] /\ archived \subseteq Ids
  /\ catalog \in File /\ disk \in [Places -> Things]
  /\ regLock \in Procs \cup {NoOne} /\ catLock \in Procs \cup {NoOne}
  /\ job \in [Procs -> Jobs]
  /\ moves \in Nat /\ edits \in Nat /\ kills \in Nat

\* The rows of a file are those of the registry generation it names, at one path each.
OnePathEach(file) ==
  \A i, j \in DOMAIN file.rows : file.rows[i].path = file.rows[j].path => i = j
Bound(file) ==
  file.form = "good" => DOMAIN file.rows = Registered(file.registry) /\ OnePathEach(file)

RowLabels == {"rows", "verify", "appeared", "rename", "fetch", "verify again"}
CatLabels == {"create", "write", "stale", "reload", "replace", "read back"} \cup RowLabels
RegLabels == {"observe", "catalog"} \cup CatLabels

\* A process past a lock holds it, and under the registry lock nobody registers.
LocksOK(p) ==
  /\ job[p].at \in RegLabels <=> regLock = p
  /\ job[p].at \in CatLabels <=> catLock = p
  /\ job[p].at \in RegLabels \ {"read back"} => job[p].snap = Now

\* Paths for all ids of the generation that was read.
Complete(p) ==
  DOMAIN job[p].maps = Registered(job[p].snap) /\ Distinct(job[p].maps)

\* What replaces base: the same rows, and more only when reconcile writes.
Prepared(p) ==
  \/ job[p].cmd = "refresh" /\ Loads(job[p].base, job[p].snap)
  \/ /\ job[p].cmd = "reconcile" /\ Complete(p)
     /\ \A i \in DOMAIN job[p].base.rows :
          i \in DOMAIN job[p].maps /\ job[p].maps[i] = job[p].base.rows[i].path

\* What it is going to write.
WritesOK(p) ==
  /\ Bound(job[p].base)
  /\ job[p].at \in {"load", "hosted"} => job[p].cmd # "init"
  /\ job[p].at = "observe" => job[p].cmd = "refresh"
  /\ job[p].at \in {"create", "write"} => job[p].cmd = "init"
  /\ job[p].at = "stale" => job[p].cmd = "reconcile"
  /\ job[p].cmd = "init" /\ job[p].at \in {"registry", "catalog", "create", "write"} =>
       Complete(p)
  /\ job[p].at = "replace" =>
       /\ job[p].edits <= edits /\ (job[p].edits = edits => catalog = job[p].base)
       /\ job[p].base.form = "good" /\ Prepared(p)

\* What it has cloned.
ClonesOK(p) ==
  /\ job[p].at \in RowLabels =>
       Loads(job[p].base, job[p].snap) /\ job[p].todo \subseteq Registered(job[p].snap)
  /\ job[p].at \in {"verify", "appeared", "rename"} => job[p].row \in Registered(job[p].snap)
  /\ job[p].at = "verify" =>
       /\ job[p].moves <= moves
       /\ job[p].moves = moves => disk[p].content = github[Slug(p, job[p].row)]
  /\ job[p].at \in {"appeared", "rename"} =>
       /\ Verified(disk[p], Slug(p, job[p].row))
       /\ \/ disk[p].content = job[p].row
          \/ "skip github" \in job[p].opts \/ job[p].moves = -1

JobOK(p) == LocksOK(p) /\ WritesOK(p) /\ ClonesOK(p)
CatalogInv == CTyped /\ Bound(catalog) /\ \A p \in Procs : JobOK(p)

-----------------------------------------------------------------------------
(* Files, jobs and registries                                              *)

LEMMA EmptyRows == DOMAIN <<>> = {}
OBVIOUS

\* A file of rows is typed, and what is in a typed file.
LEMMA FileTyped ==
  ASSUME NEW D \in SUBSET Ids, NEW r \in [D -> Row], NEW g \in 1 .. Now, NEW n \in Nat
  PROVE  [form |-> "good", registry |-> g, generation |-> n, rows |-> r] \in File
<1>1. r \in UNION {[E -> Row] : E \in SUBSET Ids}
  OBVIOUS
<1> QED BY <1>1 DEF File

LEMMA NoFileTyped ==
  ASSUME NEW form \in {"missing", "torn"}
  PROVE  NoFile(form) \in File /\ NoFile(form).form # "good" /\ Bound(NoFile(form))
<1>1. NoFile(form).form # "good"
  BY DEF NoFile
<1>2. NoFile(form) \in [form : {"missing", "torn"}, registry : {0}, generation : {0},
                        rows : {<<>>}]
  BY DEF NoFile
<1> QED BY <1>1, <1>2 DEF File, Bound

LEMMA FileFacts ==
  ASSUME NEW f \in File
  PROVE  /\ f.form \in {"missing", "torn", "good"}
         /\ f.generation \in Nat
         /\ f.form = "good" =>
              /\ f.registry \in 1 .. Now
              /\ DOMAIN f.rows \in SUBSET Ids
              /\ f.rows \in [DOMAIN f.rows -> Row]
              /\ f = [form |-> "good", registry |-> f.registry,
                      generation |-> f.generation, rows |-> f.rows]
<1>1. CASE f.form = "good"
  <2>1. f \in [form : {"good"}, registry : 1 .. Now, generation : Nat,
               rows : UNION {[D -> Row] : D \in SUBSET Ids}]
    BY <1>1 DEF File
  <2>2. PICK D \in SUBSET Ids : f.rows \in [D -> Row]
    BY <2>1
  <2> QED BY <2>1, <2>2
<1>2. CASE f.form # "good"
  BY <1>2 DEF File
<1> QED BY <1>1, <1>2

\* The fields of a row.
LEMMA RowFacts ==
  ASSUME NEW r \in Row
  PROVE  /\ r.path \in Places /\ r.life \in {"active", "archived"}
         /\ r.want \in {"checkout", "manual", "absent"}
BY DEF Row

LEMMA NewRowTyped ==
  ASSUME NEW x \in Places
  PROVE  NewRow(x) \in Row /\ NewRow(x).path = x
BY DEF NewRow, Row

LEMMA JobFacts ==
  ASSUME NEW j \in Jobs
  PROVE  /\ j.at \in Labels /\ j.cmd \in Commands \cup {"none"}
         /\ j.opts \in SUBSET {"skip linked", "skip unverified", "skip github"}
         /\ j.snap \in 1 .. Now /\ j.base \in File /\ j.maps \in PathMaps
         /\ j.todo \in SUBSET Ids /\ j.row \in Ids \cup {"nobody"} /\ j.seen \in SUBSET Ids
         /\ j.moves \in Nat \cup {-1} /\ j.edits \in Nat
BY DEF Jobs

LEMMA MapFacts ==
  ASSUME NEW m \in PathMaps
  PROVE  DOMAIN m \in SUBSET Ids /\ \A i \in DOMAIN m : m[i] \in Places
<1>1. CASE m = <<>>
  BY <1>1, EmptyRows
<1>2. CASE m # <<>>
  <2>1. PICK D \in SUBSET Ids : m \in [D -> Places]
    BY <1>2 DEF PathMaps
  <2> QED BY <2>1
<1> QED BY <1>1, <1>2

LEMMA MapTyped ==
  ASSUME NEW D \in SUBSET Ids, NEW m \in [D -> Places]
  PROVE  m \in PathMaps
<1>1. m \in UNION {[E -> Places] : E \in SUBSET Ids}
  OBVIOUS
<1> QED BY <1>1 DEF PathMaps

LEMMA RegistryFacts ==
  ASSUME CTyped, NEW g \in 1 .. Now
  PROVE  /\ Registered(g) \in SUBSET Ids /\ Distinct(registry[g])
         /\ \A i \in Registered(g) : registry[g][i] \in Slugs
<1>1. registry[g] \in RegistryMaps
  BY DEF CTyped, Now
<1>2. PICK D \in SUBSET Ids : registry[g] \in [D -> Slugs]
  BY <1>1 DEF RegistryMaps
<1> QED BY <1>1, <1>2 DEF RegistryMaps, Registered

LEMMA IdleTyped ==
  ASSUME Now \in Nat, Now > 0
  PROVE  Idle \in Jobs
<1>1. NoFile("missing") \in File
  BY NoFileTyped
<1>2. 1 \in 1 .. Now
  OBVIOUS
<1>3. <<>> \in PathMaps
  BY DEF PathMaps
<1> QED BY <1>1, <1>2, <1>3 DEF Idle, Jobs, Labels

-----------------------------------------------------------------------------
(* What a step leaves alone                                                *)

\* While the registry stands, so do the types that depend on it.
LEMMA SameTypes ==
  ASSUME registry' = registry
  PROVE  /\ File' = File /\ Jobs' = Jobs /\ Now' = Now
         /\ \A g : Registered(g)' = Registered(g)
<1>1. Now' = Now
  BY DEF Now
<1>2. File' = File
  BY <1>1 DEF File
<1>3. Jobs' = Jobs
  BY <1>1, <1>2 DEF Jobs
<1> QED BY <1>1, <1>2, <1>3 DEF Registered

LEMMA SameBound ==
  ASSUME registry' = registry, NEW f, NEW g, g = f, Bound(f)
  PROVE  g.form = "good" => DOMAIN g.rows = Registered(g.registry)' /\ OnePathEach(g)
BY SameTypes DEF Bound

\* A process that does not move is right as long as nobody takes or frees its locks,
\* writes the catalog under it without an edit, or touches its clone; a change on
\* GitHub is counted.
LEMMA Stays ==
  ASSUME CatalogInv, registry' = registry, NEW q \in Procs, job'[q] = job[q],
         regLock' = q <=> regLock = q, catLock' = q <=> catLock = q,
         edits' \in Nat, edits' >= edits, moves' \in Nat, moves' >= moves,
         catLock = q => catalog' = catalog \/ edits' > edits,
         regLock = q => disk'[q] = disk[q],
         github' = github \/ moves' > moves
  PROVE  JobOK(q)'
<1>0. LocksOK(q) /\ WritesOK(q) /\ ClonesOK(q) /\ edits \in Nat /\ moves \in Nat
  BY DEF CatalogInv, JobOK, CTyped
<1>1. job[q].edits \in Nat /\ job[q].moves \in Nat \cup {-1}
  BY JobFacts DEF CatalogInv, CTyped
<1>2. LocksOK(q)'
  BY <1>0, SameTypes DEF LocksOK
<1>3. Complete(q)' <=> Complete(q)
  BY SameTypes DEF Complete, Distinct
<1>4. Prepared(q)' <=> Prepared(q)
  BY <1>3, SameTypes DEF Prepared, Loads
<1>5. job[q].at = "replace" => catLock = q
  BY <1>0 DEF LocksOK, CatLabels
<1>6. WritesOK(q)'
  <2>1. Bound(job[q].base)'
    BY <1>0, SameTypes DEF WritesOK, Bound, OnePathEach
  <2>2. job[q].at = "replace" =>
          job[q].edits <= edits' /\ (job[q].edits = edits' => catalog' = job[q].base)
    BY <1>0, <1>1, <1>5 DEF WritesOK
  <2>3. job'[q].at = "replace" => Prepared(q)' /\ job'[q].base.form = "good"
    BY <1>0, <1>4 DEF WritesOK
  <2> QED BY <1>0, <1>3, <2>1, <2>2, <2>3 DEF WritesOK
<1>7. job[q].at \in RowLabels => disk'[q] = disk[q]
  BY <1>0 DEF LocksOK, RegLabels, CatLabels
<1>8. \A i : Slug(q, i)' = Slug(q, i)
  BY DEF Slug
<1>9. ClonesOK(q)'
  <2>1. job[q].at = "verify" =>
          /\ job[q].moves <= moves'
          /\ job[q].moves = moves' => disk'[q].content = github'[Slug(q, job[q].row)]
    BY <1>0, <1>1, <1>7 DEF ClonesOK, RowLabels
  <2>2. job[q].at \in {"appeared", "rename"} => disk'[q] = disk[q]
    BY <1>7 DEF RowLabels
  <2>3. job'[q].at \in RowLabels =>
          /\ Loads(job[q].base, job[q].snap)'
          /\ job'[q].todo \subseteq Registered(job[q].snap)'
    BY <1>0, SameTypes DEF ClonesOK, Loads
  <2>4. job'[q].at \in {"verify", "appeared", "rename"} =>
          job'[q].row \in Registered(job[q].snap)'
    BY <1>0, SameTypes DEF ClonesOK
  <2>5. job'[q].at = "verify" =>
          /\ job'[q].moves <= moves'
          /\ job'[q].moves = moves' => disk'[q].content = github'[Slug(q, job[q].row)']
    BY <2>1, <1>8
  <2>6. job'[q].at \in {"appeared", "rename"} =>
          /\ Verified(disk'[q], Slug(q, job[q].row)')
          /\ \/ disk'[q].content = job'[q].row
             \/ "skip github" \in job'[q].opts \/ job'[q].moves = -1
    BY <1>0, <1>8, <2>2 DEF ClonesOK, Verified
  <2> QED BY <2>3, <2>4, <2>5, <2>6 DEF ClonesOK, Loads, Verified
<1> QED BY <1>2, <1>6, <1>9 DEF JobOK

\* A step of one process: the others stay as they are.
LEMMA StepOf ==
  ASSUME CatalogInv, NEW p \in Procs, UNCHANGED world, kills' \in Nat,
         NEW x \in Jobs, job' = [job EXCEPT ![p] = x],
         regLock' \in Procs \cup {NoOne}, catLock' \in Procs \cup {NoOne},
         \A q \in Procs \ {p} : regLock' = q <=> regLock = q,
         \A q \in Procs \ {p} : catLock' = q <=> catLock = q,
         catalog' \in File, Bound(catalog)', catalog' = catalog \/ catLock = p,
         disk' \in [Places -> Things],
         \A q \in Procs \ {p} : regLock = q => disk'[q] = disk[q],
         job'[p] = x => JobOK(p)'
  PROVE  CatalogInv'
<1>1. CTyped /\ registry' = registry /\ moves' = moves /\ edits' = edits /\ github' = github
      /\ archived' = archived
  BY DEF CatalogInv, world
<1>2. job'[p] = x /\ job' \in [Procs -> Jobs] /\ \A q \in Procs \ {p} : job'[q] = job[q]
  BY <1>1 DEF CTyped
<1>3. CTyped'
  BY <1>1, <1>2, SameTypes DEF CTyped
<1>4. \A q \in Procs : JobOK(q)'
  <2> SUFFICES ASSUME NEW q \in Procs PROVE JobOK(q)'
    OBVIOUS
  <2>1. CASE q = p
    BY <1>2, <2>1
  <2>2. CASE q # p
    <3>1. moves \in Nat /\ edits \in Nat
      BY <1>1 DEF CTyped
    <3>2. /\ moves' \in Nat /\ moves' >= moves /\ edits' \in Nat /\ edits' >= edits
          /\ job'[q] = job[q]
          /\ catLock = q => catalog' = catalog \/ edits' > edits
          /\ regLock = q => disk'[q] = disk[q]
          /\ (regLock' = q <=> regLock = q) /\ (catLock' = q <=> catLock = q)
      BY <1>1, <1>2, <2>2, <3>1
    <3> QED BY <1>1, <3>2, Stays
  <2> QED BY <2>1, <2>2
<1> QED BY <1>3, <1>4 DEF CatalogInv

LEMMA FreeFacts ==
  ASSUME NEW p \in Procs, NEW lock \in Procs \cup {NoOne}
  PROVE  /\ Free(lock, p) \in Procs \cup {NoOne} /\ Free(lock, p) # p
         /\ \A q \in Procs \ {p} : Free(lock, p) = q <=> lock = q
BY CatalogAssumption DEF Free

LEMMA NothingTyped == Thing("nothing") \in Things
BY DEF Things

\* A command that has ended, well or badly or killed, remembers nothing.
LEMMA Ended ==
  ASSUME CatalogInv, NEW p \in Procs, UNCHANGED world, kills' \in Nat,
         job' = [job EXCEPT ![p] = Idle],
         regLock' = Free(regLock, p), catLock' = Free(catLock, p),
         catalog' \in File, Bound(catalog)', catalog' = catalog \/ catLock = p,
         disk' = disk \/ disk' = [disk EXCEPT ![p] = Thing("nothing")]
  PROVE  CatalogInv'
<1>1. CTyped /\ registry' = registry
  BY DEF CatalogInv, world
<1>2. Idle \in Jobs
  <2>1. Now \in Nat /\ Now > 0
    BY <1>1 DEF CTyped, Now
  <2> QED BY <2>1, IdleTyped
<1>3. /\ regLock' \in Procs \cup {NoOne} /\ catLock' \in Procs \cup {NoOne}
      /\ regLock' # p /\ catLock' # p
      /\ \A q \in Procs \ {p} : regLock' = q <=> regLock = q
      /\ \A q \in Procs \ {p} : catLock' = q <=> catLock = q
  BY <1>1, FreeFacts DEF CTyped
<1>4. /\ disk' \in [Places -> Things]
      /\ \A q \in Procs \ {p} : disk'[q] = disk[q]
  BY <1>1, NothingTyped DEF CTyped, Places
<1>5. ASSUME job'[p] = Idle PROVE JobOK(p)'
  <2>1. job'[p].at = "idle" /\ job'[p].cmd = "none" /\ job'[p].base = NoFile("missing")
    BY <1>5 DEF Idle
  <2>2. LocksOK(p)'
    BY <1>3, <2>1 DEF LocksOK, RegLabels, CatLabels, RowLabels
  <2>3. Bound(job[p].base)'
    BY <2>1 DEF Bound, NoFile
  <2>4. WritesOK(p)'
    BY <2>1, <2>3 DEF WritesOK
  <2>5. ClonesOK(p)'
    BY <2>1 DEF ClonesOK, RowLabels
  <2> QED BY <2>2, <2>4, <2>5 DEF JobOK
<1> QED BY <1>2, <1>3, <1>4, <1>5, StepOf

LEMMA EndInv ==
  ASSUME CatalogInv, NEW p \in Procs, UNCHANGED world, kills' \in Nat, End(p),
         catalog' \in File, Bound(catalog)', catalog' = catalog \/ catLock = p
  PROVE  CatalogInv'
BY Ended DEF End

\* Most commands end with the catalog as it was.
LEMMA EndsInv ==
  ASSUME CatalogInv, NEW p \in Procs, UNCHANGED <<world, catalog, kills>>, End(p)
  PROVE  CatalogInv'
<1>1. UNCHANGED world /\ registry' = registry /\ catalog' = catalog /\ kills' = kills
  BY DEF world
<1>2. kills' \in Nat /\ catalog' \in File /\ Bound(catalog)
  BY <1>1, SameTypes DEF CatalogInv, CTyped
<1>3. Bound(catalog)'
  BY <1>1, <1>2, SameTypes DEF Bound, OnePathEach
<1> QED BY <1>1, <1>2, <1>3, EndInv

-----------------------------------------------------------------------------
(* How a command begins                                                    *)

\* A step that takes no lock and writes no file.
LEMMA MovesOn ==
  ASSUME CatalogInv, NEW p \in Procs, UNCHANGED <<world, catalog, kills>>,
         regLock' = regLock, catLock' = catLock, disk' = disk,
         NEW x \in Jobs, job' = [job EXCEPT ![p] = x],
         job'[p] = x => JobOK(p)'
  PROVE  CatalogInv'
<1>1. UNCHANGED world /\ registry' = registry /\ catalog' = catalog /\ kills' = kills
  BY DEF world
<1>2. kills' \in Nat /\ catalog' \in File /\ Bound(catalog) /\ disk' \in [Places -> Things]
      /\ regLock' \in Procs \cup {NoOne} /\ catLock' \in Procs \cup {NoOne}
  BY <1>1, SameTypes DEF CatalogInv, CTyped
<1>3. Bound(catalog)'
  BY <1>1, <1>2, SameTypes DEF Bound, OnePathEach
<1> QED BY <1>1, <1>2, <1>3, StepOf

\* What a process is known to be.
LEMMA Known ==
  ASSUME CatalogInv, NEW p \in Procs
  PROVE  /\ CTyped /\ job[p] \in Jobs /\ job \in [Procs -> Jobs] /\ Now \in Nat /\ Now > 0
         /\ LocksOK(p) /\ WritesOK(p) /\ ClonesOK(p)
         /\ job[p].snap \in 1 .. Now /\ job[p].base \in File /\ Bound(job[p].base)
<1>1. CTyped /\ job[p] \in Jobs /\ job \in [Procs -> Jobs] /\ JobOK(p) /\ Now \in Nat /\ Now > 0
  BY DEF CatalogInv, CTyped, Now
<1> QED BY <1>1, JobFacts DEF JobOK, WritesOK

\* Only the label changes.
LEMMA Labelled ==
  ASSUME CatalogInv, NEW p \in Procs, NEW label \in Labels, Goto(p, label)
  PROVE  /\ job' = [job EXCEPT ![p] = job'[p]] /\ job'[p] \in Jobs /\ job'[p].at = label
         /\ job'[p].cmd = job[p].cmd /\ job'[p].opts = job[p].opts
         /\ job'[p].snap = job[p].snap /\ job'[p].base = job[p].base
         /\ job'[p].maps = job[p].maps /\ job'[p].todo = job[p].todo
         /\ job'[p].row = job[p].row /\ job'[p].seen = job[p].seen
         /\ job'[p].moves = job[p].moves /\ job'[p].edits = job[p].edits
<1>1. job[p] \in Jobs /\ job \in [Procs -> Jobs]
  BY Known
<1>2. PICK x : x = [job[p] EXCEPT !.at = label]
  OBVIOUS
<1>3. x \in Jobs
  BY <1>1, <1>2 DEF Jobs
<1>4. /\ x.at = label /\ x.cmd = job[p].cmd /\ x.opts = job[p].opts /\ x.snap = job[p].snap
      /\ x.base = job[p].base /\ x.maps = job[p].maps /\ x.todo = job[p].todo
      /\ x.row = job[p].row /\ x.seen = job[p].seen /\ x.moves = job[p].moves
      /\ x.edits = job[p].edits
  BY <1>1, <1>2 DEF Jobs
<1>5. job' = [job EXCEPT ![p] = x] /\ job'[p] = x
  BY <1>1, <1>2 DEF Goto
<1> QED BY <1>3, <1>4, <1>5

\* A label before the locks asks for nothing but paths for init.
LEMMA BeforeLocks ==
  ASSUME CatalogInv, NEW p \in Procs, UNCHANGED <<world, catalog, kills>>,
         regLock' = regLock, catLock' = catLock, disk' = disk,
         job[p].at \notin RegLabels,
         NEW x \in Jobs, job' = [job EXCEPT ![p] = x], x.at \notin RegLabels,
         x.at \in {"load", "hosted"} => x.cmd # "init",
         x.cmd = "init" /\ x.at = "registry" =>
           DOMAIN x.maps = Registered(x.snap) /\ Distinct(x.maps),
         Bound(x.base)
  PROVE  CatalogInv'
<1>1. LocksOK(p) /\ registry' = registry
  BY Known DEF world
<1>2. ASSUME job'[p] = x PROVE JobOK(p)'
  <2>1. LocksOK(p)'
    BY <1>1, <1>2 DEF LocksOK, RegLabels
  <2>2. Bound(job[p].base)'
    BY <1>1, <1>2, SameTypes DEF Bound, OnePathEach
  <2>3. x.cmd = "init" /\ x.at = "registry" => Complete(p)'
    BY <1>1, <1>2, SameTypes DEF Complete, Distinct
  <2>4. WritesOK(p)'
    BY <1>2, <2>2, <2>3 DEF WritesOK, RegLabels, CatLabels
  <2>5. ClonesOK(p)'
    BY <1>2 DEF ClonesOK, RegLabels, CatLabels, RowLabels
  <2> QED BY <2>1, <2>4, <2>5 DEF JobOK
<1> QED BY <1>2, MovesOn

LEMMA StartInv ==
  ASSUME CatalogInv, NEW p \in Procs, Start(p)
  PROVE  CatalogInv'
<1>0. PICK c \in Commands : \E o \in SUBSET Options(c) :
        /\ At(p, "idle")
        /\ job' = [job EXCEPT ![p] = [Idle EXCEPT
             !.cmd = c, !.opts = o, !.snap = Now,
             !.at = CASE c = "init" -> "discover" [] c = "reconcile" -> "registry"
                      [] OTHER -> "load"]]
        /\ UNCHANGED <<world, catalog, disk, regLock, catLock, kills>>
  BY DEF Start
<1>1. PICK o \in SUBSET Options(c) :
        /\ At(p, "idle")
        /\ job' = [job EXCEPT ![p] = [Idle EXCEPT
             !.cmd = c, !.opts = o, !.snap = Now,
             !.at = CASE c = "init" -> "discover" [] c = "reconcile" -> "registry"
                      [] OTHER -> "load"]]
        /\ UNCHANGED <<world, catalog, disk, regLock, catLock, kills>>
  BY <1>0
<1>2. PICK a : a = CASE c = "init" -> "discover" [] c = "reconcile" -> "registry"
                     [] OTHER -> "load"
  OBVIOUS
<1>3. a \in Labels /\ a \notin RegLabels /\ (a = "load" => c # "init") /\ a # "hosted"
      /\ (a = "registry" => c = "reconcile")
  BY <1>2 DEF Labels, RegLabels, CatLabels, RowLabels
<1>4. o \in SUBSET {"skip linked", "skip unverified", "skip github"}
  <2>1. c \in {"init", "reconcile", "refresh", "materialize", "sync"}
    BY CatalogAssumption
  <2> QED BY <2>1 DEF Options
<1>5. PICK x : x = [Idle EXCEPT !.cmd = c, !.opts = o, !.snap = Now, !.at = a]
  OBVIOUS
<1>6. Now \in 1 .. Now /\ Idle \in Jobs /\ Idle.base = NoFile("missing")
  <2>1. Now \in Nat /\ Now > 0
    BY Known
  <2> QED BY <2>1, IdleTyped DEF Idle
<1>7. x \in Jobs
  BY <1>3, <1>4, <1>5, <1>6 DEF Jobs
<1>8. x.at = a /\ x.cmd = c /\ x.base = NoFile("missing")
  BY <1>5, <1>6 DEF Jobs
<1>9. job' = [job EXCEPT ![p] = x] /\ job[p].at \notin RegLabels
  BY <1>1, <1>2, <1>5 DEF At, RegLabels, CatLabels, RowLabels
<1>10. Bound(x.base)
  BY <1>8, NoFileTyped
<1> QED BY <1>1, <1>3, <1>7, <1>8, <1>9, <1>10, BeforeLocks

LEMMA LoadInv ==
  ASSUME CatalogInv, NEW p \in Procs, Load(p)
  PROVE  CatalogInv'
<1>1. CASE ~Loads(catalog, job[p].snap)
  BY <1>1, EndsInv DEF Load
<1>2. CASE Loads(catalog, job[p].snap)
  <2>0. /\ At(p, "load") /\ UNCHANGED <<world, catalog, kills>> /\ Holds(p)
        /\ job' = [job EXCEPT ![p].base = catalog,
             ![p].at = IF "skip github" \in job[p].opts THEN "registry" ELSE "hosted"]
    BY <1>2 DEF Load
  <2>1. PICK a : a = IF "skip github" \in job[p].opts THEN "registry" ELSE "hosted"
    OBVIOUS
  <2>2. a \in Labels /\ a \notin RegLabels
    BY <2>1 DEF Labels, RegLabels, CatLabels, RowLabels
  <2>3. PICK x : x = [job[p] EXCEPT !.base = catalog, !.at = a]
    OBVIOUS
  <2>4. job[p] \in Jobs /\ catalog \in File /\ Bound(catalog)
    BY Known DEF CatalogInv, CTyped
  <2>5. x \in Jobs
    BY <2>2, <2>3, <2>4 DEF Jobs
  <2>6. x.at = a /\ x.cmd = job[p].cmd /\ x.base = catalog
    BY <2>3, <2>4 DEF Jobs
  <2>7. x.cmd # "init" /\ job[p].at \notin RegLabels
    BY <2>0, <2>6, Known DEF WritesOK, At, RegLabels, CatLabels, RowLabels
  <2>8. job' = [job EXCEPT ![p] = x]
    BY <2>0, <2>1, <2>3, Known
  <2> QED BY <2>0, <2>2, <2>4, <2>5, <2>6, <2>7, <2>8, BeforeLocks DEF Holds
<1> QED BY <1>1, <1>2

LEMMA HostedInv ==
  ASSUME CatalogInv, NEW p \in Procs, Hosted(p)
  PROVE  CatalogInv'
<1>1. CASE Goto(p, "registry") /\ Holds(p)
  <2>0. "registry" \in Labels /\ "registry" \notin RegLabels /\ "hosted" \notin RegLabels
    BY DEF Labels, RegLabels, CatLabels, RowLabels
  <2>1. PICK x : x = job'[p]
    OBVIOUS
  <2>3. /\ x \in Jobs /\ job' = [job EXCEPT ![p] = x] /\ x.at = "registry"
        /\ x.cmd = job[p].cmd /\ x.base = job[p].base
    BY <1>1, <2>0, <2>1, Labelled
  <2>2. x.cmd # "init" /\ job[p].at \notin RegLabels /\ x.at \notin RegLabels
    BY <2>0, <2>3, Known DEF Hosted, WritesOK, At
  <2>4. Bound(x.base) /\ x.at \notin {"load", "hosted"}
    BY <2>3, Known
  <2> QED BY <1>1, <2>2, <2>3, <2>4, BeforeLocks DEF Hosted, Holds
<1>2. CASE End(p)
  BY <1>2, EndsInv DEF Hosted
<1> QED BY <1>1, <1>2 DEF Hosted

\* Discovery gives every id a path, and the command goes on only if no two share one.
LEMMA ProposedFacts ==
  ASSUME CatalogInv, NEW p \in Procs, NEW D \in SUBSET Registered(job[p].snap)
  PROVE  /\ Proposed(p, D) \in PathMaps /\ DOMAIN Proposed(p, D) = D
         /\ \A i \in D : Proposed(p, D)[i] \in Places
<1>1. \A i \in D : Slug(p, i) \in Places /\ D \in SUBSET Ids
  BY Known, RegistryFacts DEF Slug, Places
<1>2. \A i \in D : Proposed(p, D)[i] \in Places
  <2> SUFFICES ASSUME NEW i \in D PROVE Proposed(p, D)[i] \in Places
    OBVIOUS
  <2>1. CASE \E x \in Found(p) : i \in Named(x, p)
    <3>1. Proposed(p, D)[i] = CHOOSE x \in Found(p) : i \in Named(x, p)
      BY <2>1 DEF Proposed
    <3>2. Proposed(p, D)[i] \in Found(p)
      BY <2>1, <3>1
    <3> QED BY <3>2 DEF Found, Counted
  <2>2. CASE ~\E x \in Found(p) : i \in Named(x, p)
    BY <1>1, <2>2 DEF Proposed
  <2> QED BY <2>1, <2>2
<1>3. Proposed(p, D) = [i \in D |-> Proposed(p, D)[i]] /\ DOMAIN Proposed(p, D) = D
  BY DEF Proposed
<1>4. D \in SUBSET Ids
  BY Known, RegistryFacts
<1>5. Proposed(p, D) \in [D -> Places]
  BY <1>2, <1>3
<1> QED BY <1>2, <1>3, <1>4, <1>5, MapTyped

LEMMA DiscoverInv ==
  ASSUME CatalogInv, NEW p \in Procs, Discover(p)
  PROVE  CatalogInv'
<1> DEFINE paths == Proposed(p, Registered(job[p].snap))
<1>1. CASE Ambiguous(p) \/ ~Distinct(paths)
  BY <1>1, EndsInv DEF Discover
<1>2. CASE ~(Ambiguous(p) \/ ~Distinct(paths))
  <2>0. /\ At(p, "discover") /\ UNCHANGED <<world, catalog, kills>> /\ Holds(p)
        /\ job' = [job EXCEPT ![p].maps = paths, ![p].opts = {}, ![p].at = "registry"]
    BY <1>2 DEF Discover
  <2>1. paths \in PathMaps /\ DOMAIN paths = Registered(job[p].snap)
    BY ProposedFacts
  <2> HIDE DEF paths
  <2>2. PICK x : x = [job[p] EXCEPT !.maps = paths, !.opts = {}, !.at = "registry"]
    OBVIOUS
  <2>3. job[p] \in Jobs /\ Bound(job[p].base)
    BY Known
  <2>4. "registry" \in Labels /\ "registry" \notin RegLabels /\ "discover" \notin RegLabels
    BY DEF Labels, RegLabels, CatLabels, RowLabels
  <2>5. x \in Jobs
    BY <2>1, <2>2, <2>3, <2>4 DEF Jobs
  <2>6. x.at = "registry" /\ x.base = job[p].base /\ x.maps = paths /\ x.snap = job[p].snap
    BY <2>2, <2>3 DEF Jobs
  <2>7. job' = [job EXCEPT ![p] = x] /\ job[p].at \notin RegLabels
    BY <2>0, <2>2, <2>4, Known DEF At
  <2> QED BY <1>2, <2>0, <2>1, <2>3, <2>4, <2>5, <2>6, <2>7, BeforeLocks DEF Holds
<1> QED BY <1>1, <1>2

-----------------------------------------------------------------------------
(* The locks                                                               *)

\* Under the registry lock and before the writes: the snapshot is the latest generation.
LEMMA UnderLock ==
  ASSUME CatalogInv, NEW p \in Procs, UNCHANGED <<world, catalog, kills>>, disk' = disk,
         regLock' = p, \A q \in Procs \ {p} : regLock # q,
         catLock' \in Procs \cup {NoOne},
         \A q \in Procs \ {p} : catLock' = q <=> catLock = q,
         NEW x \in Jobs, job' = [job EXCEPT ![p] = x],
         x.at \in {"observe", "catalog", "create", "stale", "reload"},
         x.at \in CatLabels <=> catLock' = p,
         x.snap = Now, Bound(x.base),
         x.at = "observe" => x.cmd = "refresh",
         x.at = "create" => x.cmd = "init", x.at = "stale" => x.cmd = "reconcile",
         x.cmd = "init" =>
           DOMAIN x.maps = Registered(x.snap) /\ Distinct(x.maps)
  PROVE  CatalogInv'
<1>1. /\ UNCHANGED world /\ registry' = registry /\ catalog' = catalog /\ kills' = kills
      /\ CTyped /\ Bound(catalog)
  BY Known DEF world, CatalogInv
<1>2. kills' \in Nat /\ catalog' \in File /\ disk' \in [Places -> Things]
  BY <1>1, SameTypes DEF CTyped
<1>3. Bound(catalog)'
  BY <1>1, SameTypes DEF Bound, OnePathEach
<1>4. ASSUME job'[p] = x PROVE JobOK(p)'
  <2>1. x.at \in RegLabels /\ x.at \notin RowLabels
    BY DEF RegLabels, CatLabels, RowLabels
  <2>2. LocksOK(p)'
    BY <1>1, <1>4, <2>1, SameTypes DEF LocksOK
  <2>3. Bound(job[p].base)'
    BY <1>1, <1>4, SameTypes DEF Bound, OnePathEach
  <2>4. x.cmd = "init" => Complete(p)'
    BY <1>1, <1>4, SameTypes DEF Complete, Distinct
  <2>5. WritesOK(p)'
    BY <1>4, <2>3, <2>4 DEF WritesOK
  <2>6. ClonesOK(p)'
    BY <1>4, <2>1 DEF ClonesOK
  <2> QED BY <2>2, <2>5, <2>6 DEF JobOK
<1> QED BY <1>1, <1>2, <1>3, <1>4, StepOf

LEMMA LockRegistryInv ==
  ASSUME CatalogInv, NEW p \in Procs, LockRegistry(p)
  PROVE  CatalogInv'
<1>1. CASE ~RegistryCurrent(p)
  BY <1>1, EndsInv DEF LockRegistry
<1>2. CASE RegistryCurrent(p)
  <2>0. /\ At(p, "registry") /\ regLock = NoOne /\ regLock' = p
        /\ UNCHANGED <<world, catalog, kills>> /\ catLock' = catLock /\ disk' = disk
        /\ job' = [job EXCEPT ![p].at = IF job[p].cmd = "refresh" THEN "observe"
                                            ELSE "catalog",
               ![p].todo = IF job[p].cmd = "refresh" THEN Registered(job[p].snap)
                           ELSE {}]
    BY <1>2 DEF LockRegistry
  <2>1. PICK a : a = IF job[p].cmd = "refresh" THEN "observe" ELSE "catalog"
    OBVIOUS
  <2>2. PICK t : t = IF job[p].cmd = "refresh" THEN Registered(job[p].snap) ELSE {}
    OBVIOUS
  <2>3. a \in Labels /\ a \in {"observe", "catalog"} /\ a \notin CatLabels
        /\ "registry" \notin CatLabels /\ (a = "observe" => job[p].cmd = "refresh")
    BY <2>1 DEF Labels, CatLabels, RowLabels
  <2>4. t \in SUBSET Ids
    BY <2>2, Known, RegistryFacts
  <2>5. PICK x : x = [job[p] EXCEPT !.at = a, !.todo = t]
    OBVIOUS
  <2>6. job[p] \in Jobs
    BY Known
  <2>7. x \in Jobs
    BY <2>3, <2>4, <2>5, <2>6 DEF Jobs
  <2>8. x.at = a /\ x.cmd = job[p].cmd /\ x.base = job[p].base /\ x.maps = job[p].maps
        /\ x.snap = job[p].snap
    BY <2>5, <2>6 DEF Jobs
  <2>9. job' = [job EXCEPT ![p] = x]
    BY <2>0, <2>1, <2>2, <2>5, Known
  <2>10. x.snap = Now /\ Bound(x.base) /\ catLock # p
    BY <1>2, <2>0, <2>3, <2>8, Known DEF RegistryCurrent, LocksOK, At
  <2>11. x.cmd = "init" => DOMAIN x.maps = Registered(x.snap) /\ Distinct(x.maps)
    BY <2>0, <2>8, Known DEF WritesOK, Complete, At
  <2>12. catLock' \in Procs \cup {NoOne} /\ \A q \in Procs \ {p} : regLock # q
    BY <2>0, Known, CatalogAssumption DEF CTyped
  <2> QED BY <2>0, <2>3, <2>7, <2>8, <2>9, <2>10, <2>11, <2>12, UnderLock
<1> QED BY <1>1, <1>2

LEMMA LockCatalogInv ==
  ASSUME CatalogInv, NEW p \in Procs, LockCatalog(p)
  PROVE  CatalogInv'
<1>1. PICK a : a = CASE job[p].cmd = "init" -> "create" [] job[p].cmd = "reconcile" -> "stale"
                     [] OTHER -> "reload"
  OBVIOUS
<1>2. /\ a \in Labels /\ a \in {"create", "stale", "reload"} /\ a \in CatLabels
      /\ (a = "create" => job[p].cmd = "init") /\ (a = "stale" => job[p].cmd = "reconcile")
  BY <1>1 DEF Labels, CatLabels
<1>3. Goto(p, a) /\ At(p, "catalog") /\ catLock = NoOne /\ catLock' = p
      /\ UNCHANGED <<world, catalog, disk, regLock, kills>>
  BY <1>1 DEF LockCatalog
<1>4. PICK x : x = job'[p]
  OBVIOUS
<1>5. /\ x \in Jobs /\ job' = [job EXCEPT ![p] = x] /\ x.at = a
      /\ x.cmd = job[p].cmd /\ x.base = job[p].base /\ x.snap = job[p].snap
      /\ x.maps = job[p].maps
  BY <1>2, <1>3, <1>4, Labelled
<1>6. regLock = p /\ job[p].snap = Now /\ Bound(x.base)
  BY <1>3, <1>5, Known DEF LocksOK, At, RegLabels
<1>7. x.cmd = "init" => DOMAIN x.maps = Registered(x.snap) /\ Distinct(x.maps)
  BY <1>3, <1>5, Known DEF WritesOK, Complete, At
<1>8. catLock' \in Procs \cup {NoOne} /\ (\A q \in Procs \ {p} : regLock # q)
      /\ (\A q \in Procs \ {p} : catLock' = q <=> catLock = q)
  BY <1>3, <1>6, CatalogAssumption
<1> QED BY <1>2, <1>3, <1>5, <1>6, <1>7, <1>8, UnderLock

LEMMA ObserveInv ==
  ASSUME CatalogInv, NEW p \in Procs, Observe(p)
  PROVE  CatalogInv'
<1>0. /\ At(p, "observe") /\ UNCHANGED <<world, catalog, kills>>
      /\ "catalog" \in Labels /\ "catalog" \notin CatLabels /\ "observe" \notin CatLabels
      /\ "observe" \in RegLabels
  BY DEF Observe, Labels, RegLabels, CatLabels, RowLabels
<1>1. /\ regLock = p /\ catLock # p /\ job[p].snap = Now /\ Bound(job[p].base)
      /\ \A q \in Procs \ {p} : regLock # q
      /\ catLock \in Procs \cup {NoOne} /\ job[p] \in Jobs
  BY <1>0, Known DEF LocksOK, At, CTyped
<1>2. job[p].cmd = "refresh" /\ job[p].cmd # "init"
  BY <1>0, Known DEF WritesOK, At
<1>3. CASE Goto(p, "catalog") /\ Holds(p)
  <2>1. PICK x : x = job'[p]
    OBVIOUS
  <2>2. /\ x \in Jobs /\ job' = [job EXCEPT ![p] = x] /\ x.at = "catalog"
        /\ x.cmd = job[p].cmd /\ x.base = job[p].base /\ x.snap = job[p].snap
    BY <1>0, <1>3, <2>1, Labelled
  <2> QED BY <1>0, <1>1, <1>2, <1>3, <2>2, UnderLock DEF Holds
<1>4. CASE \E i \in job[p].todo :
            /\ job' = [job EXCEPT ![p].todo = @ \ {i},
                    ![p].seen = IF i \in archived THEN @ \cup {i} ELSE @]
            /\ Holds(p)
  <2>1. PICK i \in job[p].todo :
            /\ job' = [job EXCEPT ![p].todo = @ \ {i},
                    ![p].seen = IF i \in archived THEN @ \cup {i} ELSE @]
            /\ Holds(p)
    BY <1>4
  <2>2. PICK t : t = job[p].todo \ {i}
    OBVIOUS
  <2>3. PICK s : s = IF i \in archived THEN job[p].seen \cup {i} ELSE job[p].seen
    OBVIOUS
  <2>4. t \in SUBSET Ids /\ s \in SUBSET Ids
    BY <1>1, <2>2, <2>3, JobFacts
  <2>5. PICK x : x = [job[p] EXCEPT !.todo = t, !.seen = s]
    OBVIOUS
  <2>6. x \in Jobs
    BY <1>1, <2>4, <2>5 DEF Jobs
  <2>7. x.at = job[p].at /\ x.cmd = job[p].cmd /\ x.base = job[p].base /\ x.snap = job[p].snap
    BY <1>1, <2>5 DEF Jobs
  <2>8. job' = [job EXCEPT ![p] = x]
    BY <2>1, <2>2, <2>3, <2>5, Known
  <2>9. x.at = "observe" /\ x.at \notin CatLabels /\ x.snap = Now /\ Bound(x.base)
        /\ x.cmd = "refresh"
    BY <1>0, <1>1, <1>2, <2>7 DEF At
  <2>10. regLock' = p /\ catLock' = catLock /\ disk' = disk
    BY <1>1, <2>1 DEF Holds
  <2> QED BY <1>0, <1>1, <2>6, <2>8, <2>9, <2>10, UnderLock
<1>5. CASE End(p)
  BY <1>0, <1>5, EndsInv
<1> QED BY <1>3, <1>4, <1>5 DEF Observe

\* Between the rows: the catalog that was read is bound to the snapshot, and so is
\* what has been cloned.
LEMMA RowStep ==
  ASSUME CatalogInv, NEW p \in Procs, UNCHANGED <<world, catalog, kills>>,
         regLock = p, catLock = p, regLock' = p, catLock' = p, job[p].snap = Now,
         Loads(job[p].base, job[p].snap),
         disk' \in [Places -> Things],
         NEW x \in Jobs, job' = [job EXCEPT ![p] = x], x.at \in RowLabels,
         x.base = job[p].base, x.snap = job[p].snap,
         x.todo \subseteq Registered(job[p].snap),
         x.at \in {"verify", "appeared", "rename"} => x.row \in Registered(job[p].snap),
         x.at = "verify" =>
           x.moves <= moves /\ (x.moves = moves => disk'[p].content = github[Slug(p, x.row)]),
         x.at \in {"appeared", "rename"} =>
           /\ Verified(disk'[p], Slug(p, x.row))
           /\ disk'[p].content = x.row \/ "skip github" \in x.opts \/ x.moves = -1
  PROVE  CatalogInv'
<1>1. /\ UNCHANGED world /\ registry' = registry /\ catalog' = catalog /\ kills' = kills
      /\ github' = github /\ moves' = moves /\ CTyped /\ Bound(catalog) /\ Bound(job[p].base)
  BY Known DEF world, CatalogInv
<1>2. kills' \in Nat /\ catalog' \in File
  BY <1>1, SameTypes DEF CTyped
<1>3. Bound(catalog)'
  BY <1>1, SameTypes DEF Bound, OnePathEach
<1>4. ASSUME job'[p] = x PROVE JobOK(p)'
  <2>1. /\ x.at \in RegLabels /\ x.at \in CatLabels
        /\ x.at \notin {"load", "hosted", "observe", "create", "write", "stale", "replace",
                        "registry", "catalog"}
    BY DEF RegLabels, CatLabels, RowLabels
  <2>2. LocksOK(p)'
    BY <1>1, <1>4, <2>1, SameTypes DEF LocksOK
  <2>3. Bound(job[p].base)'
    <3>1. Bound(x.base)
      BY <1>1
    <3>2. job'[p].base = x.base
      BY <1>4
    <3> QED BY <1>1, <3>1, <3>2, SameTypes DEF Bound, OnePathEach
  <2>4. WritesOK(p)'
    BY <1>4, <2>1, <2>3 DEF WritesOK
  <2>5. Loads(job[p].base, job[p].snap)' /\ Registered(job[p].snap)' = Registered(job[p].snap)
    BY <1>1, <1>4, SameTypes DEF Loads
  <2>6. \A i : Slug(p, i)' = Slug(p, i)
    BY <1>1, <1>4 DEF Slug
  <2>7. x.at = "verify" =>
          x.moves <= moves'
          /\ (x.moves = moves' => disk'[p].content = github'[Slug(p, x.row)'])
    BY <1>1, <2>6
  <2>8. x.at \in {"appeared", "rename"} => Verified(disk'[p], Slug(p, x.row)')
    BY <2>6
  <2>9. ClonesOK(p)'
    BY <1>4, <2>5, <2>7, <2>8 DEF ClonesOK, Verified
  <2> QED BY <2>2, <2>4, <2>9 DEF JobOK
<1>5. /\ regLock' \in Procs \cup {NoOne} /\ catLock' \in Procs \cup {NoOne}
      /\ (\A q \in Procs \ {p} : regLock' = q <=> regLock = q)
      /\ (\A q \in Procs \ {p} : catLock' = q <=> catLock = q)
      /\ (\A q \in Procs \ {p} : regLock = q => disk'[q] = disk[q])
  OBVIOUS
<1> QED BY <1>1, <1>2, <1>3, <1>4, <1>5, StepOf

\* What is about to be replaced was compared with what was read.
LEMMA ToReplace ==
  ASSUME CatalogInv, NEW p \in Procs, UNCHANGED <<world, catalog, kills>>, disk' = disk,
         regLock = p, catLock = p, regLock' = p, catLock' = p, job[p].snap = Now,
         NEW x \in Jobs, job' = [job EXCEPT ![p] = x], x.at = "replace",
         x.snap = job[p].snap, x.base = catalog, x.edits = edits, catalog.form = "good",
         \/ x.cmd = "refresh" /\ Loads(catalog, x.snap)
         \/ /\ x.cmd = "reconcile"
            /\ DOMAIN x.maps = Registered(x.snap) /\ Distinct(x.maps)
            /\ \A i \in DOMAIN catalog.rows :
                 i \in DOMAIN x.maps /\ x.maps[i] = catalog.rows[i].path
  PROVE  CatalogInv'
<1>1. /\ UNCHANGED world /\ registry' = registry /\ catalog' = catalog /\ kills' = kills
      /\ edits' = edits /\ edits \in Nat /\ CTyped /\ Bound(catalog)
  BY Known DEF world, CatalogInv, CTyped
<1>2. "replace" \in RegLabels /\ "replace" \in CatLabels /\ "replace" \notin RowLabels
  BY DEF RegLabels, CatLabels, RowLabels
<1>4. ASSUME job'[p] = x PROVE JobOK(p)'
  <2>2. LocksOK(p)'
    BY <1>1, <1>2, <1>4, SameTypes DEF LocksOK
  <2>3. Bound(job[p].base)'
    BY <1>1, <1>4, SameTypes DEF Bound, OnePathEach
  <2>4. CASE x.cmd = "refresh" /\ Loads(catalog, x.snap)
    <3>1. Loads(job[p].base, job[p].snap)'
      BY <1>1, <1>4, <2>4, SameTypes DEF Loads
    <3>2. WritesOK(p)'
      BY <1>1, <1>4, <2>3, <2>4, <3>1 DEF WritesOK, Prepared
    <3>3. ClonesOK(p)'
      BY <1>2, <1>4 DEF ClonesOK
    <3> QED BY <2>2, <3>2, <3>3 DEF JobOK
  <2>5. CASE /\ x.cmd = "reconcile"
             /\ DOMAIN x.maps = Registered(x.snap) /\ Distinct(x.maps)
             /\ \A i \in DOMAIN catalog.rows :
                  i \in DOMAIN x.maps /\ x.maps[i] = catalog.rows[i].path
    <3>1. Complete(p)'
      BY <1>1, <1>4, <2>5, SameTypes DEF Complete, Distinct
    <3>2. \A i \in DOMAIN job'[p].base.rows :
            i \in DOMAIN job'[p].maps /\ job'[p].maps[i] = job'[p].base.rows[i].path
      BY <1>4, <2>5
    <3>3. Prepared(p)'
      BY <1>4, <2>5, <3>1, <3>2 DEF Prepared
    <3>4. WritesOK(p)'
      BY <1>1, <1>4, <2>3, <2>5, <3>3 DEF WritesOK
    <3>5. ClonesOK(p)'
      BY <1>2, <1>4 DEF ClonesOK
    <3> QED BY <2>2, <3>4, <3>5 DEF JobOK
  <2> QED BY <2>4, <2>5
<1> QED BY <1>1, <1>4, MovesOn

LEMMA ReloadInv ==
  ASSUME CatalogInv, NEW p \in Procs, Reload(p)
  PROVE  CatalogInv'
<1>1. CASE \/ ~Current(p) \/ ~Loads(catalog, job[p].snap)
           \/ (job[p].cmd = "refresh" /\ AsShown(p))
  BY <1>1, EndsInv DEF Reload
<1>2. CASE ~(\/ ~Current(p) \/ ~Loads(catalog, job[p].snap)
             \/ (job[p].cmd = "refresh" /\ AsShown(p)))
  <2>0. /\ At(p, "reload") /\ UNCHANGED <<world, catalog, kills>> /\ Holds(p)
        /\ job' = [job EXCEPT ![p].edits = edits,
               ![p].todo = IF job[p].cmd = "refresh" THEN {} ELSE DOMAIN catalog.rows,
               ![p].at = IF job[p].cmd = "refresh" THEN "replace" ELSE "rows"]
    BY <1>2 DEF Reload
  <2>1. catalog = job[p].base /\ Loads(catalog, job[p].snap)
    BY <1>2 DEF Current
  <2>2. PICK t : t = IF job[p].cmd = "refresh" THEN {} ELSE DOMAIN catalog.rows
    OBVIOUS
  <2>3. PICK a : a = IF job[p].cmd = "refresh" THEN "replace" ELSE "rows"
    OBVIOUS
  <2>4. t \subseteq Registered(job[p].snap) /\ t \in SUBSET Ids /\ edits \in Nat
    BY <2>1, <2>2, Known, RegistryFacts DEF Loads, CTyped
  <2>5. /\ a \in Labels /\ "reload" \in RegLabels /\ "reload" \in CatLabels
        /\ "reload" # "read back"
    BY <2>3 DEF Labels, RegLabels, CatLabels
  <2>6. PICK x : x = [job[p] EXCEPT !.edits = edits, !.todo = t, !.at = a]
    OBVIOUS
  <2>7. job[p] \in Jobs /\ disk \in [Places -> Things]
    BY Known DEF CTyped
  <2>8. x \in Jobs
    BY <2>4, <2>5, <2>6, <2>7 DEF Jobs
  <2>9. /\ x.at = a /\ x.edits = edits /\ x.todo = t /\ x.cmd = job[p].cmd
        /\ x.base = job[p].base /\ x.snap = job[p].snap
    BY <2>6, <2>7 DEF Jobs
  <2>10. job' = [job EXCEPT ![p] = x]
    BY <2>0, <2>2, <2>3, <2>6, Known
  <2>11. regLock = p /\ catLock = p /\ job[p].snap = Now
    BY <2>0, <2>5, Known DEF LocksOK, At
  <2>12. regLock' = p /\ catLock' = p /\ disk' = disk
    BY <2>0, <2>11 DEF Holds
  <2>13. CASE job[p].cmd = "refresh"
    <3>1. x.at = "replace" /\ x.cmd = "refresh" /\ Loads(catalog, x.snap)
          /\ catalog.form = "good" /\ x.base = catalog
      BY <2>1, <2>3, <2>9, <2>13 DEF Loads
    <3> QED BY <2>0, <2>8, <2>9, <2>10, <2>11, <2>12, <3>1, ToReplace
  <2>14. CASE job[p].cmd # "refresh"
    <3>1. x.at = "rows" /\ x.at \in RowLabels /\ Loads(job[p].base, job[p].snap)
          /\ disk' \in [Places -> Things] /\ x.todo \subseteq Registered(job[p].snap)
      BY <2>1, <2>3, <2>4, <2>7, <2>9, <2>12, <2>14 DEF RowLabels
    <3> QED BY <2>0, <2>8, <2>9, <2>10, <2>11, <2>12, <3>1, RowStep
  <2> QED BY <2>13, <2>14
<1> QED BY <1>1, <1>2

-----------------------------------------------------------------------------
(* Writing the catalog                                                     *)

\* After the write nothing is remembered, and both locks are still held.
LEMMA ReadsBack ==
  ASSUME CatalogInv, NEW p \in Procs, UNCHANGED <<world, kills>>, Holds(p),
         OnlyAt(p, "read back"), regLock = p, catLock = p,
         catalog' \in File, Bound(catalog)'
  PROVE  CatalogInv'
<1>1. /\ UNCHANGED world /\ registry' = registry /\ kills' = kills /\ CTyped
      /\ regLock' = regLock /\ catLock' = catLock /\ disk' = disk
  BY Known DEF world, Holds
<1>2. PICK x : x = [Idle EXCEPT !.at = "read back"]
  OBVIOUS
<1>3. /\ "read back" \in Labels /\ "read back" \in RegLabels /\ "read back" \in CatLabels
      /\ "read back" \notin RowLabels
  BY DEF Labels, RegLabels, CatLabels, RowLabels
<1>4. Idle \in Jobs /\ Idle.base = NoFile("missing") /\ Idle.cmd = "none"
  <2>1. Now \in Nat /\ Now > 0
    BY Known
  <2>2. Idle \in Jobs
    BY <2>1, IdleTyped
  <2>3. Idle.base = NoFile("missing") /\ Idle.cmd = "none"
    BY DEF Idle
  <2> QED BY <2>2, <2>3
<1>5. x \in Jobs
  BY <1>2, <1>3, <1>4 DEF Jobs
<1>6. x.at = "read back" /\ x.base = NoFile("missing") /\ x.cmd = "none"
  BY <1>2, <1>4 DEF Jobs
<1>7. job' = [job EXCEPT ![p] = x]
  BY <1>2 DEF OnlyAt
<1>8. ASSUME job'[p] = x PROVE JobOK(p)'
  <2>1. LocksOK(p)'
    BY <1>1, <1>3, <1>6, <1>8 DEF LocksOK
  <2>2. Bound(job[p].base)'
    <3>1. job'[p].base.form # "good"
      BY <1>6, <1>8, NoFileTyped
    <3> QED BY <3>1 DEF Bound
  <2>3. WritesOK(p)'
    BY <1>6, <1>8, <2>2 DEF WritesOK
  <2>4. ClonesOK(p)'
    BY <1>3, <1>6, <1>8 DEF ClonesOK
  <2> QED BY <2>1, <2>3, <2>4 DEF JobOK
<1>9. /\ kills' \in Nat /\ regLock' \in Procs \cup {NoOne} /\ catLock' \in Procs \cup {NoOne}
      /\ disk' \in [Places -> Things]
      /\ (\A q \in Procs \ {p} : regLock' = q <=> regLock = q)
      /\ (\A q \in Procs \ {p} : catLock' = q <=> catLock = q)
      /\ (\A q \in Procs \ {p} : regLock = q => disk'[q] = disk[q])
  BY <1>1 DEF CTyped
<1> QED BY <1>1, <1>5, <1>7, <1>8, <1>9, StepOf

\* A process that is going to write holds both locks.
LEMMA HoldsBoth ==
  ASSUME CatalogInv, NEW p \in Procs, job[p].at \in CatLabels
  PROVE  /\ regLock = p /\ catLock = p
         /\ job[p].at # "read back" => job[p].snap = Now
<1>1. job[p].at \in RegLabels
  BY DEF RegLabels
<1> QED BY <1>1, Known DEF LocksOK

LEMMA CreateInv ==
  ASSUME CatalogInv, NEW p \in Procs, Create(p)
  PROVE  CatalogInv'
<1>0. At(p, "create") /\ UNCHANGED <<world, kills>> /\ UNCHANGED world
  BY DEF Create
<1>1. CASE End(p) /\ UNCHANGED catalog
  BY <1>0, <1>1, EndsInv
<1>2. CASE catalog' = NoFile("torn") /\ Goto(p, "write") /\ Holds(p)
  <2>1. "write" \in Labels /\ {"create", "write"} \subseteq RegLabels \cap CatLabels
        /\ "write" \notin RowLabels
    BY DEF Labels, RegLabels, CatLabels, RowLabels
  <2>2. regLock = p /\ catLock = p /\ job[p].snap = Now
    BY <1>0, <2>1, HoldsBoth DEF At
  <2>3. PICK x : x = job'[p]
    OBVIOUS
  <2>4. /\ x \in Jobs /\ job' = [job EXCEPT ![p] = x] /\ x.at = "write"
        /\ x.cmd = job[p].cmd /\ x.base = job[p].base /\ x.snap = job[p].snap
        /\ x.maps = job[p].maps
    BY <1>2, <2>1, <2>3, Labelled
  <2>5. job[p].cmd = "init" /\ Complete(p) /\ Bound(job[p].base) /\ CTyped
    BY <1>0, Known DEF WritesOK, At
  <2>6. /\ kills' = kills /\ registry' = registry
        /\ regLock' = regLock /\ catLock' = catLock /\ disk' = disk
    BY <1>0, <1>2 DEF world, Holds
  <2>7. catalog' \in File /\ Bound(catalog)'
    BY <1>2, NoFileTyped DEF Bound
  <2>8. ASSUME job'[p] = x PROVE JobOK(p)'
    <3>1. LocksOK(p)'
      BY <2>1, <2>2, <2>4, <2>6, <2>8, SameTypes DEF LocksOK
    <3>2. Bound(job[p].base)'
      <4>1. job'[p].base = job[p].base
        BY <2>4, <2>8
      <4> QED BY <2>5, <2>6, <4>1, SameTypes DEF Bound, OnePathEach
    <3>3. Complete(p)'
      BY <2>4, <2>5, <2>6, <2>8, SameTypes DEF Complete, Distinct
    <3>4. WritesOK(p)'
      BY <2>4, <2>5, <2>8, <3>2, <3>3 DEF WritesOK
    <3>5. ClonesOK(p)'
      BY <2>1, <2>4, <2>8 DEF ClonesOK
    <3> QED BY <3>1, <3>4, <3>5 DEF JobOK
  <2>9. /\ kills' \in Nat /\ regLock' \in Procs \cup {NoOne} /\ catLock' \in Procs \cup {NoOne}
        /\ disk' \in [Places -> Things]
        /\ (\A q \in Procs \ {p} : regLock' = q <=> regLock = q)
        /\ (\A q \in Procs \ {p} : catLock' = q <=> catLock = q)
        /\ (\A q \in Procs \ {p} : regLock = q => disk'[q] = disk[q])
    BY <2>5, <2>6 DEF CTyped
  <2> QED BY <1>0, <2>2, <2>4, <2>7, <2>8, <2>9, StepOf
<1> QED BY <1>1, <1>2 DEF Create

\* The new catalog has a row for every id of the snapshot.
LEMMA WriteNewInv ==
  ASSUME CatalogInv, NEW p \in Procs, WriteNew(p)
  PROVE  CatalogInv'
<1> DEFINE m == job[p].maps
           rows == [i \in DOMAIN m |-> NewRow(m[i])]
<1>1. /\ job[p].at = "write" /\ UNCHANGED <<world, kills>> /\ UNCHANGED world
      /\ Holds(p) /\ OnlyAt(p, "read back") /\ registry' = registry
      /\ catalog' = [form |-> "good", registry |-> job[p].snap, generation |-> 0,
                     rows |-> rows]
  BY DEF WriteNew, At, world
<1>2. "write" \in CatLabels
  BY DEF CatLabels
<1>3. regLock = p /\ catLock = p
  BY <1>1, <1>2, HoldsBoth
<1>4. Complete(p) /\ job[p].snap \in 1 .. Now /\ m \in PathMaps
  BY <1>1, Known, JobFacts DEF WritesOK
<1>5. DOMAIN m \in SUBSET Ids /\ \A i \in DOMAIN m : m[i] \in Places
  BY <1>4, MapFacts
<1>6. \A i \in DOMAIN m : NewRow(m[i]) \in Row /\ NewRow(m[i]).path = m[i]
  BY <1>5, NewRowTyped
<1>7. rows \in [DOMAIN m -> Row]
  BY <1>6
<1>8. catalog' \in File
  BY <1>1, <1>4, <1>5, <1>7, FileTyped
<1>9. DOMAIN rows = Registered(job[p].snap)
  BY <1>4 DEF Complete
<1>10. \A i, j \in DOMAIN rows : rows[i].path = rows[j].path => i = j
  BY <1>4, <1>6 DEF Complete, Distinct
<1> HIDE DEF rows
<1>11. Bound(catalog)'
  BY <1>1, <1>9, <1>10, SameTypes DEF Bound, OnePathEach
<1> QED BY <1>1, <1>3, <1>8, <1>11, ReadsBack

LEMMA FailWriteInv ==
  ASSUME CatalogInv, NEW p \in Procs, FailWrite(p)
  PROVE  CatalogInv'
<1>1. /\ job[p].at = "write" /\ UNCHANGED <<world, kills>> /\ UNCHANGED world /\ End(p)
      /\ catalog' = NoFile("missing") /\ kills' = kills
  BY DEF FailWrite, At, Unlinked
<1>2. "write" \in CatLabels
  BY DEF CatLabels
<1>3. catLock = p
  BY <1>1, <1>2, HoldsBoth
<1>4. catalog' \in File /\ Bound(catalog)' /\ kills' \in Nat
  BY <1>1, NoFileTyped, Known DEF Bound, CTyped
<1> QED BY <1>1, <1>3, <1>4, EndInv

LEMMA ReadBackInv ==
  ASSUME CatalogInv, NEW p \in Procs, ReadBack(p)
  PROVE  CatalogInv'
BY EndsInv DEF ReadBack

\* A stale catalog and the ids that are new make up the generation that was read.
LEMMA MergedFacts ==
  ASSUME CatalogInv, NEW p \in Procs, LoadsStale(catalog, job[p].snap)
  PROVE  /\ Merged(p) \in PathMaps /\ DOMAIN Merged(p) = Registered(job[p].snap)
         /\ \A i \in DOMAIN catalog.rows :
              i \in DOMAIN Merged(p) /\ Merged(p)[i] = catalog.rows[i].path
<1> DEFINE old == DOMAIN catalog.rows
           new == Proposed(p, NewIds(p))
<1>1. /\ catalog \in File /\ catalog.form = "good" /\ old \subseteq Registered(job[p].snap)
      /\ Registered(job[p].snap) \in SUBSET Ids
  BY Known, RegistryFacts DEF LoadsStale, CTyped
<1>2. \A i \in old : catalog.rows[i] \in Row
  BY <1>1, FileFacts
<1>3. \A i \in old : catalog.rows[i].path \in Places
  BY <1>2, RowFacts
<1>4. NewIds(p) \in SUBSET Registered(job[p].snap)
      /\ old \cup NewIds(p) = Registered(job[p].snap)
  BY <1>1 DEF NewIds
<1>5. \A i \in NewIds(p) : new[i] \in Places
  BY <1>4, ProposedFacts
<1>6. Merged(p) = [i \in old \cup NewIds(p) |->
                     IF i \in old THEN catalog.rows[i].path ELSE new[i]]
  BY DEF Merged
<1> HIDE DEF new, old
<1>7. DOMAIN Merged(p) = Registered(job[p].snap)
      /\ Merged(p) \in [Registered(job[p].snap) -> Places]
  BY <1>3, <1>4, <1>5, <1>6
<1>8. Merged(p) \in PathMaps
  BY <1>1, <1>7, MapTyped
<1>9. \A i \in old : i \in DOMAIN Merged(p) /\ Merged(p)[i] = catalog.rows[i].path
  BY <1>4, <1>6
<1> QED BY <1>7, <1>8, <1>9 DEF old

LEMMA LoadStaleInv ==
  ASSUME CatalogInv, NEW p \in Procs, LoadStale(p)
  PROVE  CatalogInv'
<1> DEFINE Refused == \/ ~LoadsStale(catalog, job[p].snap)
                      \/ catalog.registry = job[p].snap
                      \/ (NewIds(p) # {} /\ Ambiguous(p)) \/ ~Distinct(Merged(p))
<1>1. CASE Refused
  BY <1>1, EndsInv DEF LoadStale
<1>2. CASE ~Refused
  <2>0. /\ job[p].at = "stale" /\ UNCHANGED <<world, catalog, kills>> /\ Holds(p)
        /\ job' = [job EXCEPT ![p].base = catalog, ![p].maps = Merged(p),
                              ![p].edits = edits, ![p].at = "replace"]
        /\ LoadsStale(catalog, job[p].snap) /\ Distinct(Merged(p))
    BY <1>2 DEF LoadStale, At
  <2>1. "stale" \in CatLabels /\ "replace" \in Labels
    BY DEF CatLabels, Labels
  <2>2. PICK m : m = Merged(p)
    OBVIOUS
  <2>3. /\ m \in PathMaps /\ DOMAIN m = Registered(job[p].snap) /\ Distinct(m)
        /\ \A i \in DOMAIN catalog.rows : i \in DOMAIN m /\ m[i] = catalog.rows[i].path
    BY <2>0, <2>2, MergedFacts
  <2>4. PICK x : x = [job[p] EXCEPT !.base = catalog, !.maps = m, !.edits = edits,
                                    !.at = "replace"]
    OBVIOUS
  <2>5. job[p] \in Jobs /\ catalog \in File /\ edits \in Nat
    BY Known DEF CTyped
  <2>6. x \in Jobs
    BY <2>1, <2>3, <2>4, <2>5 DEF Jobs
  <2>7. /\ x.at = "replace" /\ x.base = catalog /\ x.maps = m /\ x.edits = edits
        /\ x.cmd = job[p].cmd /\ x.snap = job[p].snap
    BY <2>4, <2>5 DEF Jobs
  <2>8. job' = [job EXCEPT ![p] = x]
    BY <2>0, <2>2, <2>4, Known
  <2>9. regLock = p /\ catLock = p /\ job[p].snap = Now
    BY <2>0, <2>1, HoldsBoth
  <2>10. regLock' = p /\ catLock' = p /\ disk' = disk
    BY <2>0, <2>9 DEF Holds
  <2>11. x.cmd = "reconcile" /\ catalog.form = "good"
    BY <2>0, <2>7, Known DEF WritesOK, LoadsStale
  <2>12. /\ DOMAIN x.maps = Registered(x.snap) /\ Distinct(x.maps)
         /\ \A i \in DOMAIN catalog.rows :
              i \in DOMAIN x.maps /\ x.maps[i] = catalog.rows[i].path
    BY <2>3, <2>7
  <2> QED BY <2>0, <2>6, <2>7, <2>8, <2>9, <2>10, <2>11, <2>12, ToReplace
<1> QED BY <1>1, <1>2

\* What replaces the catalog keeps every path and policy, and is bound to the snapshot.
LEMMA SuccessorFacts ==
  ASSUME CatalogInv, NEW p \in Procs, job[p].at = "replace"
  PROVE  /\ Successor(p) \in File /\ Bound(Successor(p))
         /\ \A i \in DOMAIN job[p].base.rows :
              /\ i \in DOMAIN Successor(p).rows
              /\ Successor(p).rows[i].path = job[p].base.rows[i].path
              /\ Successor(p).rows[i].want = job[p].base.rows[i].want
<1> DEFINE b == job[p].base
           m == job[p].maps
           g == job[p].snap
           shown(i) == IF i \in job[p].seen THEN "archived" ELSE "active"
<1>1. /\ b \in File /\ b.form = "good" /\ OnePathEach(b) /\ Prepared(p)
      /\ g \in 1 .. Now /\ m \in PathMaps
  BY Known, JobFacts DEF WritesOK, Bound
<1>2. /\ b.generation + 1 \in Nat /\ DOMAIN b.rows \in SUBSET Ids
      /\ \A i \in DOMAIN b.rows : b.rows[i] \in Row
  BY <1>1, FileFacts
<1>3. ASSUME NEW rows, NEW D \in SUBSET Ids, DOMAIN rows = D, D = Registered(g),
             rows \in [D -> Row],
             Successor(p) = [form |-> "good", registry |-> g,
                             generation |-> b.generation + 1, rows |-> rows],
             \A i, j \in D : rows[i].path = rows[j].path => i = j,
             \A i \in DOMAIN b.rows :
               i \in D /\ rows[i].path = b.rows[i].path /\ rows[i].want = b.rows[i].want
      PROVE  /\ Successor(p) \in File /\ Bound(Successor(p))
             /\ \A i \in DOMAIN b.rows :
                  /\ i \in DOMAIN Successor(p).rows
                  /\ Successor(p).rows[i].path = b.rows[i].path
                  /\ Successor(p).rows[i].want = b.rows[i].want
  <2>1. Successor(p) \in File
    BY <1>1, <1>2, <1>3, FileTyped
  <2>2. Successor(p).rows = rows /\ Successor(p).registry = g
    BY <1>3
  <2>3. Bound(Successor(p))
    BY <1>3, <2>2 DEF Bound, OnePathEach
  <2> QED BY <1>3, <2>1, <2>2, <2>3
<1>4. CASE job[p].cmd = "refresh"
  <2>1. DOMAIN b.rows = Registered(g)
    BY <1>1, <1>4 DEF Prepared, Loads
  <2>2. PICK rows : rows = [i \in DOMAIN b.rows |-> [b.rows[i] EXCEPT !.life = shown(i)]]
    OBVIOUS
  <2>3. Successor(p) = [form |-> "good", registry |-> g,
                        generation |-> b.generation + 1, rows |-> rows]
    BY <1>4, <2>2 DEF Successor, KeptRow
  <2>4. \A i \in DOMAIN b.rows :
          rows[i] \in Row /\ rows[i].path = b.rows[i].path /\ rows[i].want = b.rows[i].want
    <3> SUFFICES ASSUME NEW i \in DOMAIN b.rows
                 PROVE  rows[i] \in Row /\ rows[i].path = b.rows[i].path
                        /\ rows[i].want = b.rows[i].want
      OBVIOUS
    <3>1. PICK r \in Row : r = b.rows[i]
      BY <1>2
    <3>2. PICK a \in {"active", "archived"} : a = shown(i)
      OBVIOUS
    <3>3. rows[i] = [r EXCEPT !.life = a]
      BY <2>2, <3>1, <3>2
    <3>4. rows[i] \in Row
      BY <3>3 DEF Row
    <3>5. rows[i].path = r.path /\ rows[i].want = r.want
      BY <3>3 DEF Row
    <3> QED BY <3>1, <3>4, <3>5
  <2>5. DOMAIN rows = DOMAIN b.rows /\ rows \in [DOMAIN b.rows -> Row]
    BY <2>2, <2>4
  <2>6. \A i, j \in DOMAIN b.rows : rows[i].path = rows[j].path => i = j
    BY <1>1, <2>4 DEF OnePathEach
  <2> QED BY <1>2, <1>3, <2>1, <2>3, <2>4, <2>5, <2>6
<1>5. CASE job[p].cmd # "refresh"
  <2>1. /\ DOMAIN m = Registered(g) /\ Distinct(m)
        /\ \A i \in DOMAIN b.rows : i \in DOMAIN m /\ m[i] = b.rows[i].path
    BY <1>1, <1>5 DEF Prepared, Complete
  <2>2. DOMAIN m \in SUBSET Ids /\ \A i \in DOMAIN m : m[i] \in Places
    BY <1>1, MapFacts
  <2>3. PICK rows : rows = [i \in DOMAIN m |-> IF i \in DOMAIN b.rows THEN b.rows[i]
                                                 ELSE NewRow(m[i])]
    OBVIOUS
  <2>4. Successor(p) = [form |-> "good", registry |-> g,
                        generation |-> b.generation + 1, rows |-> rows]
    BY <1>5, <2>3 DEF Successor, KeptRow
  <2>5. \A i \in DOMAIN m : rows[i] \in Row /\ rows[i].path = m[i]
    BY <1>2, <2>1, <2>2, <2>3, NewRowTyped
  <2>6. DOMAIN rows = DOMAIN m /\ rows \in [DOMAIN m -> Row]
    BY <2>3, <2>5
  <2>7. \A i, j \in DOMAIN m : rows[i].path = rows[j].path => i = j
    BY <2>1, <2>5 DEF Distinct
  <2>8. \A i \in DOMAIN b.rows :
          i \in DOMAIN m /\ rows[i].path = b.rows[i].path /\ rows[i].want = b.rows[i].want
    BY <2>1, <2>3
  <2> QED BY <1>3, <2>1, <2>2, <2>4, <2>6, <2>7, <2>8
<1> QED BY <1>4, <1>5

LEMMA ReplaceInv ==
  ASSUME CatalogInv, NEW p \in Procs, Replace(p)
  PROVE  CatalogInv'
<1>0. /\ job[p].at = "replace" /\ UNCHANGED <<world, kills>> /\ UNCHANGED world
      /\ registry' = registry
  BY DEF Replace, At, world
<1>1. CASE End(p) /\ UNCHANGED catalog
  BY <1>0, <1>1, EndsInv
<1>2. CASE catalog' = Successor(p) /\ OnlyAt(p, "read back") /\ Holds(p)
  <2>1. "replace" \in CatLabels
    BY DEF CatLabels
  <2>2. regLock = p /\ catLock = p
    BY <1>0, <2>1, HoldsBoth
  <2>3. catalog' \in File /\ Bound(Successor(p))
    BY <1>0, <1>2, SuccessorFacts
  <2>4. Bound(catalog)'
    BY <1>0, <1>2, <2>3, SameTypes DEF Bound, OnePathEach
  <2> QED BY <1>0, <1>2, <2>2, <2>3, <2>4, ReadsBack
<1> QED BY <1>1, <1>2 DEF Replace

-----------------------------------------------------------------------------
(* The rows                                                                *)

LEMMA AtRows ==
  ASSUME CatalogInv, NEW p \in Procs, job[p].at \in RowLabels
  PROVE  /\ regLock = p /\ catLock = p /\ job[p].snap = Now
         /\ Loads(job[p].base, job[p].snap) /\ job[p].todo \subseteq Registered(job[p].snap)
         /\ Registered(job[p].snap) \in SUBSET Ids
         /\ \A i \in Registered(job[p].snap) : PathOf(p, i) \in Places /\ Slug(p, i) \in Slugs
<1>1. job[p].at \in CatLabels /\ job[p].at # "read back"
  BY DEF CatLabels, RowLabels
<1>2. regLock = p /\ catLock = p /\ job[p].snap = Now
  BY <1>1, HoldsBoth
<1>3. /\ Loads(job[p].base, job[p].snap) /\ job[p].todo \subseteq Registered(job[p].snap)
      /\ job[p].base \in File /\ job[p].snap \in 1 .. Now /\ CTyped
  BY Known DEF ClonesOK
<1>4. /\ Registered(job[p].snap) \in SUBSET Ids
      /\ \A i \in Registered(job[p].snap) : Slug(p, i) \in Slugs
  BY <1>3, RegistryFacts DEF Slug
<1>5. \A i \in Registered(job[p].snap) : job[p].base.rows[i] \in Row
  BY <1>3, FileFacts DEF Loads
<1>6. \A i \in Registered(job[p].snap) : PathOf(p, i) \in Places
  BY <1>5, RowFacts DEF PathOf
<1> QED BY <1>2, <1>3, <1>4, <1>6

\* A row is dealt with, whatever became of the disk.
LEMMA DoneInv ==
  ASSUME CatalogInv, NEW p \in Procs, job[p].at \in RowLabels,
         UNCHANGED <<world, catalog, kills>>, regLock' = regLock, catLock' = catLock,
         disk' \in [Places -> Things], NEW i, Done(p, i)
  PROVE  CatalogInv'
<1>1. PICK t : t = job[p].todo \ {i}
  OBVIOUS
<1>2. PICK x : x = [job[p] EXCEPT !.todo = t, !.row = "nobody", !.moves = 0, !.at = "rows"]
  OBVIOUS
<1>3. job[p] \in Jobs /\ t \in SUBSET Ids /\ t \subseteq Registered(job[p].snap)
  BY <1>1, AtRows, Known
<1>4. "rows" \in Labels /\ "rows" \in RowLabels
  BY DEF Labels, RowLabels
<1>5. x \in Jobs
  BY <1>2, <1>3, <1>4 DEF Jobs
<1>6. x.at = "rows" /\ x.base = job[p].base /\ x.snap = job[p].snap /\ x.todo = t
  BY <1>2, <1>3 DEF Jobs
<1>7. job' = [job EXCEPT ![p] = x]
  BY <1>1, <1>2, Known DEF Done
<1>8. /\ regLock = p /\ catLock = p /\ job[p].snap = Now /\ Loads(job[p].base, job[p].snap)
  BY AtRows
<1>9. regLock' = p /\ catLock' = p /\ x.at \in RowLabels
      /\ x.at \notin {"verify", "appeared", "rename"}
      /\ x.todo \subseteq Registered(job[p].snap)
  BY <1>3, <1>4, <1>6, <1>8
<1> QED BY <1>5, <1>6, <1>7, <1>8, <1>9, RowStep

LEMMA DoneHoldsInv ==
  ASSUME CatalogInv, NEW p \in Procs, job[p].at \in RowLabels,
         UNCHANGED <<world, catalog, kills>>, NEW i, Done(p, i), Holds(p)
  PROVE  CatalogInv'
<1>1. regLock' = regLock /\ catLock' = catLock /\ disk' \in [Places -> Things]
  BY Known DEF Holds, CTyped
<1> QED BY <1>1, DoneInv

LEMMA InspectRowInv ==
  ASSUME CatalogInv, NEW p \in Procs, InspectRow(p)
  PROVE  CatalogInv'
<1>1. job[p].at \in RowLabels /\ UNCHANGED <<world, catalog, kills>>
  BY DEF InspectRow, At, RowLabels
<1>2. CASE End(p)
  BY <1>1, <1>2, EndsInv
<1>3. CASE \E i \in job[p].todo : Done(p, i) /\ Holds(p)
  BY <1>1, <1>3, DoneHoldsInv
<1> QED BY <1>2, <1>3 DEF InspectRow

LEMMA FailCloneInv ==
  ASSUME CatalogInv, NEW p \in Procs, FailClone(p)
  PROVE  CatalogInv'
BY EndsInv DEF FailClone

\* What is cloned is what answers to the name now.
LEMMA CloneInv ==
  ASSUME CatalogInv, NEW p \in Procs, Clone(p)
  PROVE  CatalogInv'
<1>1. PICK i \in job[p].todo :
       /\ github[Slug(p, i)] # "nobody"
       /\ disk' = [disk EXCEPT ![p] =
                     Checkout("clean", {Slug(p, i)}, github[Slug(p, i)])]
       /\ job' = [job EXCEPT ![p].at = "verify", ![p].row = i, ![p].moves = moves]
  BY DEF Clone
<1>2. /\ job[p].at \in RowLabels /\ UNCHANGED <<world, catalog, kills>>
      /\ regLock' = regLock /\ catLock' = catLock
  BY DEF Clone, At, RowLabels
<1>3. /\ regLock = p /\ catLock = p /\ job[p].snap = Now /\ Loads(job[p].base, job[p].snap)
      /\ i \in Registered(job[p].snap) /\ i \in Ids /\ Slug(p, i) \in Slugs
      /\ job[p].todo \subseteq Registered(job[p].snap)
  BY <1>2, AtRows
<1>4. CTyped /\ job[p] \in Jobs /\ moves \in Nat
  BY Known DEF CTyped
<1>5. PICK thing : thing = Checkout("clean", {Slug(p, i)}, github[Slug(p, i)])
  OBVIOUS
<1>6. thing \in Things /\ thing.content = github[Slug(p, i)]
  <2>1. github[Slug(p, i)] \in Ids \cup {"nobody"} /\ {Slug(p, i)} \in SUBSET Slugs
    BY <1>3, <1>4 DEF CTyped
  <2> QED BY <1>5, <2>1 DEF Checkout, Things
<1>7. disk' \in [Places -> Things] /\ disk'[p] = thing
  BY <1>1, <1>4, <1>5, <1>6 DEF CTyped, Places
<1>8. PICK x : x = [job[p] EXCEPT !.at = "verify", !.row = i, !.moves = moves]
  OBVIOUS
<1>9. "verify" \in Labels /\ "verify" \in RowLabels
  BY DEF Labels, RowLabels
<1>10. x \in Jobs
  BY <1>3, <1>4, <1>8, <1>9 DEF Jobs
<1>11. /\ x.at = "verify" /\ x.row = i /\ x.moves = moves /\ x.base = job[p].base
       /\ x.snap = job[p].snap /\ x.todo = job[p].todo
  BY <1>4, <1>8 DEF Jobs
<1>12. job' = [job EXCEPT ![p] = x]
  BY <1>1, <1>8, Known
<1>13. /\ x.todo \subseteq Registered(job[p].snap) /\ x.row \in Registered(job[p].snap)
       /\ x.moves <= moves /\ disk'[p].content = github[Slug(p, x.row)]
       /\ x.at \notin {"appeared", "rename"} /\ x.at \in RowLabels
       /\ regLock' = p /\ catLock' = p
  BY <1>2, <1>3, <1>4, <1>6, <1>7, <1>9, <1>11
<1> QED BY <1>2, <1>3, <1>7, <1>10, <1>11, <1>12, <1>13, RowStep

\* A clone that passes names the slug, and is of the registered repository unless
\* GitHub was skipped or changed since.
LEMMA VerifyCloneInv ==
  ASSUME CatalogInv, NEW p \in Procs, VerifyClone(p)
  PROVE  CatalogInv'
<1> DEFINE i == job[p].row
<1>0. /\ job[p].at = "verify" /\ "verify" \in RowLabels
      /\ UNCHANGED <<world, catalog, kills>>
  BY DEF VerifyClone, At, RowLabels
<1>1. CASE End(p)
  BY <1>0, <1>1, EndsInv
<1>2. CASE /\ Verified(disk[p], Slug(p, i)) /\ RemoteAsRegistered(p, i) /\ Holds(p)
           /\ job' = [job EXCEPT ![p].at = "appeared",
                       ![p].moves = IF @ = moves THEN @ ELSE -1]
  <2>1. /\ regLock = p /\ catLock = p /\ job[p].snap = Now /\ Loads(job[p].base, job[p].snap)
        /\ job[p].todo \subseteq Registered(job[p].snap)
    BY <1>0, AtRows
  <2>2. /\ i \in Registered(job[p].snap) /\ job[p] \in Jobs /\ disk \in [Places -> Things]
        /\ job[p].moves = moves => disk[p].content = github[Slug(p, i)]
        /\ moves \in Nat
    BY <1>0, Known DEF ClonesOK, CTyped
  <2>3. PICK n : n = IF job[p].moves = moves THEN job[p].moves ELSE -1
    OBVIOUS
  <2>4. n \in Nat \cup {-1}
    BY <2>2, <2>3
  <2>5. PICK x : x = [job[p] EXCEPT !.at = "appeared", !.moves = n]
    OBVIOUS
  <2>6. "appeared" \in Labels /\ "appeared" \in RowLabels
    BY DEF Labels, RowLabels
  <2>7. x \in Jobs
    BY <2>2, <2>4, <2>5, <2>6 DEF Jobs
  <2>8. /\ x.at = "appeared" /\ x.row = job[p].row /\ x.moves = n /\ x.base = job[p].base
        /\ x.snap = job[p].snap /\ x.todo = job[p].todo /\ x.opts = job[p].opts
    BY <2>2, <2>5 DEF Jobs
  <2>9. job' = [job EXCEPT ![p] = x]
    BY <1>2, <2>3, <2>5, Known
  <2>10. disk[p].content = i \/ "skip github" \in job[p].opts \/ n = -1
    BY <1>2, <2>2, <2>3 DEF RemoteAsRegistered, Identified
  <2>11. regLock' = p /\ catLock' = p /\ disk' = disk
    BY <1>2, <2>1 DEF Holds
  <2>12. /\ Verified(disk'[p], Slug(p, x.row))
         /\ disk'[p].content = x.row \/ "skip github" \in x.opts \/ x.moves = -1
         /\ x.row \in Registered(job[p].snap) /\ x.at \in RowLabels /\ x.at # "verify"
         /\ disk' \in [Places -> Things]
    BY <1>2, <2>2, <2>6, <2>8, <2>10, <2>11
  <2> QED BY <1>0, <2>1, <2>7, <2>8, <2>9, <2>11, <2>12, RowStep
<1> QED BY <1>1, <1>2 DEF VerifyClone

LEMMA StillFreeInv ==
  ASSUME CatalogInv, NEW p \in Procs, StillFree(p)
  PROVE  CatalogInv'
<1>0. /\ job[p].at = "appeared" /\ "appeared" \in RowLabels /\ "rename" \in RowLabels
      /\ "rename" \in Labels /\ UNCHANGED <<world, catalog, kills>>
  BY DEF StillFree, At, RowLabels, Labels
<1>1. CASE End(p)
  BY <1>0, <1>1, EndsInv
<1>2. CASE Goto(p, "rename") /\ Holds(p)
  <2>1. /\ regLock = p /\ catLock = p /\ job[p].snap = Now /\ Loads(job[p].base, job[p].snap)
        /\ job[p].todo \subseteq Registered(job[p].snap)
    BY <1>0, AtRows
  <2>2. /\ job[p].row \in Registered(job[p].snap) /\ disk \in [Places -> Things]
        /\ Verified(disk[p], Slug(p, job[p].row))
        /\ \/ disk[p].content = job[p].row
           \/ "skip github" \in job[p].opts \/ job[p].moves = -1
    BY <1>0, Known DEF ClonesOK, CTyped
  <2>3. PICK x : x = job'[p]
    OBVIOUS
  <2>4. /\ x \in Jobs /\ job' = [job EXCEPT ![p] = x] /\ x.at = "rename"
        /\ x.base = job[p].base /\ x.snap = job[p].snap /\ x.todo = job[p].todo
        /\ x.row = job[p].row /\ x.opts = job[p].opts /\ x.moves = job[p].moves
    BY <1>0, <1>2, <2>3, Labelled
  <2>5. regLock' = p /\ catLock' = p /\ disk' = disk
    BY <1>2, <2>1 DEF Holds
  <2>6. /\ Verified(disk'[p], Slug(p, x.row))
        /\ disk'[p].content = x.row \/ "skip github" \in x.opts \/ x.moves = -1
        /\ x.row \in Registered(job[p].snap) /\ x.at \in RowLabels /\ x.at # "verify"
        /\ disk' \in [Places -> Things] /\ x.todo \subseteq Registered(job[p].snap)
    BY <1>0, <2>1, <2>2, <2>4, <2>5
  <2> QED BY <1>0, <2>1, <2>4, <2>5, <2>6, RowStep
<1> QED BY <1>1, <1>2 DEF StillFree

\* The clone moves to its path; nothing but an empty directory was there.
LEMMA RenameInv ==
  ASSUME CatalogInv, NEW p \in Procs, Rename(p)
  PROVE  CatalogInv'
<1>0. /\ job[p].at = "rename" /\ "rename" \in RowLabels
      /\ UNCHANGED <<world, catalog, kills>>
  BY DEF Rename, At, RowLabels
<1>1. CASE End(p)
  BY <1>0, <1>1, EndsInv
<1>2. CASE /\ disk' = [disk EXCEPT ![PathOf(p, job[p].row)] = disk[p],
                                  ![p] = Thing("nothing")]
           /\ Done(p, job[p].row) /\ UNCHANGED <<regLock, catLock>>
  <2>1. disk \in [Places -> Things] /\ p \in Places
    BY Known DEF CTyped, Places
  <2>2. disk' \in [Places -> Things]
    BY <1>2, <2>1, NothingTyped
  <2> QED BY <1>0, <1>2, <2>2, DoneInv
<1> QED BY <1>1, <1>2 DEF Rename

\* sync goes on to another label with the same row, or a row it may take up.
LEMMA SyncStep ==
  ASSUME CatalogInv, NEW p \in Procs, job[p].at \in RowLabels,
         UNCHANGED <<world, catalog, kills>>, Holds(p),
         NEW x \in Jobs, job' = [job EXCEPT ![p] = x],
         x.at \in {"fetch", "verify again"},
         x.base = job[p].base, x.snap = job[p].snap, x.todo = job[p].todo
  PROVE  CatalogInv'
<1>1. /\ regLock = p /\ catLock = p /\ job[p].snap = Now /\ Loads(job[p].base, job[p].snap)
      /\ job[p].todo \subseteq Registered(job[p].snap)
  BY AtRows
<1>2. regLock' = p /\ catLock' = p /\ disk' \in [Places -> Things]
  BY <1>1, Known DEF Holds, CTyped
<1>3. x.at \in RowLabels /\ x.at \notin {"verify", "appeared", "rename"}
      /\ x.todo \subseteq Registered(job[p].snap)
  BY <1>1 DEF RowLabels
<1> QED BY <1>1, <1>2, <1>3, RowStep

LEMMA VerifyRowInv ==
  ASSUME CatalogInv, NEW p \in Procs, VerifyRow(p)
  PROVE  CatalogInv'
<1>1. job[p].at \in RowLabels /\ UNCHANGED <<world, catalog, kills>>
  BY DEF VerifyRow, At, RowLabels
<1>2. PICK i \in job[p].todo :
        CASE Want(p, i) # "checkout" -> Done(p, i) /\ Holds(p)
         [] Want(p, i) = "checkout" /\ Clean(p, i) ->
              job' = [job EXCEPT ![p].at = "fetch", ![p].row = i] /\ Holds(p)
         [] OTHER -> End(p)
  BY DEF VerifyRow
<1>3. CASE Want(p, i) # "checkout"
  BY <1>1, <1>2, <1>3, DoneHoldsInv
<1>4. CASE Want(p, i) = "checkout" /\ Clean(p, i)
  <2>1. job' = [job EXCEPT ![p].at = "fetch", ![p].row = i] /\ Holds(p)
    BY <1>2, <1>4
  <2>2. job[p] \in Jobs /\ i \in Ids
    BY <1>1, AtRows, Known
  <2>3. PICK x : x = [job[p] EXCEPT !.at = "fetch", !.row = i]
    OBVIOUS
  <2>4. "fetch" \in Labels
    BY DEF Labels
  <2>5. x \in Jobs
    BY <2>2, <2>3, <2>4 DEF Jobs
  <2>6. x.at = "fetch" /\ x.base = job[p].base /\ x.snap = job[p].snap
        /\ x.todo = job[p].todo
    BY <2>2, <2>3 DEF Jobs
  <2>7. job' = [job EXCEPT ![p] = x]
    BY <2>1, <2>3, Known
  <2> QED BY <1>1, <2>1, <2>5, <2>6, <2>7, SyncStep
<1>5. CASE Want(p, i) = "checkout" /\ ~Clean(p, i)
  BY <1>1, <1>2, <1>5, EndsInv
<1> QED BY <1>3, <1>4, <1>5

LEMMA FetchInv ==
  ASSUME CatalogInv, NEW p \in Procs, Fetch(p)
  PROVE  CatalogInv'
<1>1. /\ job[p].at \in RowLabels /\ UNCHANGED <<world, catalog, kills>>
      /\ "verify again" \in Labels
  BY DEF Fetch, At, RowLabels, Labels
<1>2. CASE End(p)
  BY <1>1, <1>2, EndsInv
<1>3. CASE Goto(p, "verify again") /\ Holds(p)
  <2>1. PICK x : x = job'[p]
    OBVIOUS
  <2>2. /\ x \in Jobs /\ job' = [job EXCEPT ![p] = x] /\ x.at = "verify again"
        /\ x.base = job[p].base /\ x.snap = job[p].snap /\ x.todo = job[p].todo
    BY <1>1, <1>3, <2>1, Labelled
  <2> QED BY <1>1, <1>3, <2>2, SyncStep
<1> QED BY <1>2, <1>3 DEF Fetch

LEMMA VerifyAgainInv ==
  ASSUME CatalogInv, NEW p \in Procs, VerifyAgain(p)
  PROVE  CatalogInv'
<1>1. job[p].at \in RowLabels /\ UNCHANGED <<world, catalog, kills>>
  BY DEF VerifyAgain, At, RowLabels
<1>2. CASE Clean(p, job[p].row)
  BY <1>1, <1>2, DoneHoldsInv DEF VerifyAgain
<1>3. CASE ~Clean(p, job[p].row)
  BY <1>1, <1>3, EndsInv DEF VerifyAgain
<1> QED BY <1>2, <1>3

LEMMA FinishInv ==
  ASSUME CatalogInv, NEW p \in Procs, Finish(p)
  PROVE  CatalogInv'
BY EndsInv DEF Finish

-----------------------------------------------------------------------------
(* What happens around the commands                                        *)

LEMMA KillInv ==
  ASSUME CatalogInv, NEW p \in Procs, Kill(p)
  PROVE  CatalogInv'
<1>1. /\ job' = [job EXCEPT ![p] = Idle] /\ UNCHANGED world /\ registry' = registry
      /\ regLock' = Free(regLock, p) /\ catLock' = Free(catLock, p)
      /\ kills' = kills + 1 /\ catalog' = catalog /\ disk' = disk
  BY DEF Kill, world
<1>2. kills' \in Nat /\ catalog' \in File /\ Bound(catalog)
  BY <1>1, SameTypes, Known DEF CTyped, CatalogInv
<1>3. Bound(catalog)'
  BY <1>1, <1>2, SameTypes DEF Bound, OnePathEach
<1> QED BY <1>1, <1>2, <1>3, Ended

\* The registry grows while nobody holds its lock, and what was bound to an earlier
\* generation still is.
LEMMA RegisterInv ==
  ASSUME CatalogInv, Register
  PROVE  CatalogInv'
<1>1. PICK i \in Ids, s \in Slugs :
        /\ regLock = NoOne
        /\ \A j \in Registered(Now) : registry[Now][j] # s
        /\ registry' = Append(registry, [j \in Registered(Now) \cup {i} |->
                                          IF j = i THEN s ELSE registry[Now][j]])
        /\ UNCHANGED <<github, archived, moves, edits, catalog, disk, regLock, catLock, job,
                       kills>>
  BY DEF Register
<1>2. CTyped /\ Bound(catalog) /\ Now \in Nat /\ Now > 0
  BY DEF CatalogInv, CTyped, Now
<1>3. PICK m : m = [j \in Registered(Now) \cup {i} |-> IF j = i THEN s ELSE registry[Now][j]]
  OBVIOUS
<1>4. m \in RegistryMaps
  <2>1. /\ Registered(Now) \in SUBSET Ids /\ Distinct(registry[Now])
        /\ \A j \in Registered(Now) : registry[Now][j] \in Slugs
    BY <1>2, RegistryFacts
  <2>2. m \in [Registered(Now) \cup {i} -> Slugs] /\ Registered(Now) \cup {i} \in SUBSET Ids
    BY <1>3, <2>1
  <2>3. \A j, k \in Registered(Now) \cup {i} : m[j] = m[k] => j = k
    BY <1>1, <1>3, <2>1 DEF Distinct, Registered
  <2>4. Distinct(m)
    BY <2>2, <2>3 DEF Distinct
  <2>5. m \in UNION {[D -> Slugs] : D \in SUBSET Ids}
    BY <2>2
  <2> QED BY <2>4, <2>5 DEF RegistryMaps
<1>5. /\ registry' \in Seq(RegistryMaps) /\ Now' = Now + 1
      /\ \A g \in 1 .. Now : registry'[g] = registry[g]
  BY <1>1, <1>2, <1>3, <1>4 DEF CTyped, Now
<1>6. \A g \in 1 .. Now : g \in 1 .. Now' /\ Registered(g)' = Registered(g)
  BY <1>2, <1>5 DEF Registered
<1>7. \A f \in File : f \in File'
  <2> SUFFICES ASSUME NEW f \in File PROVE f \in File'
    OBVIOUS
  <2>1. 1 .. Now \subseteq 1 .. Now'
    BY <1>6
  <2> QED BY <2>1 DEF File
<1>8. \A j \in Jobs : j \in Jobs'
  <2> SUFFICES ASSUME NEW j \in Jobs PROVE j \in Jobs'
    OBVIOUS
  <2>1. j.snap \in 1 .. Now' /\ j.base \in File'
    BY <1>6, <1>7, JobFacts
  <2> QED BY <2>1 DEF Jobs
<1>9. job' \in [Procs -> Jobs]'
  BY <1>1, <1>2, <1>8 DEF CTyped
<1>10. CTyped'
  BY <1>1, <1>2, <1>5, <1>7, <1>9 DEF CTyped
<1>11. \A f \in File : Bound(f) =>
         (f.form = "good" => DOMAIN f.rows = Registered(f.registry)' /\ OnePathEach(f))
  BY <1>6, FileFacts DEF Bound
<1>12. Bound(catalog)'
  BY <1>1, <1>2, <1>11 DEF CTyped, Bound, OnePathEach
<1>13. \A q \in Procs : JobOK(q)'
  <2> SUFFICES ASSUME NEW q \in Procs PROVE JobOK(q)'
    OBVIOUS
  <2>1. /\ LocksOK(q) /\ WritesOK(q) /\ job[q].snap \in 1 .. Now /\ job[q].base \in File
        /\ job' = job
    BY <1>1, Known
  <2>2. job[q].at \notin RegLabels /\ job[q].at \notin CatLabels /\ job[q].at \notin RowLabels
    BY <1>1, <2>1, CatalogAssumption DEF LocksOK, RegLabels, CatLabels
  <2>3. LocksOK(q)'
    BY <1>1, <2>1, <2>2 DEF LocksOK
  <2>4. Bound(job[q].base)'
    BY <1>11, <2>1 DEF WritesOK, Bound, OnePathEach
  <2>5. Complete(q)' <=> Complete(q)
    BY <1>6, <2>1 DEF Complete, Distinct
  <2>6. WritesOK(q)'
    BY <2>1, <2>2, <2>4, <2>5 DEF WritesOK, CatLabels
  <2>7. ClonesOK(q)'
    BY <2>1, <2>2 DEF ClonesOK, RowLabels
  <2> QED BY <2>3, <2>6, <2>7 DEF JobOK
<1> QED BY <1>10, <1>12, <1>13 DEF CatalogInv

LEMMA MoveInv ==
  ASSUME CatalogInv, Move
  PROVE  CatalogInv'
<1>1. /\ moves' = moves + 1 /\ registry' = registry /\ edits' = edits /\ catalog' = catalog
      /\ disk' = disk /\ regLock' = regLock /\ catLock' = catLock /\ job' = job
      /\ kills' = kills
  BY DEF Move
<1>2. CTyped /\ Bound(catalog) /\ moves \in Nat /\ edits \in Nat
  BY DEF CatalogInv, CTyped
<1>3. github' \in [Slugs -> Ids \cup {"nobody"}] /\ archived' \subseteq Ids
  BY <1>2 DEF Move, CTyped
<1>4. CTyped'
  BY <1>1, <1>2, <1>3, SameTypes DEF CTyped
<1>5. Bound(catalog)'
  BY <1>1, <1>2, SameTypes DEF Bound, OnePathEach
<1>6. \A q \in Procs : JobOK(q)'
  BY <1>1, <1>2, Stays
<1> QED BY <1>4, <1>5, <1>6 DEF CatalogInv

LEMMA EditInv ==
  ASSUME CatalogInv, Edit
  PROVE  CatalogInv'
<1>1. /\ edits' = edits + 1 /\ registry' = registry /\ moves' = moves /\ github' = github
      /\ archived' = archived /\ regLock' = regLock /\ catLock' = catLock /\ job' = job
      /\ kills' = kills
  BY DEF Edit
<1>2. CTyped /\ Bound(catalog) /\ moves \in Nat /\ edits \in Nat
  BY DEF CatalogInv, CTyped
<1>3. ASSUME catalog' \in File, Bound(catalog)', disk' \in [Places -> Things],
             \A q \in Procs : job[q].at # "idle" => disk'[q] = disk[q]
      PROVE  CatalogInv'
  <2>1. CTyped'
    BY <1>1, <1>2, <1>3, SameTypes DEF CTyped
  <2>2. \A q \in Procs : JobOK(q)'
    <3> SUFFICES ASSUME NEW q \in Procs PROVE JobOK(q)'
      OBVIOUS
    <3>1. regLock = q => disk'[q] = disk[q]
      <4>1. regLock = q => job[q].at \in RegLabels
        BY Known DEF LocksOK
      <4>2. "idle" \notin RegLabels
        BY DEF RegLabels, CatLabels, RowLabels
      <4> QED BY <1>3, <4>1, <4>2
    <3>2. /\ edits' \in Nat /\ edits' >= edits /\ edits' > edits
          /\ moves' \in Nat /\ moves' >= moves
      BY <1>1, <1>2
    <3>3. /\ job'[q] = job[q] /\ (regLock' = q <=> regLock = q)
          /\ (catLock' = q <=> catLock = q)
      BY <1>1
    <3> QED BY <1>1, <3>1, <3>2, <3>3, Stays
  <2> QED BY <1>3, <2>1, <2>2 DEF CatalogInv
<1>4. ASSUME disk' = disk PROVE disk' \in [Places -> Things] /\
        \A q \in Procs : job[q].at # "idle" => disk'[q] = disk[q]
  BY <1>2, <1>4 DEF CTyped
<1>5. ASSUME catalog' = catalog PROVE catalog' \in File /\ Bound(catalog)'
  BY <1>1, <1>2, <1>5, SameTypes DEF CTyped, Bound, OnePathEach
<1>6. ASSUME catalog.form = "good", UNCHANGED disk,
             NEW i \in DOMAIN catalog.rows, NEW w \in {"checkout", "manual", "absent"},
             catalog' = [catalog EXCEPT !.rows[i].want = w]
      PROVE  CatalogInv'
  <2>1. /\ catalog.registry \in 1 .. Now /\ DOMAIN catalog.rows \in SUBSET Ids
        /\ catalog.rows \in [DOMAIN catalog.rows -> Row] /\ catalog.generation \in Nat
        /\ catalog = [form |-> "good", registry |-> catalog.registry,
                      generation |-> catalog.generation, rows |-> catalog.rows]
    BY <1>2, <1>6, FileFacts DEF CTyped
  <2>2. PICK r : r = [catalog.rows[i] EXCEPT !.want = w]
    OBVIOUS
  <2>3. r \in Row /\ r.path = catalog.rows[i].path
    BY <1>6, <2>1, <2>2 DEF Row
  <2>4. PICK rows : rows = [catalog.rows EXCEPT ![i] = r]
    OBVIOUS
  <2>5. /\ rows \in [DOMAIN catalog.rows -> Row] /\ DOMAIN rows = DOMAIN catalog.rows
        /\ \A j \in DOMAIN rows : rows[j].path = catalog.rows[j].path
    BY <2>1, <2>3, <2>4
  <2>6. catalog' = [form |-> "good", registry |-> catalog.registry,
                    generation |-> catalog.generation, rows |-> rows]
    <3>1. catalog' = [catalog EXCEPT !.rows = rows]
      BY <1>6, <2>2, <2>4
    <3>2. PICK g, n, old : catalog = [form |-> "good", registry |-> g, generation |-> n,
                                      rows |-> old]
      BY <2>1
    <3>3. catalog.registry = g /\ catalog.generation = n
      BY <3>2
    <3>4. catalog' = [form |-> "good", registry |-> g, generation |-> n, rows |-> rows]
      BY <3>1, <3>2
    <3> QED BY <3>3, <3>4
  <2>7. catalog' \in File
    BY <1>1, <2>1, <2>5, <2>6, FileTyped, SameTypes
  <2>8. catalog'.rows = rows /\ catalog'.registry = catalog.registry
    BY <2>6
  <2>9. Bound(catalog)'
    BY <1>1, <1>2, <1>6, <2>5, <2>8, SameTypes DEF Bound, OnePathEach
  <2> QED BY <1>3, <1>4, <1>6, <2>7, <2>9
<1>7. ASSUME catalog' = NoFile("missing"), UNCHANGED disk
      PROVE  CatalogInv'
  <2>1. catalog' \in File /\ Bound(catalog)'
    BY <1>1, <1>7, NoFileTyped, SameTypes DEF Bound
  <2> QED BY <1>3, <1>4, <1>7, <2>1
<1>8. ASSUME NEW x \in Places, \A p \in Procs : x = p => At(p, "idle"),
             disk' = [disk EXCEPT ![x] = Thing("nothing")], UNCHANGED catalog
      PROVE  CatalogInv'
  <2>1. disk' \in [Places -> Things]
    BY <1>2, <1>8, NothingTyped DEF CTyped
  <2>2. \A q \in Procs : job[q].at # "idle" => disk'[q] = disk[q]
    BY <1>2, <1>8 DEF CTyped, At, Places
  <2> QED BY <1>3, <1>5, <1>8, <2>1, <2>2
<1>9. ASSUME NEW x \in Slugs, NEW t \in Placeable, disk' = [disk EXCEPT ![x] = t],
             UNCHANGED catalog
      PROVE  CatalogInv'
  <2>1. t \in Things
    BY DEF Placeable, Things, Thing, Checkout
  <2>2. disk' \in [Places -> Things] /\ \A q \in Procs : disk'[q] = disk[q]
    BY <1>2, <1>9, <2>1, CatalogAssumption DEF CTyped, Places
  <2> QED BY <1>3, <1>5, <1>9, <2>2
<1> QED BY <1>6, <1>7, <1>8, <1>9 DEF Edit

-----------------------------------------------------------------------------
(* The invariant holds                                                     *)

LEMMA CatalogInitInv == CatalogInit => CatalogInv
<1> SUFFICES ASSUME CatalogInit PROVE CatalogInv
  OBVIOUS
<1>1. PICK r \in UNION {[D -> Slugs] : D \in SUBSET Ids} : registry = <<r>> /\ Distinct(r)
  BY DEF CatalogInit
<1>2. PICK D \in SUBSET Ids : r \in [D -> Slugs]
  BY <1>1
<1>3. r \in RegistryMaps
  BY <1>1 DEF RegistryMaps
<1>4. /\ registry \in Seq(RegistryMaps) /\ Now = 1 /\ registry[1] = r /\ Registered(1) = D
      /\ Now \in Nat /\ Now > 0
  BY <1>1, <1>2, <1>3 DEF Now, Registered
<1>5. catalog \in File /\ Bound(catalog)
  <2>1. CASE catalog = NoFile("missing")
    BY <2>1, NoFileTyped
  <2>2. CASE catalog = [form |-> "good", registry |-> 1, generation |-> 0,
                        rows |-> [i \in Registered(1) |-> NewRow(registry[1][i])]]
    <3>1. PICK rows : rows = [i \in D |-> NewRow(r[i])]
      OBVIOUS
    <3>2. catalog = [form |-> "good", registry |-> 1, generation |-> 0, rows |-> rows]
      BY <1>4, <2>2, <3>1
    <3>3. \A i \in D : r[i] \in Places
      BY <1>2 DEF Places
    <3>4. \A i \in D : rows[i] \in Row /\ rows[i].path = r[i]
      BY <3>1, <3>3, NewRowTyped
    <3>5. rows \in [D -> Row] /\ DOMAIN rows = D
      BY <3>1, <3>4
    <3>6. 1 \in 1 .. Now /\ 0 \in Nat
      BY <1>4
    <3>7. catalog \in File
      BY <3>2, <3>5, <3>6, FileTyped
    <3>8. catalog.rows = rows /\ catalog.registry = 1
      BY <3>2
    <3>9. \A i, j \in D : rows[i].path = rows[j].path => i = j
      BY <1>1, <1>2, <3>4 DEF Distinct
    <3>10. Bound(catalog)
      BY <1>4, <3>5, <3>8, <3>9 DEF Bound, OnePathEach
    <3> QED BY <3>7, <3>10
  <2> QED BY <2>1, <2>2 DEF CatalogInit
<1>6. Idle \in Jobs /\ \A p \in Procs : job[p] = Idle
  BY <1>4, IdleTyped DEF CatalogInit
<1>7. job \in [Procs -> Jobs]
  BY <1>6 DEF CatalogInit
<1>8. /\ github \in [Slugs -> Ids \cup {"nobody"}] /\ archived \subseteq Ids
      /\ regLock = NoOne /\ catLock = NoOne /\ moves = 0 /\ edits = 0 /\ kills = 0
      /\ disk \in [Places -> Things]
  BY NothingTyped DEF CatalogInit
<1>9. CTyped
  BY <1>4, <1>5, <1>7, <1>8 DEF CTyped
<1>10. \A p \in Procs : JobOK(p)
  <2> SUFFICES ASSUME NEW p \in Procs PROVE JobOK(p)
    OBVIOUS
  <2>1. Idle.at = "idle" /\ Idle.cmd = "none" /\ Idle.base = NoFile("missing")
    BY DEF Idle
  <2>2. /\ job[p].at = "idle" /\ job[p].cmd = "none"
        /\ job[p].base = NoFile("missing")
    BY <1>6, <2>1
  <2>3. LocksOK(p)
    BY <1>8, <2>2, CatalogAssumption DEF LocksOK, RegLabels, CatLabels, RowLabels
  <2>4. WritesOK(p)
    BY <2>2, NoFileTyped DEF WritesOK
  <2>5. ClonesOK(p)
    BY <2>2 DEF ClonesOK, RowLabels
  <2> QED BY <2>3, <2>4, <2>5 DEF JobOK
<1> QED BY <1>5, <1>9, <1>10 DEF CatalogInv

LEMMA UnchangedInv ==
  ASSUME CatalogInv, UNCHANGED vars
  PROVE  CatalogInv'
<1>1. /\ registry' = registry /\ github' = github /\ archived' = archived
      /\ moves' = moves /\ edits' = edits /\ catalog' = catalog /\ disk' = disk
      /\ regLock' = regLock /\ catLock' = catLock /\ job' = job /\ kills' = kills
  BY DEF vars, world
<1>2. CTyped /\ Bound(catalog) /\ moves \in Nat /\ edits \in Nat
  BY DEF CatalogInv, CTyped
<1>3. CTyped'
  BY <1>1, <1>2, SameTypes DEF CTyped
<1>4. Bound(catalog)'
  BY <1>1, <1>2, SameTypes DEF Bound, OnePathEach
<1>5. \A q \in Procs : JobOK(q)'
  BY <1>1, <1>2, Stays
<1> QED BY <1>3, <1>4, <1>5 DEF CatalogInv

LEMMA StepInv ==
  ASSUME CatalogInv, NEW p \in Procs, Step(p)
  PROVE  CatalogInv'
<1>1. CASE Load(p) \/ Hosted(p) \/ LockRegistry(p) \/ LockCatalog(p) \/ Reload(p)
  BY <1>1, LoadInv, HostedInv, LockRegistryInv, LockCatalogInv, ReloadInv
<1>2. CASE \/ Discover(p) \/ Create(p) \/ WriteNew(p) \/ FailWrite(p) \/ LoadStale(p)
           \/ Observe(p) \/ Replace(p) \/ ReadBack(p)
  BY <1>2, DiscoverInv, CreateInv, WriteNewInv, FailWriteInv, LoadStaleInv, ObserveInv,
     ReplaceInv, ReadBackInv
<1>3. CASE \/ InspectRow(p) \/ Clone(p) \/ FailClone(p) \/ VerifyClone(p) \/ StillFree(p)
           \/ Rename(p)
  BY <1>3, InspectRowInv, CloneInv, FailCloneInv, VerifyCloneInv, StillFreeInv, RenameInv
<1>4. CASE VerifyRow(p) \/ Fetch(p) \/ VerifyAgain(p) \/ Finish(p)
  BY <1>4, VerifyRowInv, FetchInv, VerifyAgainInv, FinishInv
<1> QED BY <1>1, <1>2, <1>3, <1>4 DEF Step

LEMMA CatalogNextInv == CatalogInv /\ [CatalogNext]_vars => CatalogInv'
<1> SUFFICES ASSUME CatalogInv, [CatalogNext]_vars PROVE CatalogInv'
  OBVIOUS
<1>1. CASE World
  BY <1>1, RegisterInv, MoveInv, EditInv DEF World
<1>2. CASE \E p \in Procs : Start(p) \/ Step(p) \/ Kill(p)
  BY <1>2, StartInv, StepInv, KillInv
<1>3. CASE UNCHANGED vars
  BY <1>3, UnchangedInv
<1> QED BY <1>1, <1>2, <1>3 DEF CatalogNext

LEMMA CatalogAlways == CatalogSpec => []CatalogInv
BY CatalogInitInv, CatalogNextInv, PTL DEF CatalogSpec

-----------------------------------------------------------------------------
(* The theorems                                                            *)

\* Whatever commands, edits and kills are interleaved, the catalog is missing, torn by a
\* kill during init, or whole: bound to one generation of the registry, with a row for
\* each of its ids and no path in two rows; and the locks are nested.
THEOREM CatalogTypeCorrect == CatalogSpec => []CatalogTypeOK
<1>1. CatalogInv => CatalogTypeOK
  <2> SUFFICES ASSUME CatalogInv PROVE CatalogTypeOK
    OBVIOUS
  <2>1. CTyped /\ Bound(catalog)
    BY DEF CatalogInv
  <2>2. \A g \in 1 .. Now : Registered(g) \subseteq Ids /\ Distinct(registry[g])
    BY <2>1, RegistryFacts
  <2>3. \A p \in Procs : job[p].base \in File /\ job[p].at \in Labels
    BY Known, JobFacts
  <2>4. catLock # NoOne => catLock = regLock
    <3> SUFFICES ASSUME catLock # NoOne PROVE catLock = regLock
      OBVIOUS
    <3>1. catLock \in Procs
      BY <2>1 DEF CTyped
    <3>2. job[catLock].at \in CatLabels
      BY <3>1, Known DEF LocksOK
    <3> QED BY <3>1, <3>2, HoldsBoth
  <2>5. catalog.form = "good" =>
       /\ DOMAIN catalog.rows = Registered(catalog.registry)
       /\ Distinct([i \in DOMAIN catalog.rows |-> catalog.rows[i].path])
    BY <2>1 DEF Bound, OnePathEach, Distinct
  <2>6. /\ github \in [Slugs -> Ids \cup {"nobody"}] /\ archived \subseteq Ids
        /\ catalog \in File /\ \A x \in Places : disk[x] \in Things
    BY <2>1 DEF CTyped
  <2> QED BY <2>2, <2>3, <2>4, <2>5, <2>6 DEF CatalogTypeOK
<1> QED BY <1>1, CatalogAlways, PTL

\* reconcile and refresh keep every row's path and policy unless the operator edits the
\* catalog after they read it under their locks and before they replace it.
THEOREM RowsAreKept == CatalogSpec => RowsKept
<1>1. ASSUME CatalogInv, NEW p \in Procs, Replace(p), catalog' # catalog,
             edits = job[p].edits
      PROVE  \A i \in DOMAIN catalog.rows :
           /\ i \in DOMAIN catalog'.rows
           /\ catalog'.rows[i].path = catalog.rows[i].path
           /\ catalog'.rows[i].want = catalog.rows[i].want
  <2>1. job[p].at = "replace" /\ catalog' = Successor(p)
    BY <1>1 DEF Replace, At
  <2>2. catalog = job[p].base
    BY <1>1, <2>1, Known DEF WritesOK
  <2> QED BY <1>1, <2>1, <2>2, SuccessorFacts
<1>2. CatalogInv /\ [CatalogNext]_vars =>
       [\A p \in Procs :
         Replace(p) /\ catalog' # catalog /\ catalog.form = "good"
                    /\ edits = job[p].edits =>
           \A i \in DOMAIN catalog.rows :
             /\ i \in DOMAIN catalog'.rows
             /\ catalog'.rows[i].path = catalog.rows[i].path
             /\ catalog'.rows[i].want = catalog.rows[i].want]_vars
  BY <1>1
<1> QED BY <1>2, CatalogAlways, PTL DEF CatalogSpec, RowsKept

\* At its end a command changes no place but its own temporary one.
LEMMA EndsAlone ==
  ASSUME CTyped, NEW p \in Procs, End(p), NEW x \in Places \ {p}
  PROVE  disk'[x] = disk[x]
BY DEF End, CTyped

\* No command replaces or removes a directory with anything in it: what appears at a
\* path after it was found free is left alone.
THEOREM NothingIsOverwritten == CatalogSpec => NothingOverwritten
<1>1. ASSUME CatalogInv, NEW p \in Procs, Step(p) \/ Kill(p), NEW x \in Places \ {p},
             disk'[x] # disk[x]
      PROVE  disk[x].kind \in {"nothing", "empty"}
  <2>1. CTyped /\ disk \in [Places -> Things]
    BY <1>1 DEF CatalogInv, CTyped
  <2>2. ~End(p) /\ disk' # disk
    BY <1>1, <2>1, EndsAlone
  <2>3. ~Kill(p)
    BY <2>2 DEF Kill
  <2>4. ~(\/ Load(p) \/ Hosted(p) \/ LockRegistry(p) \/ LockCatalog(p) \/ Reload(p))
    BY <2>2 DEF Load, Hosted, LockRegistry, LockCatalog, Reload, Holds
  <2>5. ~(\/ Discover(p) \/ Create(p) \/ WriteNew(p) \/ FailWrite(p) \/ LoadStale(p)
          \/ Observe(p) \/ Replace(p) \/ ReadBack(p))
    BY <2>2 DEF Discover, Create, WriteNew, FailWrite, LoadStale, Observe, Replace,
                ReadBack, Holds
  <2>6. ~(\/ InspectRow(p) \/ FailClone(p) \/ VerifyClone(p) \/ StillFree(p))
    BY <2>2 DEF InspectRow, FailClone, VerifyClone, StillFree, Holds
  <2>7. ~(\/ VerifyRow(p) \/ Fetch(p) \/ VerifyAgain(p) \/ Finish(p))
    <3>1. ~VerifyRow(p)
      BY <2>2 DEF VerifyRow, Holds
    <3>2. ~(Fetch(p) \/ VerifyAgain(p) \/ Finish(p))
      BY <2>2 DEF Fetch, VerifyAgain, Finish, Holds
    <3> QED BY <3>1, <3>2
  <2>8. ~Clone(p)
    BY <1>1, <2>1 DEF Clone
  <2>9. Rename(p)
    BY <1>1, <2>3, <2>4, <2>5, <2>6, <2>7, <2>8 DEF Step
  <2>10. Renameable(PathOf(p, job[p].row)) /\
         disk' = [disk EXCEPT ![PathOf(p, job[p].row)] = disk[p], ![p] = Thing("nothing")]
    BY <2>2, <2>9 DEF Rename
  <2>11. x = PathOf(p, job[p].row)
    BY <1>1, <2>1, <2>10
  <2> QED BY <2>10, <2>11 DEF Renameable
<1>2. CatalogInv /\ [CatalogNext]_vars =>
       [\A p \in Procs : Step(p) \/ Kill(p) =>
         \A x \in Places \ {p} :
           disk'[x] # disk[x] => disk[x].kind \in {"nothing", "empty"}]_vars
  BY <1>1
<1> QED BY <1>2, CatalogAlways, PTL DEF CatalogSpec, NothingOverwritten

\* What materialize installs has the slug that the registry has for the id at that
\* moment, and is the registered repository unless GitHub was not to be asked or changed
\* between the clone and the question.
THEOREM InstallsWhatIsRegistered == CatalogSpec => InstalledAsRegistered
<1>1. ASSUME CatalogInv, NEW p \in Procs, Rename(p), job'[p].at = "rows"
      PROVE  LET i == job[p].row IN
         /\ disk'[PathOf(p, i)].remotes = {registry[Now][i]}
         /\ \/ disk'[PathOf(p, i)].content = i
            \/ "skip github" \in job[p].opts \/ job[p].moves = -1
  <2> DEFINE i == job[p].row
             place == PathOf(p, i)
  <2>1. job[p].at = "rename" /\ "rename" \in RowLabels
    BY <1>1 DEF Rename, At, RowLabels
  <2>2. /\ i \in Registered(job[p].snap) /\ Verified(disk[p], Slug(p, i))
        /\ \/ disk[p].content = i \/ "skip github" \in job[p].opts \/ job[p].moves = -1
        /\ disk \in [Places -> Things] /\ job \in [Procs -> Jobs]
    BY <1>1, <2>1, Known DEF ClonesOK, CTyped
  <2>3. job[p].snap = Now /\ place \in Places
    BY <1>1, <2>1, <2>2, AtRows
  <2>4. ~End(p)
    <3>1. Idle.at = "idle"
      BY DEF Idle
    <3> QED BY <1>1, <2>2, <3>1 DEF End
  <2>5. Renameable(place) /\ disk' = [disk EXCEPT ![place] = disk[p], ![p] = Thing("nothing")]
    BY <1>1, <2>4 DEF Rename
  <2>6. place # p
    BY <2>2, <2>5 DEF Renameable, Verified
  <2>7. disk'[place] = disk[p]
    BY <2>2, <2>3, <2>5, <2>6
  <2> QED BY <2>2, <2>3, <2>7 DEF Verified, Slug
<1>2. CatalogInv /\ [CatalogNext]_vars =>
       [\A p \in Procs : Rename(p) /\ job'[p].at = "rows" =>
         LET i == job[p].row IN
           /\ disk'[PathOf(p, i)].remotes = {registry[Now][i]}
           /\ \/ disk'[PathOf(p, i)].content = i
              \/ "skip github" \in job[p].opts \/ job[p].moves = -1]_vars
  BY <1>1
<1> QED BY <1>2, CatalogAlways, PTL DEF CatalogSpec, InstalledAsRegistered
=============================================================================
