------------------------------ MODULE Catalog ------------------------------
(***************************************************************************)
(* The checkout catalog and the materializer                               *)
(* (scripts/portfolio_materializer.py).  The catalog binds the ids of one  *)
(* registry generation to paths below the portfolio root.  init creates    *)
(* it, reconcile extends it after the registry has grown, refresh copies   *)
(* GitHub's archive states into it, materialize clones what is missing and *)
(* sync fetches what is there.                                             *)
(*                                                                         *)
(* A command reads registry and catalog without a lock, then takes the     *)
(* registry lock and after it the catalog lock, and goes on only if what   *)
(* it read still stands.  The operator edits files, moves checkouts and    *)
(* renames repositories on GitHub without any of these locks.              *)
(*                                                                         *)
(* The registry is a sequence of maps from ids to slugs, one for each      *)
(* generation.  What lies at a path is its kind, the slugs its remotes     *)
(* name and the repository whose content it holds, which no command sees.  *)
(***************************************************************************)
EXTENDS Integers, Sequences

CONSTANTS
  Procs,          \* the processes that run a command
  Ids,            \* repository ids
  Slugs,          \* GitHub names
  Commands,       \* the subcommands they may run
  NoOne,          \* holder of a free lock
  MaxRegistry,    \* bound: registry generations
  MaxEvents       \* bound: changes on GitHub, edits and kills together

ASSUME CatalogAssumption ==
  /\ NoOne \notin Procs /\ Slugs \cap Procs = {}
  /\ Commands \subseteq {"init", "reconcile", "refresh", "materialize", "sync"}
  /\ "nobody" \notin Ids
  /\ {MaxRegistry, MaxEvents} \subseteq Nat

VARIABLES
  registry,     \* the generations of the registry: maps from ids to slugs
  github,       \* [Slugs -> the repository a clone of this name gets]
  archived,     \* the repositories GitHub shows as archived
  catalog,      \* the catalog file
  disk,         \* [Places -> what lies there]
  regLock, catLock,  \* holders of the two locks
  job,          \* [Procs -> what it does, and with what]
  moves, edits, \* changes on GitHub and by the operator so far
  kills         \* processes killed so far

world == <<registry, github, archived, moves, edits>>
vars == <<world, catalog, disk, regLock, catLock, job, kills>>

\* The path named after a slug, and a process' temporary directory.
Places == Slugs \cup Procs

Thing(kind) == [kind |-> kind, remotes |-> {}, content |-> "nobody"]
Checkout(kind, slugs, id) == [kind |-> kind, remotes |-> slugs, content |-> id]
Things == {Thing(k) : k \in {"nothing", "empty", "foreign"}} \cup
          [kind : {"clean", "dirty", "linked"}, remotes : SUBSET Slugs,
           content : Ids \cup {"nobody"}]

Present(place) == disk[place].kind # "nothing"
IsCheckout(thing) == thing.kind \in {"clean", "dirty", "linked"}

\* verify_checkout: a standalone full clone of exactly this slug.
Verified(thing, slug) ==
  thing.kind \in {"clean", "dirty"} /\ thing.remotes = {slug}

NoFile(form) == [form |-> form, registry |-> 0, generation |-> 0, rows |-> <<>>]
Row == [path : Places, life : {"active", "archived"},
        want : {"checkout", "manual", "absent"}]

Now == Len(registry)
Registered(g) == DOMAIN registry[g]

\* What a command remembers; nothing once it has ended.
Idle == [at |-> "idle", cmd |-> "none", opts |-> {}, snap |-> 1,
         base |-> NoFile("missing"), maps |-> <<>>, todo |-> {}, row |-> "nobody",
         seen |-> {}, moves |-> 0, edits |-> 0]

Slug(p, i) == registry[job[p].snap][i]

\* load_catalog: bound to this generation, one row for each of its ids.
\* A stale catalog may lack ids, and is refused when it has others.
Loads(file, g) ==
  file.form = "good" /\ file.registry = g /\ DOMAIN file.rows = Registered(g)
LoadsStale(file, g) ==
  /\ file.form = "good" /\ file.registry <= g
  /\ DOMAIN file.rows \subseteq Registered(g)
  /\ file.registry = g => DOMAIN file.rows = Registered(g)

NewRow(path) == [path |-> path, life |-> "active", want |-> "checkout"]

\* _validate_mapping_paths: no two ids at one path.
Distinct(f) == \A i, j \in DOMAIN f : f[i] = f[j] => i = j

CatalogInit ==
  /\ registry \in {<<r>> : r \in {f \in UNION {[D -> Slugs] : D \in SUBSET Ids} :
                                    DOMAIN f # {} /\ Distinct(f)}}
  /\ github \in {g \in [Slugs -> Ids \cup {"nobody"}] :
                   /\ \A i \in Registered(1) : g[registry[1][i]] = i
                   /\ \A s, t \in Slugs : g[s] = g[t] => s = t \/ g[s] = "nobody"}
  /\ archived = {}
  /\ catalog \in {NoFile("missing"),
       [form |-> "good", registry |-> 1, generation |-> 0,
        rows |-> [i \in Registered(1) |-> NewRow(registry[1][i])]]}
  /\ disk = [x \in Places |-> Thing("nothing")]
  /\ regLock = NoOne /\ catLock = NoOne
  /\ job = [p \in Procs |-> Idle]
  /\ moves = 0 /\ edits = 0 /\ kills = 0

-----------------------------------------------------------------------------
(* How a command begins and ends.                                          *)

At(p, label) == job[p].at = label
Goto(p, label) == job' = [job EXCEPT ![p].at = label]

\* The last thing a command does needs nothing that it remembers.
OnlyAt(p, label) == job' = [job EXCEPT ![p] = [Idle EXCEPT !.at = label]]

Holds(p) == UNCHANGED <<regLock, catLock, disk>>

Free(lock, p) == IF lock = p THEN NoOne ELSE lock

\* There is a clone in the process' temporary directory.
Cloning(p) == job[p].at \in {"verify", "appeared", "rename"}

\* Both context managers release, and a temporary clone is removed.
End(p) ==
  /\ job' = [job EXCEPT ![p] = Idle]
  /\ regLock' = Free(regLock, p) /\ catLock' = Free(catLock, p)
  /\ disk' = IF Cloning(p) THEN [disk EXCEPT ![p] = Thing("nothing")] ELSE disk

Options(c) ==
  CASE c \in {"init", "reconcile"} -> {"skip linked", "skip unverified"}
    [] c \in {"materialize", "sync"} -> {"skip github"}
    [] c = "refresh" -> {}

\* The command reads the pair; init discovers and reconcile locks next.
Start(p) == \E c \in Commands : \E o \in SUBSET Options(c) :
  /\ At(p, "idle") /\ ~Present(p)
  /\ job' = [job EXCEPT ![p] = [Idle EXCEPT
       !.cmd = c, !.opts = o, !.snap = Now,
       !.at = CASE c = "init" -> "discover" [] c = "reconcile" -> "registry"
                [] OTHER -> "load"]]
  /\ UNCHANGED <<world, catalog, disk, regLock, catLock, kills>>

Load(p) ==
  /\ At(p, "load")
  /\ IF Loads(catalog, job[p].snap)
     THEN /\ job' = [job EXCEPT ![p].base = catalog,
            ![p].at = IF "skip github" \in job[p].opts THEN "registry" ELSE "hosted"]
          /\ Holds(p)
     ELSE End(p)
  /\ UNCHANGED <<world, catalog, kills>>

Identified(p, i) == github[Slug(p, i)] = i
LifeOf(i) == IF i \in archived THEN "archived" ELSE "active"
Life(p, i) == job[p].base.rows[i].life

\* The hosted registry and, except for refresh, the archive states are compared.
Hosted(p) ==
  /\ At(p, "hosted")
  /\ IF \A i \in Registered(job[p].snap) :
          Identified(p, i) /\ (job[p].cmd = "refresh" \/ Life(p, i) = LifeOf(i))
     THEN Goto(p, "registry") /\ Holds(p)
     ELSE End(p)
  /\ UNCHANGED <<world, catalog, kills>>

\* Mutant: the registry is locked and not read again.
RegistryAssumed(p) == job[p].snap <= Now

RegistryCurrent(p) == job[p].snap = Now

\* _locked_registry_snapshot: a snapshot that went stale ends the command.
LockRegistry(p) ==
  /\ At(p, "registry") /\ regLock = NoOne
  /\ IF RegistryCurrent(p)
     THEN /\ regLock' = p
          /\ job' = [job EXCEPT ![p].at = IF job[p].cmd = "refresh" THEN "observe"
                                            ELSE "catalog",
               ![p].todo = IF job[p].cmd = "refresh" THEN Registered(job[p].snap)
                           ELSE {}]
          /\ UNCHANGED <<catLock, disk>>
     ELSE End(p)
  /\ UNCHANGED <<world, catalog, kills>>

LockCatalog(p) ==
  /\ At(p, "catalog") /\ catLock = NoOne
  /\ catLock' = p
  /\ Goto(p, CASE job[p].cmd = "init" -> "create" [] job[p].cmd = "reconcile" -> "stale"
               [] OTHER -> "reload")
  /\ UNCHANGED <<world, catalog, disk, regLock, kills>>

Current(p) == catalog = job[p].base

\* Nothing to refresh: GitHub shows what the rows already say.
AsShown(p) ==
  \A i \in DOMAIN job[p].base.rows : Life(p, i) = "archived" <=> i \in job[p].seen

\* _reload_catalog_snapshot: what was read before the lock must still stand.
Reload(p) ==
  /\ At(p, "reload")
  /\ IF ~Current(p) \/ ~Loads(catalog, job[p].snap)
        \/ (job[p].cmd = "refresh" /\ AsShown(p))
     THEN End(p)
     ELSE /\ job' = [job EXCEPT ![p].edits = edits,
               ![p].todo = IF job[p].cmd = "refresh" THEN {} ELSE DOMAIN catalog.rows,
               ![p].at = IF job[p].cmd = "refresh" THEN "replace" ELSE "rows"]
          /\ Holds(p)
  /\ UNCHANGED <<world, catalog, kills>>

-----------------------------------------------------------------------------
(* init, reconcile and refresh: writing the catalog.                       *)

Named(x, p) == {i \in Registered(job[p].snap) : Slug(p, i) \in disk[x].remotes}

\* The checkouts that discovery looks at, and those it can bind to an id.
Counted(p) ==
  {x \in Places : /\ IsCheckout(disk[x]) /\ Named(x, p) # {}
                  /\ ~(disk[x].kind = "linked" /\ "skip linked" \in job[p].opts)}
Found(p) ==
  {x \in Counted(p) : \A i \in Named(x, p) : Verified(disk[x], Slug(p, i))}

\* _discover_registered_mappings raises: two identities in one checkout, a
\* checkout that cannot be verified, or two checkouts of one identity.
Ambiguous(p) ==
  \/ \E x \in Places : IsCheckout(disk[x]) /\ \E i, j \in Named(x, p) : i # j
  \/ "skip unverified" \notin job[p].opts /\ Found(p) # Counted(p)
  \/ \E x, y \in Found(p) : x # y /\ Named(x, p) = Named(y, p)

\* Discovered paths, and the path named after the slug for the other ids.
Proposed(p, ids) ==
  [i \in ids |-> IF \E x \in Found(p) : i \in Named(x, p)
                 THEN CHOOSE x \in Found(p) : i \in Named(x, p)
                 ELSE Slug(p, i)]

\* init looks for checkouts before it takes a lock.
Discover(p) ==
  /\ At(p, "discover")
  /\ LET paths == Proposed(p, Registered(job[p].snap)) IN
       IF Ambiguous(p) \/ ~Distinct(paths)
       THEN End(p)
       ELSE job' = [job EXCEPT ![p].maps = paths, ![p].opts = {},
                            ![p].at = "registry"] /\ Holds(p)
  /\ UNCHANGED <<world, catalog, kills>>

\* O_EXCL: an existing catalog, whatever it holds, is left alone.
Create(p) ==
  /\ At(p, "create")
  /\ IF catalog.form = "missing"
     THEN catalog' = NoFile("torn") /\ Goto(p, "write") /\ Holds(p)
     ELSE End(p) /\ UNCHANGED catalog
  /\ UNCHANGED <<world, kills>>

Unlinked(file) == NoFile("missing")

WriteNew(p) ==
  /\ At(p, "write")
  /\ catalog' = [form |-> "good", registry |-> job[p].snap, generation |-> 0,
                 rows |-> [i \in DOMAIN job[p].maps |-> NewRow(job[p].maps[i])]]
  /\ OnlyAt(p, "read back") /\ Holds(p)
  /\ UNCHANGED <<world, kills>>

FailWrite(p) ==
  /\ At(p, "write") /\ catalog' = Unlinked(catalog) /\ End(p)
  /\ UNCHANGED <<world, kills>>

\* Mutant: the ids of the registry are not compared with those of the catalog.
NoNewIds(p) == {}

NewIds(p) == Registered(job[p].snap) \ DOMAIN catalog.rows

Merged(p) ==
  LET new == Proposed(p, NewIds(p)) IN
    [i \in DOMAIN catalog.rows \cup NewIds(p) |->
       IF i \in DOMAIN catalog.rows THEN catalog.rows[i].path ELSE new[i]]

\* reconcile: the rows stay, ids that are new to the registry get a path.
LoadStale(p) ==
  /\ At(p, "stale")
  /\ IF \/ ~LoadsStale(catalog, job[p].snap) \/ catalog.registry = job[p].snap
        \/ (NewIds(p) # {} /\ Ambiguous(p)) \/ ~Distinct(Merged(p))
     THEN End(p)
     ELSE /\ job' = [job EXCEPT ![p].base = catalog, ![p].maps = Merged(p),
                                ![p].edits = edits, ![p].at = "replace"]
          /\ Holds(p)
  /\ UNCHANGED <<world, catalog, kills>>

\* refresh, under the registry lock: GitHub is asked about one id after the other.
Observe(p) ==
  /\ At(p, "observe")
  /\ \/ job[p].todo = {} /\ Goto(p, "catalog") /\ Holds(p)
     \/ \E i \in job[p].todo :
          IF Identified(p, i)
          THEN /\ job' = [job EXCEPT ![p].todo = @ \ {i},
                    ![p].seen = IF i \in archived THEN @ \cup {i} ELSE @]
               /\ Holds(p)
          ELSE End(p)
  /\ UNCHANGED <<world, catalog, kills>>

\* Mutant: reconcile writes every row anew.
FreshRow(p, i) == NewRow(job[p].base.rows[i].path)

KeptRow(p, i) == job[p].base.rows[i]

\* The catalog that reconcile or refresh writes in place of base.
Successor(p) ==
  [form |-> "good", registry |-> job[p].snap, generation |-> job[p].base.generation + 1,
   rows |-> IF job[p].cmd = "refresh"
     THEN [i \in DOMAIN job[p].base.rows |->
             [KeptRow(p, i) EXCEPT !.life = IF i \in job[p].seen THEN "archived"
                                            ELSE "active"]]
     ELSE [i \in DOMAIN job[p].maps |->
             IF i \in DOMAIN job[p].base.rows THEN KeptRow(p, i)
             ELSE NewRow(job[p].maps[i])]]

Replace(p) ==
  /\ At(p, "replace")
  /\ IF catalog.form = "missing"     \* _replace_secure_json reads the old file first
     THEN End(p) /\ UNCHANGED catalog
     ELSE catalog' = Successor(p) /\ OnlyAt(p, "read back") /\ Holds(p)
  /\ UNCHANGED <<world, kills>>

\* The file is loaded again; the command ends well or badly, and changes nothing.
ReadBack(p) ==
  /\ At(p, "read back") /\ End(p)
  /\ UNCHANGED <<world, catalog, kills>>

-----------------------------------------------------------------------------
(* materialize and sync: one row after the other, under both locks.        *)

PathOf(p, i) == job[p].base.rows[i].path
Want(p, i) == job[p].base.rows[i].want

Done(p, i) ==
  job' = [job EXCEPT ![p].todo = @ \ {i}, ![p].row = "nobody",
                     ![p].moves = 0, ![p].at = "rows"]

AsPromised(p, i) == Verified(disk[PathOf(p, i)], Slug(p, i))

\* A row whose path is taken, or is to stay free: nothing is changed.
InspectRow(p) ==
  /\ At(p, "rows") /\ job[p].cmd = "materialize"
  /\ \E i \in job[p].todo :
       /\ Want(p, i) = "absent" \/ Present(PathOf(p, i))
       /\ IF IF Want(p, i) = "absent" THEN ~Present(PathOf(p, i)) ELSE AsPromised(p, i)
          THEN Done(p, i) /\ Holds(p)
          ELSE End(p)
  /\ UNCHANGED <<world, catalog, kills>>

\* A missing checkout: git clones into a temporary directory beside it, and
\* gets whatever answers to the name now.
Clone(p) ==
  /\ At(p, "rows") /\ job[p].cmd = "materialize"
  /\ \E i \in job[p].todo :
       /\ Want(p, i) # "absent" /\ ~Present(PathOf(p, i)) /\ ~Present(p)
       /\ github[Slug(p, i)] # "nobody"
       /\ disk' = [disk EXCEPT ![p] =
                     Checkout("clean", {Slug(p, i)}, github[Slug(p, i)])]
       /\ job' = [job EXCEPT ![p].at = "verify", ![p].row = i, ![p].moves = moves]
  /\ UNCHANGED <<world, catalog, regLock, catLock, kills>>

FailClone(p) ==
  /\ At(p, "rows") /\ job[p].cmd = "materialize"
  /\ \E i \in job[p].todo : Want(p, i) # "absent" /\ ~Present(PathOf(p, i))
  /\ End(p)
  /\ UNCHANGED <<world, catalog, kills>>

\* _verify_remote_entry: id, name and archive state, unless told to skip it.
RemoteAsRegistered(p, i) ==
  "skip github" \notin job[p].opts => Identified(p, i) /\ Life(p, i) = LifeOf(i)

\* The history notes with -1 that GitHub changed since the clone.
VerifyClone(p) ==
  /\ At(p, "verify")
  /\ IF /\ Verified(disk[p], Slug(p, job[p].row))
        /\ RemoteAsRegistered(p, job[p].row)
     THEN /\ job' = [job EXCEPT ![p].at = "appeared",
                       ![p].moves = IF @ = moves THEN @ ELSE -1]
          /\ Holds(p)
     ELSE End(p)
  /\ UNCHANGED <<world, catalog, kills>>

StillFree(p) ==
  /\ At(p, "appeared")
  /\ IF Present(PathOf(p, job[p].row)) THEN End(p) ELSE Goto(p, "rename") /\ Holds(p)
  /\ UNCHANGED <<world, catalog, kills>>

\* Mutant: a directory in the way is removed first.
RenameOver(place) == disk[place].kind # "foreign"

\* rename(2) replaces nothing or an empty directory, and refuses anything else.
Renameable(place) == disk[place].kind \in {"nothing", "empty"}

Rename(p) ==
  /\ At(p, "rename")
  /\ IF Renameable(PathOf(p, job[p].row))
     THEN /\ disk' = [disk EXCEPT ![PathOf(p, job[p].row)] = disk[p],
                                  ![p] = Thing("nothing")]
          /\ Done(p, job[p].row) /\ UNCHANGED <<regLock, catLock>>
     ELSE End(p)
  /\ UNCHANGED <<world, catalog, kills>>

\* sync: a row is fetched between two checks that its checkout is clean.
Clean(p, i) == AsPromised(p, i) /\ disk[PathOf(p, i)].kind = "clean"

VerifyRow(p) ==
  /\ At(p, "rows") /\ job[p].cmd = "sync"
  /\ \E i \in job[p].todo :
       CASE Want(p, i) # "checkout" -> Done(p, i) /\ Holds(p)
         [] Want(p, i) = "checkout" /\ Clean(p, i) ->
              job' = [job EXCEPT ![p].at = "fetch", ![p].row = i] /\ Holds(p)
         [] OTHER -> End(p)
  /\ UNCHANGED <<world, catalog, kills>>

Fetch(p) ==
  /\ At(p, "fetch")
  /\ \/ Goto(p, "verify again") /\ Holds(p)
     \/ End(p)
  /\ UNCHANGED <<world, catalog, kills>>

VerifyAgain(p) ==
  /\ At(p, "verify again")
  /\ IF Clean(p, job[p].row) THEN Done(p, job[p].row) /\ Holds(p) ELSE End(p)
  /\ UNCHANGED <<world, catalog, kills>>

\* Every row is dealt with; the registry, locked all the time, is read again.
Finish(p) ==
  /\ At(p, "rows") /\ job[p].todo = {} /\ End(p)
  /\ UNCHANGED <<world, catalog, kills>>

\* The bound on what happens around the commands.
Eventful == moves + edits + kills < MaxEvents

\* The process is killed: the kernel frees its locks, its files stay.
Kill(p) ==
  /\ ~At(p, "idle") /\ job' = [job EXCEPT ![p] = Idle]
  /\ regLock' = Free(regLock, p) /\ catLock' = Free(catLock, p)
  /\ Eventful /\ kills' = kills + 1
  /\ UNCHANGED <<world, catalog, disk>>

-----------------------------------------------------------------------------
(* The world around the commands.                                          *)

\* Registry commands, under the registry lock: a new id, or another slug.
Register == \E i \in Ids, s \in Slugs :
  /\ Now < MaxRegistry /\ regLock = NoOne
  /\ github[s] = i /\ \A j \in Registered(Now) : registry[Now][j] # s
  /\ registry' = Append(registry, [j \in Registered(Now) \cup {i} |->
                                    IF j = i THEN s ELSE registry[Now][j]])
  /\ UNCHANGED <<github, archived, moves, edits, catalog, disk, regLock, catLock, job,
                 kills>>

\* On GitHub: a name answers for another repository, or one is (un)archived.
Move ==
  /\ Eventful /\ moves' = moves + 1
  /\ \/ /\ \E s \in Slugs, i \in Ids \cup {"nobody"} :
               i # github[s] /\ github' = [github EXCEPT ![s] = i]
        /\ UNCHANGED archived
     \/ /\ \E i \in Ids : archived' = (archived \cup {i}) \ (archived \cap {i})
        /\ UNCHANGED github
  /\ UNCHANGED <<registry, edits, catalog, disk, regLock, catLock, job, kills>>

Placeable == {Thing("empty"), Thing("foreign")} \cup
  {Checkout(k, r, "nobody") : k \in {"clean", "dirty", "linked"},
                              r \in {{s} : s \in Slugs} \cup {Slugs}}

\* The operator edits a row, removes the catalog, or puts something on disk or
\* takes it away.
Edit ==
  /\ Eventful /\ edits' = edits + 1
  /\ \/ /\ catalog.form = "good"
        /\ \E i \in DOMAIN catalog.rows, w \in {"checkout", "manual", "absent"} :
             /\ w # catalog.rows[i].want
             /\ catalog' = [catalog EXCEPT !.rows[i].want = w]
        /\ UNCHANGED disk
     \/ /\ catalog.form # "missing" /\ catalog' = NoFile("missing")
        /\ UNCHANGED disk
     \/ /\ \E x \in {y \in Places : Present(y)} :
             /\ \A p \in Procs : x = p => At(p, "idle")
             /\ disk' = [disk EXCEPT ![x] = Thing("nothing")]
        /\ UNCHANGED catalog
     \/ /\ \E x \in Slugs, t \in Placeable :
             ~Present(x) /\ disk' = [disk EXCEPT ![x] = t]
        /\ UNCHANGED catalog
  /\ UNCHANGED <<registry, github, archived, moves, regLock, catLock, job, kills>>

World == Register \/ Move \/ Edit

Step(p) ==
  \/ Load(p) \/ Hosted(p) \/ LockRegistry(p) \/ LockCatalog(p) \/ Reload(p)
  \/ Discover(p) \/ Create(p) \/ WriteNew(p) \/ FailWrite(p) 
  \/ LoadStale(p) \/ Observe(p) \/ Replace(p) \/ ReadBack(p)
  \/ InspectRow(p) \/ Clone(p) \/ FailClone(p) \/ VerifyClone(p)
  \/ StillFree(p) \/ Rename(p)
  \/ VerifyRow(p) \/ Fetch(p) \/ VerifyAgain(p) \/ Finish(p)

CatalogNext ==
  \/ World
  \/ \E p \in Procs : Start(p) \/ Step(p) \/ Kill(p)

CatalogSpec == CatalogInit /\ [][CatalogNext]_vars

-----------------------------------------------------------------------------
(* Properties.                                                             *)

Labels == {"idle", "load", "hosted", "registry", "catalog", "reload", "observe",
           "discover", "create", "write", "stale", "replace", "read back", "rows",
           "verify", "appeared", "rename", "fetch", "verify again"}

File == [form : {"missing", "torn"}, registry : {0}, generation : {0}, rows : {<<>>}]
        \cup [form : {"good"}, registry : 1 .. Now, generation : Nat,
              rows : UNION {[D -> Row] : D \in SUBSET Ids}]

\* Every file, place and process holds what it should, and whoever holds the
\* catalog lock holds the registry lock too.  The rows of a catalog are those of
\* the registry generation it names, with one path each, whatever commands were
\* interleaved or killed to write it.
CatalogTypeOK ==
  /\ \A g \in 1 .. Now : Registered(g) \subseteq Ids /\ Distinct(registry[g])
  /\ github \in [Slugs -> Ids \cup {"nobody"}] /\ archived \subseteq Ids
  /\ catalog \in File /\ \A p \in Procs : job[p].base \in File
  /\ \A x \in Places : disk[x] \in Things
  /\ \A p \in Procs : job[p].at \in Labels
  /\ catLock # NoOne => catLock = regLock
  /\ catalog.form = "good" =>
       /\ DOMAIN catalog.rows = Registered(catalog.registry)
       /\ Distinct([i \in DOMAIN catalog.rows |-> catalog.rows[i].path])

\* A command that writes the catalog keeps every row's path and policy as they are
\* at that moment, unless somebody edited the file, which takes no lock, after the
\* command read it under its locks.  refresh has read it before as well, and must
\* not write what it read then over an edit; reconcile reads it once, and an edit
\* between that and its replacement is lost.
RowsKept ==
  [][\A p \in Procs :
       Replace(p) /\ catalog' # catalog /\ catalog.form = "good"
                  /\ edits = job[p].edits =>
         \A i \in DOMAIN catalog.rows :
           /\ i \in DOMAIN catalog'.rows
           /\ catalog'.rows[i].path = catalog.rows[i].path
           /\ catalog'.rows[i].want = catalog.rows[i].want]_vars

\* No command replaces or removes what lies at a path, however late it appeared.
NothingOverwritten ==
  [][\A p \in Procs : Step(p) \/ Kill(p) =>
       \A x \in Places \ {p} :
         disk'[x] # disk[x] => disk[x].kind \in {"nothing", "empty"}]_vars

\* What materialize installs names the slug the registry has at that moment,
\* and holds the registered repository unless GitHub was told to be skipped or
\* changed between the clone and the question.
InstalledAsRegistered ==
  [][\A p \in Procs : Rename(p) /\ job'[p].at = "rows" =>
       LET i == job[p].row IN
         /\ disk'[PathOf(p, i)].remotes = {registry[Now][i]}
         /\ \/ disk'[PathOf(p, i)].content = i
            \/ "skip github" \in job[p].opts \/ job[p].moves = -1]_vars
=============================================================================
