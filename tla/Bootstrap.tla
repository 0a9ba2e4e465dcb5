----------------------------- MODULE Bootstrap -----------------------------
(***************************************************************************)
(* The first files of the private sidecar (scripts/portfolio_sidecar.py):  *)
(* init-config publishes an empty policy and empty targets, and            *)
(* inventory-candidates a list of ignored paths that could be protected.   *)
(* A file is published by a hard link from a temporary file, whose name is *)
(* removed afterwards; in between it has two links and no reader takes it. *)
(* Runs share the control directory's lock; the registry and the catalog   *)
(* have locks of their own, under which other programs change them.        *)
(***************************************************************************)
EXTENDS Naturals, Sequences, FiniteSets

CONSTANTS
  Configurers,     \* runs of init-config
  Lister,          \* the run of inventory-candidates
  Listing,         \* what git lists as ignored in the checkout, in its order
  Size,            \* [listed paths -> the nodes below it]
  Generated,       \* those that their name tells to be caches, locks or controls
  MaxNodes,        \* MAX_INVENTORY_NODES
  MaxBootEvents    \* bound: what others do and what fails

Ignored == {Listing[i] : i \in DOMAIN Listing}

ASSUME BootstrapAssumption ==
  /\ Lister \notin Configurers /\ Listing \in Seq(Ignored) /\ Generated \subseteq Ignored
  /\ {"free", "nobody", "person"} \cap (Configurers \cup {Lister}) = {}
  /\ Size \in [Ignored -> Nat \ {0}] /\ {MaxNodes, MaxBootEvents} \subseteq Nat

VARIABLES
  papers,       \* [Papers -> the file in the control directory]
  generations,  \* of the registry and of the catalog
  holders,      \* of the three locks
  checkout,     \* whether it is clean and as registered
  rules,        \* [Ignored -> what ignores the path: a tracked rule, another, none]
  versions,     \* [Ignored -> of the files below it]
  boots,        \* [Programs -> the run]
  bootEvents,
  disturbed     \* history: a run was killed, or a person has changed a document

bootVars == <<papers, generations, holders, checkout, rules, versions, boots,
              bootEvents, disturbed>>
tree == <<checkout, rules, versions>>

Programs == Configurers \cup {Lister}
Documents == {"policy", "targets"}
Papers == Documents \cup {"inventory"}
Absent == [by |-> "nobody", links |-> 0, bound |-> <<0, 0>>, stamp |-> 0]
Free == [control |-> "free", registry |-> "free", catalog |-> "free"]
Waiting == [at |-> "off", seen |-> <<0, 0>>, made |-> {}, stamp |-> 0, todo |-> <<>>,
            listed |-> {}, nodes |-> 0, counted |-> 0, proved |-> 0, found |-> {},
            status |-> "none"]

BootstrapInit ==
  /\ papers = [n \in Papers |-> Absent] /\ generations = <<1, 1>> /\ holders = Free
  /\ checkout = TRUE /\ rules = [c \in Ignored |-> "tracked"]
  /\ versions = [c \in Ignored |-> 0] /\ boots = [p \in Programs |-> Waiting]
  /\ bootEvents = 0 /\ disturbed = FALSE

-----------------------------------------------------------------------------
(* Both programs.                                                          *)

Label(p, label) == boots[p].at = label
GoTo(p, label) == boots' = [boots EXCEPT ![p].at = label]
There(n) == papers[n].links > 0
Readable(n) == papers[n].links = 1 /\ papers[n].by # "person"

LoadRegistry(p) ==
  /\ Label(p, "off")
  /\ boots' = [boots EXCEPT ![p] = [Waiting EXCEPT !.at = "control", !.seen = generations]]
  /\ UNCHANGED <<papers, generations, holders, tree, bootEvents, disturbed>>

\* _SidecarLock
TakeControl(p) ==
  /\ Label(p, "control") /\ holders.control = "free"
  /\ holders' = [holders EXCEPT !.control = p] /\ GoTo(p, "look")
  /\ UNCHANGED <<papers, generations, tree, bootEvents, disturbed>>

\* _locked_registry_snapshot: the registry must be the one that was loaded.
HoldRegistry(p) ==
  /\ Label(p, "registry") /\ holders.registry = "free"
  /\ holders' = [holders EXCEPT !.registry = p]
  /\ GoTo(p, IF boots[p].seen[1] # generations[1] THEN "undo"
             ELSE IF p = Lister THEN "catalog" ELSE "policy")
  /\ UNCHANGED <<papers, generations, tree, bootEvents, disturbed>>

Released(p) == [l \in DOMAIN holders |-> IF holders[l] = p THEN "free" ELSE holders[l]]

ReleaseAll(p) ==
  /\ Label(p, "leave") /\ holders' = Released(p)
  /\ boots' = [boots EXCEPT ![p] = Waiting]
  /\ UNCHANGED <<papers, generations, tree, bootEvents, disturbed>>

\* _write_new_private_json: the link refuses a name that is taken.
Publish(p, n) ==
  IF There(n) THEN GoTo(p, "undo") /\ UNCHANGED papers
  ELSE /\ papers' = [papers EXCEPT ![n] = [by |-> p, links |-> 2, bound |-> boots[p].seen,
                                           stamp |-> 0]]
       /\ boots' = [boots EXCEPT ![p].at = n, ![p].made = @ \cup {n}]

Own(p, n) == n \in boots[p].made /\ papers[n].by = p

\* The temporary name goes; the file must then be private, with one link.
Settle(p, n, next) ==
  IF Own(p, n)
  THEN papers' = [papers EXCEPT ![n].links = 1] /\ GoTo(p, next)
  ELSE GoTo(p, "undo") /\ UNCHANGED papers

-----------------------------------------------------------------------------
(* init-config.                                                            *)

NothingThere(p) ==
  /\ Label(p, "look") /\ p # Lister
  /\ GoTo(p, IF \E n \in Documents : There(n) THEN "leave" ELSE "registry")
  /\ UNCHANGED <<papers, generations, holders, tree, bootEvents, disturbed>>

Following(n) == IF n = "policy" THEN "targets" ELSE "check"

WriteDocument(p, n) ==
  /\ Label(p, n)
  /\ IF n \in boots[p].made THEN Settle(p, n, Following(n)) ELSE Publish(p, n)
  /\ UNCHANGED <<generations, holders, tree, bootEvents, disturbed>>

\* load_policy, load_targets
CheckPair(p) ==
  /\ Label(p, "check")
  /\ GoTo(p, IF \A n \in Documents : Readable(n) /\ papers[n].bound[1] = generations[1]
             THEN "leave" ELSE "undo")
  /\ UNCHANGED <<papers, generations, holders, tree, bootEvents, disturbed>>

\* Of what was created only that is removed which is still the same file.
Unchanged(p, n) == There(n) /\ Own(p, n)

\* Mutant: the policy, which was complete when the targets failed, is left.
LastMade(p) == boots[p].made \ {"policy"}

\* _remove_initialized_config, from the last to the first file; it stops at a file
\* that is no longer the one that was made.
ToUndo(p) == boots[p].made

Undo(p) ==
  LET n == IF "targets" \in ToUndo(p) THEN "targets"
           ELSE CHOOSE m \in ToUndo(p) : TRUE IN
  /\ Label(p, "undo")
  /\ IF ToUndo(p) = {} \/ (There(n) /\ ~Unchanged(p, n))
     THEN GoTo(p, "leave") /\ UNCHANGED papers
     ELSE /\ papers' = [papers EXCEPT ![n] = Absent]
          /\ boots' = [boots EXCEPT ![p].made = @ \ {n}]
  /\ UNCHANGED <<generations, holders, tree, bootEvents, disturbed>>

-----------------------------------------------------------------------------
(* inventory-candidates.                                                   *)

\* _validate_existing_inventory_output: an inventory that is there must be one.
Acceptable == There("inventory") => Readable("inventory")

LookAtOutput ==
  /\ Label(Lister, "look")
  /\ boots' = [boots EXCEPT ![Lister].stamp = papers["inventory"].stamp,
       ![Lister].status = IF There("inventory") THEN "old" ELSE "new",
       ![Lister].at = IF Acceptable THEN "registry" ELSE "leave"]
  /\ UNCHANGED <<papers, generations, holders, tree, bootEvents, disturbed>>

HeldCatalog == [holders EXCEPT !.catalog = Lister]

\* _CatalogLock and _reload_catalog_snapshot
HoldCatalog ==
  /\ Label(Lister, "catalog") /\ holders.catalog = "free" /\ holders' = HeldCatalog
  /\ GoTo(Lister, IF boots[Lister].seen = generations THEN "inspect" ELSE "leave")
  /\ UNCHANGED <<papers, generations, tree, bootEvents, disturbed>>

\* The list is in the order of Listing, whatever it leaves out.
ListedNow == {c \in Ignored : rules[c] # "none"}

\* _verify_checkout
Ready == checkout

\* An unready checkout is in the inventory without candidates.
StartInspection ==
  /\ Label(Lister, "inspect")
  /\ boots' = IF Ready
       THEN [boots EXCEPT ![Lister].at = "pick", ![Lister].todo = Listing,
                          ![Lister].listed = ListedNow, ![Lister].nodes = MaxNodes]
       ELSE [boots EXCEPT ![Lister].at = "recheck"]
  /\ UNCHANGED <<papers, generations, holders, tree, bootEvents, disturbed>>

Current == Head(boots[Lister].todo)

\* _inventory_exclusion_reason, and what was not in git's list
Excluded(c) == c \in Generated \/ c \notin boots[Lister].listed
PassOver == [boots EXCEPT ![Lister].at = "pick", ![Lister].todo = Tail(@)]

\* The first enumeration, within what is left of the budget of all candidates.
Enumerate ==
  /\ Label(Lister, "pick") /\ boots[Lister].todo # <<>>
  /\ boots' = CASE Excluded(Current) -> PassOver
       [] ~Excluded(Current) /\ Size[Current] > boots[Lister].nodes ->
            [PassOver EXCEPT ![Lister].nodes = 0]
       [] ~Excluded(Current) /\ Size[Current] <= boots[Lister].nodes ->
            [boots EXCEPT ![Lister].at = "prove", ![Lister].nodes = @ - Size[Current],
                          ![Lister].counted = versions[Current]]
  /\ UNCHANGED <<papers, generations, holders, tree, bootEvents, disturbed>>

\* _prove_untracked_and_ignored
ProveIgnored ==
  /\ Label(Lister, "prove")
  /\ boots' = IF rules[Current] = "tracked"
              THEN [boots EXCEPT ![Lister].at = "again", ![Lister].proved = versions[Current]]
              ELSE PassOver
  /\ UNCHANGED <<papers, generations, holders, tree, bootEvents, disturbed>>

\* Mutant: the candidate is not enumerated again.
AsCounted == TRUE

SameAgain == versions[Current] = boots[Lister].counted

EnumerateAgain ==
  /\ Label(Lister, "again")
  /\ boots' = IF SameAgain
       THEN [PassOver EXCEPT ![Lister].found = @ \cup {[path |-> Current,
                counted |-> boots[Lister].counted, proved |-> boots[Lister].proved]}]
       ELSE PassOver
  /\ UNCHANGED <<papers, generations, holders, tree, bootEvents, disturbed>>

\* What git lists is the same, and the checkout is still clean, or it is unready.
EndInspection ==
  /\ Label(Lister, "pick") /\ boots[Lister].todo = <<>>
  /\ boots' = [boots EXCEPT ![Lister].at = "recheck", ![Lister].found =
                  IF Ready /\ ListedNow = boots[Lister].listed THEN @ ELSE {}]
  /\ UNCHANGED <<papers, generations, holders, tree, bootEvents, disturbed>>

\* Registry, catalog and output must be what they were.
RecheckAll == LET b == boots[Lister] IN
  /\ Label(Lister, "recheck")
  /\ GoTo(Lister, IF \/ b.seen # generations
                     \/ papers["inventory"].stamp # b.stamp
                     \/ There("inventory") # (b.status = "old")
                  THEN "leave" ELSE "write")
  /\ UNCHANGED <<papers, generations, holders, tree, bootEvents, disturbed>>

\* The inventory replaces the one that was there, or is linked as a new file.
WriteInventory ==
  /\ Label(Lister, "write")
  /\ IF boots[Lister].status = "new" THEN Publish(Lister, "inventory")
     ELSE /\ papers' = [papers EXCEPT !["inventory"] =
                [by |-> Lister, links |-> 1, bound |-> boots[Lister].seen, stamp |-> 0]]
          /\ GoTo(Lister, "leave")
  /\ UNCHANGED <<generations, holders, tree, bootEvents, disturbed>>

SettleInventory ==
  /\ Label(Lister, "inventory") /\ Settle(Lister, "inventory", "leave")
  /\ UNCHANGED <<generations, holders, tree, bootEvents, disturbed>>

-----------------------------------------------------------------------------
(* Others.                                                                 *)

BootEvent == bootEvents < MaxBootEvents /\ bootEvents' = bootEvents + 1

\* A step fails: what was created is removed again.
BootFails(p) ==
  /\ BootEvent /\ boots[p].at \notin {"off", "control", "undo", "leave"} /\ GoTo(p, "undo")
  /\ UNCHANGED <<papers, generations, holders, tree, disturbed>>

\* A kill frees the locks and leaves the files.
BootKilled(p) ==
  /\ BootEvent /\ ~Label(p, "off") /\ holders' = Released(p) /\ disturbed' = TRUE
  /\ boots' = [boots EXCEPT ![p] = Waiting]
  /\ UNCHANGED <<papers, generations, tree>>

\* A person puts a file of his own in its place.
PersonWrites(n) ==
  /\ BootEvent /\ disturbed' = TRUE
  /\ papers' = [papers EXCEPT ![n] = [by |-> "person", links |-> 1, bound |-> <<0, 0>>,
                                      stamp |-> bootEvents']]
  /\ UNCHANGED <<generations, holders, tree, boots>>

\* docs/private-sidecar.md: after an interruption the lone empty document is removed.
RemoveLone(n) ==
  /\ holders.control = "free" /\ papers[n].by \in Configurers
  /\ \A m \in Documents \ {n} : ~There(m)
  /\ papers' = [papers EXCEPT ![n] = Absent]
  /\ UNCHANGED <<generations, holders, tree, boots, bootEvents, disturbed>>

\* Another program registers a repository, or changes the catalog.
Governance(i) ==
  /\ BootEvent /\ holders[IF i = 1 THEN "registry" ELSE "catalog"] = "free"
  /\ generations' = [generations EXCEPT ![i] = @ + 1]
  /\ UNCHANGED <<papers, holders, tree, boots, disturbed>>

\* Somebody works in the checkout.
TreeWork ==
  /\ BootEvent
  /\ \/ checkout' = ~checkout /\ UNCHANGED <<rules, versions>>
     \/ \E c \in Ignored : /\ versions' = [versions EXCEPT ![c] = @ + 1]
                           /\ UNCHANGED <<checkout, rules>>
     \/ \E c \in Ignored, r \in {"tracked", "other", "none"} :
          r # rules[c] /\ rules' = [rules EXCEPT ![c] = r] /\ UNCHANGED <<checkout, versions>>
  /\ UNCHANGED <<papers, generations, holders, boots, disturbed>>

BootStep(p) ==
  \/ TakeControl(p) \/ HoldRegistry(p) \/ ReleaseAll(p) \/ NothingThere(p)
  \/ (\E n \in Documents : WriteDocument(p, n)) \/ CheckPair(p) \/ Undo(p)

ListerStep ==
  \/ LookAtOutput \/ HoldCatalog \/ StartInspection \/ Enumerate \/ ProveIgnored
  \/ EnumerateAgain \/ EndInspection \/ RecheckAll \/ WriteInventory \/ SettleInventory

BootstrapNext ==
  \/ \E p \in Programs : LoadRegistry(p) \/ BootStep(p) \/ BootFails(p) \/ BootKilled(p)
  \/ ListerStep \/ TreeWork
  \/ \E n \in Papers : PersonWrites(n)
  \/ \E n \in Documents : RemoveLone(n)
  \/ \E i \in {1, 2} : Governance(i)

BootstrapSpec == BootstrapInit /\ [][BootstrapNext]_bootVars

-----------------------------------------------------------------------------
(* Properties.                                                             *)

\* A file with two links is being published, unless its run was killed; the
\* registry's lock is taken under the control directory's.
BootstrapTypeOK ==
  /\ papers \in [Papers -> [by : Programs \cup {"person", "nobody"}, links : 0 .. 2,
                            bound : Nat \X Nat, stamp : 0 .. MaxBootEvents]]
  /\ \A n \in Papers : papers[n].links = 0 <=> papers[n] = Absent
  /\ \A n \in Papers : papers[n].links = 2 /\ ~disturbed => ~Label(papers[n].by, "off")
  /\ \A l \in {"registry", "catalog"} : holders[l] # "free" => holders[l] = holders.control
  /\ \A p \in Programs : boots[p].at \notin {"off", "control"} <=> holders.control = p

\* docs/private-sidecar.md: creation rolls back ordinary failures.  Wherever a run
\* of init-config fails, there are both documents afterwards, of one registry, or
\* neither, unless a run was killed or a person has written one.
BothOrNeither ==
  holders.control = "free" /\ ~disturbed =>
    /\ There("policy") <=> There("targets")
    /\ papers["policy"].bound = papers["targets"].bound

\* What a person has written is never removed nor overwritten by init-config; an
\* inventory is of the registry and the catalog of its moment, and every candidate in
\* it was counted as it was when it was proved to be ignored.
InventoryHonest ==
  [][/\ \A n \in Documents : papers[n].by = "person" => papers'[n].by = "person"
     /\ WriteInventory /\ papers' # papers =>
          /\ papers'["inventory"].bound = generations
          /\ \A f \in boots[Lister].found : f.counted = f.proved]_bootVars
=============================================================================
