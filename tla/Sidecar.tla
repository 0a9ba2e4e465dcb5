------------------------------ MODULE Sidecar ------------------------------
(***************************************************************************)
(* The private sidecar coordinator (scripts/portfolio_sidecar.py): several *)
(* commands, each a process of its own, share one control directory.       *)
(*                                                                         *)
(* A command reads its inputs (registry, catalog, policy, targets, state)  *)
(* without a lock, takes the sidecar lock for the rest of its life, and    *)
(* re-reads every input under the registry and catalog locks before it     *)
(* trusts it.  A backup captures the datasets under those locks, lets them *)
(* go while restic copies the capture to every target, takes them again,   *)
(* checks that nothing moved, and replaces the state file.  A drill checks *)
(* the recorded snapshots in between and publishes evidence at the end.    *)
(*                                                                         *)
(* Data is abstracted to what the checks compare.  source[d] is a version: *)
(* the capture compares inodes and change times, so a change back to the   *)
(* same bytes is still a change.  A manifest digest is the version it was  *)
(* computed from.  A snapshot identifier is an index into the target's     *)
(* repository; 0 stands for none.                                          *)
(***************************************************************************)
EXTENDS Integers, Sequences, FiniteSets

CONSTANTS
  Procs,          \* the processes that run a sidecar command
  Commands,       \* the subcommands they may run
  Datasets,       \* the datasets a policy can enrol
  Targets,        \* the targets of the (one) target set
  Paths,          \* the evidence file names
  NoOne,          \* holder of a free lock
  Missing,        \* a file that does not exist
  MaxRegistry,    \* bound: registry generations
  MaxEdits,       \* bound: operator edits of policy, targets, known_hosts, state
  MaxVersion,     \* bound: versions of one dataset's files
  MaxSnapshots,   \* bound: snapshots one target takes
  MaxLost         \* bound: snapshots the targets stop serving

ASSUME SidecarAssumption ==
  /\ Commands \subseteq {"init-state", "validate", "plan", "backup", "drill"}
  /\ IsFiniteSet(Targets) /\ Targets # {}
  /\ Paths # {}
  /\ NoOne \notin Procs
  /\ {MaxRegistry, MaxEdits, MaxVersion, MaxSnapshots, MaxLost} \subseteq Nat
  /\ Missing \notin [quorums : SUBSET SUBSET Targets, entries : [Datasets ->
       [sequence : Nat, manifest : Nat, replicas : SUBSET Targets]]]

VARIABLES
  registry,    \* generation of the visibility registry
  catalog,     \* the checkout catalog: generation, and the registry it is bound to
  policy,      \* the policy file
  targets,     \* the targets file
  hosts,       \* version of the pinned known_hosts file
  source,      \* [Datasets -> version of the selected files]
  state,       \* the sidecar state file, or Missing
  evidence,    \* [Paths -> evidence file, or Missing]
  spool,       \* owners of the run directories below spool/; NoOne's are stale
  locks,       \* holders of the sidecar, registry and catalog locks
  repo,        \* [Targets -> sequence of snapshots taken]
  lost,        \* snapshots a target no longer serves
  edits,       \* operator edits so far
  pc, cmd, path, in, captured, todo, acks, confirm,  \* one per process
  exit,        \* how the command that ended last ended
  floor        \* history: source at the start of the commit's locked section

files == <<registry, catalog, policy, targets, hosts, source, edits>>
remote == <<repo, lost>>
local == <<pc, cmd, path, in, captured, todo, acks, confirm, exit>>
vars == <<files, remote, local, state, evidence, spool, locks, floor>>

-----------------------------------------------------------------------------
(* Documents.  A document compares equal to another when every field does, *)
(* which is how the code binds a state to the content of its inputs.       *)

PolicyDoc == [registry : Nat, datasets : SUBSET Datasets]
TargetsDoc == [registry : Nat, acks : 1 .. Cardinality(Targets)]
CatalogDoc == [registry : Nat, generation : Nat]

Replicas == [Targets -> Nat]
DatasetState == [sequence : Nat, manifest : Nat, replicas : Replicas]
StateDoc == [registry : Nat, policy : PolicyDoc, targets : TargetsDoc,
             generation : Nat, datasets : [Datasets -> DatasetState]]
EvidenceDoc == [state : StateDoc, verified : [Datasets -> Replicas],
                status : UNION {[D -> {"verified", "verified-degraded",
                                       "not-verified"}] : D \in SUBSET Datasets}]
InputsDoc == [registry : Nat, catalog : CatalogDoc, policy : PolicyDoc,
              targets : TargetsDoc, hosts : Nat, state : StateDoc \cup {Missing}]

NoReplicas == [t \in Targets |-> 0]
Recorded(replicas) == {t \in Targets : replicas[t] # 0}

EmptyDatasets ==
  [d \in Datasets |-> [sequence |-> 0, manifest |-> 0, replicas |-> NoReplicas]]

NewState(in_) == [registry |-> in_.registry, policy |-> in_.policy,
                  targets |-> in_.targets, generation |-> 0,
                  datasets |-> EmptyDatasets]

\* Snapshot id of target t, among the snapshots r, is of this dataset and content.
Holds(r, t, id, d, manifest) ==
  id \in 1 .. Len(r[t]) /\ r[t][id] = [dataset |-> d, manifest |-> manifest]

\* load_state accepts a state only for the governance it was written under.
StateIsBound(s, in_) ==
  /\ s # Missing
  /\ s.registry = in_.registry
  /\ s.policy = in_.policy
  /\ s.targets = in_.targets

InitPolicy == [registry |-> 0, datasets |-> Datasets]
InitTargets == [registry |-> 0, acks |-> 1]
InitCatalog == [registry |-> 0, generation |-> 0]

NoPath == CHOOSE e \in Paths : TRUE

NoInputs == [registry |-> 0, catalog |-> InitCatalog, policy |-> InitPolicy,
             targets |-> InitTargets, hosts |-> 0, state |-> Missing]

LockHolders == [sidecar : Procs \cup {NoOne}, registry : Procs \cup {NoOne},
                catalog : Procs \cup {NoOne}]

Free == [sidecar |-> NoOne, registry |-> NoOne, catalog |-> NoOne]

Init ==
  /\ registry = 0 /\ catalog = InitCatalog
  /\ policy = InitPolicy
  /\ targets \in [registry : {0}, acks : 1 .. Cardinality(Targets)]
  /\ hosts = 0
  /\ source = [d \in Datasets |-> 1]
  /\ state \in {Missing, NewState([NoInputs EXCEPT !.targets = targets])}
  /\ evidence = [e \in Paths |-> Missing]
  /\ spool = {} /\ locks = Free
  /\ repo = [t \in Targets |-> <<>>] /\ lost = {}
  /\ edits = 0
  /\ pc = [p \in Procs |-> "idle"]
  /\ cmd = [p \in Procs |-> "none"]
  /\ path = [p \in Procs |-> NoPath]
  /\ in = [p \in Procs |-> NoInputs]
  /\ captured = [p \in Procs |-> [d \in Datasets |-> 0]]
  /\ todo = [p \in Procs |-> {}]
  /\ acks = [p \in Procs |-> [d \in Datasets |-> NoReplicas]]
  /\ confirm = [p \in Procs |-> {}]
  /\ exit = "none"
  /\ floor = [d \in Datasets |-> 0]

-----------------------------------------------------------------------------
(* Control of one command.                                                 *)

UsesStaging(c) == c \in {"backup", "drill"}

\* Mutant: the inner locks leak.
ReleaseSidecarOnly(p) ==
  locks' = [locks EXCEPT !.sidecar = IF @ = p THEN NoOne ELSE @]

\* The end of a command: the with-blocks release what p holds and remove its
\* run directory; the locals are gone with the process.
Release(p) ==
  LET dropped(holder) == IF holder = p THEN NoOne ELSE holder IN
  locks' = [sidecar |-> dropped(locks.sidecar),
            registry |-> dropped(locks.registry),
            catalog |-> dropped(locks.catalog)]

Forget(p, code) ==
  /\ pc' = [pc EXCEPT ![p] = "idle"]
  /\ cmd' = [cmd EXCEPT ![p] = "none"]
  /\ in' = [in EXCEPT ![p] = NoInputs]
  /\ captured' = [captured EXCEPT ![p] = [d \in Datasets |-> 0]]
  /\ todo' = [todo EXCEPT ![p] = {}]
  /\ acks' = [acks EXCEPT ![p] = [d \in Datasets |-> NoReplicas]]
  /\ confirm' = [confirm EXCEPT ![p] = {}]
  /\ exit' = code
  /\ floor' = IF locks.registry = p THEN [d \in Datasets |-> 0] ELSE floor
  /\ path' = [path EXCEPT ![p] = NoPath]
  /\ Release(p)

Abandoned(p) == {IF q = p THEN NoOne ELSE q : q \in spool}

\* The run directory is removed on the way out; if that fails it stays behind,
\* and a command that had succeeded reports an error.
Leave(p, code) ==
  \/ Forget(p, code) /\ spool' = spool \ {p}
  \/ p \in spool /\ Forget(p, "error") /\ spool' = Abandoned(p)

Goto(p, label) == pc' = [pc EXCEPT ![p] = label]

Start(p, c, e) ==
  /\ pc[p] = "idle"
  /\ Goto(p, "governance")
  /\ cmd' = [cmd EXCEPT ![p] = c]
  /\ path' = [path EXCEPT ![p] = e]
  /\ UNCHANGED <<files, remote, in, captured, todo, acks, confirm, exit, state,
                 evidence, spool, locks, floor>>

-----------------------------------------------------------------------------
(* Reading the inputs, before any lock.  The documents are read one after  *)
(* the other; one step stands for it, as each is read again under locks.   *)

ReadGovernance(p) ==
  /\ pc[p] = "governance"
  /\ catalog.registry = registry
  /\ in' = [in EXCEPT ![p] =
              [@ EXCEPT !.registry = registry, !.catalog = catalog]]
  /\ Goto(p, "documents")
  /\ UNCHANGED <<files, remote, cmd, path, captured, todo, acks, confirm, exit,
                 state, evidence, spool, locks, floor>>

\* Mutant: the targets' registry generation is not compared.
DocumentsValidWithoutTargets(p) ==
  /\ policy.registry = in[p].registry
  /\ cmd[p] # "init-state" =>
       StateIsBound(state, [in[p] EXCEPT !.policy = policy, !.targets = targets])
  /\ cmd[p] = "drill" => policy.datasets # {} /\ evidence[path[p]] = Missing

\* What load_policy, load_targets, load_state and _drill_evidence_path accept.
DocumentsValid(p) ==
  /\ policy.registry = in[p].registry
  /\ targets.registry = in[p].registry
  /\ cmd[p] # "init-state" =>
       StateIsBound(state, [in[p] EXCEPT !.policy = policy, !.targets = targets])
  /\ cmd[p] = "drill" => policy.datasets # {} /\ evidence[path[p]] = Missing

ReadDocuments(p) ==
  /\ pc[p] = "documents"
  /\ DocumentsValid(p)
  /\ in' = [in EXCEPT ![p] =
              [@ EXCEPT !.policy = policy, !.targets = targets, !.hosts = hosts,
                        !.state = IF cmd[p] = "init-state" THEN Missing ELSE state]]
  /\ Goto(p, "sidecar")
  /\ UNCHANGED <<files, remote, cmd, path, captured, todo, acks, confirm, exit,
                 state, evidence, spool, locks, floor>>

RejectInputs(p) ==
  /\ \/ pc[p] = "governance" /\ catalog.registry # registry
     \/ pc[p] = "documents" /\ ~DocumentsValid(p)
  /\ Leave(p, "error")
  /\ UNCHANGED <<files, remote, state, evidence>>

-----------------------------------------------------------------------------
(* The locks, always in the order sidecar, registry, catalog.              *)

\* Refusals made as soon as the sidecar lock is held: init-state and drill do
\* not overwrite, and nothing is staged next to what a crash left behind.
RefusedUnderLock(p) ==
  \/ cmd[p] = "init-state" /\ state # Missing
  \/ cmd[p] = "drill" /\ evidence[path[p]] # Missing
  \/ UsesStaging(cmd[p]) /\ spool # {}

LockSidecar(p) ==
  /\ pc[p] = "sidecar" /\ locks.sidecar = NoOne
  /\ ~RefusedUnderLock(p)
  /\ locks' = [locks EXCEPT !.sidecar = p]
  /\ spool' = IF UsesStaging(cmd[p]) THEN spool \cup {p} ELSE spool
  /\ Goto(p, "registry")
  /\ UNCHANGED <<files, remote, cmd, path, in, captured, todo, acks, confirm,
                 exit, state, evidence, floor>>

Refuse(p) ==
  /\ pc[p] = "sidecar" /\ locks.sidecar = NoOne
  /\ RefusedUnderLock(p)
  /\ Leave(p, "error")
  /\ UNCHANGED <<files, remote, state, evidence>>

\* Mutant: the registry is compared, but not kept locked.
LockRegistryBriefly(p) ==
  /\ pc[p] \in {"registry", "registry again"} /\ locks.registry = NoOne
  /\ registry = in[p].registry
  /\ floor' = IF pc[p] = "registry again" THEN source ELSE floor
  /\ Goto(p, IF pc[p] = "registry" THEN "catalog" ELSE "catalog again")
  /\ UNCHANGED <<files, remote, cmd, path, in, captured, todo, acks, confirm,
                 exit, state, evidence, spool, locks>>

\* _locked_registry_snapshot, on the way into either locked section.
LockRegistry(p) ==
  /\ pc[p] \in {"registry", "registry again"} /\ locks.registry = NoOne
  /\ registry = in[p].registry
  /\ locks' = [locks EXCEPT !.registry = p]
  /\ floor' = IF pc[p] = "registry again" THEN source ELSE floor
  /\ Goto(p, IF pc[p] = "registry" THEN "catalog" ELSE "catalog again")
  /\ UNCHANGED <<files, remote, cmd, path, in, captured, todo, acks, confirm,
                 exit, state, evidence, spool>>

RegistryMoved(p) ==
  /\ pc[p] \in {"registry", "registry again"} /\ locks.registry = NoOne
  /\ registry # in[p].registry
  /\ Leave(p, "error")
  /\ UNCHANGED <<files, remote, state, evidence>>

\* Mutant: the state file is not read again.
CurrentWithoutState(p) ==
  /\ registry = in[p].registry
  /\ catalog = in[p].catalog
  /\ policy = in[p].policy
  /\ targets = in[p].targets

\* _locked_current_inputs: every input still equals what the command read.
Current(p) ==
  /\ registry = in[p].registry
  /\ catalog = in[p].catalog
  /\ policy = in[p].policy
  /\ targets = in[p].targets
  /\ cmd[p] # "init-state" => state = in[p].state

\* backup and drill compare known_hosts again in their second section.
HostsCurrent(p) == pc[p] = "catalog again" => hosts = in[p].hosts

LockCatalog(p) ==
  /\ pc[p] \in {"catalog", "catalog again"} /\ locks.catalog = NoOne
  /\ Current(p) /\ HostsCurrent(p)
  /\ locks' = [locks EXCEPT !.catalog = p]
  /\ Goto(p, IF pc[p] = "catalog" THEN "current" ELSE "current again")
  /\ UNCHANGED <<files, remote, cmd, path, in, captured, todo, acks, confirm,
                 exit, state, evidence, spool, floor>>

InputsMoved(p) ==
  /\ pc[p] \in {"catalog", "catalog again"} /\ locks.catalog = NoOne
  /\ ~(Current(p) /\ HostsCurrent(p))
  /\ Leave(p, "error")
  /\ UNCHANGED <<files, remote, state, evidence>>

-----------------------------------------------------------------------------
(* The first locked section.                                               *)

\* What is published stays even when the look at it afterwards fails.
InitializeState(p) ==
  /\ pc[p] = "current" /\ cmd[p] = "init-state"
  /\ state = Missing
  /\ state' = NewState(in[p])
  /\ Leave(p, "ok") \/ Leave(p, "error")
  /\ UNCHANGED <<files, remote, evidence>>

Validate(p) ==
  /\ pc[p] = "current" /\ cmd[p] = "validate"
  /\ Leave(p, "ok")
  /\ UNCHANGED <<files, remote, state, evidence>>

CaptureDataset(p, d) ==
  /\ pc[p] = "current" /\ cmd[p] \in {"plan", "backup"}
  /\ d \in in[p].policy.datasets /\ captured[p][d] = 0
  /\ captured' = [captured EXCEPT ![p][d] = source[d]]
  /\ UNCHANGED <<files, remote, pc, cmd, path, in, todo, acks, confirm, exit,
                 state, evidence, spool, locks, floor>>

Captured(p) ==
  /\ pc[p] = "current" /\ cmd[p] \in {"plan", "backup", "drill"}
  /\ cmd[p] # "drill" => \A d \in in[p].policy.datasets : captured[p][d] # 0

\* The second look at the inputs before the locked section ends; the staged
\* copy of known_hosts must have the content the command first read.
StillCurrent(p) == Current(p) /\ (UsesStaging(cmd[p]) => hosts = in[p].hosts)

Plan(p) ==
  /\ Captured(p) /\ StillCurrent(p) /\ cmd[p] = "plan"
  /\ Leave(p, "ok")
  /\ UNCHANGED <<files, remote, state, evidence>>

\* What is left to do at the targets: every target for every dataset, or, in a
\* drill, every replica the state records.
Work(p) == {w \in in[p].policy.datasets \X Targets :
              cmd[p] = "drill" =>
                in[p].state.datasets[w[1]].replicas[w[2]] # 0}

Stage(p) ==
  /\ Captured(p) /\ StillCurrent(p) /\ cmd[p] # "plan"
  /\ locks' = [locks EXCEPT !.registry = NoOne, !.catalog = NoOne]
  /\ todo' = [todo EXCEPT ![p] = Work(p)]
  /\ Goto(p, "work")
  /\ UNCHANGED <<files, remote, cmd, path, in, captured, acks, confirm, exit,
                 state, evidence, spool, floor>>

MovedWhileCapturing(p) ==
  /\ Captured(p) /\ ~StillCurrent(p)
  /\ Leave(p, "error")
  /\ UNCHANGED <<files, remote, state, evidence>>

-----------------------------------------------------------------------------
(* At the targets, with only the sidecar lock held.  The order of datasets *)
(* and targets is left open: each pair touches its own target only.        *)

Taken(p, d, t) == repo' = [repo EXCEPT ![t] =
                     Append(@, [dataset |-> d, manifest |-> captured[p][d]])]

Done(p, d, t) == todo' = [todo EXCEPT ![p] = @ \ {<<d, t>>}]

Replicate(p, d, t) ==
  /\ pc[p] = "work" /\ cmd[p] = "backup" /\ <<d, t>> \in todo[p]
  /\ Len(repo[t]) < MaxSnapshots
  /\ Taken(p, d, t)
  /\ acks' = [acks EXCEPT ![p][d][t] = Len(repo[t]) + 1]
  /\ Done(p, d, t)
  /\ UNCHANGED <<files, lost, pc, cmd, path, in, captured, confirm, exit, state,
                 evidence, spool, locks, floor>>

\* restic fails, or is killed at its timeout: the snapshot may exist all the
\* same, but nothing will record it.
ReplicateFails(p, d, t) ==
  /\ pc[p] = "work" /\ cmd[p] = "backup" /\ <<d, t>> \in todo[p]
  /\ \/ Len(repo[t]) < MaxSnapshots /\ Taken(p, d, t)
     \/ UNCHANGED repo
  /\ Done(p, d, t)
  /\ UNCHANGED <<files, lost, pc, cmd, path, in, captured, acks, confirm, exit,
                 state, evidence, spool, locks, floor>>

\* check, recorded-snapshot inspection, restore and verification of one replica.
Restores(t, id, d, manifest) ==
  Holds(repo, t, id, d, manifest) /\ <<t, id>> \notin lost

VerifyReplica(p, d, t) ==
  LET recorded == in[p].state.datasets[d] IN
  /\ pc[p] = "work" /\ cmd[p] = "drill" /\ <<d, t>> \in todo[p]
  /\ Restores(t, recorded.replicas[t], d, recorded.manifest)
  /\ acks' = [acks EXCEPT ![p][d][t] = recorded.replicas[t]]
  /\ Done(p, d, t)
  /\ UNCHANGED <<files, remote, pc, cmd, path, in, captured, confirm, exit,
                 state, evidence, spool, locks, floor>>

VerifyFails(p, d, t) ==
  /\ pc[p] = "work" /\ cmd[p] = "drill" /\ <<d, t>> \in todo[p]
  /\ Done(p, d, t)
  /\ UNCHANGED <<files, remote, pc, cmd, path, in, captured, acks, confirm, exit,
                 state, evidence, spool, locks, floor>>

\* Mutants: one acknowledgement is enough; one fewer than required is.
CommittedByAny(p) == {d \in in[p].policy.datasets : Recorded(acks[p][d]) # {}}

CommittedByFewer(p) ==
  {d \in in[p].policy.datasets :
     Cardinality(Recorded(acks[p][d])) >= in[p].targets.acks - 1}

\* The datasets a backup will commit: enough targets acknowledged them.
Committed(p) == {d \in in[p].policy.datasets :
                   Cardinality(Recorded(acks[p][d])) >= in[p].targets.acks}

Settle(p) ==
  /\ pc[p] = "work" /\ todo[p] = {}
  /\ confirm' = [confirm EXCEPT ![p] =
                   IF cmd[p] = "backup" THEN Committed(p) ELSE {}]
  /\ Goto(p, "registry again")
  /\ UNCHANGED <<files, remote, cmd, path, in, captured, todo, acks, exit, state,
                 evidence, spool, locks, floor>>

-----------------------------------------------------------------------------
(* The second locked section.                                              *)

\* Mutant: the second capture is not compared with the first.
RecaptureUnchecked(p, d) ==
  /\ pc[p] = "current again" /\ d \in confirm[p]
  /\ confirm' = [confirm EXCEPT ![p] = @ \ {d}]
  /\ UNCHANGED <<files, remote, pc, cmd, path, in, captured, todo, acks, exit,
                 state, evidence, spool, locks, floor>>

Recapture(p, d) ==
  /\ pc[p] = "current again" /\ d \in confirm[p]
  /\ source[d] = captured[p][d]
  /\ confirm' = [confirm EXCEPT ![p] = @ \ {d}]
  /\ UNCHANGED <<files, remote, pc, cmd, path, in, captured, todo, acks, exit,
                 state, evidence, spool, locks, floor>>

SourceChanged(p, d) ==
  /\ pc[p] = "current again" /\ d \in confirm[p]
  /\ source[d] # captured[p][d]
  /\ Leave(p, "error")
  /\ UNCHANGED <<files, remote, state, evidence>>

AllReplicated(p) ==
  \A d \in in[p].policy.datasets : Recorded(acks[p][d]) = Targets

NextState(p) ==
  [in[p].state EXCEPT
     !.generation = @ + 1,
     !.datasets = [d \in Datasets |->
        IF d \in Committed(p)
        THEN [sequence |-> @[d].sequence + 1, manifest |-> captured[p][d],
              replicas |-> acks[p][d]]
        ELSE @[d]]]

\* _write_state_json: once os.replace has run, a failing fsync reports an error
\* for a commit that stands.
Commit(p) ==
  /\ pc[p] = "current again" /\ cmd[p] = "backup" /\ confirm[p] = {}
  /\ Committed(p) # {}
  /\ state' = NextState(p)
  /\ \/ Leave(p, IF AllReplicated(p) THEN "ok" ELSE "degraded")
     \/ Leave(p, "error")
  /\ UNCHANGED <<files, remote, evidence>>

CommitNothing(p) ==
  /\ pc[p] = "current again" /\ cmd[p] = "backup"
  /\ Committed(p) = {}
  /\ Leave(p, IF AllReplicated(p) THEN "ok" ELSE "degraded")
  /\ UNCHANGED <<files, remote, state, evidence>>

\* Mutant: enough verified replicas count as all of them.
DrillStatusByQuorum(p, d) ==
  IF Cardinality(Recorded(acks[p][d])) >= in[p].targets.acks THEN "verified"
  ELSE "not-verified"

DrillStatus(p, d) ==
  LET verified == Recorded(acks[p][d])
      recorded == Recorded(in[p].state.datasets[d].replicas) IN
  IF verified = Targets /\ recorded = Targets THEN "verified"
  ELSE IF Cardinality(verified) >= in[p].targets.acks THEN "verified-degraded"
  ELSE "not-verified"

PublishEvidence(p) ==
  /\ pc[p] = "current again" /\ cmd[p] = "drill"
  /\ evidence[path[p]] = Missing
  /\ evidence' = [evidence EXCEPT ![path[p]] =
       [state |-> in[p].state, verified |-> acks[p],
        status |-> [d \in in[p].policy.datasets |-> DrillStatus(p, d)]]]
  /\ \/ Leave(p, IF \A d \in in[p].policy.datasets : DrillStatus(p, d) = "verified"
                 THEN "ok" ELSE "degraded")
     \/ Leave(p, "error")
  /\ UNCHANGED <<files, remote, state>>

-----------------------------------------------------------------------------
(* The ways a command ends early.                                          *)

\* An I/O error or Ctrl-C outside a target's own step.
Interrupt(p) ==
  /\ pc[p] # "idle"
  /\ Leave(p, "error")
  /\ UNCHANGED <<files, remote, state, evidence>>

\* The kernel drops a dead process's flocks; nobody removes its run directory.
Crash(p) ==
  /\ pc[p] # "idle"
  /\ Forget(p, "crash")
  /\ spool' = Abandoned(p)
  /\ UNCHANGED <<files, remote, state, evidence>>

-----------------------------------------------------------------------------
(* Everyone else.  Editors, users and targets take no lock; the registry   *)
(* and catalog programs take theirs, in the same order.                    *)

WriteRegistry ==
  /\ registry < MaxRegistry /\ locks.registry = NoOne
  /\ registry' = registry + 1
  /\ UNCHANGED <<catalog, policy, targets, hosts, source, edits, remote, local,
                 state, evidence, spool, locks, floor>>

ReconcileCatalog ==
  /\ locks.registry = NoOne /\ locks.catalog = NoOne
  /\ catalog.registry < registry
  /\ catalog' = [registry |-> registry, generation |-> catalog.generation + 1]
  /\ UNCHANGED <<registry, policy, targets, hosts, source, edits, remote, local,
                 state, evidence, spool, locks, floor>>

Edit == edits < MaxEdits /\ edits' = edits + 1

EditPolicy ==
  /\ Edit
  /\ policy' \in [registry : {registry}, datasets : SUBSET Datasets]
  /\ UNCHANGED <<registry, catalog, targets, hosts, source, remote, local, state,
                 evidence, spool, locks, floor>>

EditTargets ==
  /\ Edit
  /\ targets' \in [registry : {registry}, acks : 1 .. Cardinality(Targets)]
  /\ UNCHANGED <<registry, catalog, policy, hosts, source, remote, local, state,
                 evidence, spool, locks, floor>>

EditHosts ==
  /\ Edit
  /\ hosts' = hosts + 1
  /\ UNCHANGED <<registry, catalog, policy, targets, source, remote, local, state,
                 evidence, spool, locks, floor>>

\* The operator retires a state epoch: the old state leaves the active path.
RetireState ==
  /\ Edit
  /\ state # Missing
  /\ state' = Missing
  /\ UNCHANGED <<registry, catalog, policy, targets, hosts, source, remote, local,
                 evidence, spool, locks, floor>>

EditSource(d) ==
  /\ source[d] < MaxVersion
  /\ source' = [source EXCEPT ![d] = @ + 1]
  /\ UNCHANGED <<registry, catalog, policy, targets, hosts, edits, remote, local,
                 state, evidence, spool, locks, floor>>

ClearStaleSpool ==
  /\ NoOne \in spool
  /\ spool' = spool \ {NoOne}
  /\ UNCHANGED <<files, remote, local, state, evidence, locks, floor>>

LoseSnapshot(t) ==
  /\ Cardinality(lost) < MaxLost
  /\ \E id \in 1 .. Len(repo[t]) :
       <<t, id>> \notin lost /\ lost' = lost \cup {<<t, id>>}
  /\ UNCHANGED <<files, repo, local, state, evidence, spool, locks, floor>>

-----------------------------------------------------------------------------
Load(p) == ReadGovernance(p) \/ ReadDocuments(p) \/ RejectInputs(p)

Lock(p) == LockSidecar(p) \/ Refuse(p) \/ LockRegistry(p) \/ RegistryMoved(p)
           \/ LockCatalog(p) \/ InputsMoved(p)

FirstSection(p) ==
  \/ InitializeState(p) \/ Validate(p) \/ Plan(p) \/ Stage(p)
  \/ MovedWhileCapturing(p)
  \/ \E d \in Datasets : CaptureDataset(p, d)

AtTargets(p) ==
  \/ \E d \in Datasets, t \in Targets :
       \/ Replicate(p, d, t) \/ ReplicateFails(p, d, t)
       \/ VerifyReplica(p, d, t) \/ VerifyFails(p, d, t)
  \/ Settle(p)

SecondSection(p) ==
  \/ \E d \in Datasets : Recapture(p, d) \/ SourceChanged(p, d)
  \/ Commit(p) \/ CommitNothing(p) \/ PublishEvidence(p)

Step(p) == Load(p) \/ Lock(p) \/ FirstSection(p) \/ AtTargets(p) \/ SecondSection(p)

Environment ==
  \/ WriteRegistry \/ ReconcileCatalog
  \/ EditPolicy \/ EditTargets \/ EditHosts \/ RetireState \/ ClearStaleSpool
  \/ \E d \in Datasets : EditSource(d)
  \/ \E t \in Targets : LoseSnapshot(t)

Next ==
  \/ \E p \in Procs :
       \/ \E c \in Commands : \E e \in IF c = "drill" THEN Paths ELSE {NoPath} :
            Start(p, c, e)
       \/ Step(p) \/ Interrupt(p) \/ Crash(p)
  \/ Environment

Spec == Init /\ [][Next]_vars

-----------------------------------------------------------------------------
(* Correctness.                                                            *)

Labels == {"idle", "governance", "documents", "sidecar", "registry", "catalog",
           "current", "work", "registry again", "catalog again", "current again"}

FilesOK ==
  /\ registry \in Nat /\ catalog \in CatalogDoc
  /\ policy \in PolicyDoc /\ targets \in TargetsDoc /\ hosts \in Nat
  /\ source \in [Datasets -> Nat \ {0}] /\ edits \in Nat

ControlOK ==
  /\ state \in StateDoc \cup {Missing}
  /\ evidence \in [Paths -> EvidenceDoc \cup {Missing}]
  /\ spool \subseteq Procs \cup {NoOne}
  /\ locks \in LockHolders
  /\ floor \in [Datasets -> Nat]

RemoteOK ==
  /\ repo \in [Targets -> Seq([dataset : Datasets, manifest : Nat])]
  /\ lost \subseteq Targets \X Nat

LocalOK ==
  /\ pc \in [Procs -> Labels]
  /\ cmd \in [Procs -> Commands \cup {"none"}]
  /\ path \in [Procs -> Paths]
  /\ in \in [Procs -> InputsDoc]
  /\ captured \in [Procs -> [Datasets -> Nat]]
  /\ todo \in [Procs -> SUBSET (Datasets \X Targets)]
  /\ acks \in [Procs -> [Datasets -> Replicas]]
  /\ confirm \in [Procs -> SUBSET Datasets]
  /\ exit \in {"none", "ok", "degraded", "error", "crash"}

\* Every variable holds a value of its type, in every command's every step.
TypeOK == FilesOK /\ ControlOK /\ RemoteOK /\ LocalOK

\* What the state file records about a dataset is really at the targets: a
\* committed dataset has the required acknowledgements, and each recorded
\* snapshot was taken of that dataset and of the recorded manifest.
Protects(s, r) ==
  \A d \in Datasets :
    LET ds == s.datasets[d] IN
    /\ ds.sequence > 0 => Cardinality(Recorded(ds.replicas)) >= s.targets.acks
    /\ ds.sequence = 0 => Recorded(ds.replicas) = {}
    /\ \A t \in Recorded(ds.replicas) : Holds(r, t, ds.replicas[t], d, ds.manifest)

\* Whatever crashes, timeouts, orphan snapshots and concurrent commands did
\* (backup, _write_state_json), the state on disk promises only what exists.
StateProtects == state # Missing => Protects(state, repo)

Truthful(ev, r) ==
  /\ Protects(ev.state, r)
  /\ \A d \in Datasets : \A t \in Recorded(ev.verified[d]) :
       ev.verified[d][t] = ev.state.datasets[d].replicas[t]
  /\ \A d \in DOMAIN ev.status :
       ev.status[d] = "verified" <=> Recorded(ev.verified[d]) = Targets

\* Published restore evidence claims only replicas that its state records and
\* that hold the recorded manifest, and says "verified" only when every target
\* of the set was (drill).
EvidenceIsTrue ==
  \A e \in Paths : evidence[e] # Missing => Truthful(evidence[e], repo)

\* The inputs a command acts on at the targets are one governance: policy,
\* targets, catalog and state were all bound to the same registry generation.
ConsistentInputs ==
  \A p \in Procs : pc[p] \in {"work", "registry again", "current again"} =>
    /\ in[p].catalog.registry = in[p].registry
    /\ in[p].policy.registry = in[p].registry
    /\ in[p].targets.registry = in[p].registry
    /\ StateIsBound(in[p].state, in[p])

\* A command replaces only the state it read: the generation advances by one,
\* a dataset is left alone or advances by one, and a state that is not a
\* successor is a new epoch.  Two backups that read the same state before
\* either took the sidecar lock cannot both commit.
NoLostCommit ==
  [][state' # state /\ state' # Missing =>
       IF state = Missing
       THEN \/ state'.generation = 0
            \/ /\ in[locks.sidecar].state # Missing
               /\ state'.generation = in[locks.sidecar].state.generation + 1
       ELSE /\ state'.generation = state.generation + 1
            /\ \A d \in Datasets :
                 \/ state'.datasets[d] = state.datasets[d]
                 \/ state'.datasets[d].sequence = state.datasets[d].sequence + 1]_vars

\* A state is only ever written for the registry generation in force, and with
\* a catalog bound to it: the registry and catalog locks are held across the
\* check and the write.
WrittenUnderGovernance ==
  [][state' # state /\ state' # Missing =>
       state'.registry = registry /\ catalog.registry = registry]_vars

\* What a backup commits is no older than the source was when its second
\* locked section began: capture_dataset is run again before the commit.
CommitsFreshData ==
  [][state' # state /\ state # Missing /\ state' # Missing =>
       \A d \in Datasets :
         state'.datasets[d].sequence > state.datasets[d].sequence =>
           state'.datasets[d].manifest \in floor[d] .. source[d]]_vars

\* Evidence is never replaced, and describes the state on disk when it appears
\* (unless the operator is retiring that state).
EvidenceBinds ==
  [][\A e \in Paths : evidence'[e] # evidence[e] =>
       /\ evidence[e] = Missing
       /\ state \in {evidence'[e].state, Missing}]_vars

-----------------------------------------------------------------------------
(* The inductive invariant behind the safety properties: which locks a     *)
(* command holds where, what it may rely on while it holds them, and what  *)
(* its local copies stand for.                                             *)

SidecarHeld == {"registry", "catalog", "current", "work",
                "registry again", "catalog again", "current again"}
RegistryHeld == {"catalog", "current", "catalog again", "current again"}
CatalogHeld == {"current", "current again"}
AfterCapture == {"work", "registry again", "catalog again", "current again"}
InputsRead == {"sidecar"} \cup SidecarHeld

LocksHeld ==
  \A p \in Procs : /\ pc[p] \in SidecarHeld <=> locks.sidecar = p
                   /\ pc[p] \in RegistryHeld <=> locks.registry = p
                   /\ pc[p] \in CatalogHeld <=> locks.catalog = p

\* One governance per command, still in force while the locks are held.
InputsBound ==
  \A p \in Procs :
    /\ pc[p] \in InputsRead \cup {"documents"} => in[p].catalog.registry = in[p].registry
    /\ pc[p] \in InputsRead =>
         /\ in[p].policy.registry = in[p].registry
         /\ in[p].targets.registry = in[p].registry
         /\ cmd[p] # "init-state" =>
              in[p].state \in StateDoc /\ StateIsBound(in[p].state, in[p])
    /\ pc[p] \in RegistryHeld => registry = in[p].registry
    /\ pc[p] \in CatalogHeld => catalog = in[p].catalog
    /\ pc[p] \in AfterCapture => cmd[p] \in {"backup", "drill"}
    /\ pc[p] = "current again" => state \in {in[p].state, Missing}

\* A remembered acknowledgement is a snapshot of what was captured; a
\* remembered verification is of the recorded snapshot.
AcksTrue ==
  \A p \in Procs :
    /\ pc[p] \notin AfterCapture => acks[p] = [d \in Datasets |-> NoReplicas]
    /\ \A d \in Datasets, t \in Targets : acks[p][d][t] # 0 =>
         IF cmd[p] = "backup"
         THEN Holds(repo, t, acks[p][d][t], d, captured[p][d])
         ELSE acks[p][d][t] = in[p].state.datasets[d].replicas[t]

InputsProtect ==
  \A p \in Procs : in[p].state # Missing => Protects(in[p].state, repo)

IInv == /\ TypeOK /\ LocksHeld /\ InputsBound /\ AcksTrue
        /\ StateProtects /\ InputsProtect /\ EvidenceIsTrue

-----------------------------------------------------------------------------
(* Progress.  Every wait of a command is bounded: restic and git run under *)
(* timeouts, loops run over finite lists, and flock(2) wakes a waiter when *)
(* the lock is released.                                                   *)

Fairness ==
  \A p \in Procs :
    /\ WF_vars(Step(p))
    /\ SF_vars(LockSidecar(p) \/ Refuse(p))
    /\ SF_vars(LockRegistry(p) \/ RegistryMoved(p))
    /\ SF_vars(LockCatalog(p) \/ InputsMoved(p))

FairSpec == Spec /\ Fairness

\* Every command that starts ends, however the others compete for the locks.
CommandsEnd == \A p \in Procs : []<>(pc[p] = "idle")

-----------------------------------------------------------------------------
(* The coordinator implements the ledger it promises.                      *)

LedgerOf(s) ==
  IF s = Missing THEN Missing
  ELSE [quorums |-> {Q \in SUBSET Targets : Cardinality(Q) >= s.targets.acks},
        entries |-> [d \in Datasets |->
          [sequence |-> s.datasets[d].sequence,
           manifest |-> s.datasets[d].manifest,
           replicas |-> Recorded(s.datasets[d].replicas)]]]

Copies ==
  UNION {{<<t, repo[t][id].dataset, repo[t][id].manifest>>
            : id \in 1 .. Len(repo[t])} : t \in Targets}

\* What an evidence file claims.
Claimed(ev) ==
  UNION {{<<t, d, ev.state.datasets[d].manifest>> : t \in Recorded(ev.verified[d])}
           : d \in Datasets}

Attested == UNION {Claimed(evidence[e]) : e \in {f \in Paths : evidence[f] # Missing}}

Ledger == INSTANCE ProtectionLedger
            WITH ledger <- LedgerOf(state), copies <- Copies,
                 attested <- Attested, NoLedger <- Missing

\* Every behaviour of the coordinator, its crashes and its operator is one of
\* the ledger: state file, repositories and evidence never claim what is not.
ImplementsLedger == Ledger!LedgerSpec
=============================================================================
