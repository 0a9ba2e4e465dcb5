--------------------------- MODULE SidecarProofs ---------------------------
(***************************************************************************)
(* Theorems about Sidecar for every set of processes, datasets and targets *)
(* and every bound.                                                        *)
(***************************************************************************)
EXTENDS Sidecar, FiniteSetTheorems, SequenceTheorems, TLAPS

\* The set of targets has a positive size.
LEMMA TargetCount == Cardinality(Targets) \in Nat \ {0}
<1>1. Cardinality(Targets) \in Nat
  BY SidecarAssumption, FS_CardinalityType
<1>2. Cardinality(Targets) # 0
  BY SidecarAssumption, FS_EmptySet
<1> QED BY <1>1, <1>2

\* The empty locals of a command are typed.
LEMMA DefaultsTyped ==
  /\ NoPath \in Paths
  /\ NoReplicas \in Replicas
  /\ EmptyDatasets \in [Datasets -> DatasetState]
  /\ NoInputs \in InputsDoc
<1>1. NoPath \in Paths
  BY SidecarAssumption DEF NoPath
<1>2. NoReplicas \in Replicas
  BY DEF NoReplicas, Replicas
<1>3. EmptyDatasets \in [Datasets -> DatasetState]
  BY <1>2 DEF EmptyDatasets, DatasetState
<1>4. InitTargets \in TargetsDoc
  BY TargetCount DEF InitTargets, TargetsDoc
<1>5. InitPolicy \in PolicyDoc /\ InitCatalog \in CatalogDoc
  BY DEF InitPolicy, PolicyDoc, InitCatalog, CatalogDoc
<1>6. NoInputs \in InputsDoc
  BY <1>4, <1>5 DEF NoInputs, InputsDoc
<1> QED BY <1>1, <1>2, <1>3, <1>6

\* init-state writes a typed state.
LEMMA NewStateTyped ==
  ASSUME NEW x \in InputsDoc
  PROVE  NewState(x) \in StateDoc
BY DefaultsTyped DEF NewState, StateDoc, InputsDoc

\* Whatever command ends, and however, what it leaves is typed.
LEMMA ForgetTyped ==
  ASSUME TypeOK, NEW p \in Procs,
         NEW code \in {"ok", "degraded", "error", "crash"}, Forget(p, code)
  PROVE  /\ LocalOK'
         /\ locks' \in LockHolders
         /\ floor' \in [Datasets -> Nat]
<1> USE DefaultsTyped DEF TypeOK, LocalOK, ControlOK, Forget
<1>1. LocalOK'
  BY DEF Labels
<1>2. locks' \in LockHolders
  BY DEF Release, LockHolders
<1>3. floor' \in [Datasets -> Nat]
  OBVIOUS
<1> QED BY <1>1, <1>2, <1>3

\* A command that ends with the files, the targets, the state and the evidence
\* as they are keeps the type invariant.
LEMMA LeaveTyped ==
  ASSUME TypeOK, NEW p \in Procs,
         NEW code \in {"ok", "degraded", "error", "crash"}, Leave(p, code),
         UNCHANGED <<files, remote>>,
         state' \in StateDoc \cup {Missing},
         evidence' \in [Paths -> EvidenceDoc \cup {Missing}]
  PROVE  TypeOK'
<1>1. /\ LocalOK'
      /\ locks' \in LockHolders
      /\ floor' \in [Datasets -> Nat]
  BY ForgetTyped DEF Leave
<1>2. spool' \subseteq Procs \cup {NoOne}
  <2>1. spool \subseteq Procs \cup {NoOne} /\ Abandoned(p) \subseteq Procs \cup {NoOne}
    BY DEF TypeOK, ControlOK, Abandoned
  <2> QED BY <2>1 DEF Leave
<1>3. FilesOK' /\ RemoteOK'
  BY DEF files, remote, TypeOK, FilesOK, RemoteOK
<1> QED BY <1>1, <1>2, <1>3 DEF TypeOK, ControlOK

\* Inputs stay typed when their fields are read.
LEMMA ReadTyped ==
  ASSUME NEW x \in InputsDoc, NEW r \in Nat, NEW c \in CatalogDoc,
         NEW pol \in PolicyDoc, NEW tar \in TargetsDoc, NEW h \in Nat,
         NEW s \in StateDoc \cup {Missing}
  PROVE  /\ [x EXCEPT !.registry = r, !.catalog = c] \in InputsDoc
         /\ [x EXCEPT !.policy = pol, !.targets = tar, !.hosts = h, !.state = s]
              \in InputsDoc
BY DEF InputsDoc

\* backup writes a typed state.
LEMMA NextStateTyped ==
  ASSUME TypeOK, NEW p \in Procs, in[p].state \in StateDoc
  PROVE  NextState(p) \in StateDoc
<1> DEFINE s == in[p].state
           ds == [d \in Datasets |->
                    IF d \in Committed(p)
                    THEN [sequence |-> s.datasets[d].sequence + 1,
                          manifest |-> captured[p][d], replicas |-> acks[p][d]]
                    ELSE s.datasets[d]]
<1>1. ds \in [Datasets -> DatasetState]
  BY DEF TypeOK, LocalOK, StateDoc, DatasetState
<1>2. NextState(p) = [s EXCEPT !.generation = @ + 1, !.datasets = ds]
  BY DEF NextState
<1>3. s.generation + 1 \in Nat
  BY DEF StateDoc
<1> HIDE DEF ds
<1>4. ASSUME NEW x \in StateDoc, x.generation + 1 \in Nat
      PROVE  [x EXCEPT !.generation = @ + 1, !.datasets = ds] \in StateDoc
  BY <1>1, <1>4 DEF StateDoc
<1> QED BY <1>2, <1>3, <1>4

\* Every step of the coordinator, of its operator and of its targets keeps the
\* type invariant, given that a command past its inputs holds a state.
LEMMA TypeStep == TypeOK /\ InputsBound /\ [Next]_vars => TypeOK'
<1> SUFFICES ASSUME TypeOK, InputsBound, [Next]_vars PROVE TypeOK'
  OBVIOUS
<1> USE DEF files, remote, local
<1>1. ASSUME NEW p \in Procs, NEW c \in Commands, NEW e \in Paths, Start(p, c, e)
      PROVE  TypeOK'
  BY <1>1 DEF Start, Goto, TypeOK, FilesOK, ControlOK, RemoteOK, LocalOK, Labels
<1>2. ASSUME NEW p \in Procs, Load(p) PROVE TypeOK'
  <2>1. CASE ReadGovernance(p)
    <3>1. [in[p] EXCEPT !.registry = registry, !.catalog = catalog] \in InputsDoc
      BY ReadTyped DEF TypeOK, FilesOK, ControlOK, LocalOK
    <3> QED
      BY <2>1, <3>1 DEF ReadGovernance, Goto, TypeOK, FilesOK, ControlOK, RemoteOK,
                        LocalOK, Labels
  <2>2. CASE ReadDocuments(p)
    <3> DEFINE x == [in[p] EXCEPT !.policy = policy, !.targets = targets,
                        !.hosts = hosts,
                        !.state = IF cmd[p] = "init-state" THEN Missing ELSE state]
    <3>1. x \in InputsDoc
      <4> DEFINE s == IF cmd[p] = "init-state" THEN Missing ELSE state
      <4>1. s \in StateDoc \cup {Missing} /\ in[p] \in InputsDoc
        BY DEF TypeOK, ControlOK, LocalOK
      <4>2. policy \in PolicyDoc /\ targets \in TargetsDoc /\ hosts \in Nat
        BY DEF TypeOK, FilesOK
      <4> HIDE DEF s
      <4>3. [in[p] EXCEPT !.policy = policy, !.targets = targets, !.hosts = hosts,
                          !.state = s] \in InputsDoc
        BY <4>1, <4>2 DEF InputsDoc
      <4> QED BY <4>3 DEF s
    <3>2. in' = [in EXCEPT ![p] = x]
      BY <2>2 DEF ReadDocuments
    <3> HIDE DEF x
    <3> QED
      BY <2>2, <3>1, <3>2 DEF ReadDocuments, Goto, TypeOK, FilesOK, ControlOK,
                              RemoteOK, LocalOK, Labels
  <2>3. CASE RejectInputs(p)
    BY <2>3, LeaveTyped DEF RejectInputs, TypeOK, ControlOK
  <2> QED BY <1>2, <2>1, <2>2, <2>3 DEF Load
<1>3. ASSUME NEW p \in Procs, Lock(p) PROVE TypeOK'
  <2>1. CASE LockSidecar(p)
    BY <2>1 DEF LockSidecar, Goto, LockHolders, TypeOK, FilesOK, ControlOK, RemoteOK, LocalOK, Labels
  <2>2. CASE LockRegistry(p)
    BY <2>2 DEF LockRegistry, Goto, LockHolders, TypeOK, FilesOK, ControlOK, RemoteOK, LocalOK, Labels
  <2>3. CASE LockCatalog(p)
    BY <2>3 DEF LockCatalog, Goto, LockHolders, TypeOK, FilesOK, ControlOK, RemoteOK, LocalOK, Labels
  <2>4. CASE Refuse(p) \/ RegistryMoved(p) \/ InputsMoved(p)
    BY <2>4, LeaveTyped DEF Refuse, RegistryMoved, InputsMoved, TypeOK, ControlOK
  <2> QED BY <1>3, <2>1, <2>2, <2>3, <2>4 DEF Lock
<1>4. ASSUME NEW p \in Procs, FirstSection(p) PROVE TypeOK'
  <2>1. CASE InitializeState(p)
    BY <2>1, LeaveTyped, NewStateTyped
       DEF InitializeState, TypeOK, ControlOK, LocalOK
  <2>2. CASE Validate(p) \/ Plan(p) \/ MovedWhileCapturing(p)
    BY <2>2, LeaveTyped DEF Validate, Plan, MovedWhileCapturing, TypeOK, ControlOK
  <2>3. CASE Stage(p)
    <3>1. Work(p) \subseteq Datasets \X Targets
      BY DEF Work, TypeOK, LocalOK, InputsDoc, PolicyDoc
    <3> QED
      BY <2>3, <3>1 DEF Stage, Goto, LockHolders, TypeOK, FilesOK, ControlOK, RemoteOK, LocalOK, Labels
  <2>4. ASSUME NEW d \in Datasets, CaptureDataset(p, d) PROVE TypeOK'
    <3>1. source[d] \in Nat
      BY DEF TypeOK, FilesOK
    <3> QED
      BY <2>4, <3>1 DEF CaptureDataset, TypeOK, FilesOK, ControlOK, RemoteOK, LocalOK
  <2> QED BY <1>4, <2>1, <2>2, <2>3, <2>4 DEF FirstSection
<1>5. ASSUME NEW p \in Procs, AtTargets(p) PROVE TypeOK'
  <2>1. ASSUME NEW d \in Datasets, NEW t \in Targets, Taken(p, d, t) \/ UNCHANGED repo
        PROVE  repo' \in [Targets -> Seq([dataset : Datasets, manifest : Nat])]
    <3>1. [dataset |-> d, manifest |-> captured[p][d]]
            \in [dataset : Datasets, manifest : Nat]
      BY DEF TypeOK, LocalOK
    <3>2. repo \in [Targets -> Seq([dataset : Datasets, manifest : Nat])]
      BY DEF TypeOK, RemoteOK
    <3>3. repo[t] \in Seq([dataset : Datasets, manifest : Nat])
      BY <3>2
    <3>4. CASE Taken(p, d, t)
      <4>1. Append(repo[t], [dataset |-> d, manifest |-> captured[p][d]])
              \in Seq([dataset : Datasets, manifest : Nat])
        BY <3>1, <3>3, AppendProperties
      <4> QED BY <3>2, <3>4, <4>1 DEF Taken
    <3> QED BY <2>1, <3>2, <3>4
  <2>2. ASSUME NEW d \in Datasets, NEW t \in Targets, Replicate(p, d, t)
        PROVE  TypeOK'
    <3>1. Len(repo[t]) + 1 \in Nat
      BY DEF TypeOK, RemoteOK
    <3> QED
      BY <2>1, <2>2, <3>1 DEF Replicate, Done, TypeOK, FilesOK, ControlOK, RemoteOK,
                              LocalOK, Replicas
  <2>3. ASSUME NEW d \in Datasets, NEW t \in Targets, ReplicateFails(p, d, t)
        PROVE  TypeOK'
    BY <2>1, <2>3 DEF ReplicateFails, Done, TypeOK, FilesOK, ControlOK, RemoteOK, LocalOK
  <2>4. ASSUME NEW d \in Datasets, NEW t \in Targets, VerifyReplica(p, d, t)
        PROVE  TypeOK'
    <3>1. in[p].state.datasets[d].replicas[t] \in Nat
      BY <2>4 DEF VerifyReplica, Restores, Holds, TypeOK, RemoteOK
    <3> QED
      BY <2>4, <3>1 DEF VerifyReplica, Done, TypeOK, FilesOK, ControlOK, RemoteOK,
                        LocalOK, Replicas
  <2>5. ASSUME NEW d \in Datasets, NEW t \in Targets, VerifyFails(p, d, t)
        PROVE  TypeOK'
    BY <2>5 DEF VerifyFails, Done, TypeOK, FilesOK, ControlOK, RemoteOK, LocalOK
  <2>6. CASE Settle(p)
    <3>1. Committed(p) \subseteq Datasets
      BY DEF Committed, TypeOK, LocalOK, InputsDoc, PolicyDoc
    <3> QED
      BY <2>6, <3>1 DEF Settle, Goto, TypeOK, FilesOK, ControlOK, RemoteOK, LocalOK, Labels
  <2> QED BY <1>5, <2>2, <2>3, <2>4, <2>5, <2>6 DEF AtTargets
<1>6. ASSUME NEW p \in Procs, SecondSection(p) PROVE TypeOK'
  <2>1. pc[p] = "current again" /\ cmd[p] \in {"backup", "drill"} =>
          in[p].state \in StateDoc
    BY DEF InputsBound, InputsRead, SidecarHeld
  <2>2. ASSUME NEW d \in Datasets, Recapture(p, d) PROVE TypeOK'
    BY <2>2 DEF Recapture, TypeOK, FilesOK, ControlOK, RemoteOK, LocalOK
  <2>3. CASE CommitNothing(p) \/ \E d \in Datasets : SourceChanged(p, d)
    BY <2>3, LeaveTyped DEF CommitNothing, SourceChanged, TypeOK, ControlOK
  <2>4. CASE Commit(p)
    BY <2>1, <2>4, NextStateTyped, LeaveTyped DEF Commit, TypeOK, ControlOK
  <2>5. CASE PublishEvidence(p)
    <3> DEFINE ev == [state |-> in[p].state, verified |-> acks[p],
                      status |-> [d \in in[p].policy.datasets |-> DrillStatus(p, d)]]
    <3>1. ev.status \in [in[p].policy.datasets ->
                           {"verified", "verified-degraded", "not-verified"}]
      BY DEF DrillStatus
    <3>2. in[p].policy.datasets \in SUBSET Datasets
      BY DEF TypeOK, LocalOK, InputsDoc, PolicyDoc
    <3>3. ev.state \in StateDoc /\ ev.verified \in [Datasets -> Replicas]
      BY <2>1, <2>5 DEF PublishEvidence, TypeOK, LocalOK
    <3>4. ev \in EvidenceDoc
      BY <3>1, <3>2, <3>3 DEF EvidenceDoc
    <3>5. evidence' = [evidence EXCEPT ![path[p]] = ev]
      BY <2>5 DEF PublishEvidence
    <3> HIDE DEF ev
    <3>6. evidence' \in [Paths -> EvidenceDoc \cup {Missing}]
      BY <3>4, <3>5 DEF TypeOK, ControlOK
    <3> QED BY <2>5, <3>6, LeaveTyped DEF PublishEvidence, TypeOK, ControlOK
  <2> QED BY <1>6, <2>2, <2>3, <2>4, <2>5 DEF SecondSection
<1>7. ASSUME NEW p \in Procs, Interrupt(p) PROVE TypeOK'
  BY <1>7, LeaveTyped DEF Interrupt, TypeOK, ControlOK
<1>8. ASSUME NEW p \in Procs, Crash(p) PROVE TypeOK'
  <2>1. /\ LocalOK' /\ locks' \in LockHolders /\ floor' \in [Datasets -> Nat]
    BY <1>8, ForgetTyped DEF Crash
  <2>2. spool' \subseteq Procs \cup {NoOne}
    BY <1>8 DEF Crash, Abandoned, TypeOK, ControlOK
  <2> QED BY <1>8, <2>1, <2>2 DEF Crash, TypeOK, FilesOK, ControlOK, RemoteOK
<1>9. CASE Environment
  <2> USE DEF WriteRegistry, ReconcileCatalog, Edit, EditPolicy, EditTargets, EditHosts,
              RetireState, EditSource, ClearStaleSpool, LoseSnapshot
  <2>1. LocalOK'
    <3>1. UNCHANGED local
      BY <1>9 DEF Environment
    <3> QED BY <3>1 DEF TypeOK, LocalOK
  <2>2. FilesOK'
    <3>1. CASE WriteRegistry \/ ReconcileCatalog
      BY <3>1 DEF TypeOK, FilesOK, CatalogDoc
    <3>2. CASE EditPolicy \/ EditTargets
      BY <3>2 DEF TypeOK, FilesOK, PolicyDoc, TargetsDoc
    <3>3. CASE EditHosts \/ RetireState
      BY <3>3 DEF TypeOK, FilesOK
    <3>4. ASSUME NEW d \in Datasets, EditSource(d) PROVE FilesOK'
      BY <3>4 DEF TypeOK, FilesOK
    <3>5. CASE ClearStaleSpool \/ \E t \in Targets : LoseSnapshot(t)
      BY <3>5 DEF TypeOK, FilesOK
    <3> QED BY <1>9, <3>1, <3>2, <3>3, <3>4, <3>5 DEF Environment
  <2>3. ControlOK'
    <3>1. UNCHANGED <<evidence, locks, floor>> /\ state' \in {state, Missing}
          /\ spool' \subseteq spool
      BY <1>9 DEF Environment
    <3> QED BY <3>1 DEF TypeOK, ControlOK
  <2>4. RemoteOK'
    <3>1. ASSUME NEW t \in Targets, LoseSnapshot(t) PROVE RemoteOK'
      <4>1. Len(repo[t]) \in Nat /\ UNCHANGED repo
        BY <3>1 DEF TypeOK, RemoteOK
      <4>2. PICK id \in 1 .. Len(repo[t]) : lost' = lost \cup {<<t, id>>}
        BY <3>1
      <4>3. lost' \subseteq Targets \X Nat
        BY <4>1, <4>2 DEF TypeOK, RemoteOK
      <4> QED BY <4>1, <4>3 DEF TypeOK, RemoteOK
    <3>2. ~(\E t \in Targets : LoseSnapshot(t)) => UNCHANGED remote
      BY <1>9 DEF Environment
    <3> QED BY <3>1, <3>2 DEF TypeOK, RemoteOK
  <2> QED BY <2>1, <2>2, <2>3, <2>4 DEF TypeOK
<1>10. CASE UNCHANGED vars
  BY <1>10 DEF vars, TypeOK, FilesOK, ControlOK, RemoteOK, LocalOK
<1>11. NoPath \in Paths
  BY DefaultsTyped
<1> QED BY <1>1, <1>2, <1>3, <1>4, <1>5, <1>6, <1>7, <1>8, <1>9, <1>10, <1>11
        DEF Next, Step

-----------------------------------------------------------------------------
\* Each step either ends a command, or moves one command's label with the lock
\* it takes or gives back, or leaves labels and locks alone.
LEMMA LocksStep == TypeOK /\ LocksHeld /\ [Next]_vars => LocksHeld'
<1> SUFFICES ASSUME TypeOK, LocksHeld, [Next]_vars PROVE LocksHeld'
  OBVIOUS
<1> USE SidecarAssumption DEF files, remote, local
<1> DEFINE Dropped(h, p) == IF h = p THEN NoOne ELSE h
<1>0. pc \in [Procs -> Labels]
  BY DEF TypeOK, LocalOK
<1>1. ASSUME NEW p \in Procs, NEW code, Forget(p, code) PROVE LocksHeld'
  <2>1. pc' = [pc EXCEPT ![p] = "idle"]
    BY <1>1 DEF Forget
  <2>2. /\ locks'.sidecar = Dropped(locks.sidecar, p)
        /\ locks'.registry = Dropped(locks.registry, p)
        /\ locks'.catalog = Dropped(locks.catalog, p)
    BY <1>1 DEF Forget, Release
  <2> QED BY <1>0, <2>1, <2>2 DEF LocksHeld, SidecarHeld, RegistryHeld, CatalogHeld
<1>2. ASSUME UNCHANGED <<pc, locks>> PROVE LocksHeld'
  BY <1>2 DEF LocksHeld, SidecarHeld, RegistryHeld, CatalogHeld
<1>3. ASSUME NEW p \in Procs, NEW l \in Labels, UNCHANGED locks, Goto(p, l),
             {pc[p], l} \subseteq {"idle", "governance", "documents", "sidecar"} \/
             {pc[p], l} \subseteq {"work", "registry again"}
      PROVE  LocksHeld'
  BY <1>3 DEF Goto, LocksHeld, SidecarHeld, RegistryHeld, CatalogHeld, TypeOK, LocalOK
<1>4. ASSUME NEW p \in Procs, Load(p) PROVE LocksHeld'
  BY <1>1, <1>3, <1>4
     DEF Load, ReadGovernance, ReadDocuments, RejectInputs, Leave, Labels
<1>5. ASSUME NEW p \in Procs, Lock(p) PROVE LocksHeld'
  <2>1. CASE LockSidecar(p)
    <3>1. pc[p] = "sidecar" /\ pc' = [pc EXCEPT ![p] = "registry"] /\ locks.sidecar = NoOne
      BY <2>1 DEF LockSidecar, Goto
    <3>2. /\ locks'.sidecar = p /\ locks'.registry = locks.registry
          /\ locks'.catalog = locks.catalog
      BY <2>1 DEF LockSidecar, LockHolders, TypeOK, ControlOK
    <3> QED BY <1>0, <3>1, <3>2 DEF LocksHeld, SidecarHeld, RegistryHeld, CatalogHeld
  <2>2. CASE LockRegistry(p)
    <3>1. \/ pc[p] = "registry" /\ pc' = [pc EXCEPT ![p] = "catalog"]
          \/ pc[p] = "registry again" /\ pc' = [pc EXCEPT ![p] = "catalog again"]
      BY <2>2 DEF LockRegistry, Goto
    <3>2. /\ locks.registry = NoOne /\ locks'.registry = p
          /\ locks'.sidecar = locks.sidecar /\ locks'.catalog = locks.catalog
      BY <2>2 DEF LockRegistry, LockHolders, TypeOK, ControlOK
    <3> QED BY <1>0, <3>1, <3>2 DEF LocksHeld, SidecarHeld, RegistryHeld, CatalogHeld
  <2>3. CASE LockCatalog(p)
    <3>1. \/ pc[p] = "catalog" /\ pc' = [pc EXCEPT ![p] = "current"]
          \/ pc[p] = "catalog again" /\ pc' = [pc EXCEPT ![p] = "current again"]
      BY <2>3 DEF LockCatalog, Goto
    <3>2. /\ locks.catalog = NoOne /\ locks'.catalog = p
          /\ locks'.sidecar = locks.sidecar /\ locks'.registry = locks.registry
      BY <2>3 DEF LockCatalog, LockHolders, TypeOK, ControlOK
    <3> QED BY <1>0, <3>1, <3>2 DEF LocksHeld, SidecarHeld, RegistryHeld, CatalogHeld
  <2> QED BY <1>1, <1>5, <2>1, <2>2, <2>3
          DEF Lock, Refuse, RegistryMoved, InputsMoved, Leave
<1>6. ASSUME NEW p \in Procs, FirstSection(p) PROVE LocksHeld'
  <2>1. CASE Stage(p)
    <3>1. pc[p] = "current" /\ pc' = [pc EXCEPT ![p] = "work"]
      BY <2>1 DEF Stage, Captured, Goto
    <3>2. /\ locks'.registry = NoOne /\ locks'.catalog = NoOne
          /\ locks'.sidecar = locks.sidecar
      BY <2>1 DEF Stage, LockHolders, TypeOK, ControlOK
    <3> QED BY <1>0, <3>1, <3>2 DEF LocksHeld, SidecarHeld, RegistryHeld, CatalogHeld
  <2> QED BY <1>1, <1>2, <1>6, <2>1
          DEF FirstSection, InitializeState, Validate, Plan, MovedWhileCapturing,
              CaptureDataset, Leave
<1>7. ASSUME NEW p \in Procs, AtTargets(p) PROVE LocksHeld'
  BY <1>2, <1>3, <1>7 DEF AtTargets, Replicate, ReplicateFails, VerifyReplica,
                          VerifyFails, Settle, Labels
<1>8. ASSUME NEW p \in Procs, SecondSection(p) PROVE LocksHeld'
  BY <1>1, <1>2, <1>8 DEF SecondSection, Recapture, SourceChanged, Commit,
                          CommitNothing, PublishEvidence, Leave
<1>9. CASE Environment
  BY <1>2, <1>9 DEF Environment, WriteRegistry, ReconcileCatalog, EditPolicy,
     EditTargets, EditHosts, RetireState, EditSource, ClearStaleSpool, LoseSnapshot
<1>10. ASSUME NEW p \in Procs,
              Interrupt(p) \/ Crash(p) \/ \E c \in Commands, e \in Paths : Start(p, c, e)
       PROVE  LocksHeld'
  BY <1>1, <1>3, <1>10 DEF Interrupt, Crash, Start, Leave, Labels
<1>11. CASE UNCHANGED vars
  BY <1>2, <1>11 DEF vars
<1>12. NoPath \in Paths
  BY DefaultsTyped
<1> QED BY <1>4, <1>5, <1>6, <1>7, <1>8, <1>9, <1>10, <1>11, <1>12 DEF Next, Step

\* While a command holds a lock, nobody else changes what the lock protects;
\* what an action leaves of its own inputs is still bound.
LEMMA BoundStep == TypeOK /\ LocksHeld /\ InputsBound /\ [Next]_vars => InputsBound'
<1> SUFFICES ASSUME TypeOK, LocksHeld, InputsBound, [Next]_vars PROVE InputsBound'
  OBVIOUS
<1> USE SidecarAssumption DEF files, remote, local
<1> DEFINE BoundAt(q) ==
      /\ pc[q] \in InputsRead \cup {"documents"} => in[q].catalog.registry = in[q].registry
      /\ pc[q] \in InputsRead =>
           /\ in[q].policy.registry = in[q].registry
           /\ in[q].targets.registry = in[q].registry
           /\ cmd[q] # "init-state" =>
                in[q].state \in StateDoc /\ StateIsBound(in[q].state, in[q])
      /\ pc[q] \in RegistryHeld => registry = in[q].registry
      /\ pc[q] \in CatalogHeld => catalog = in[q].catalog
      /\ pc[q] \in AfterCapture => cmd[q] \in {"backup", "drill"}
      /\ pc[q] = "current again" => state \in {in[q].state, Missing}
<1>0. /\ pc \in [Procs -> Labels] /\ cmd \in [Procs -> Commands \cup {"none"}]
      /\ in \in [Procs -> InputsDoc]
  BY DEF TypeOK, LocalOK
\* A step of p, seen by the others.
<1>1. ASSUME NEW p \in Procs, NEW q \in Procs, q # p,
             UNCHANGED <<registry, catalog>>,
             state' # state => pc[p] \in SidecarHeld,
             pc'[q] = pc[q], cmd'[q] = cmd[q], in'[q] = in[q]
      PROVE  BoundAt(q)'
  <2>1. BoundAt(q)
    BY DEF InputsBound
  <2>2. ASSUME pc[q] = "current again" PROVE state' = state
    <3>1. locks.sidecar = q
      BY <2>2 DEF LocksHeld, SidecarHeld
    <3>2. pc[p] \notin SidecarHeld
      BY <1>1, <3>1 DEF LocksHeld
    <3> QED BY <1>1, <3>2
  <2> QED BY <1>1, <2>1, <2>2 DEF StateIsBound
\* A command that ends is bound by nothing.
<1>2. ASSUME NEW p \in Procs, NEW code, Forget(p, code), UNCHANGED files,
             state' # state => pc[p] \in SidecarHeld
      PROVE  InputsBound'
  <2>1. pc' = [pc EXCEPT ![p] = "idle"] /\ cmd' = [cmd EXCEPT ![p] = "none"]
        /\ in' = [in EXCEPT ![p] = NoInputs] /\ UNCHANGED <<registry, catalog>>
    BY <1>2 DEF Forget
  <2>2. ASSUME NEW q \in Procs, q # p PROVE BoundAt(q)'
    BY <1>0, <1>1, <1>2, <2>1, <2>2
  <2>3. pc'[p] = "idle"
    BY <1>0, <2>1
  <2>4. BoundAt(p)'
    BY <2>3 DEF InputsRead, SidecarHeld, RegistryHeld, CatalogHeld, AfterCapture
  <2> QED BY <2>2, <2>4 DEF InputsBound
\* An action that moves only the label, from p's own clauses at the new label.
<1>3. ASSUME NEW p \in Procs, NEW l \in Labels, pc' = [pc EXCEPT ![p] = l],
             UNCHANGED <<cmd, in, registry, catalog, state>>,
             l \in InputsRead \cup {"documents"} => pc[p] \in InputsRead,
             l \in RegistryHeld => registry = in[p].registry,
             l \in CatalogHeld => catalog = in[p].catalog,
             l \in AfterCapture => cmd[p] \in {"backup", "drill"},
             l = "current again" => state = in[p].state
      PROVE  InputsBound'
  <2>1. ASSUME NEW q \in Procs, q # p PROVE BoundAt(q)'
    BY <1>0, <1>1, <1>3, <2>1
  <2>2. BoundAt(p)
    BY DEF InputsBound
  <2>3. pc'[p] = l
    BY <1>0, <1>3
  <2>4. BoundAt(p)'
    BY <1>3, <2>2, <2>3 DEF InputsRead, StateIsBound
  <2> QED BY <2>1, <2>4 DEF InputsBound
<1>4. ASSUME UNCHANGED <<pc, cmd, in, registry, catalog>>, state' \in {state, Missing}
      PROVE  InputsBound'
  BY <1>4 DEF InputsBound, StateIsBound
<1>5. ASSUME NEW p \in Procs, NEW c \in Commands, NEW e \in Paths, Start(p, c, e)
      PROVE  InputsBound'
  <2>1. pc' = [pc EXCEPT ![p] = "governance"] /\ cmd' = [cmd EXCEPT ![p] = c]
        /\ UNCHANGED <<in, registry, catalog, state>>
    BY <1>5 DEF Start, Goto
  <2>2. ASSUME NEW q \in Procs, q # p PROVE BoundAt(q)'
    BY <1>0, <1>1, <2>1, <2>2
  <2>3. pc'[p] = "governance"
    BY <1>0, <2>1
  <2>4. BoundAt(p)'
    BY <2>3 DEF InputsRead, SidecarHeld, RegistryHeld, CatalogHeld, AfterCapture
  <2> QED BY <2>2, <2>4 DEF InputsBound
<1>6. ASSUME NEW p \in Procs, Load(p) PROVE InputsBound'
  <2>1. CASE ReadGovernance(p)
    <3> DEFINE x == [in[p] EXCEPT !.registry = registry, !.catalog = catalog]
    <3>1. /\ catalog.registry = registry
          /\ pc' = [pc EXCEPT ![p] = "documents"] /\ in' = [in EXCEPT ![p] = x]
          /\ UNCHANGED <<cmd, registry, catalog, state>>
      BY <2>1 DEF ReadGovernance, Goto
    <3>2. x.catalog.registry = x.registry
      BY <1>0, <3>1 DEF InputsDoc
    <3>3. pc'[p] = "documents" /\ in'[p] = x
      BY <1>0, <3>1
    <3> HIDE DEF x
    <3>4. ASSUME NEW q \in Procs, q # p PROVE BoundAt(q)'
      BY <1>0, <1>1, <3>1, <3>4
    <3>5. BoundAt(p)'
      BY <3>2, <3>3
         DEF InputsRead, SidecarHeld, RegistryHeld, CatalogHeld, AfterCapture
    <3> QED BY <3>4, <3>5 DEF InputsBound
  <2>2. CASE ReadDocuments(p)
    <3> DEFINE s == IF cmd[p] = "init-state" THEN Missing ELSE state
               x == [in[p] EXCEPT !.policy = policy, !.targets = targets,
                                  !.hosts = hosts, !.state = s]
    <3>1. /\ pc[p] = "documents"
          /\ pc' = [pc EXCEPT ![p] = "sidecar"] /\ in' = [in EXCEPT ![p] = x]
          /\ UNCHANGED <<cmd, registry, catalog, state>>
      BY <2>2 DEF ReadDocuments, Goto
    <3>2. /\ policy.registry = in[p].registry /\ targets.registry = in[p].registry
          /\ cmd[p] # "init-state" =>
               state # Missing /\ state.registry = in[p].registry
               /\ state.policy = policy /\ state.targets = targets
      <4>1. DocumentsValid(p)
        BY <2>2 DEF ReadDocuments
      <4>2. [in[p] EXCEPT !.policy = policy, !.targets = targets].registry = in[p].registry
            /\ [in[p] EXCEPT !.policy = policy, !.targets = targets].policy = policy
            /\ [in[p] EXCEPT !.policy = policy, !.targets = targets].targets = targets
        BY <1>0 DEF InputsDoc
      <4> QED BY <4>1, <4>2 DEF DocumentsValid, StateIsBound
    <3>3. /\ x.registry = in[p].registry /\ x.catalog = in[p].catalog
          /\ x.policy = policy /\ x.targets = targets /\ x.state = s
      BY <1>0 DEF InputsDoc
    <3>4. in[p].catalog.registry = in[p].registry
      BY <3>1 DEF InputsBound
    <3>5. cmd[p] # "init-state" => s \in StateDoc
      BY <3>2 DEF TypeOK, ControlOK
    <3>6. pc'[p] = "sidecar" /\ in'[p] = x /\ cmd'[p] = cmd[p]
      BY <1>0, <3>1
    <3>7. ASSUME NEW q \in Procs, q # p PROVE BoundAt(q)'
      <4> HIDE DEF x
      <4> QED BY <1>0, <1>1, <3>1, <3>7
    <3>8. BoundAt(p)'
      <4>1. cmd[p] # "init-state" => s = state
        OBVIOUS
      <4> HIDE DEF x, s
      <4> QED BY <3>2, <3>3, <3>4, <3>5, <3>6, <4>1
            DEF StateIsBound, SidecarHeld, RegistryHeld, CatalogHeld, AfterCapture
    <3> QED BY <3>7, <3>8 DEF InputsBound
  <2>3. CASE RejectInputs(p)
    BY <1>2, <2>3 DEF RejectInputs, Leave
  <2> QED BY <1>6, <2>1, <2>2, <2>3 DEF Load
<1>7. ASSUME NEW p \in Procs, Lock(p) PROVE InputsBound'
  <2> USE DEF Labels, InputsRead, SidecarHeld, RegistryHeld, CatalogHeld, AfterCapture
  <2>0. /\ pc[p] \in AfterCapture => cmd[p] \in {"backup", "drill"}
        /\ pc[p] \in RegistryHeld => registry = in[p].registry
    BY DEF InputsBound
  <2>1. CASE LockSidecar(p)
    BY <1>3, <2>1 DEF LockSidecar, Goto
  <2>2. CASE LockRegistry(p)
    <3>1. CASE pc[p] = "registry"
      <4>1. pc' = [pc EXCEPT ![p] = "catalog"] /\ registry = in[p].registry
            /\ UNCHANGED <<cmd, in, registry, catalog, state>>
        BY <2>2, <3>1 DEF LockRegistry, Goto
      <4> QED BY <1>3, <3>1, <4>1
    <3>2. CASE pc[p] = "registry again"
      <4>1. pc' = [pc EXCEPT ![p] = "catalog again"] /\ registry = in[p].registry
            /\ UNCHANGED <<cmd, in, registry, catalog, state>>
        BY <2>2, <3>2 DEF LockRegistry, Goto
      <4> QED BY <1>3, <2>0, <3>2, <4>1
    <3> QED BY <2>2, <3>1, <3>2 DEF LockRegistry
  <2>3. CASE LockCatalog(p)
    <3>0. /\ registry = in[p].registry /\ catalog = in[p].catalog
          /\ UNCHANGED <<cmd, in, registry, catalog, state>>
          /\ cmd[p] # "init-state" => state = in[p].state
      BY <2>3 DEF LockCatalog, Current
    <3>1. CASE pc[p] = "catalog"
      <4>1. pc' = [pc EXCEPT ![p] = "current"]
        BY <2>3, <3>1 DEF LockCatalog, Goto
      <4> QED BY <1>3, <3>0, <3>1, <4>1
    <3>2. CASE pc[p] = "catalog again"
      <4>1. pc' = [pc EXCEPT ![p] = "current again"]
        BY <2>3, <3>2 DEF LockCatalog, Goto
      <4> QED BY <1>3, <2>0, <3>0, <3>2, <4>1
    <3> QED BY <2>3, <3>1, <3>2 DEF LockCatalog
  <2>4. CASE Refuse(p) \/ RegistryMoved(p) \/ InputsMoved(p)
    BY <1>2, <2>4 DEF Refuse, RegistryMoved, InputsMoved, Leave
  <2> QED BY <1>7, <2>1, <2>2, <2>3, <2>4 DEF Lock
<1>8. ASSUME NEW p \in Procs, FirstSection(p) PROVE InputsBound'
  <2>1. CASE Stage(p)
    <3>1. /\ pc[p] = "current" /\ cmd[p] \in {"backup", "drill"}
          /\ pc' = [pc EXCEPT ![p] = "work"]
          /\ UNCHANGED <<cmd, in, registry, catalog, state>>
      BY <2>1 DEF Stage, Captured, Goto
    <3> QED
      BY <1>3, <3>1
         DEF Labels, InputsRead, SidecarHeld, RegistryHeld, CatalogHeld, AfterCapture
  <2>2. CASE InitializeState(p)
    BY <1>2, <2>2 DEF InitializeState, Leave, SidecarHeld
  <2>3. ASSUME NEW d \in Datasets, CaptureDataset(p, d) PROVE InputsBound'
    BY <1>4, <2>3 DEF CaptureDataset
  <2> QED BY <1>2, <1>8, <2>1, <2>2, <2>3
          DEF FirstSection, Validate, Plan, MovedWhileCapturing, Leave
<1>9. ASSUME NEW p \in Procs, AtTargets(p) PROVE InputsBound'
  <2>1. CASE Settle(p)
    <3>1. /\ pc[p] = "work" /\ pc' = [pc EXCEPT ![p] = "registry again"]
          /\ UNCHANGED <<cmd, in, registry, catalog, state>>
      BY <2>1 DEF Settle, Goto
    <3>2. cmd[p] \in {"backup", "drill"}
      BY <3>1 DEF InputsBound, AfterCapture
    <3> QED
      BY <1>3, <3>1, <3>2
         DEF Labels, InputsRead, SidecarHeld, RegistryHeld, CatalogHeld, AfterCapture
  <2>2. ASSUME NEW d \in Datasets, NEW t \in Targets,
               \/ Replicate(p, d, t) \/ ReplicateFails(p, d, t)
               \/ VerifyReplica(p, d, t) \/ VerifyFails(p, d, t)
        PROVE  InputsBound'
    <3>1. UNCHANGED <<pc, cmd, in, registry, catalog, state>>
      BY <2>2 DEF Replicate, ReplicateFails, VerifyReplica, VerifyFails
    <3> QED BY <1>4, <3>1
  <2> QED BY <1>9, <2>1, <2>2 DEF AtTargets
<1>10. ASSUME NEW p \in Procs, SecondSection(p) PROVE InputsBound'
  <2>1. CASE Commit(p)
    BY <1>2, <2>1 DEF Commit, Leave, SidecarHeld
  <2> QED BY <1>2, <1>4, <1>10, <2>1 DEF SecondSection, Recapture, SourceChanged,
                                         CommitNothing, PublishEvidence, Leave
<1>11. CASE Environment
  <2>1. CASE WriteRegistry
    <3>1. /\ locks.registry = NoOne
          /\ UNCHANGED <<pc, cmd, in, catalog, state>>
      BY <2>1 DEF WriteRegistry
    <3>2. \A q \in Procs : pc[q] \notin RegistryHeld
      BY <3>1 DEF LocksHeld
    <3> QED BY <3>1, <3>2 DEF InputsBound, StateIsBound, RegistryHeld
  <2>2. CASE ReconcileCatalog
    <3>1. /\ locks.catalog = NoOne
          /\ UNCHANGED <<pc, cmd, in, registry, state>>
      BY <2>2 DEF ReconcileCatalog
    <3>2. \A q \in Procs : pc[q] \notin CatalogHeld
      BY <3>1 DEF LocksHeld
    <3> QED BY <3>1, <3>2 DEF InputsBound, StateIsBound, CatalogHeld
  <2> QED BY <1>4, <1>11, <2>1, <2>2 DEF Environment, Edit, EditPolicy, EditTargets,
              EditHosts, RetireState, EditSource, ClearStaleSpool, LoseSnapshot
<1>12. ASSUME NEW p \in Procs, Interrupt(p) \/ Crash(p) PROVE InputsBound'
  BY <1>2, <1>12 DEF Interrupt, Crash, Leave
<1>13. CASE UNCHANGED vars
  BY <1>4, <1>13 DEF vars
<1>14. NoPath \in Paths
  BY DefaultsTyped
<1> QED BY <1>5, <1>6, <1>7, <1>8, <1>9, <1>10, <1>11, <1>12, <1>13, <1>14
        DEF Next, Step

-----------------------------------------------------------------------------
\* Targets only ever append snapshots to their repositories.
Grew(r, r2) ==
  \A t \in Targets : \A id \in 1 .. Len(r[t]) : id \in 1 .. Len(r2[t]) /\ r2[t][id] = r[t][id]

\* No step rewrites or removes a snapshot record.
LEMMA RepoGrows == TypeOK /\ [Next]_vars => Grew(repo, repo')
<1> SUFFICES ASSUME TypeOK, [Next]_vars PROVE Grew(repo, repo')
  OBVIOUS
<1> USE DEF files, remote, local
<1>1. ASSUME UNCHANGED repo PROVE Grew(repo, repo')
  BY <1>1 DEF Grew
<1>2. ASSUME NEW p \in Procs, NEW d \in Datasets, NEW t \in Targets, Taken(p, d, t)
      PROVE  Grew(repo, repo')
  <2> DEFINE x == [dataset |-> d, manifest |-> captured[p][d]]
  <2>1. repo \in [Targets -> Seq([dataset : Datasets, manifest : Nat])]
        /\ x \in [dataset : Datasets, manifest : Nat]
    BY DEF TypeOK, RemoteOK, LocalOK
  <2>2. repo' = [repo EXCEPT ![t] = Append(repo[t], x)]
    BY <1>2 DEF Taken
  <2> HIDE DEF x
  <2>3. /\ Len(Append(repo[t], x)) = Len(repo[t]) + 1 /\ Len(repo[t]) \in Nat
        /\ \A id \in 1 .. Len(repo[t]) : Append(repo[t], x)[id] = repo[t][id]
    BY <2>1, AppendProperties, LenProperties
  <2>4. \A u \in Targets : u # t => repo'[u] = repo[u]
    BY <2>1, <2>2
  <2>5. repo'[t] = Append(repo[t], x)
    BY <2>1, <2>2
  <2> QED BY <2>3, <2>4, <2>5 DEF Grew
<1>3. ASSUME NEW p \in Procs, Load(p) \/ Lock(p) \/ FirstSection(p) \/ SecondSection(p)
      PROVE  UNCHANGED repo
  BY <1>3 DEF Load, ReadGovernance, ReadDocuments, RejectInputs, Lock, LockSidecar,
     Refuse, LockRegistry, RegistryMoved, LockCatalog, InputsMoved, FirstSection,
     InitializeState, Validate, Plan, Stage, MovedWhileCapturing, CaptureDataset,
     SecondSection, Recapture, SourceChanged, Commit, CommitNothing, PublishEvidence
<1>4. ASSUME NEW p \in Procs, AtTargets(p) PROVE Grew(repo, repo')
  BY <1>1, <1>2, <1>4 DEF AtTargets, Replicate, ReplicateFails, VerifyReplica,
                          VerifyFails, Settle
<1>5. ASSUME NEW p \in Procs, Interrupt(p) \/ Crash(p) \/
             \E c \in Commands, e \in Paths : Start(p, c, e)
      PROVE  UNCHANGED repo
  BY <1>5 DEF Interrupt, Crash, Start
<1>6. CASE Environment
  BY <1>1, <1>6 DEF Environment, WriteRegistry, ReconcileCatalog, Edit, EditPolicy,
     EditTargets, EditHosts, RetireState, EditSource, ClearStaleSpool, LoseSnapshot
<1>7. CASE UNCHANGED vars
  BY <1>1, <1>7 DEF vars
<1>8. NoPath \in Paths
  BY DefaultsTyped
<1> QED BY <1>1, <1>3, <1>4, <1>5, <1>6, <1>7, <1>8 DEF Next, Step

\* What a repository held, it holds.
LEMMA HoldsKept ==
  ASSUME NEW r, NEW r2, Grew(r, r2), NEW t \in Targets, NEW id, NEW d, NEW m,
         Holds(r, t, id, d, m)
  PROVE  Holds(r2, t, id, d, m)
BY DEF Grew, Holds

\* A state that was protected stays protected.
LEMMA ProtectsKept ==
  ASSUME NEW r, NEW r2, Grew(r, r2), NEW s, Protects(s, r)
  PROVE  Protects(s, r2)
BY HoldsKept DEF Protects, Recorded

\* A new state promises nothing.
LEMMA NewStateProtects ==
  ASSUME NEW x, NEW r
  PROVE  Protects(NewState(x), r)
<1>1. \A d \in Datasets : NewState(x).datasets[d] =
        [sequence |-> 0, manifest |-> 0, replicas |-> NoReplicas]
  BY DEF NewState, EmptyDatasets
<1>2. Recorded(NoReplicas) = {}
  BY DEF Recorded, NoReplicas
<1> QED BY <1>1, <1>2 DEF Protects

-----------------------------------------------------------------------------
\* A remembered acknowledgement stays one: what was captured and read does not
\* change once there is something to remember.
LEMMA AcksStep == TypeOK /\ InputsBound /\ AcksTrue /\ [Next]_vars => AcksTrue'
<1> SUFFICES ASSUME TypeOK, InputsBound, AcksTrue, [Next]_vars PROVE AcksTrue'
  OBVIOUS
<1> USE DEF files, remote, local
<1> DEFINE AcksAt(q) ==
      /\ pc[q] \notin AfterCapture => acks[q] = [d \in Datasets |-> NoReplicas]
      /\ \A d \in Datasets, t \in Targets : acks[q][d][t] # 0 =>
           IF cmd[q] = "backup"
           THEN Holds(repo, t, acks[q][d][t], d, captured[q][d])
           ELSE acks[q][d][t] = in[q].state.datasets[d].replicas[t]
<1>0. /\ pc \in [Procs -> Labels] /\ cmd \in [Procs -> Commands \cup {"none"}]
      /\ in \in [Procs -> InputsDoc] /\ captured \in [Procs -> [Datasets -> Nat]]
      /\ acks \in [Procs -> [Datasets -> Replicas]]
  BY DEF TypeOK, LocalOK
<1>g. Grew(repo, repo')
  BY RepoGrows
<1>1. ASSUME NEW q \in Procs, pc'[q] = pc[q] \/ acks[q] = [d \in Datasets |-> NoReplicas]
               \/ (pc[q] \in AfterCapture /\ pc'[q] \in AfterCapture),
             acks'[q] = acks[q],
             \/ acks[q] = [d \in Datasets |-> NoReplicas]
             \/ cmd'[q] = cmd[q] /\ in'[q] = in[q] /\ captured'[q] = captured[q]
      PROVE  AcksAt(q)'
  <2>1. AcksAt(q)
    BY DEF AcksTrue
  <2>2. CASE acks[q] = [d \in Datasets |-> NoReplicas]
    BY <1>1, <2>2 DEF NoReplicas
  <2>3. CASE acks[q] # [d \in Datasets |-> NoReplicas]
    <3>1. cmd'[q] = cmd[q] /\ in'[q] = in[q] /\ captured'[q] = captured[q]
      BY <1>1, <2>3
    <3>2. pc'[q] \in AfterCapture
      BY <1>1, <2>1, <2>3
    <3>3. ASSUME NEW d \in Datasets, NEW t \in Targets, acks[q][d][t] # 0,
                 cmd[q] = "backup"
          PROVE  Holds(repo', t, acks[q][d][t], d, captured[q][d])
      BY <1>g, <2>1, <3>3, HoldsKept
    <3> QED BY <1>1, <2>1, <3>1, <3>2, <3>3
  <2> QED BY <2>2, <2>3
<1>2. ASSUME NEW p \in Procs, NEW code, Forget(p, code) PROVE AcksTrue'
  <2>1. /\ acks' = [acks EXCEPT ![p] = [d \in Datasets |-> NoReplicas]]
        /\ pc' = [pc EXCEPT ![p] = "idle"] /\ cmd' = [cmd EXCEPT ![p] = "none"]
        /\ in' = [in EXCEPT ![p] = NoInputs]
        /\ captured' = [captured EXCEPT ![p] = [d \in Datasets |-> 0]]
    BY <1>2 DEF Forget
  <2>2. ASSUME NEW q \in Procs, q # p PROVE AcksAt(q)'
    BY <1>0, <1>1, <2>1, <2>2
  <2>3. acks'[p] = [d \in Datasets |-> NoReplicas]
    BY <1>0, <2>1
  <2>4. AcksAt(p)'
    BY <2>3 DEF NoReplicas
  <2> QED BY <2>2, <2>4 DEF AcksTrue
<1>3. ASSUME UNCHANGED <<pc, cmd, in, captured, acks>> PROVE AcksTrue'
  BY <1>1, <1>3 DEF AcksTrue
\* A step of p before it has acknowledgements, or that moves only its label.
<1>4. ASSUME NEW p \in Procs, UNCHANGED acks,
             \A q \in Procs \ {p} : /\ pc'[q] = pc[q] /\ cmd'[q] = cmd[q]
                                    /\ in'[q] = in[q] /\ captured'[q] = captured[q],
             \/ pc[p] \notin AfterCapture
             \/ /\ pc[p] \in AfterCapture /\ pc'[p] \in AfterCapture
                /\ UNCHANGED <<cmd, in, captured>>
      PROVE  AcksTrue'
  <2>1. ASSUME NEW q \in Procs, q # p PROVE AcksAt(q)'
    BY <1>1, <1>4, <2>1
  <2>2. pc[p] \notin AfterCapture => acks[p] = [d \in Datasets |-> NoReplicas]
    BY DEF AcksTrue
  <2>3. AcksAt(p)'
    BY <1>1, <1>4, <2>2
  <2> QED BY <2>1, <2>3 DEF AcksTrue
<1>5. ASSUME NEW p \in Procs, NEW c \in Commands, NEW e \in Paths, Start(p, c, e)
      PROVE  AcksTrue'
  BY <1>0, <1>4, <1>5 DEF Start, Goto, AfterCapture
<1>6. ASSUME NEW p \in Procs, Load(p) PROVE AcksTrue'
  <2>1. CASE ReadGovernance(p)
    BY <1>0, <1>4, <2>1 DEF ReadGovernance, Goto, AfterCapture
  <2>2. CASE ReadDocuments(p)
    BY <1>0, <1>4, <2>2 DEF ReadDocuments, Goto, AfterCapture
  <2> QED BY <1>2, <1>6, <2>1, <2>2 DEF Load, RejectInputs, Leave
<1>7. ASSUME NEW p \in Procs, Lock(p) PROVE AcksTrue'
  <2>1. CASE LockSidecar(p)
    BY <1>0, <1>4, <2>1 DEF LockSidecar, Goto, AfterCapture
  <2>2. CASE LockRegistry(p)
    BY <1>0, <1>4, <2>2 DEF LockRegistry, Goto, AfterCapture
  <2>3. CASE LockCatalog(p)
    BY <1>0, <1>4, <2>3 DEF LockCatalog, Goto, AfterCapture
  <2> QED BY <1>2, <1>7, <2>1, <2>2, <2>3
          DEF Lock, Refuse, RegistryMoved, InputsMoved, Leave
<1>8. ASSUME NEW p \in Procs, FirstSection(p) PROVE AcksTrue'
  <2>1. CASE Stage(p)
    BY <1>0, <1>4, <2>1 DEF Stage, Captured, Goto, AfterCapture
  <2>2. ASSUME NEW d \in Datasets, CaptureDataset(p, d) PROVE AcksTrue'
    BY <1>0, <1>4, <2>2 DEF CaptureDataset, AfterCapture
  <2> QED BY <1>2, <1>8, <2>1, <2>2
          DEF FirstSection, InitializeState, Validate, Plan, MovedWhileCapturing, Leave
<1>9. ASSUME NEW p \in Procs, NEW d \in Datasets, NEW t \in Targets, NEW id \in Nat,
             pc[p] = "work", UNCHANGED <<pc, cmd, in, captured>>,
             acks' = [acks EXCEPT ![p][d][t] = id],
             cmd[p] = "backup" => Holds(repo', t, id, d, captured[p][d]),
             cmd[p] # "backup" => id = in[p].state.datasets[d].replicas[t]
      PROVE  AcksTrue'
  <2>1. ASSUME NEW q \in Procs, q # p PROVE AcksAt(q)'
    BY <1>0, <1>1, <1>9, <2>1
  <2>2. \A dd \in Datasets, tt \in Targets :
          acks'[p][dd][tt] = IF dd = d /\ tt = t THEN id ELSE acks[p][dd][tt]
    BY <1>0, <1>9 DEF Replicas
  <2>3. ASSUME NEW dd \in Datasets, NEW tt \in Targets, acks'[p][dd][tt] # 0,
               cmd[p] = "backup"
        PROVE  Holds(repo', tt, acks'[p][dd][tt], dd, captured[p][dd])
    <3>1. CASE dd = d /\ tt = t
      BY <1>9, <2>2, <2>3, <3>1
    <3>2. CASE ~(dd = d /\ tt = t)
      BY <1>g, <2>2, <2>3, <3>2, HoldsKept DEF AcksTrue
    <3> QED BY <3>1, <3>2
  <2>4. ASSUME NEW dd \in Datasets, NEW tt \in Targets, acks'[p][dd][tt] # 0,
               cmd[p] # "backup"
        PROVE  acks'[p][dd][tt] = in[p].state.datasets[dd].replicas[tt]
    BY <1>9, <2>2, <2>4 DEF AcksTrue
  <2>5. AcksAt(p)'
    BY <1>9, <2>3, <2>4 DEF AfterCapture
  <2> QED BY <2>1, <2>5 DEF AcksTrue
<1>10. ASSUME NEW p \in Procs, AtTargets(p) PROVE AcksTrue'
  <2>1. ASSUME NEW d \in Datasets, NEW t \in Targets, Replicate(p, d, t)
        PROVE  AcksTrue'
    <3> DEFINE x == [dataset |-> d, manifest |-> captured[p][d]]
    <3>1. repo \in [Targets -> Seq([dataset : Datasets, manifest : Nat])]
          /\ x \in [dataset : Datasets, manifest : Nat]
      BY DEF TypeOK, RemoteOK, LocalOK
    <3>2. repo' = [repo EXCEPT ![t] = Append(repo[t], x)]
      BY <2>1 DEF Replicate, Taken
    <3>3. /\ pc[p] = "work" /\ cmd[p] = "backup"
          /\ UNCHANGED <<pc, cmd, in, captured>>
          /\ acks' = [acks EXCEPT ![p][d][t] = Len(repo[t]) + 1]
      BY <2>1 DEF Replicate
    <3>x. x = [dataset |-> d, manifest |-> captured[p][d]]
      OBVIOUS
    <3> HIDE DEF x
    <3>4. /\ Len(repo[t]) \in Nat /\ Len(Append(repo[t], x)) = Len(repo[t]) + 1
          /\ Append(repo[t], x)[Len(repo[t]) + 1] = x
      BY <3>1, AppendProperties, LenProperties
    <3>5. repo'[t] = Append(repo[t], x)
      BY <3>1, <3>2
    <3>6. Holds(repo', t, Len(repo[t]) + 1, d, captured[p][d])
      BY <3>4, <3>5, <3>x DEF Holds
    <3>7. PICK id \in Nat : id = Len(repo[t]) + 1
      BY <3>4
    <3>8. /\ acks' = [acks EXCEPT ![p][d][t] = id]
          /\ Holds(repo', t, id, d, captured[p][d])
      BY <3>3, <3>6, <3>7
    <3> QED BY <1>9, <3>3, <3>8
  <2>2. ASSUME NEW d \in Datasets, NEW t \in Targets, VerifyReplica(p, d, t)
        PROVE  AcksTrue'
    <3>1. in[p].state.datasets[d].replicas[t] \in Nat
      BY <2>2 DEF VerifyReplica, Restores, Holds, TypeOK, RemoteOK
    <3> QED BY <1>9, <2>2, <3>1 DEF VerifyReplica
  <2>3. ASSUME NEW d \in Datasets, NEW t \in Targets,
               ReplicateFails(p, d, t) \/ VerifyFails(p, d, t)
        PROVE  AcksTrue'
    <3>1. UNCHANGED <<pc, cmd, in, captured, acks>>
      BY <2>3 DEF ReplicateFails, VerifyFails
    <3> QED BY <1>3, <3>1
  <2>4. CASE Settle(p)
    BY <1>0, <1>4, <2>4 DEF Settle, Goto, AfterCapture
  <2> QED BY <1>10, <2>1, <2>2, <2>3, <2>4 DEF AtTargets
<1>11. ASSUME NEW p \in Procs, SecondSection(p) PROVE AcksTrue'
  BY <1>2, <1>3, <1>11 DEF SecondSection, Recapture, SourceChanged, Commit,
                           CommitNothing, PublishEvidence, Leave
<1>12. ASSUME NEW p \in Procs, Interrupt(p) \/ Crash(p) PROVE AcksTrue'
  BY <1>2, <1>12 DEF Interrupt, Crash, Leave
<1>13. CASE Environment
  BY <1>3, <1>13 DEF Environment, WriteRegistry, ReconcileCatalog, Edit, EditPolicy,
     EditTargets, EditHosts, RetireState, EditSource, ClearStaleSpool, LoseSnapshot
<1>14. CASE UNCHANGED vars
  BY <1>3, <1>14 DEF vars
<1>15. NoPath \in Paths
  BY DefaultsTyped
<1> QED BY <1>5, <1>6, <1>7, <1>8, <1>10, <1>11, <1>12, <1>13, <1>14, <1>15
        DEF Next, Step

-----------------------------------------------------------------------------
\* What the commit writes is protected: committed datasets by the snapshots
\* just acknowledged, the others by what the state read at the start promised.
LEMMA NextStateProtects ==
  ASSUME TypeOK, AcksTrue, InputsProtect, NEW p \in Procs, cmd[p] = "backup",
         in[p].state \in StateDoc, in[p].state # Missing, StateIsBound(in[p].state, in[p])
  PROVE  Protects(NextState(p), repo)
<1> DEFINE s == in[p].state
           n == NextState(p)
<1>1. /\ s.datasets \in [Datasets -> DatasetState] /\ s.targets = in[p].targets
      /\ captured[p] \in [Datasets -> Nat] /\ acks[p] \in [Datasets -> Replicas]
  BY DEF StateDoc, StateIsBound, TypeOK, LocalOK
<1>2. /\ n.targets = s.targets
      /\ \A d \in Datasets : n.datasets[d] =
           IF d \in Committed(p)
           THEN [sequence |-> s.datasets[d].sequence + 1,
                 manifest |-> captured[p][d], replicas |-> acks[p][d]]
           ELSE s.datasets[d]
  BY DEF NextState, StateDoc
<1>3. Protects(s, repo)
  BY DEF InputsProtect
<1> HIDE DEF s, n
<1>4. ASSUME NEW d \in Datasets, d \in Committed(p)
      PROVE  /\ Cardinality(Recorded(n.datasets[d].replicas)) >= n.targets.acks
             /\ n.datasets[d].sequence # 0
             /\ \A t \in Recorded(n.datasets[d].replicas) :
                  Holds(repo, t, n.datasets[d].replicas[t], d, n.datasets[d].manifest)
  <2>1. /\ n.datasets[d].replicas = acks[p][d] /\ n.datasets[d].manifest = captured[p][d]
        /\ n.datasets[d].sequence = s.datasets[d].sequence + 1
    <3>1. n.datasets[d] = [sequence |-> s.datasets[d].sequence + 1,
                           manifest |-> captured[p][d], replicas |-> acks[p][d]]
      BY <1>2, <1>4
    <3> QED BY <3>1
  <2>2. s.datasets[d].sequence \in Nat
    BY <1>1 DEF DatasetState
  <2>3. Cardinality(Recorded(acks[p][d])) >= n.targets.acks
    BY <1>1, <1>2, <1>4 DEF Committed
  <2>4. \A t \in Recorded(acks[p][d]) : Holds(repo, t, acks[p][d][t], d, captured[p][d])
    BY DEF AcksTrue, Recorded
  <2> QED BY <2>1, <2>2, <2>3, <2>4
<1>5. ASSUME NEW d \in Datasets, d \notin Committed(p)
      PROVE  n.datasets[d] = s.datasets[d]
  BY <1>2, <1>5
<1>6. \A d \in Datasets : n.datasets[d].sequence \in Nat
  <2> TAKE d \in Datasets
  <2>1. s.datasets[d].sequence \in Nat
    BY <1>1 DEF DatasetState
  <2>2. CASE d \in Committed(p)
    <3>1. n.datasets[d] = [sequence |-> s.datasets[d].sequence + 1,
                           manifest |-> captured[p][d], replicas |-> acks[p][d]]
      BY <1>2, <2>2
    <3> QED BY <2>1, <3>1
  <2> QED BY <1>5, <2>1, <2>2
<1>7. Protects(n, repo)
  BY <1>2, <1>3, <1>4, <1>5 DEF Protects
<1> QED BY <1>7 DEF n

\* The state on disk is replaced by a fresh one or by a protected successor.
LEMMA StateStep == IInv /\ [Next]_vars => StateProtects'
<1> SUFFICES ASSUME IInv, [Next]_vars PROVE StateProtects'
  OBVIOUS
<1> USE DEF files, remote, local
<1>1. Grew(repo, repo')
  BY RepoGrows DEF IInv
<1>2. ASSUME state' \in {state, Missing} PROVE StateProtects'
  BY <1>1, <1>2, ProtectsKept DEF IInv, StateProtects
<1>3. ASSUME NEW p \in Procs, InitializeState(p) PROVE StateProtects'
  BY <1>3, NewStateProtects DEF InitializeState, StateProtects
<1>4. ASSUME NEW p \in Procs, Commit(p) PROVE StateProtects'
  <2>1. /\ pc[p] = "current again" /\ cmd[p] = "backup" /\ state' = NextState(p)
        /\ UNCHANGED repo
    BY <1>4 DEF Commit
  <2>2. in[p].state \in StateDoc /\ StateIsBound(in[p].state, in[p])
    BY <2>1 DEF IInv, InputsBound, InputsRead, SidecarHeld
  <2>3. Protects(NextState(p), repo)
    BY <2>1, <2>2, NextStateProtects DEF IInv, StateIsBound
  <2> QED BY <2>1, <2>3 DEF StateProtects
<1>5. ASSUME NEW p \in Procs, FirstSection(p) PROVE StateProtects'
  BY <1>2, <1>3, <1>5 DEF FirstSection, Validate, Plan, Stage, MovedWhileCapturing,
                          CaptureDataset
<1>6. ASSUME NEW p \in Procs, SecondSection(p) PROVE StateProtects'
  BY <1>2, <1>4, <1>6 DEF SecondSection, Recapture, SourceChanged, CommitNothing,
                          PublishEvidence
<1>7. ASSUME NEW p \in Procs, Load(p) \/ Lock(p) PROVE UNCHANGED state
  BY <1>7 DEF Load, ReadGovernance, ReadDocuments, RejectInputs, Lock, LockSidecar,
     Refuse, LockRegistry, RegistryMoved, LockCatalog, InputsMoved
<1>8. ASSUME NEW p \in Procs, AtTargets(p) PROVE UNCHANGED state
  BY <1>8 DEF AtTargets, Replicate, ReplicateFails, VerifyReplica, VerifyFails, Settle
<1>9. ASSUME NEW p \in Procs, Interrupt(p) \/ Crash(p) \/
             \E c \in Commands, e \in Paths : Start(p, c, e)
      PROVE  UNCHANGED state
  BY <1>9 DEF Interrupt, Crash, Start
<1>10. Environment => state' \in {state, Missing}
  BY DEF Environment, WriteRegistry, ReconcileCatalog, Edit, EditPolicy, EditTargets,
     EditHosts, RetireState, EditSource, ClearStaleSpool, LoseSnapshot
<1>11. UNCHANGED vars => UNCHANGED state
  BY DEF vars
<1>12. NoPath \in Paths
  BY DefaultsTyped
<1> QED BY <1>2, <1>5, <1>6, <1>7, <1>8, <1>9, <1>10, <1>11, <1>12 DEF Next, Step

\* A command keeps the state it read, or reads the one on disk.
LEMMA InputsStep == IInv /\ [Next]_vars => InputsProtect'
<1> SUFFICES ASSUME IInv, [Next]_vars PROVE InputsProtect'
  OBVIOUS
<1> USE DEF files, remote, local
<1>0. in \in [Procs -> InputsDoc]
  BY DEF IInv, TypeOK, LocalOK
<1>1. Grew(repo, repo')
  BY RepoGrows DEF IInv
<1>2. ASSUME \A q \in Procs : in'[q].state \in {in[q].state, state, Missing}
      PROVE  InputsProtect'
  <2>1. ASSUME NEW q \in Procs, in'[q].state # Missing
        PROVE  Protects(in'[q].state, repo)
    BY <1>2, <2>1 DEF IInv, InputsProtect, StateProtects
  <2>2. ASSUME NEW q \in Procs, in'[q].state # Missing
        PROVE  Protects(in'[q].state, repo')
    BY <1>1, <2>1, <2>2, ProtectsKept
  <2> QED BY <2>2 DEF InputsProtect
<1>3. ASSUME UNCHANGED in PROVE InputsProtect'
  BY <1>2, <1>3
<1>4. ASSUME NEW p \in Procs, NEW code, Forget(p, code) PROVE InputsProtect'
  <2>1. in' = [in EXCEPT ![p] = NoInputs]
    BY <1>4 DEF Forget
  <2>2. NoInputs.state = Missing
    BY DEF NoInputs
  <2> QED BY <1>0, <1>2, <2>1, <2>2
<1>5. ASSUME NEW p \in Procs, Load(p) PROVE InputsProtect'
  <2>1. CASE ReadGovernance(p)
    <3> DEFINE x == [in[p] EXCEPT !.registry = registry, !.catalog = catalog]
    <3>1. in' = [in EXCEPT ![p] = x]
      BY <2>1 DEF ReadGovernance
    <3>2. x.state = in[p].state
      BY <1>0 DEF InputsDoc
    <3> HIDE DEF x
    <3> QED BY <1>0, <1>2, <3>1, <3>2
  <2>2. CASE ReadDocuments(p)
    <3> DEFINE s == IF cmd[p] = "init-state" THEN Missing ELSE state
               x == [in[p] EXCEPT !.policy = policy, !.targets = targets,
                                  !.hosts = hosts, !.state = s]
    <3>1. in' = [in EXCEPT ![p] = x]
      BY <2>2 DEF ReadDocuments
    <3>2. x.state = s
      BY <1>0 DEF InputsDoc
    <3>3. s \in {state, Missing}
      OBVIOUS
    <3> HIDE DEF x, s
    <3> QED BY <1>0, <1>2, <3>1, <3>2, <3>3
  <2> QED BY <1>4, <1>5, <2>1, <2>2 DEF Load, RejectInputs, Leave
<1>6. ASSUME NEW p \in Procs, Lock(p) PROVE InputsProtect'
  BY <1>3, <1>4, <1>6 DEF Lock, LockSidecar, Refuse, LockRegistry, RegistryMoved,
                          LockCatalog, InputsMoved, Leave
<1>7. ASSUME NEW p \in Procs, FirstSection(p) PROVE InputsProtect'
  BY <1>3, <1>4, <1>7 DEF FirstSection, InitializeState, Validate, Plan, Stage,
                          MovedWhileCapturing, CaptureDataset, Leave
<1>8. ASSUME NEW p \in Procs, AtTargets(p) PROVE InputsProtect'
  BY <1>3, <1>8 DEF AtTargets, Replicate, ReplicateFails, VerifyReplica, VerifyFails,
                    Settle
<1>9. ASSUME NEW p \in Procs, SecondSection(p) PROVE InputsProtect'
  BY <1>3, <1>4, <1>9 DEF SecondSection, Recapture, SourceChanged, Commit,
                          CommitNothing, PublishEvidence, Leave
<1>10. ASSUME NEW p \in Procs, Interrupt(p) \/ Crash(p) \/
              \E c \in Commands, e \in Paths : Start(p, c, e)
       PROVE  InputsProtect'
  BY <1>3, <1>4, <1>10 DEF Interrupt, Crash, Start, Leave
<1>11. CASE Environment
  BY <1>3, <1>11 DEF Environment, WriteRegistry, ReconcileCatalog, Edit, EditPolicy,
     EditTargets, EditHosts, RetireState, EditSource, ClearStaleSpool, LoseSnapshot
<1>12. CASE UNCHANGED vars
  BY <1>3, <1>12 DEF vars
<1>13. NoPath \in Paths
  BY DefaultsTyped
<1> QED BY <1>5, <1>6, <1>7, <1>8, <1>9, <1>10, <1>11, <1>12, <1>13 DEF Next, Step

\* Only PublishEvidence writes evidence, of what its drill verified.
LEMMA EvidenceStep == IInv /\ [Next]_vars => EvidenceIsTrue'
<1> SUFFICES ASSUME IInv, [Next]_vars PROVE EvidenceIsTrue'
  OBVIOUS
<1> USE DEF files, remote, local
<1>1. Grew(repo, repo')
  BY RepoGrows DEF IInv
<1>2. \A e \in Paths : evidence[e] # Missing => Truthful(evidence[e], repo')
  BY <1>1, ProtectsKept DEF IInv, EvidenceIsTrue, Truthful
<1>3. ASSUME UNCHANGED evidence PROVE EvidenceIsTrue'
  BY <1>2, <1>3 DEF EvidenceIsTrue
<1>4. ASSUME NEW p \in Procs, PublishEvidence(p) PROVE EvidenceIsTrue'
  <2> DEFINE ev == [state |-> in[p].state, verified |-> acks[p],
                    status |-> [d \in in[p].policy.datasets |-> DrillStatus(p, d)]]
  <2>1. /\ pc[p] = "current again" /\ cmd[p] = "drill" /\ UNCHANGED repo
        /\ evidence' = [evidence EXCEPT ![path[p]] = ev]
    BY <1>4 DEF PublishEvidence
  <2>2. in[p].state # Missing
    BY <2>1 DEF IInv, InputsBound, InputsRead, SidecarHeld, StateIsBound
  <2>3. Protects(in[p].state, repo)
    BY <2>2 DEF IInv, InputsProtect
  <2>4. \A d \in Datasets, t \in Targets : acks[p][d][t] # 0 =>
          acks[p][d][t] = in[p].state.datasets[d].replicas[t]
    BY <2>1 DEF IInv, AcksTrue
  <2>5. in[p].policy.datasets \subseteq Datasets
    BY DEF IInv, TypeOK, LocalOK, InputsDoc, PolicyDoc
  <2>6. ASSUME NEW d \in in[p].policy.datasets
        PROVE  DrillStatus(p, d) = "verified" <=> Recorded(acks[p][d]) = Targets
    <3>1. Recorded(acks[p][d]) \subseteq Recorded(in[p].state.datasets[d].replicas)
      BY <2>4, <2>5 DEF Recorded
    <3>2. Recorded(in[p].state.datasets[d].replicas) \subseteq Targets
      BY DEF Recorded
    <3>3. Recorded(acks[p][d]) = Targets =>
            Recorded(in[p].state.datasets[d].replicas) = Targets
      BY <3>1, <3>2
    <3>4. CASE Recorded(acks[p][d]) = Targets
      BY <3>3, <3>4 DEF DrillStatus
    <3>5. CASE Recorded(acks[p][d]) # Targets
      BY <3>5 DEF DrillStatus
    <3> QED BY <3>4, <3>5
  <2>7. Truthful(ev, repo)
    BY <2>3, <2>4, <2>6 DEF Truthful, Recorded
  <2> HIDE DEF ev
  <2>8. \A e \in Paths : evidence'[e] \in {evidence[e], ev}
    BY <2>1 DEF IInv, TypeOK, ControlOK
  <2> QED BY <1>2, <2>1, <2>7, <2>8 DEF EvidenceIsTrue
<1>5. ASSUME NEW p \in Procs, SecondSection(p) PROVE EvidenceIsTrue'
  BY <1>3, <1>4, <1>5 DEF SecondSection, Recapture, SourceChanged, Commit, CommitNothing
<1>6. ASSUME NEW p \in Procs, Load(p) \/ Lock(p) \/ FirstSection(p) \/ AtTargets(p)
      PROVE  UNCHANGED evidence
  <2>1. CASE Load(p) \/ Lock(p)
    BY <2>1 DEF Load, ReadGovernance, ReadDocuments, RejectInputs, Lock, LockSidecar,
       Refuse, LockRegistry, RegistryMoved, LockCatalog, InputsMoved
  <2>2. CASE FirstSection(p) \/ AtTargets(p)
    BY <2>2 DEF FirstSection, InitializeState, Validate, Plan, Stage,
       MovedWhileCapturing, CaptureDataset, AtTargets, Replicate, ReplicateFails,
       VerifyReplica, VerifyFails, Settle
  <2> QED BY <1>6, <2>1, <2>2
<1>7. ASSUME NEW p \in Procs, Interrupt(p) \/ Crash(p) \/
             \E c \in Commands, e \in Paths : Start(p, c, e)
      PROVE  UNCHANGED evidence
  BY <1>7 DEF Interrupt, Crash, Start
<1>8. Environment => UNCHANGED evidence
  BY DEF Environment, WriteRegistry, ReconcileCatalog, Edit, EditPolicy, EditTargets,
     EditHosts, RetireState, EditSource, ClearStaleSpool, LoseSnapshot
<1>9. UNCHANGED vars => UNCHANGED evidence
  BY DEF vars
<1>10. NoPath \in Paths
  BY DefaultsTyped
<1> QED BY <1>3, <1>5, <1>6, <1>7, <1>8, <1>9, <1>10 DEF Next, Step

-----------------------------------------------------------------------------
(* The invariant holds initially and is kept by every step.                *)

\* No command runs, nothing was copied, and a state, if there is one, is new.
LEMMA InitInv == Init => IInv
<1> SUFFICES ASSUME Init PROVE IInv
  OBVIOUS
<1>1. InitPolicy \in PolicyDoc /\ InitCatalog \in CatalogDoc
  BY DEF InitPolicy, PolicyDoc, InitCatalog, CatalogDoc
<1>2. targets \in TargetsDoc
  BY DEF Init, TargetsDoc
<1>3. [NoInputs EXCEPT !.targets = targets] \in InputsDoc
  BY <1>2, DefaultsTyped DEF InputsDoc
<1>4. state \in StateDoc \cup {Missing}
  BY <1>3, NewStateTyped DEF Init
<1>5. TypeOK
  <2>1. FilesOK
    BY <1>1, <1>2 DEF Init, FilesOK
  <2>2. ControlOK
    BY <1>4 DEF Init, ControlOK, Free, LockHolders
  <2>3. RemoteOK
    BY DEF Init, RemoteOK
  <2>4. LocalOK
    BY DefaultsTyped DEF Init, LocalOK, Labels
  <2> QED BY <2>1, <2>2, <2>3, <2>4 DEF TypeOK
<1>6. \A p \in Procs : pc[p] = "idle" /\ in[p] = NoInputs
                       /\ acks[p] = [d \in Datasets |-> NoReplicas]
  BY DEF Init
<1>7. LocksHeld
  BY <1>6, SidecarAssumption
     DEF Init, LocksHeld, Free, SidecarHeld, RegistryHeld, CatalogHeld
<1>8. InputsBound
  BY <1>6 DEF InputsBound, InputsRead, SidecarHeld, RegistryHeld, CatalogHeld,
              AfterCapture
<1>9. AcksTrue
  BY <1>6 DEF AcksTrue, NoReplicas
<1>10. StateProtects
  BY NewStateProtects DEF Init, StateProtects
<1>11. InputsProtect
  BY <1>6 DEF InputsProtect, NoInputs
<1>12. EvidenceIsTrue
  BY DEF Init, EvidenceIsTrue
<1> QED BY <1>5, <1>7, <1>8, <1>9, <1>10, <1>11, <1>12 DEF IInv

\* One step keeps the whole inductive invariant.
LEMMA InvStep == IInv /\ [Next]_vars => IInv'
BY TypeStep, LocksStep, BoundStep, AcksStep, StateStep, InputsStep, EvidenceStep DEF IInv

\* IInv holds in every reachable state.
THEOREM Invariant == Spec => []IInv
BY InitInv, InvStep, PTL DEF Spec

\* Every variable of the coordinator keeps its type (portfolio_sidecar.py).
THEOREM TypeCorrect == Spec => []TypeOK
<1>1. IInv => TypeOK
  BY DEF IInv
<1> QED BY <1>1, Invariant, PTL

\* The state file never records a snapshot that a target does not hold, nor a
\* commit with too few acknowledgements (backup, _write_state_json).
THEOREM StateIsProtected == Spec => []StateProtects
<1>1. IInv => StateProtects
  BY DEF IInv
<1> QED BY <1>1, Invariant, PTL

\* Drill evidence never claims a replica that is not there (drill).
THEOREM EvidenceNeverLies == Spec => []EvidenceIsTrue
<1>1. IInv => EvidenceIsTrue
  BY DEF IInv
<1> QED BY <1>1, Invariant, PTL

\* A command at its targets acts on one governance (_locked_current_inputs).
THEOREM InputsAreConsistent == Spec => []ConsistentInputs
<1>1. ASSUME IInv PROVE ConsistentInputs
  <2>1. ASSUME NEW p \in Procs, pc[p] \in {"work", "registry again", "current again"}
        PROVE  pc[p] \in InputsRead /\ pc[p] \in AfterCapture
    BY <2>1 DEF InputsRead, SidecarHeld, AfterCapture
  <2> QED BY <1>1, <2>1 DEF IInv, InputsBound, ConsistentInputs
<1> QED BY <1>1, Invariant, PTL

-----------------------------------------------------------------------------
(* What a step may do to the state file and to the evidence.               *)

\* Only init-state and a committing backup write the state file.
LEMMA WritersOfState ==
  ASSUME [Next]_vars, state' # state, state' # Missing
  PROVE  \E p \in Procs : InitializeState(p) \/ Commit(p)
<1> USE DEF files, remote, local
<1>1. ASSUME NEW p \in Procs, Load(p) \/ Lock(p) PROVE UNCHANGED state
  BY <1>1 DEF Load, ReadGovernance, ReadDocuments, RejectInputs, Lock, LockSidecar,
     Refuse, LockRegistry, RegistryMoved, LockCatalog, InputsMoved
<1>2. ASSUME NEW p \in Procs, FirstSection(p), ~InitializeState(p)
      PROVE  UNCHANGED state
  BY <1>2 DEF FirstSection, Validate, Plan, Stage, MovedWhileCapturing, CaptureDataset
<1>3. ASSUME NEW p \in Procs, AtTargets(p) PROVE UNCHANGED state
  BY <1>3 DEF AtTargets, Replicate, ReplicateFails, VerifyReplica, VerifyFails, Settle
<1>4. ASSUME NEW p \in Procs, SecondSection(p), ~Commit(p) PROVE UNCHANGED state
  BY <1>4 DEF SecondSection, Recapture, SourceChanged, CommitNothing, PublishEvidence
<1>5. ASSUME NEW p \in Procs, Interrupt(p) \/ Crash(p) \/
             \E c \in Commands, e \in Paths : Start(p, c, e)
      PROVE  UNCHANGED state
  BY <1>5 DEF Interrupt, Crash, Start
<1>6. Environment => state' \in {state, Missing}
  BY DEF Environment, WriteRegistry, ReconcileCatalog, Edit, EditPolicy, EditTargets,
     EditHosts, RetireState, EditSource, ClearStaleSpool, LoseSnapshot
<1>7. UNCHANGED vars => UNCHANGED state
  BY DEF vars
<1>8. NoPath \in Paths
  BY DefaultsTyped
<1> QED BY <1>1, <1>2, <1>3, <1>4, <1>5, <1>6, <1>7, <1>8 DEF Next, Step

\* What a command that writes the state knows: it holds every lock, its inputs
\* are those in force, and the state on disk is the one it read, unless the
\* operator retired that.
LEMMA AtTheWrite ==
  ASSUME IInv, NEW p \in Procs, pc[p] \in {"current", "current again"}
  PROVE  /\ locks.sidecar = p
         /\ registry = in[p].registry /\ catalog = in[p].catalog
         /\ in[p].catalog.registry = in[p].registry
         /\ pc[p] = "current again" =>
              /\ in[p].state \in StateDoc
              /\ StateIsBound(in[p].state, in[p])
              /\ state \in {in[p].state, Missing}
BY DEF IInv, LocksHeld, InputsBound, InputsRead, SidecarHeld, RegistryHeld,
       CatalogHeld, AfterCapture

\* No commit is lost to another command's (_locked_current_inputs).
THEOREM CommitsAreNotLost == Spec => NoLostCommit
<1> DEFINE A == state' # state /\ state' # Missing =>
       IF state = Missing
       THEN \/ state'.generation = 0
            \/ /\ in[locks.sidecar].state # Missing
               /\ state'.generation = in[locks.sidecar].state.generation + 1
       ELSE /\ state'.generation = state.generation + 1
            /\ \A d \in Datasets :
                 \/ state'.datasets[d] = state.datasets[d]
                 \/ state'.datasets[d].sequence = state.datasets[d].sequence + 1
<1>1. ASSUME IInv, [Next]_vars, state' # state, state' # Missing PROVE A
  <2>1. PICK p \in Procs : InitializeState(p) \/ Commit(p)
    BY <1>1, WritersOfState
  <2>2. CASE InitializeState(p)
    <3>1. state = Missing /\ state' = NewState(in[p])
      BY <2>2 DEF InitializeState
    <3>2. NewState(in[p]).generation = 0
      BY DEF NewState
    <3> QED BY <3>1, <3>2
  <2>3. CASE Commit(p)
    <3> DEFINE s == in[p].state
               n == NextState(p)
    <3>1. pc[p] = "current again" /\ state' = n
      BY <2>3 DEF Commit
    <3>2. /\ locks.sidecar = p /\ state \in {s, Missing}
          /\ s \in StateDoc /\ s # Missing
      BY <1>1, <3>1, AtTheWrite DEF StateIsBound
    <3>3. n.generation = s.generation + 1
      BY <3>2 DEF NextState, StateDoc
    <3>4. ASSUME NEW d \in Datasets
          PROVE  \/ n.datasets[d] = s.datasets[d]
                 \/ n.datasets[d].sequence = s.datasets[d].sequence + 1
      BY <3>2 DEF NextState, StateDoc
    <3> HIDE DEF s, n
    <3>5. CASE state = Missing
      <4>1. in[locks.sidecar].state = s
        BY <3>2 DEF s
      <4> QED BY <3>1, <3>2, <3>3, <3>5, <4>1
    <3>6. CASE state = s
      BY <3>1, <3>2, <3>3, <3>4, <3>6
    <3> QED BY <3>2, <3>5, <3>6
  <2> QED BY <2>1, <2>2, <2>3
<1>2. ASSUME IInv, [Next]_vars PROVE [A]_vars
  <2>1. A
    BY <1>1, <1>2
  <2> QED BY <2>1
<1> QED BY <1>2, Invariant, PTL DEF Spec, NoLostCommit

\* A state is written for the registry and catalog in force
\* (_locked_registry_snapshot and _CatalogLock are held across the write).
THEOREM StateIsGoverned == Spec => WrittenUnderGovernance
<1> DEFINE A == state' # state /\ state' # Missing =>
                  state'.registry = registry /\ catalog.registry = registry
<1>1. ASSUME IInv, [Next]_vars, state' # state, state' # Missing
      PROVE  state'.registry = registry /\ catalog.registry = registry
  <2>1. PICK p \in Procs : InitializeState(p) \/ Commit(p)
    BY <1>1, WritersOfState
  <2>2. CASE InitializeState(p)
    <3>1. pc[p] = "current" /\ state' = NewState(in[p])
      BY <2>2 DEF InitializeState
    <3>2. NewState(in[p]).registry = in[p].registry
      BY DEF NewState
    <3> QED BY <1>1, <3>1, <3>2, AtTheWrite
  <2>3. CASE Commit(p)
    <3>1. pc[p] = "current again" /\ state' = NextState(p)
      BY <2>3 DEF Commit
    <3>2. in[p].state \in StateDoc /\ in[p].state.registry = in[p].registry
      BY <1>1, <3>1, AtTheWrite DEF StateIsBound
    <3>3. NextState(p).registry = in[p].state.registry
      BY <3>2 DEF NextState, StateDoc
    <3> QED BY <1>1, <3>1, <3>2, <3>3, AtTheWrite
  <2> QED BY <2>1, <2>2, <2>3
<1>2. ASSUME IInv, [Next]_vars PROVE [A]_vars
  <2>1. A
    BY <1>1, <1>2
  <2> QED BY <2>1
<1> QED BY <1>2, Invariant, PTL DEF Spec, WrittenUnderGovernance

\* Evidence is written once, and of the state on disk (_write_new_private_json).
THEOREM EvidenceIsBound == Spec => EvidenceBinds
<1> USE DEF files, remote, local
<1> DEFINE A == \A e \in Paths : evidence'[e] # evidence[e] =>
       /\ evidence[e] = Missing
       /\ state \in {evidence'[e].state, Missing}
<1>1. ASSUME UNCHANGED evidence PROVE A
  BY <1>1
<1>2. ASSUME IInv, NEW p \in Procs, PublishEvidence(p) PROVE A
  <2> DEFINE ev == [state |-> in[p].state, verified |-> acks[p],
                    status |-> [d \in in[p].policy.datasets |-> DrillStatus(p, d)]]
  <2>1. /\ pc[p] = "current again" /\ evidence[path[p]] = Missing
        /\ evidence' = [evidence EXCEPT ![path[p]] = ev]
    BY <1>2 DEF PublishEvidence
  <2>2. ev.state = in[p].state
    OBVIOUS
  <2>3. state \in {in[p].state, Missing}
    BY <1>2, <2>1, AtTheWrite
  <2> HIDE DEF ev
  <2>4. \A e \in Paths : evidence'[e] # evidence[e] => e = path[p] /\ evidence'[e] = ev
    BY <1>2, <2>1 DEF IInv, TypeOK, ControlOK
  <2> QED BY <2>1, <2>2, <2>3, <2>4
<1>3. ASSUME NEW p \in Procs, SecondSection(p), ~PublishEvidence(p)
      PROVE  UNCHANGED evidence
  BY <1>3 DEF SecondSection, Recapture, SourceChanged, Commit, CommitNothing
<1>4. ASSUME NEW p \in Procs, Load(p) \/ Lock(p) PROVE UNCHANGED evidence
  BY <1>4 DEF Load, ReadGovernance, ReadDocuments, RejectInputs, Lock, LockSidecar,
     Refuse, LockRegistry, RegistryMoved, LockCatalog, InputsMoved
<1>5. ASSUME NEW p \in Procs, FirstSection(p) \/ AtTargets(p) PROVE UNCHANGED evidence
  BY <1>5 DEF FirstSection, InitializeState, Validate, Plan, Stage,
     MovedWhileCapturing, CaptureDataset, AtTargets, Replicate, ReplicateFails,
     VerifyReplica, VerifyFails, Settle
<1>6. ASSUME NEW p \in Procs, Interrupt(p) \/ Crash(p) \/
             \E c \in Commands, e \in Paths : Start(p, c, e)
      PROVE  UNCHANGED evidence
  BY <1>6 DEF Interrupt, Crash, Start
<1>7. Environment => UNCHANGED evidence
  BY DEF Environment, WriteRegistry, ReconcileCatalog, Edit, EditPolicy, EditTargets,
     EditHosts, RetireState, EditSource, ClearStaleSpool, LoseSnapshot
<1>8. UNCHANGED vars => UNCHANGED evidence
  BY DEF vars
<1>9. NoPath \in Paths
  BY DefaultsTyped
<1>10. ASSUME IInv, [Next]_vars PROVE [A]_vars
  <2> HIDE DEF A
  <2>1. A
    BY <1>1, <1>2, <1>3, <1>4, <1>5, <1>6, <1>7, <1>8, <1>9, <1>10 DEF Next, Step
  <2> QED BY <2>1
<1> QED BY <1>10, Invariant, PTL DEF Spec, EvidenceBinds


-----------------------------------------------------------------------------
(* What a commit is made of                                                *)

\* What was captured and what a commit is measured by are of the past; what a backup
\* has not captured again, it has still to confirm.
FreshInv ==
  /\ \A d \in Datasets : floor[d] <= source[d]
  /\ \A p \in Procs, d \in Datasets : captured[p][d] <= source[d]
  /\ \A p \in Procs : cmd[p] = "backup" =>
       /\ pc[p] \in {"registry again", "catalog again"} => Committed(p) \subseteq confirm[p]
       /\ pc[p] = "current again" =>
            \A d \in Committed(p) : d \in confirm[p] \/ floor[d] <= captured[p][d]


\* What a process has confirmed stays confirmed while it and its floor stand.
ConfirmedBy(p) ==
  cmd[p] = "backup" =>
    /\ pc[p] \in {"registry again", "catalog again"} => Committed(p) \subseteq confirm[p]
    /\ pc[p] = "current again" =>
         \A d \in Committed(p) : d \in confirm[p] \/ floor[d] <= captured[p][d]

Resting(q) ==
  /\ pc'[q] = pc[q] /\ cmd'[q] = cmd[q] /\ in'[q] = in[q] /\ acks'[q] = acks[q]
  /\ confirm'[q] = confirm[q] /\ captured'[q] = captured[q]

LEMMA ConfirmedStays ==
  ASSUME NEW q \in Procs, ConfirmedBy(q), Resting(q),
         pc[q] = "current again" => floor' = floor
  PROVE  ConfirmedBy(q)'
<1>1. Committed(q)' = Committed(q)
  BY DEF Committed, Resting
<1> QED BY <1>1 DEF ConfirmedBy, Resting

\* One process moves, and the others and the files stay.
LEMMA OneMoves ==
  ASSUME TypeOK, FreshInv, NEW p \in Procs, source' = source,
         \A q \in Procs \ {p} : Resting(q),
         \A d \in Datasets : floor'[d] <= source[d],
         \A d \in Datasets : captured'[p][d] <= source[d],
         \A q \in Procs \ {p} : pc[q] = "current again" => floor' = floor,
         ConfirmedBy(p)'
  PROVE  FreshInv'
<1>1. ASSUME NEW q \in Procs PROVE ConfirmedBy(q)'
  <2>1. CASE q = p
    BY <2>1
  <2>2. CASE q # p
    BY <2>2, ConfirmedStays DEF FreshInv, ConfirmedBy
  <2> QED BY <2>1, <2>2
<1>2. \A q \in Procs, d \in Datasets : captured'[q][d] <= source'[d]
  BY DEF FreshInv, Resting
<1> QED BY <1>1, <1>2 DEF FreshInv, ConfirmedBy

\* A command that has ended has confirmed nothing, and only the holder of the registry
\* lock takes the floor away.
LEMMA ForgetFresh ==
  ASSUME TypeOK, LocksHeld, FreshInv, NEW p \in Procs, NEW code, Forget(p, code),
         source' = source
  PROVE  FreshInv'
<1>1. /\ pc'[p] = "idle" /\ \A d \in Datasets : captured'[p][d] = 0
      /\ \A q \in Procs \ {p} : Resting(q)
  BY DEF Forget, Resting, TypeOK, LocalOK
<1>2. \A d \in Datasets : source[d] \in Nat /\ 0 <= source[d]
  BY DEF TypeOK, FilesOK
<1>3. ASSUME NEW d \in Datasets PROVE floor'[d] <= source[d] /\ captured'[p][d] <= source[d]
  <2>1. floor'[d] = 0 \/ floor'[d] = floor[d]
    BY DEF Forget
  <2>2. floor[d] <= source[d]
    BY DEF FreshInv
  <2> QED BY <1>1, <1>2, <2>1, <2>2
<1>4. \A q \in Procs \ {p} : pc[q] = "current again" => floor' = floor
  BY DEF Forget, LocksHeld, RegistryHeld
<1>5. ConfirmedBy(p)'
  BY <1>1 DEF ConfirmedBy
<1> QED BY <1>1, <1>3, <1>4, <1>5, OneMoves

\* A step of p that leaves source, floor and captures alone.
LEMMA MovesFresh ==
  ASSUME TypeOK, FreshInv, NEW p \in Procs, UNCHANGED <<source, floor, captured>>,
         \A q \in Procs \ {p} : pc'[q] = pc[q] /\ cmd'[q] = cmd[q] /\ in'[q] = in[q]
                               /\ acks'[q] = acks[q] /\ confirm'[q] = confirm[q],
         ConfirmedBy(p)'
  PROVE  FreshInv'
<1>1. \A q \in Procs \ {p} : Resting(q)
  BY DEF Resting
<1>2. \A d \in Datasets : floor'[d] <= source[d] /\ captured'[p][d] <= source[d]
  BY DEF FreshInv
<1> QED BY <1>1, <1>2, OneMoves

\* A step keeps it: the source only grows, the floor is set as the second section begins,
\* and what is confirmed then is as it was captured.
LEMMA FreshStep == IInv /\ FreshInv /\ [Next]_vars => FreshInv'
<1> SUFFICES ASSUME IInv, FreshInv, [Next]_vars PROVE FreshInv'
  OBVIOUS
<1> USE DEF files, remote, local
<1>0. /\ TypeOK /\ LocksHeld /\ pc \in [Procs -> Labels] /\ cmd \in [Procs -> Commands \cup {"none"}]
      /\ confirm \in [Procs -> SUBSET Datasets] /\ source \in [Datasets -> Nat \ {0}]
      /\ captured \in [Procs -> [Datasets -> Nat]] /\ floor \in [Datasets -> Nat]
      /\ in \in [Procs -> InputsDoc] /\ acks \in [Procs -> [Datasets -> Replicas]]
      /\ \A p \in Procs : ConfirmedBy(p)
  BY DEF IInv, TypeOK, FilesOK, ControlOK, LocalOK, FreshInv, ConfirmedBy
<1>1. ASSUME NEW p \in Procs, NEW code, Leave(p, code), UNCHANGED <<files, remote>>
      PROVE  FreshInv'
  BY <1>0, <1>1, ForgetFresh DEF Leave
<1>2. ASSUME UNCHANGED <<pc, cmd, in, acks, confirm, captured, floor>>,
             source' = source \/
               \E d \in Datasets : source' = [source EXCEPT ![d] = @ + 1]
      PROVE  FreshInv'
  <2>1. \A d \in Datasets : source[d] <= source'[d] /\ source'[d] \in Nat /\ source[d] \in Nat
    BY <1>0, <1>2
  <2>2. ASSUME NEW d \in Datasets PROVE floor[d] <= source'[d]
    <3>1. floor[d] <= source[d] /\ floor[d] \in Nat
      BY <1>0 DEF FreshInv
    <3> QED BY <2>1, <3>1
  <2>3. ASSUME NEW p \in Procs, NEW d \in Datasets PROVE captured[p][d] <= source'[d]
    <3>1. captured[p][d] <= source[d] /\ captured[p][d] \in Nat
      BY <1>0 DEF FreshInv
    <3> QED BY <2>1, <3>1
  <2>4. \A p \in Procs : ConfirmedBy(p)'
    BY <1>0, <1>2, ConfirmedStays DEF Resting
  <2> QED BY <1>2, <2>2, <2>3, <2>4 DEF FreshInv, ConfirmedBy
<1>3. ASSUME NEW p \in Procs, Load(p) PROVE FreshInv'
  <2>1. CASE ReadGovernance(p)
    <3>1. ConfirmedBy(p)'
      BY <1>0, <2>1 DEF ReadGovernance, Goto, ConfirmedBy
    <3> QED BY <1>0, <2>1, <3>1, MovesFresh DEF ReadGovernance, Goto
  <2>2. CASE ReadDocuments(p)
    <3>1. ConfirmedBy(p)'
      BY <1>0, <2>2 DEF ReadDocuments, Goto, ConfirmedBy
    <3> QED BY <1>0, <2>2, <3>1, MovesFresh DEF ReadDocuments, Goto
  <2>3. CASE RejectInputs(p)
    BY <1>1, <2>3 DEF RejectInputs
  <2> QED BY <1>3, <2>1, <2>2, <2>3 DEF Load
<1>4. ASSUME NEW p \in Procs, Lock(p) PROVE FreshInv'
  <2>1. CASE LockSidecar(p)
    <3>1. ConfirmedBy(p)'
      BY <1>0, <2>1 DEF LockSidecar, Goto, ConfirmedBy
    <3> QED BY <1>0, <2>1, <3>1, MovesFresh DEF LockSidecar, Goto
  <2>2. CASE Refuse(p) \/ RegistryMoved(p) \/ InputsMoved(p)
    BY <1>1, <2>2 DEF Refuse, RegistryMoved, InputsMoved
  <2>3. CASE LockRegistry(p)
    <3>1. /\ pc'[p] \in {"catalog", "catalog again"}
          /\ pc'[p] = "catalog again" => pc[p] = "registry again"
          /\ \A q \in Procs \ {p} : pc'[q] = pc[q]
          /\ UNCHANGED <<cmd, in, acks, confirm, captured, source>>
          /\ floor' = source \/ floor' = floor
      BY <1>0, <2>3 DEF LockRegistry, Goto
    <3>2. Committed(p)' = Committed(p)
      BY <3>1 DEF Committed
    <3>3. ConfirmedBy(p)'
      BY <1>0, <3>1, <3>2 DEF ConfirmedBy
    <3>4. ASSUME NEW d \in Datasets PROVE floor'[d] <= source[d] /\ captured'[p][d] <= source[d]
      <4>1. source[d] \in Nat /\ floor[d] <= source[d] /\ captured[p][d] <= source[d]
        BY <1>0 DEF FreshInv
      <4>2. floor'[d] = source[d] \/ floor'[d] = floor[d]
        BY <3>1
      <4>3. captured' = captured
        BY <3>1
      <4> QED BY <4>1, <4>2, <4>3
    <3>5. ASSUME NEW q \in Procs PROVE pc[q] # "current again"
      <4>1. locks.registry # q
        BY <2>3, SidecarAssumption DEF LockRegistry
      <4> QED BY <1>0, <4>1 DEF LocksHeld, RegistryHeld
    <3> QED BY <1>0, <3>1, <3>3, <3>4, <3>5, OneMoves DEF Resting
  <2>4. CASE LockCatalog(p)
    <3>1. /\ pc'[p] \in {"current", "current again"}
          /\ pc'[p] = "current again" => pc[p] = "catalog again"
          /\ \A q \in Procs \ {p} : pc'[q] = pc[q]
          /\ UNCHANGED <<cmd, in, acks, confirm, captured, source, floor>>
      BY <1>0, <2>4 DEF LockCatalog, Goto
    <3>2. Committed(p)' = Committed(p)
      BY <3>1 DEF Committed
    <3>3. ConfirmedBy(p)'
      BY <1>0, <3>1, <3>2 DEF ConfirmedBy
    <3> QED BY <1>0, <3>1, <3>3, MovesFresh
  <2> QED BY <1>4, <2>1, <2>2, <2>3, <2>4 DEF Lock
<1>5. ASSUME NEW p \in Procs, FirstSection(p) PROVE FreshInv'
  <2>1. CASE Stage(p)
    <3>1. ConfirmedBy(p)'
      BY <1>0, <2>1 DEF Stage, Goto, ConfirmedBy
    <3> QED BY <1>0, <2>1, <3>1, MovesFresh DEF Stage, Goto
  <2>2. ASSUME NEW d \in Datasets, CaptureDataset(p, d) PROVE FreshInv'
    <3>1. /\ pc[p] = "current" /\ UNCHANGED <<pc, cmd, in, acks, confirm, source, floor>>
          /\ captured' = [captured EXCEPT ![p][d] = source[d]]
      BY <2>2 DEF CaptureDataset
    <3>2. \A q \in Procs \ {p} : Resting(q)
      BY <1>0, <3>1 DEF Resting
    <3>3. ASSUME NEW e \in Datasets PROVE floor'[e] <= source[e] /\ captured'[p][e] <= source[e]
      <4>1. source[e] \in Nat /\ floor[e] <= source[e] /\ captured[p][e] <= source[e]
        BY <1>0 DEF FreshInv
      <4>2. captured'[p][e] = source[e] \/ captured'[p][e] = captured[p][e]
        BY <1>0, <3>1
      <4> QED BY <3>1, <4>1, <4>2
    <3>4. ConfirmedBy(p)'
      BY <3>1 DEF ConfirmedBy
    <3> QED BY <1>0, <3>1, <3>2, <3>3, <3>4, OneMoves
  <2> QED BY <1>1, <1>5, <2>1, <2>2
          DEF FirstSection, InitializeState, Validate, Plan, MovedWhileCapturing
<1>6. ASSUME NEW p \in Procs, AtTargets(p) PROVE FreshInv'
  <2>1. CASE Settle(p)
    <3>1. /\ pc'[p] = "registry again" /\ \A q \in Procs \ {p} : pc'[q] = pc[q]
          /\ UNCHANGED <<cmd, in, acks, captured, source, floor>>
          /\ \A q \in Procs \ {p} : confirm'[q] = confirm[q]
          /\ cmd[p] = "backup" => confirm'[p] = Committed(p)
      BY <1>0, <2>1 DEF Settle, Goto
    <3>2. Committed(p)' = Committed(p)
      BY <3>1 DEF Committed
    <3>3. ConfirmedBy(p)'
      BY <3>1, <3>2 DEF ConfirmedBy
    <3> QED BY <1>0, <3>1, <3>3, MovesFresh
  <2>2. ASSUME NEW d \in Datasets, NEW t \in Targets,
               \/ Replicate(p, d, t) \/ ReplicateFails(p, d, t)
               \/ VerifyReplica(p, d, t) \/ VerifyFails(p, d, t)
        PROVE  FreshInv'
    <3>1. /\ pc[p] = "work" /\ UNCHANGED <<pc, cmd, in, confirm, captured, source, floor>>
          /\ \A q \in Procs \ {p} : acks'[q] = acks[q]
      BY <1>0, <2>2 DEF Replicate, ReplicateFails, VerifyReplica, VerifyFails
    <3>2. ConfirmedBy(p)'
      BY <3>1 DEF ConfirmedBy
    <3> QED BY <1>0, <3>1, <3>2, MovesFresh
  <2> QED BY <1>6, <2>1, <2>2 DEF AtTargets
<1>7. ASSUME NEW p \in Procs, SecondSection(p) PROVE FreshInv'
  <2>1. ASSUME NEW d \in Datasets, Recapture(p, d) PROVE FreshInv'
    <3>1. /\ pc[p] = "current again" /\ UNCHANGED <<pc, cmd, in, acks, captured, source, floor>>
          /\ confirm' = [confirm EXCEPT ![p] = @ \ {d}] /\ source[d] = captured[p][d]
      BY <2>1 DEF Recapture
    <3>2. Committed(p)' = Committed(p)
      BY <3>1 DEF Committed
    <3>3. floor[d] <= captured[p][d]
      BY <3>1 DEF FreshInv
    <3>4. ConfirmedBy(p)'
      BY <1>0, <3>1, <3>2, <3>3 DEF ConfirmedBy
    <3> QED BY <1>0, <3>1, <3>4, MovesFresh
  <2> QED BY <1>1, <1>7, <2>1
          DEF SecondSection, SourceChanged, Commit, CommitNothing, PublishEvidence
<1>8. CASE Environment
  BY <1>2, <1>8 DEF Environment, WriteRegistry, ReconcileCatalog, EditPolicy,
     EditTargets, EditHosts, RetireState, EditSource, ClearStaleSpool, LoseSnapshot
<1>9. ASSUME NEW p \in Procs, NEW c, NEW e, Start(p, c, e) PROVE FreshInv'
  <2>1. ConfirmedBy(p)'
    BY <1>0, <1>9 DEF Start, Goto, ConfirmedBy
  <2> QED BY <1>0, <1>9, <2>1, MovesFresh DEF Start, Goto
<1>10. ASSUME NEW p \in Procs, Interrupt(p) \/ Crash(p) PROVE FreshInv'
  BY <1>0, <1>1, <1>10, ForgetFresh DEF Interrupt, Crash
<1>11. CASE UNCHANGED vars
  BY <1>2, <1>11 DEF vars
<1> QED BY <1>3, <1>4, <1>5, <1>6, <1>7, <1>8, <1>9, <1>10, <1>11 DEF Next, Step

\* What a backup commits is what the source was at some moment after its second section
\* began, whoever writes to it: every dataset is captured again before the commit.
THEOREM CommitsAreFresh == Spec => CommitsFreshData
<1> DEFINE A == state' # state /\ state # Missing /\ state' # Missing =>
       \A d \in Datasets :
         state'.datasets[d].sequence > state.datasets[d].sequence =>
           state'.datasets[d].manifest \in floor[d] .. source[d]
<1>1. Init => FreshInv
  BY DEF Init, FreshInv
<1>2. ASSUME IInv, FreshInv, [Next]_vars, state' # state, state # Missing, state' # Missing,
             NEW d \in Datasets,
             state'.datasets[d].sequence > state.datasets[d].sequence
      PROVE  state'.datasets[d].manifest \in floor[d] .. source[d]
  <2>1. PICK p \in Procs : InitializeState(p) \/ Commit(p)
    BY <1>2, WritersOfState
  <2>2. Commit(p)
    BY <1>2, <2>1 DEF InitializeState
  <2> DEFINE s == in[p].state
             n == NextState(p)
  <2>3. pc[p] = "current again" /\ cmd[p] = "backup" /\ confirm[p] = {} /\ state' = n
    BY <2>2 DEF Commit
  <2>4. s \in StateDoc /\ state = s
    BY <1>2, <2>3, AtTheWrite
  <2>5. n.datasets[d] = IF d \in Committed(p)
                        THEN [sequence |-> s.datasets[d].sequence + 1,
                              manifest |-> captured[p][d], replicas |-> acks[p][d]]
                        ELSE s.datasets[d]
    BY <2>4 DEF NextState, StateDoc
  <2>6. s.datasets[d].sequence \in Nat
    BY <2>4 DEF StateDoc, DatasetState
  <2> HIDE DEF s, n
  <2>7. d \in Committed(p)
    <3>1. n.datasets[d].sequence > s.datasets[d].sequence
      BY <1>2, <2>3, <2>4
    <3> QED BY <2>5, <2>6, <3>1
  <2>8. n.datasets[d].manifest = captured[p][d]
    BY <2>5, <2>7
  <2>9. floor[d] <= captured[p][d] /\ captured[p][d] <= source[d]
    BY <1>2, <2>3, <2>7 DEF FreshInv
  <2>10. floor[d] \in Nat /\ captured[p][d] \in Nat /\ source[d] \in Nat
    BY <1>2 DEF IInv, TypeOK, FilesOK, ControlOK, LocalOK
  <2>11. captured[p][d] \in floor[d] .. source[d]
    BY <2>9, <2>10
  <2>12. state'.datasets[d].manifest = captured[p][d]
    BY <2>3, <2>8
  <2> QED BY <2>11, <2>12
<1>3. ASSUME IInv, FreshInv, [Next]_vars PROVE [A]_vars
  <2>1. A
    BY <1>2, <1>3
  <2> QED BY <2>1
<1> QED BY <1>1, <1>3, FreshStep, Invariant, PTL DEF Spec, CommitsFreshData

-----------------------------------------------------------------------------
(* The state file, the repositories and the evidence as a ledger.          *)

\* The ledger of a state is not the missing ledger, and says what the state says.
LEMMA LedgerOfState ==
  ASSUME NEW s \in StateDoc, s # Missing
  PROVE  /\ LedgerOf(s) # Missing
         /\ LedgerOf(s).quorums =
              {Q \in SUBSET Targets : Cardinality(Q) >= s.targets.acks}
         /\ \A d \in Datasets : LedgerOf(s).entries[d] =
              [sequence |-> s.datasets[d].sequence,
               manifest |-> s.datasets[d].manifest,
               replicas |-> Recorded(s.datasets[d].replicas)]
<1> DEFINE entries == [d \in Datasets |->
             [sequence |-> s.datasets[d].sequence,
              manifest |-> s.datasets[d].manifest,
              replicas |-> Recorded(s.datasets[d].replicas)]]
       quorums == {Q \in SUBSET Targets : Cardinality(Q) >= s.targets.acks}
<1>1. LedgerOf(s) = [quorums |-> quorums, entries |-> entries]
  BY DEF LedgerOf
<1>2. quorums \in SUBSET SUBSET Targets
  OBVIOUS
<1>3. entries \in [Datasets -> [sequence : Nat, manifest : Nat, replicas : SUBSET Targets]]
  BY DEF StateDoc, DatasetState, Recorded
<1> HIDE DEF entries, quorums
<1>4. LedgerOf(s) # Missing
  BY <1>1, <1>2, <1>3, SidecarAssumption
<1>5. LedgerOf(s).quorums = quorums /\ LedgerOf(s).entries = entries
  BY <1>1
<1> QED BY <1>4, <1>5 DEF entries, quorums

\* A snapshot in a repository is a copy.
LEMMA CopyOfSnapshot ==
  ASSUME NEW t \in Targets, NEW id, NEW d, NEW m, Holds(repo, t, id, d, m)
  PROVE  <<t, d, m>> \in Copies
<1>1. id \in 1 .. Len(repo[t]) /\ repo[t][id].dataset = d /\ repo[t][id].manifest = m
  BY DEF Holds
<1>2. <<t, d, m>> \in
        {<<t, repo[t][i].dataset, repo[t][i].manifest>> : i \in 1 .. Len(repo[t])}
  BY <1>1
<1> QED BY <1>2 DEF Copies

\* Copies are of snapshots, so there are never fewer.
LEMMA CopiesGrow ==
  ASSUME Grew(repo, repo')
  PROVE  Copies \subseteq Copies'
<1> SUFFICES ASSUME NEW c \in Copies PROVE c \in Copies'
  OBVIOUS
<1>1. PICK t \in Targets : c \in
        {<<t, repo[t][i].dataset, repo[t][i].manifest>> : i \in 1 .. Len(repo[t])}
  BY DEF Copies
<1>2. PICK id \in 1 .. Len(repo[t]) : c = <<t, repo[t][id].dataset, repo[t][id].manifest>>
  BY <1>1
<1>3. id \in 1 .. Len(repo'[t]) /\ repo'[t][id] = repo[t][id]
  BY <1>2 DEF Grew
<1>4. c \in {<<t, repo'[t][i].dataset, repo'[t][i].manifest>> : i \in 1 .. Len(repo'[t])}
  BY <1>2, <1>3
<1> QED BY <1>4 DEF Copies

\* What protects a state backs its ledger.
LEMMA ProtectedIsBacked ==
  ASSUME NEW s \in StateDoc, s # Missing, Protects(s, repo)
  PROVE  Ledger!Backed(LedgerOf(s))
<1> DEFINE l == LedgerOf(s)
<1>1. ASSUME NEW d \in Datasets
      PROVE  /\ l.entries[d].sequence = s.datasets[d].sequence
             /\ l.entries[d].manifest = s.datasets[d].manifest
             /\ l.entries[d].replicas = Recorded(s.datasets[d].replicas)
  <2>1. l.entries[d] = [sequence |-> s.datasets[d].sequence,
                        manifest |-> s.datasets[d].manifest,
                        replicas |-> Recorded(s.datasets[d].replicas)]
    BY LedgerOfState
  <2> HIDE DEF l
  <2> QED BY <2>1
<1>2. ASSUME NEW d \in Datasets, l.entries[d].sequence > 0
      PROVE  l.entries[d].replicas \in l.quorums
  <2>1. /\ Recorded(s.datasets[d].replicas) \subseteq Targets
        /\ s.datasets[d].sequence > 0
    BY <1>1, <1>2 DEF Recorded
  <2>2. Cardinality(Recorded(s.datasets[d].replicas)) >= s.targets.acks
    BY <2>1 DEF Protects
  <2>3. l.quorums = {Q \in SUBSET Targets : Cardinality(Q) >= s.targets.acks}
    BY LedgerOfState
  <2> HIDE DEF l
  <2> QED BY <1>1, <2>1, <2>2, <2>3
<1> HIDE DEF l
<1>3. ASSUME NEW d \in Datasets, NEW t \in l.entries[d].replicas
      PROVE  <<t, d, l.entries[d].manifest>> \in Copies
  <2>1. t \in Targets /\ t \in Recorded(s.datasets[d].replicas)
    BY <1>1, <1>3 DEF Recorded
  <2>2. Holds(repo, t, s.datasets[d].replicas[t], d, s.datasets[d].manifest)
    BY <2>1 DEF Protects
  <2> QED BY <1>1, <2>1, <2>2, CopyOfSnapshot
<1>4. Ledger!Claims(l) \subseteq Copies
  BY <1>3 DEF Ledger!Claims
<1>5. Ledger!Backed(l)
  BY <1>2, <1>4 DEF Ledger!Backed
<1> QED BY <1>5 DEF l

\* Truthful evidence claims only copies.
LEMMA ClaimsAreCopies ==
  ASSUME NEW ev, Truthful(ev, repo)
  PROVE  Claimed(ev) \subseteq Copies
<1>1. ASSUME NEW d \in Datasets, NEW t \in Recorded(ev.verified[d])
      PROVE  <<t, d, ev.state.datasets[d].manifest>> \in Copies
  <2> DEFINE id == ev.state.datasets[d].replicas[t]
  <2>1. t \in Targets /\ ev.verified[d][t] # 0 /\ ev.verified[d][t] = id
    BY <1>1 DEF Truthful, Recorded
  <2>2. t \in Recorded(ev.state.datasets[d].replicas)
    BY <2>1 DEF Recorded
  <2>3. Holds(repo, t, id, d, ev.state.datasets[d].manifest)
    BY <2>2 DEF Truthful, Protects
  <2> QED BY <2>1, <2>3, CopyOfSnapshot
<1> QED BY <1>1 DEF Claimed

\* A state that is written while targets and evidence stay is a backed ledger.
LEMMA WrittenIsBacked ==
  ASSUME IInv', UNCHANGED <<repo, evidence>>, state' # Missing
  PROVE  /\ LedgerOf(state)' = LedgerOf(state')
         /\ LedgerOf(state') # Missing
         /\ Ledger!Backed(LedgerOf(state'))
         /\ UNCHANGED <<Copies, Attested>>
<1>1. state' \in StateDoc
  BY DEF IInv, TypeOK, ControlOK
<1>2. Protects(state', repo)
  BY DEF IInv, StateProtects
<1>3. UNCHANGED <<Copies, Attested>>
  BY DEF Copies, Attested
<1> QED BY <1>1, <1>2, <1>3, LedgerOfState, ProtectedIsBacked DEF LedgerOf

\* init-state begins a ledger.
LEMMA InitializeBegins ==
  ASSUME IInv', NEW p \in Procs, InitializeState(p), state' # Missing
  PROVE  Ledger!Begin
<1>1. state = Missing /\ UNCHANGED <<repo, evidence>>
  BY DEF InitializeState, remote
<1>2. LedgerOf(state) = Missing
  BY <1>1 DEF LedgerOf
<1> QED BY <1>1, <1>2, WrittenIsBacked DEF Ledger!Begin

\* A backup that commits advances the ledger it read, or brings it back.
LEMMA CommitAdvances ==
  ASSUME IInv, IInv', NEW p \in Procs, Commit(p), state' # Missing
  PROVE  Ledger!Begin \/ Ledger!Advance
<1> DEFINE s == in[p].state
           n == NextState(p)
<1>1. pc[p] = "current again" /\ state' = n /\ UNCHANGED <<repo, evidence>>
  BY DEF Commit, remote
<1>2. s \in StateDoc /\ s # Missing /\ state \in {s, Missing}
  BY <1>1, AtTheWrite DEF StateIsBound
<1>3. n.targets = s.targets
  BY <1>2 DEF NextState, StateDoc
<1>4. ASSUME NEW d \in Datasets
      PROVE  \/ n.datasets[d] = s.datasets[d]
             \/ n.datasets[d].sequence = s.datasets[d].sequence + 1
  BY <1>2 DEF NextState, StateDoc
<1>5. n \in StateDoc
  BY <1>1 DEF IInv, TypeOK, ControlOK
<1> HIDE DEF s, n
<1>6. CASE state = Missing
  <2>1. LedgerOf(state) = Missing
    BY <1>6 DEF LedgerOf
  <2> QED BY <1>1, <2>1, WrittenIsBacked DEF Ledger!Begin
<1>7. CASE state = s
  <2>1. /\ LedgerOf(s) # Missing
        /\ LedgerOf(n).quorums = LedgerOf(s).quorums
    BY <1>1, <1>2, <1>3, <1>5, LedgerOfState
  <2>2. ASSUME NEW d \in Datasets
        PROVE  \/ LedgerOf(n).entries[d] = LedgerOf(s).entries[d]
               \/ LedgerOf(n).entries[d].sequence = LedgerOf(s).entries[d].sequence + 1
    <3>1. /\ LedgerOf(s).entries[d] = [sequence |-> s.datasets[d].sequence,
                                       manifest |-> s.datasets[d].manifest,
                                       replicas |-> Recorded(s.datasets[d].replicas)]
          /\ LedgerOf(n).entries[d] = [sequence |-> n.datasets[d].sequence,
                                       manifest |-> n.datasets[d].manifest,
                                       replicas |-> Recorded(n.datasets[d].replicas)]
      BY <1>1, <1>2, <1>5, LedgerOfState
    <3> QED BY <1>4, <3>1
  <2> QED BY <1>1, <1>7, <2>1, <2>2, WrittenIsBacked DEF Ledger!Advance
<1> QED BY <1>2, <1>6, <1>7

\* A drill attests what its evidence claims.
LEMMA PublishAttests ==
  ASSUME IInv, IInv', NEW p \in Procs, PublishEvidence(p)
  PROVE  Ledger!Attest
<1>1. /\ UNCHANGED <<state, repo>>
      /\ evidence[path[p]] = Missing
      /\ \A e \in Paths : e # path[p] => evidence'[e] = evidence[e]
  BY DEF PublishEvidence, remote, IInv, TypeOK, ControlOK
<1>2. ASSUME NEW c \in Attested PROVE c \in Attested'
  <2>1. PICK e \in Paths : evidence[e] # Missing /\ c \in Claimed(evidence[e])
    BY <1>2 DEF Attested
  <2>2. evidence'[e] = evidence[e]
    BY <1>1, <2>1
  <2>3. evidence'[e] # Missing /\ c \in Claimed(evidence'[e])
    BY <2>1, <2>2
  <2> QED BY <2>3 DEF Attested, Claimed
<1>3. ASSUME NEW c \in Attested' PROVE c \in Copies
  <2>1. PICK e \in Paths : evidence'[e] # Missing /\ c \in Claimed(evidence'[e])
    BY <1>3 DEF Attested, Claimed
  <2>2. Truthful(evidence'[e], repo)
    BY <1>1, <2>1 DEF IInv, EvidenceIsTrue
  <2> QED BY <2>1, <2>2, ClaimsAreCopies
<1>4. UNCHANGED <<LedgerOf(state), Copies>>
  BY <1>1 DEF LedgerOf, Copies
<1> QED BY <1>2, <1>3, <1>4 DEF Ledger!Attest

\* Every other step leaves state and evidence alone, or retires the state.
LEMMA OtherSteps ==
  ASSUME [Next]_vars,
         \A p \in Procs : ~InitializeState(p) /\ ~Commit(p) /\ ~PublishEvidence(p)
  PROVE  \/ UNCHANGED <<state, evidence>>
         \/ state' = Missing /\ UNCHANGED <<repo, evidence>>
<1> USE DEF files, remote, local
<1> DEFINE Quiet == UNCHANGED <<state, evidence>>
<1>1. ASSUME NEW p \in Procs, Load(p) \/ Lock(p) PROVE Quiet
  BY <1>1 DEF Load, ReadGovernance, ReadDocuments, RejectInputs, Lock, LockSidecar,
     Refuse, LockRegistry, RegistryMoved, LockCatalog, InputsMoved
<1>2. ASSUME NEW p \in Procs, FirstSection(p), ~InitializeState(p) PROVE Quiet
  BY <1>2 DEF FirstSection, Validate, Plan, Stage, MovedWhileCapturing, CaptureDataset
<1>3. ASSUME NEW p \in Procs, AtTargets(p) PROVE Quiet
  BY <1>3 DEF AtTargets, Replicate, ReplicateFails, VerifyReplica, VerifyFails, Settle
<1>4. ASSUME NEW p \in Procs, SecondSection(p), ~Commit(p), ~PublishEvidence(p)
      PROVE  Quiet
  BY <1>4 DEF SecondSection, Recapture, SourceChanged, CommitNothing
<1>5. ASSUME NEW p \in Procs, Interrupt(p) \/ Crash(p) \/
             \E c \in Commands, e \in Paths : Start(p, c, e)
      PROVE  Quiet
  BY <1>5 DEF Interrupt, Crash, Start
<1>6. Environment => Quiet \/ (state' = Missing /\ UNCHANGED <<repo, evidence>>)
  BY DEF Environment, WriteRegistry, ReconcileCatalog, Edit, EditPolicy, EditTargets,
     EditHosts, RetireState, EditSource, ClearStaleSpool, LoseSnapshot
<1>7. UNCHANGED vars => Quiet
  BY DEF vars
<1>8. NoPath \in Paths
  BY DefaultsTyped
<1> HIDE DEF Quiet
<1>9. Quiet \/ (state' = Missing /\ UNCHANGED <<repo, evidence>>)
  BY <1>1, <1>2, <1>3, <1>4, <1>5, <1>6, <1>7, <1>8 DEF Next, Step
<1> QED BY <1>9 DEF Quiet

\* A step of the coordinator, of its operator or of a target is a step of the ledger.
LEMMA StepOfLedger ==
  ASSUME IInv, IInv', [Next]_vars
  PROVE  [Ledger!LedgerNext]_(Ledger!ledgerVars)
<1> USE DEF Ledger!LedgerNext, Ledger!ledgerVars
<1>1. ASSUME UNCHANGED <<state, evidence>> PROVE Ledger!Copy
  <2>1. Copies \subseteq Copies'
    BY RepoGrows, CopiesGrow DEF IInv
  <2>2. UNCHANGED <<LedgerOf(state), Attested>>
    BY <1>1 DEF LedgerOf, Attested
  <2> QED BY <2>1, <2>2 DEF Ledger!Copy
<1>2. ASSUME state' = Missing, UNCHANGED <<repo, evidence>> PROVE Ledger!Retire
  <2>1. LedgerOf(state)' = Missing
    BY <1>2 DEF LedgerOf
  <2>2. UNCHANGED <<Copies, Attested>>
    BY <1>2 DEF Copies, Attested
  <2> QED BY <2>1, <2>2 DEF Ledger!Retire
<1>3. ASSUME NEW p \in Procs, InitializeState(p) \/ Commit(p)
      PROVE  Ledger!Begin \/ Ledger!Advance \/ Ledger!Retire
  <2>1. UNCHANGED <<repo, evidence>>
    BY <1>3 DEF InitializeState, Commit, remote
  <2> QED BY <1>2, <1>3, <2>1, InitializeBegins, CommitAdvances
<1> QED BY <1>1, <1>2, <1>3, OtherSteps, PublishAttests

\* Whatever runs, fails or crashes, the sidecar implements the ledger: state
\* file, repositories and evidence together never claim what is not there, and
\* commits follow one another (backup, drill, initialize_state).
THEOREM SidecarImplements == Spec => ImplementsLedger
<1>1. Init => Ledger!LedgerInit
  <2> SUFFICES ASSUME Init PROVE Ledger!LedgerInit
    OBVIOUS
  <2>1. Copies = {}
    <3>1. \A t \in Targets : 1 .. Len(repo[t]) = {}
      BY DEF Init
    <3> QED BY <3>1 DEF Copies
  <2>2. Attested = {}
    BY DEF Init, Attested
  <2>3. state # Missing => Ledger!Backed(LedgerOf(state))
    <3>1. IInv
      BY InitInv
    <3> QED BY <3>1, ProtectedIsBacked DEF IInv, TypeOK, ControlOK, StateProtects
  <2>4. state = Missing => LedgerOf(state) = Missing
    BY DEF LedgerOf
  <2> QED BY <2>1, <2>2, <2>3, <2>4 DEF Ledger!LedgerInit
<1>2. IInv /\ IInv' /\ [Next]_vars => [Ledger!LedgerNext]_(Ledger!ledgerVars)
  BY StepOfLedger
<1> QED BY <1>1, <1>2, Invariant, PTL DEF Spec, ImplementsLedger, Ledger!LedgerSpec
=============================================================================
