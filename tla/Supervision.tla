---------------------------- MODULE Supervision ----------------------------
(***************************************************************************)
(* How the private sidecar runs restic (scripts/portfolio_sidecar.py       *)
(* _run_bounded_process): in a session of its own, until its pipes are     *)
(* closed and it has exited, or until it takes too long or says too much;  *)
(* then the whole process group is killed and restic is waited for.  Until *)
(* it is, its number, which is the group's, cannot be given to another.    *)
(*                                                                         *)
(* On Linux the coordinator is the subreaper of what it starts: a helper   *)
(* whose parent exits becomes its child, for it to collect.  On Darwin it  *)
(* becomes launchd's, and a signal to a group in which nobody lives is     *)
(* refused (EPERM).                                                        *)
(* The runs are one at a time (_PROCESS_RUNNER_LOCK); as SIGCHLD must have *)
(* its default action, nobody else collects restic, and the branches for   *)
(* that are left out.                                                      *)
(***************************************************************************)
EXTENDS FiniteSets

CONSTANTS
  Restic,       \* the process that is started, leader of its group
  Helpers,      \* the processes it may start, and they in turn
  Us, Launchd   \* the coordinator, and process 1

ASSUME SupervisionAssumption == Restic \notin Helpers /\ {Us, Launchd} \cap (Helpers \cup {Restic}) = {} /\ Us # Launchd

Members == {Restic} \cup Helpers

VARIABLES
  system,     \* "linux" or "darwin"
  members,    \* [Members -> the state of the process; "gone" when it was collected]
  parent,     \* [Members -> its parent process]
  talking,    \* the processes with an end of restic's pipes
  foreign,    \* the group's number belongs to somebody else by now
  at,         \* where the coordinator is
  barred,     \* the signal to the group was refused
  outcome,    \* how the run ended
  struck      \* history: a group of somebody else was sent a signal

superVars == <<system, members, parent, talking, foreign, at, barred, outcome, struck>>
others == <<system, foreign, at, barred, outcome, struck>>

SupervisionInit ==
  /\ system \in {"linux", "darwin"} /\ at = "off" /\ outcome = "none"
  /\ members = [p \in Members |-> "none"] /\ talking = {}
  /\ parent = [p \in Members |-> Us] /\ foreign = FALSE /\ barred = FALSE /\ struck = FALSE

Grouped(p) == members[p] \in {"live", "dying", "zombie"}
Running(p) == members[p] \in {"live", "dying"}

-----------------------------------------------------------------------------
(* restic, its helpers and the kernel.                                     *)

\* A helper has the pipes of the one that started it.
Fork(p, h) ==
  /\ members[p] = "live" /\ members[h] = "none"
  /\ members' = [members EXCEPT ![h] = "live"]
  /\ parent' = [parent EXCEPT ![h] = p]
  /\ talking' = (IF p \in talking THEN talking \cup {h} ELSE talking)
  /\ UNCHANGED others

\* setsid
LeaveGroup(h) ==
  /\ members[h] = "live" /\ members' = [members EXCEPT ![h] = "left"]
  /\ UNCHANGED <<parent, talking, others>>

ClosePipes(p) ==
  /\ p \in talking /\ members[p] \in {"live", "left"} /\ talking' = talking \ {p}
  /\ UNCHANGED <<members, parent, others>>

\* Its children become those of the subreaper, or of process 1.
Exit(p) ==
  /\ Running(p) /\ members' = [members EXCEPT ![p] = "zombie"] /\ talking' = talking \ {p}
  /\ parent' = [q \in Members |->
       IF parent[q] # p THEN parent[q] ELSE IF system = "linux" THEN Us ELSE Launchd]
  /\ UNCHANGED others

\* A helper is waited for by its parent.
Collect(h) ==
  /\ members[h] = "zombie" /\ parent[h] # Us
  /\ parent[h] \in Members => members[parent[h]] \in {"live", "left"}
  /\ members' = [members EXCEPT ![h] = "gone"]
  /\ UNCHANGED <<parent, talking, others>>

\* The number is given to another group when nobody has it any more.
Recycle ==
  /\ members[Restic] = "gone" /\ ~(\E p \in Members : Grouped(p)) /\ foreign' = TRUE
  /\ UNCHANGED <<system, members, parent, talking, at, barred, outcome, struck>>

-----------------------------------------------------------------------------
(* The coordinator.                                                        *)

Launch ==
  /\ at = "off" /\ at' = "listening" /\ outcome' = "none"
  /\ members' = [p \in Members |-> IF p = Restic THEN "live" ELSE "none"]
  /\ parent' = [p \in Members |-> Us] /\ talking' = {Restic} /\ foreign' = FALSE /\ barred' = FALSE
  /\ UNCHANGED <<system, struck>>

\* _communicate_bounded_process reads until the last end is closed.
PipesClosed ==
  /\ at = "listening" /\ talking = {} /\ at' = "watching"
  /\ UNCHANGED <<system, members, parent, talking, foreign, barred, outcome, struck>>

\* _process_exited_without_reaping (WNOWAIT)
SeeExit ==
  /\ at = "watching" /\ members[Restic] = "zombie"
  /\ at' = "kill" /\ outcome' = "good"
  /\ UNCHANGED <<system, members, parent, talking, foreign, barred, struck>>

\* Mutant: the deadline is looked at only while there is output to wait for.
ExpiredReading ==
  /\ at = "listening" /\ at' = "kill" /\ outcome' = "failed"
  /\ UNCHANGED <<system, members, parent, talking, foreign, barred, struck>>

\* Every turn of the loop looks at the deadline; output beyond the limit, an
\* error and an interrupt end it too.
Expired ==
  /\ at \in {"listening", "watching"} /\ at' = "kill" /\ outcome' = "failed"
  /\ UNCHANGED <<system, members, parent, talking, foreign, barred, struck>>

\* SIGKILL reaches all of the group at once, so that none of them forks any more.
Struck ==
  /\ members' = [p \in Members |-> IF members[p] = "live" THEN "dying" ELSE members[p]]
  /\ struck' = (struck \/ foreign)

\* _kill_process_group
KillGroup ==
  /\ at = "kill" /\ at' = "wait" /\ Struck
  /\ barred' = (system = "darwin" /\ ~(\E p \in Members : Running(p)))
  /\ UNCHANGED <<system, parent, talking, foreign, outcome>>

\* process.wait
WaitLeader ==
  /\ at = "wait" /\ members[Restic] = "zombie"
  /\ members' = [members EXCEPT ![Restic] = "gone"]
  /\ at' = (IF barred THEN "probe" ELSE IF system = "linux" THEN "reap" ELSE "off")
  /\ UNCHANGED <<system, parent, talking, foreign, barred, outcome, struck>>

\* After a refusal the group has to be gone, and its number unused.
Probe ==
  /\ at = "probe" /\ at' = "off"
  /\ outcome' = (IF foreign \/ \E p \in Members : Grouped(p) THEN "unreaped" ELSE outcome)
  /\ UNCHANGED <<system, members, parent, talking, foreign, barred, struck>>

\* Mutant: the group is signalled before anybody looks whether it is there.
AnyChild == TRUE

\* _linux_group_has_owned_live_child collects who has exited; somebody is left.
OwnedChild == \E p \in Members : Running(p) /\ parent[p] = Us

ReapGroup ==
  /\ at = "reap"
  /\ members' = [p \in Members |->
       IF members[p] = "zombie" /\ parent[p] = Us THEN "gone" ELSE members[p]]
  /\ at' = (IF OwnedChild THEN "strike" ELSE "off")
  /\ UNCHANGED <<system, parent, talking, foreign, barred, outcome, struck>>

\* Again, for at most five seconds.
StrikeAgain(expired) ==
  /\ at = "strike" /\ Struck
  /\ at' = (IF expired THEN "off" ELSE "reap")
  /\ outcome' = (IF expired THEN "unreaped" ELSE outcome)
  /\ UNCHANGED <<system, parent, talking, foreign, barred>>

CoordinatorStep ==
  \/ PipesClosed \/ SeeExit \/ Expired \/ KillGroup \/ WaitLeader \/ Probe \/ ReapGroup
  \/ \E expired \in BOOLEAN : StrikeAgain(expired)

SupervisionNext ==
  \/ Launch \/ CoordinatorStep \/ Recycle
  \/ \E p \in Members : Exit(p) \/ ClosePipes(p) \/ \E h \in Helpers : Fork(p, h)
  \/ \E h \in Helpers : LeaveGroup(h) \/ Collect(h)

\* The coordinator goes on, its deadlines pass, and who was killed dies.
SupervisionFairness ==
  /\ WF_superVars(CoordinatorStep)
  /\ \A p \in Members : WF_superVars(members[p] = "dying" /\ Exit(p))

SupervisionSpec == SupervisionInit /\ [][SupervisionNext]_superVars /\ SupervisionFairness

-----------------------------------------------------------------------------
(* Properties.                                                             *)

\* restic is collected after the signal and by nobody else; who is collected has
\* no pipe, and only launchd refuses a signal.
SupervisionTypeOK ==
  /\ system \in {"linux", "darwin"} /\ foreign \in BOOLEAN /\ struck \in BOOLEAN
  /\ members \in [Members -> {"none", "live", "dying", "zombie", "gone", "left"}]
  /\ parent \in [Members -> Members \cup {Us, Launchd}] /\ parent[Restic] = Us
  /\ members[Restic] # "left" /\ talking \subseteq {p \in Members : Running(p) \/ members[p] = "left"}
  /\ at \in {"off", "listening", "watching", "kill", "wait", "probe", "reap", "strike"}
  /\ outcome \in {"none", "good", "failed", "unreaped"}
  /\ barred \in BOOLEAN /\ (barred => system = "darwin")
  /\ members[Restic] = "none" => at = "off"
  /\ members[Restic] = "gone" => at \in {"off", "probe", "reap", "strike"}

\* No signal ever goes to a group that has got the number since.  When a run is over
\* nobody who stayed in the group lives on, and on Linux nobody is left to be
\* collected, unless a helper has left the group; or the run fails and says so.
GroupIsOurs ==
  /\ ~struck
  /\ at = "off" /\ outcome # "unreaped" => \A p \in Members :
       /\ members[p] # "live"
       /\ system = "linux" /\ Grouped(p) => \E h \in Helpers : members[h] = "left"

\* Every run ends, whatever restic and its helpers do: also when they never close
\* the pipes, close them and never exit, or leave the group.
RunEnds == at = "listening" ~> at = "off"
=============================================================================
