------------------------------ MODULE MCTimers ------------------------------
(* The programs that timers start again and again, for TLC.  They share no   *)
(* state, so one of them is chosen at the start and takes all the steps.     *)
EXTENDS JobGuardNotify, ActionsSwitch, JobRunner

VARIABLE program

timersVars == <<program, notifyVars, switchVars, runnerVars>>

TimersInit ==
  /\ program \in {"notifier", "switch", "runner"}
  /\ NotifyInit /\ SwitchInit /\ RunnerInit
  /\ program # "runner" => ~reachable

TimersNext ==
  /\ UNCHANGED program
  /\ \/ program = "notifier" /\ NotifyNext /\ UNCHANGED <<switchVars, runnerVars>>
     \/ program = "switch" /\ SwitchNext /\ UNCHANGED <<notifyVars, runnerVars>>
     \/ program = "runner" /\ RunnerNext /\ UNCHANGED <<notifyVars, switchVars>>

\* The fairness of the modules, said of the program that was chosen.  One step of
\* each has strong fairness; as only one of them moves, it is said of all at once.
Persistent ==
  /\ UNCHANGED program
  /\ \/ program = "notifier" /\ MakePlan /\ UNCHANGED <<switchVars, runnerVars>>
     \/ program = "switch" /\ StartRun(Timer) /\ UNCHANGED <<notifyVars, runnerVars>>
     \/ program = "runner" /\ Tick /\ UNCHANGED <<notifyVars, switchVars>>

TimersFairness ==
  /\ SF_timersVars(Persistent)
  /\ SF_notifyVars(program = "notifier" /\ SendMessage)
  /\ WF_notifyVars(program = "notifier" /\ Run)
  /\ \A e \in Events : WF_notifyVars(program = "notifier" /\ Append(e))
  /\ \A p \in Switchers : WF_switchVars(program = "switch" /\ SwitchStep(p))
  /\ \A k \in Keys : WF_switchVars(program = "switch" /\ Expire(k))
  /\ WF_runnerVars(program = "runner" /\ Poll(Launchd))
  /\ \A p \in Runners : WF_runnerVars(program = "runner" /\ RunnerStep(p))

TimersSpec == TimersInit /\ [][TimersNext]_timersVars /\ TimersFairness

\* The type invariants of all three: what each program keeps is what it should be.
TimersTypeOK == NotifyTypeOK /\ SwitchTypeOK /\ RunnerTypeOK
=============================================================================
