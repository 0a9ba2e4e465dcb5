----------------------------- MODULE JobRunner -----------------------------
(***************************************************************************)
(* The runner of interval jobs on macOS                                    *)
(* (scripts/run_traction_control_job.py).  launchd polls it every few      *)
(* minutes, and a person may start it too.  A run that gets the lock reads *)
(* the schedule, and if the job is due it records the attempt, waits for   *)
(* jitter and network, runs the command, and records a success.            *)
(*                                                                         *)
(* Times are kept as what is left until them: what is written as now plus  *)
(* three is three here, and one less after each tick.  now is read before  *)
(* the lock is taken; MaxLag bounds how long before.  Calendar and         *)
(* on-demand jobs have no schedule, and their runs only wait and run.      *)
(***************************************************************************)
EXTENDS Integers, FiniteSets

CONSTANTS
  Launchd, Person,         \* the two that start the runner
  Interval, RetryTime,     \* of the job
  StartupDelay,
  MaxLag,                  \* bound: ticks from reading the clock to the decision
  MaxRunnerEvents          \* bound: kills, reboots, changes of the network

ASSUME RunnerAssumption ==
  /\ Launchd # Person /\ "free" \notin {Launchd, Person}
  /\ {Interval, RetryTime} \subseteq Nat \ {0} /\ {StartupDelay, MaxLag, MaxRunnerEvents} \subseteq Nat

VARIABLES
  schedule,    \* the file: which, of this boot, next_due, retry_after
  holder,      \* who holds the lock, or "free"
  runners,     \* [Runners -> [at, age]]: age is the time since the clock was read
  children,    \* [Runners -> how many commands it started still run]
  reachable,   \* the network host is
  booting,     \* time until the startup delay is over
  runnerEvents,
  succeeded,   \* history: time until the interval since the last success is over
  killed       \* history: a runner was killed since the machine started

runnerVars == <<schedule, holder, runners, children, reachable, booting, runnerEvents,
                succeeded, killed>>
history == <<succeeded, killed>>

Runners == {Launchd, Person}
Larger(a, b) == IF a > b THEN a ELSE b
Past == -MaxLag
Later(t) == Larger(t - 1, Past)

Schedules == [is : {"none", "valid", "unreadable"}, current : BOOLEAN,
              due : Past .. Larger(Interval, StartupDelay), retry : Past .. RetryTime]
NoSchedule == [is |-> "none", current |-> FALSE, due |-> Past, retry |-> Past]
Unreadable == [NoSchedule EXCEPT !.is = "unreadable"]
Resting == [at |-> "off", age |-> 0]

RunnerInit ==
  /\ schedule = NoSchedule /\ holder = "free" /\ runners = [p \in Runners |-> Resting]
  /\ children = [p \in Runners |-> 0] /\ reachable \in BOOLEAN /\ booting = StartupDelay
  /\ runnerEvents = 0 /\ succeeded = Past /\ killed = FALSE

Is(p, label) == runners[p].at = label
Turn(p, label) == runners' = [runners EXCEPT ![p].at = label]
Leave(p) == runners' = [runners EXCEPT ![p] = Resting] /\ holder' = "free"

-----------------------------------------------------------------------------
(* A run.                                                                  *)

Poll(p) ==
  /\ Is(p, "off") /\ runners' = [runners EXCEPT ![p] = [at |-> "polled", age |-> 0]]
  /\ UNCHANGED <<schedule, holder, children, reachable, booting, runnerEvents, history>>

\* Mutant: the lock is opened but not waited for.
Granted == TRUE

LockFree == holder = "free"

\* _open_lock does not wait: a run that does not get it ends.
TakeLock(p) ==
  /\ Is(p, "polled")
  /\ IF LockFree THEN Turn(p, "locked") /\ holder' = p
     ELSE runners' = [runners EXCEPT ![p] = Resting] /\ UNCHANGED holder
  /\ UNCHANGED <<schedule, children, reachable, booting, runnerEvents, history>>

\* What is written of now and of the boot time.
FirstDue(age) == Larger(-age, booting)

NewSchedule(age) ==
  [is |-> "valid", current |-> TRUE, due |-> FirstDue(age), retry |-> Past]

\* _read_state finds none, or one of an earlier boot.
Renew(p) ==
  /\ Is(p, "locked") /\ schedule.is # "unreadable" /\ ~schedule.current
  /\ schedule' = NewSchedule(runners[p].age)
  /\ UNCHANGED <<holder, runners, children, reachable, booting, runnerEvents, history>>

\* As of the time the clock was read.
IsDue(age) == schedule.due + age <= 0 /\ schedule.retry + age <= 0

\* A file that _read_state refuses ends the run, as one that is not due yet.
Attempt(p) ==
  /\ Is(p, "locked") /\ (schedule.current \/ schedule.is = "unreadable")
  /\ IF schedule.current /\ IsDue(runners[p].age)
     THEN /\ schedule' = [schedule EXCEPT !.retry = RetryTime - runners[p].age]
          /\ runners' = [runners EXCEPT ![p] = [at |-> "wait", age |-> 0]]
          /\ UNCHANGED holder
     ELSE Leave(p) /\ UNCHANGED schedule
  /\ UNCHANGED <<children, reachable, booting, runnerEvents, history>>

\* After the jitter, _wait_for_network has found the host.
RunCommand(p) ==
  /\ Is(p, "wait") /\ reachable /\ Turn(p, "run")
  /\ children' = [children EXCEPT ![p] = @ + 1]
  /\ UNCHANGED <<schedule, holder, reachable, booting, runnerEvents, history>>

\* Or it has not in its time.
GiveUp(p) ==
  /\ Is(p, "wait") /\ ~reachable /\ Leave(p)
  /\ UNCHANGED <<schedule, children, reachable, booting, runnerEvents, history>>

\* Mutant: the interval starts with the attempt.
SinceAttempt == [schedule EXCEPT !.due = Larger(@, schedule.retry - RetryTime + Interval),
                                 !.retry = Past]

\* _record_success
Succeeded == [schedule EXCEPT !.due = Interval, !.retry = Past]

\* The command ends; only exit status zero is recorded.
CommandEnds(p, ok) ==
  /\ Is(p, "run") /\ Leave(p) /\ children' = [children EXCEPT ![p] = @ - 1]
  /\ IF ok THEN schedule' = Succeeded /\ succeeded' = Interval
     ELSE UNCHANGED <<schedule, succeeded>>
  /\ UNCHANGED <<reachable, booting, runnerEvents, killed>>

\* The command of a runner that was killed ends too, and nobody records it.
OrphanEnds(p) ==
  /\ children[p] > IF Is(p, "run") THEN 1 ELSE 0
  /\ children' = [children EXCEPT ![p] = @ - 1]
  /\ UNCHANGED <<schedule, holder, runners, reachable, booting, runnerEvents, history>>

-----------------------------------------------------------------------------
(* Time and failures.                                                      *)

Tick ==
  /\ \A p \in Runners : runners[p].at \in {"polled", "locked"} => runners[p].age < MaxLag
  /\ schedule' = [schedule EXCEPT !.due = Later(@), !.retry = Later(@)]
  /\ booting' = Later(booting) /\ succeeded' = Later(succeeded)
  /\ runners' = [p \in Runners |-> IF runners[p].at \in {"polled", "locked"}
                                   THEN [runners[p] EXCEPT !.age = @ + 1] ELSE runners[p]]
  /\ UNCHANGED <<holder, children, reachable, runnerEvents, killed>>

RunnerEvent == runnerEvents < MaxRunnerEvents /\ runnerEvents' = runnerEvents + 1

\* Mutant: the file is written in place.
InPlace == {schedule, Unreadable}

\* _write_state replaces the file, so that a run killed in it leaves the old one.
Interrupted == {schedule}

\* The runner is killed; the system frees the lock, and the command goes on.
KillRunner(p) ==
  /\ RunnerEvent /\ ~Is(p, "off") /\ killed' = TRUE
  /\ runners' = [runners EXCEPT ![p] = Resting]
  /\ holder' = IF holder = p THEN "free" ELSE holder
  /\ IF Is(p, "locked") THEN schedule' \in Interrupted ELSE UNCHANGED schedule
  /\ UNCHANGED <<children, reachable, booting, succeeded>>

\* boot_metadata names another boot from now on.
Reboot ==
  /\ RunnerEvent /\ schedule' = [schedule EXCEPT !.current = FALSE]
  /\ holder' = "free" /\ runners' = [p \in Runners |-> Resting]
  /\ children' = [p \in Runners |-> 0] /\ booting' = StartupDelay
  /\ succeeded' = Past /\ killed' = FALSE /\ UNCHANGED reachable

NetworkChanges ==
  /\ RunnerEvent /\ reachable' = ~reachable
  /\ UNCHANGED <<schedule, holder, runners, children, booting, history>>

RunnerStep(p) ==
  \/ TakeLock(p) \/ Renew(p) \/ Attempt(p) \/ RunCommand(p) \/ GiveUp(p)
  \/ (\E ok \in BOOLEAN : CommandEnds(p, ok)) \/ OrphanEnds(p)

RunnerNext ==
  \/ \E p \in Runners : Poll(p) \/ RunnerStep(p) \/ KillRunner(p)
  \/ Tick \/ Reboot \/ NetworkChanges

\* launchd polls again and again, runs and commands go on, and time passes.
RunnerFairness ==
  /\ WF_runnerVars(Poll(Launchd)) /\ SF_runnerVars(Tick)
  /\ \A p \in Runners : WF_runnerVars(RunnerStep(p))

RunnerSpec == RunnerInit /\ [][RunnerNext]_runnerVars /\ RunnerFairness

-----------------------------------------------------------------------------
(* Properties.                                                             *)

\* A run that waits or runs its command holds the lock, and the schedule names
\* its attempt: nothing is due again before the retry time is over.
RunnerTypeOK ==
  /\ schedule \in Schedules /\ holder \in Runners \cup {"free"}
  /\ children \in [Runners -> Nat] /\ booting \in Past .. StartupDelay
  /\ \A p \in Runners :
       /\ runners[p].at \in {"off", "polled", "locked", "wait", "run"}
       /\ runners[p].age \in 0 .. MaxLag
       /\ runners[p].at \in {"locked", "wait", "run"} <=> holder = p
       /\ runners[p].at \in {"wait", "run"} =>
            schedule.is = "valid" /\ schedule.current /\ schedule.due <= 0

\* README.md: startup delay is applied once, the interval advances after success.
\* No command starts before the delay is over, nor before the interval is over
\* since the last success of this boot, however runs, failures and kills fall; and
\* none while another one runs, unless a runner was killed and left its command.
StartsInTurn ==
  [][\A p \in Runners : RunCommand(p) =>
       /\ booting <= 0 /\ succeeded <= 0
       /\ ~killed => children[Launchd] + children[Person] = 0]_runnerVars

\* The job runs again and again, if the network is there from some moment on.
JobRunsAgain == <>[]reachable => []<>(\E p \in Runners : Is(p, "run"))
=============================================================================
