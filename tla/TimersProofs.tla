---------------------------- MODULE TimersProofs ----------------------------
(***************************************************************************)
(* What is true of the programs that timers start again and again: the job *)
(* runner (JobRunner), the Actions switch (ActionsSwitch) and the notifier *)
(* of the guard (JobGuardNotify), for every value of their constants.      *)
(***************************************************************************)
EXTENDS MCTimers, TLAPS, FiniteSetTheorems

-----------------------------------------------------------------------------
(* JobRunner                                                               *)

RunnerStates == [at : {"off", "polled", "locked", "wait", "run"}, age : 0 .. MaxLag]

RTyped ==
  /\ schedule \in Schedules /\ holder \in Runners \cup {"free"}
  /\ runners \in [Runners -> RunnerStates] /\ children \in [Runners -> Nat]
  /\ booting \in Past .. StartupDelay /\ runnerEvents \in Nat
  /\ succeeded \in Past .. Interval /\ killed \in BOOLEAN

\* Past the lock, a run holds it; past the attempt, the schedule was due.
Locked ==
  \A p \in Runners :
    /\ runners[p].at \in {"locked", "wait", "run"} <=> holder = p
    /\ runners[p].at \in {"wait", "run"} => schedule.current /\ schedule.due <= 0

\* A schedule of this boot is not due before the startup delay is over, nor before the
\* interval is over since the last success.
Spaced ==
  /\ schedule.current => /\ schedule.is = "valid"
                         /\ schedule.due >= booting /\ schedule.due >= succeeded
  /\ ~schedule.current => succeeded = Past

\* Commands run that a runner waits for, and no others unless one was killed.
Attended ==
  /\ \A p \in Runners : runners[p].at = "run" => children[p] > 0
  /\ ~killed => \A p \in Runners : children[p] = IF runners[p].at = "run" THEN 1 ELSE 0

RunnerInv == RTyped /\ Locked /\ Spaced /\ Attended

LEMMA RunnerCases ==
  ASSUME NEW P, [RunnerNext]_runnerVars, UNCHANGED runnerVars => P,
         \A p \in Runners : Poll(p) => P,
         \A p \in Runners : TakeLock(p) => P,
         \A p \in Runners : Renew(p) => P,
         \A p \in Runners : Attempt(p) => P,
         \A p \in Runners : RunCommand(p) => P,
         \A p \in Runners : GiveUp(p) => P,
         \A p \in Runners : \A ok \in BOOLEAN : CommandEnds(p, ok) => P,
         \A p \in Runners : OrphanEnds(p) => P,
         \A p \in Runners : KillRunner(p) => P,
         Tick => P, Reboot => P, NetworkChanges => P
  PROVE  P
BY DEF RunnerNext, RunnerStep

LEMMA RunnerConstants ==
  /\ Interval \in Nat \ {0} /\ RetryTime \in Nat \ {0} /\ StartupDelay \in Nat
  /\ MaxLag \in Nat /\ MaxRunnerEvents \in Nat /\ Past \in Int /\ Past = -MaxLag
  /\ Launchd # Person /\ "free" \notin Runners
BY RunnerAssumption DEF Past, Runners

\* Time passes for what is left of a time as far as it is kept, and in order.
LEMMA Passing ==
  ASSUME NEW s \in Int, NEW t \in Int
  PROVE  /\ Larger(s, t) \in {s, t} /\ Larger(s, t) >= s /\ Larger(s, t) >= t
         /\ Later(t) \in Int /\ Later(t) >= Past /\ (t >= Past => Later(t) <= t)
         /\ (s >= t => Later(s) >= Later(t)) /\ Later(Past) = Past
BY RunnerConstants DEF Larger, Later

LEMMA RTypedStep ==
  ASSUME RTyped, Attended, [RunnerNext]_runnerVars
  PROVE  RTyped'
<1> DEFINE P == RTyped'
<1>0. /\ schedule \in Schedules /\ holder \in Runners \cup {"free"}
      /\ runners \in [Runners -> RunnerStates] /\ children \in [Runners -> Nat]
      /\ booting \in Past .. StartupDelay /\ runnerEvents \in Nat
      /\ succeeded \in Past .. Interval /\ killed \in BOOLEAN
  BY DEF RTyped
<1>1. /\ schedule.due \in Past .. Larger(Interval, StartupDelay)
      /\ schedule.retry \in Past .. RetryTime /\ schedule.current \in BOOLEAN
      /\ Larger(Interval, StartupDelay) \in Nat
      /\ Interval \in Past .. Larger(Interval, StartupDelay)
      /\ \A t \in Past .. StartupDelay : t <= Larger(Interval, StartupDelay)
      /\ \A p \in Runners : runners[p].at \in {"off", "polled", "locked", "wait", "run"}
                            /\ runners[p].age \in 0 .. MaxLag
  BY <1>0, RunnerConstants DEF Schedules, RunnerStates, Larger
<1>2. Resting \in RunnerStates /\ \A q \in {"polled", "wait"} : [at |-> q, age |-> 0] \in RunnerStates
  BY RunnerConstants DEF Resting, RunnerStates
<1>3. \A p \in Runners : \A label \in {"locked", "run"} :
        Turn(p, label) => runners' \in [Runners -> RunnerStates]
  <2> SUFFICES ASSUME NEW p \in Runners, NEW label \in {"locked", "run"}, Turn(p, label)
               PROVE  runners' \in [Runners -> RunnerStates]
    OBVIOUS
  <2>1. runners[p] \in RunnerStates
    BY <1>0
  <2>2. [runners[p] EXCEPT !.at = label] \in RunnerStates
    BY <2>1 DEF RunnerStates
  <2> QED BY <1>0, <2>2 DEF Turn
<1>4. \A p \in Runners : Leave(p) => /\ runners' \in [Runners -> RunnerStates]
                                     /\ holder' \in Runners \cup {"free"}
  BY <1>0, <1>2 DEF Leave
<1>5. ASSUME UNCHANGED runnerVars PROVE P
  BY <1>0, <1>5 DEF runnerVars, history, RTyped
<1>6. \A p \in Runners : Poll(p) => P
  BY <1>0, <1>2 DEF Poll, RTyped, history
<1>7. \A p \in Runners : TakeLock(p) => P
  BY <1>0, <1>2, <1>3 DEF TakeLock, RTyped, history
<1>8. \A p \in Runners : Renew(p) => P
  <2> SUFFICES ASSUME NEW p \in Runners, Renew(p) PROVE P
    OBVIOUS
  <2>1. FirstDue(runners[p].age) \in Past .. Larger(Interval, StartupDelay)
    BY <1>0, <1>1, RunnerConstants DEF FirstDue, Larger
  <2>2. schedule' \in Schedules
    BY <2>1, RunnerConstants DEF Renew, NewSchedule, Schedules
  <2> QED BY <1>0, <2>2 DEF Renew, RTyped, history
<1>9. \A p \in Runners : Attempt(p) => P
  <2> SUFFICES ASSUME NEW p \in Runners, Attempt(p) PROVE P
    OBVIOUS
  <2>1. RetryTime - runners[p].age \in Past .. RetryTime
    BY <1>1, RunnerConstants
  <2>2. schedule' \in Schedules
    BY <1>0, <2>1 DEF Attempt, Schedules
  <2>3. runners' \in [Runners -> RunnerStates] /\ holder' \in Runners \cup {"free"}
    BY <1>0, <1>2, <1>4 DEF Attempt
  <2> QED BY <1>0, <2>2, <2>3 DEF Attempt, RTyped, history
<1>10. \A p \in Runners : RunCommand(p) => P
  <2> SUFFICES ASSUME NEW p \in Runners, RunCommand(p) PROVE P
    OBVIOUS
  <2>1. children' \in [Runners -> Nat]
    BY <1>0 DEF RunCommand
  <2> QED BY <1>0, <1>3, <2>1 DEF RunCommand, RTyped, history
<1>11. \A p \in Runners : GiveUp(p) => P
  BY <1>0, <1>4 DEF GiveUp, RTyped, history
<1>12. Reboot => P
  <2> SUFFICES ASSUME Reboot PROVE P
    OBVIOUS
  <2>1. schedule' \in Schedules
    BY <1>0 DEF Reboot, Schedules
  <2>2. /\ booting' \in Past .. StartupDelay /\ succeeded' \in Past .. Interval
        /\ runnerEvents' \in Nat
    BY <1>0, RunnerConstants DEF Reboot, RunnerEvent
  <2> QED BY <1>0, <1>2, <2>1, <2>2 DEF Reboot, RTyped
<1>13. Tick => P
  <2> SUFFICES ASSUME Tick PROVE P
    OBVIOUS
  <2>1. /\ Later(schedule.due) \in Past .. Larger(Interval, StartupDelay)
        /\ Later(schedule.retry) \in Past .. RetryTime
        /\ Later(booting) \in Past .. StartupDelay /\ Later(succeeded) \in Past .. Interval
    BY <1>0, <1>1, RunnerConstants, Passing
  <2>2. schedule' \in Schedules
    BY <1>0, <2>1 DEF Tick, Schedules
  <2>3. \A p \in Runners : runners[p].at \in {"polled", "locked"} =>
          [runners[p] EXCEPT !.age = @ + 1] \in RunnerStates
    <3> SUFFICES ASSUME NEW p \in Runners, runners[p].at \in {"polled", "locked"}
                 PROVE  [runners[p] EXCEPT !.age = @ + 1] \in RunnerStates
      OBVIOUS
    <3>1. runners[p].age + 1 \in 0 .. MaxLag
      BY <1>1, RunnerConstants DEF Tick
    <3>2. runners[p] \in RunnerStates
      BY <1>0
    <3> QED BY <3>1, <3>2 DEF RunnerStates
  <2>4. runners' \in [Runners -> RunnerStates]
    BY <1>0, <2>3 DEF Tick
  <2> QED BY <1>0, <2>1, <2>2, <2>4 DEF Tick, RTyped
<1>14. \A p \in Runners : KillRunner(p) => P
  <2> SUFFICES ASSUME NEW p \in Runners, KillRunner(p) PROVE P
    OBVIOUS
  <2>1. schedule' = schedule /\ runnerEvents' \in Nat
    BY <1>0 DEF KillRunner, Interrupted, RunnerEvent
  <2> QED BY <1>0, <1>2, <2>1 DEF KillRunner, RTyped
<1>15. \A p \in Runners : \A ok \in BOOLEAN : CommandEnds(p, ok) => P
  <2> SUFFICES ASSUME NEW p \in Runners, NEW ok \in BOOLEAN, CommandEnds(p, ok) PROVE P
    OBVIOUS
  <2>1. schedule' \in Schedules /\ succeeded' \in Past .. Interval
    <3>1. Succeeded \in Schedules
      <4>1. Past \in Past .. RetryTime
        BY RunnerConstants
      <4> QED BY <1>0, <1>1, <4>1 DEF Succeeded, Schedules
    <3>2. Interval \in Past .. Interval
      BY RunnerConstants
    <3> QED BY <1>0, <3>1, <3>2 DEF CommandEnds
  <2>2. children' \in [Runners -> Nat]
    <3>1. children[p] \in Nat /\ children[p] > 0
      BY <1>0 DEF CommandEnds, Is, Attended
    <3>2. children[p] - 1 \in Nat
      BY <3>1
    <3> QED BY <1>0, <3>2 DEF CommandEnds
  <2> QED BY <1>0, <1>4, <2>1, <2>2 DEF CommandEnds, RTyped
<1>16. \A p \in Runners : OrphanEnds(p) => P
  <2> SUFFICES ASSUME NEW p \in Runners, OrphanEnds(p) PROVE P
    OBVIOUS
  <2>1. children[p] \in Nat /\ children[p] > 0
    BY <1>0 DEF OrphanEnds
  <2>2. children[p] - 1 \in Nat
    BY <2>1
  <2>3. children' \in [Runners -> Nat]
    BY <1>0, <2>2 DEF OrphanEnds
  <2> QED BY <1>0, <2>3 DEF OrphanEnds, RTyped, history
<1>17. NetworkChanges => P
  BY <1>0 DEF NetworkChanges, RunnerEvent, RTyped, history
<1>18. P
  <2> HIDE DEF P
  <2> QED BY <1>5, <1>6, <1>7, <1>8, <1>9, <1>10, <1>11, <1>12, <1>13, <1>14, <1>15, <1>16,
             <1>17, RunnerCases
<1> QED BY <1>18

\* The lock is held by one run, from the moment it is taken until the run leaves.
LEMMA LockedStep ==
  ASSUME RTyped, Locked, [RunnerNext]_runnerVars
  PROVE  Locked'
<1> DEFINE P == Locked'
<1>0. /\ runners \in [Runners -> RunnerStates] /\ schedule \in Schedules
      /\ \A p \in Runners : runners[p].at \in {"off", "polled", "locked", "wait", "run"}
      /\ \A p, q \in Runners : runners[p].at \in {"locked", "wait", "run"}
                             /\ runners[q].at \in {"locked", "wait", "run"} => p = q
  BY DEF RTyped, RunnerStates, Locked
<1>1. ASSUME UNCHANGED <<schedule, holder, runners>> PROVE P
  BY <1>1 DEF Locked
<1>2. \A p \in Runners : Poll(p) => P
  <2> SUFFICES ASSUME NEW p \in Runners, Poll(p) PROVE P
    OBVIOUS
  <2>1. /\ runners[p].at = "off" /\ runners'[p].at = "polled"
        /\ \A q \in Runners \ {p} : runners'[q] = runners[q]
    BY <1>0 DEF Poll, Is
  <2> QED BY <2>1 DEF Poll, Locked
<1>3. \A p \in Runners : TakeLock(p) => P
  <2> SUFFICES ASSUME NEW p \in Runners, TakeLock(p) PROVE P
    OBVIOUS
  <2>1. runners[p].at = "polled" /\ \A q \in Runners \ {p} : runners'[q] = runners[q]
    BY <1>0 DEF TakeLock, Is, Turn
  <2>2. CASE LockFree
    <3>1. runners'[p].at = "locked" /\ holder' = p /\ holder = "free"
      BY <1>0, <2>2 DEF TakeLock, Turn, LockFree, RunnerStates
    <3> QED BY <2>1, <3>1, RunnerConstants DEF TakeLock, Locked
  <2>3. CASE ~LockFree
    <3>1. runners'[p].at = "off" /\ UNCHANGED holder
      BY <1>0, <2>3 DEF TakeLock, Resting
    <3> QED BY <2>1, <3>1 DEF TakeLock, Locked
  <2> QED BY <2>2, <2>3
<1>4. ASSUME NEW p \in Runners, runners[p].at \in {"locked", "wait", "run"}, Leave(p)
      PROVE  P
  <2>1. /\ runners'[p].at = "off" /\ holder' = "free" /\ holder = p
        /\ \A q \in Runners \ {p} : runners'[q] = runners[q]
    BY <1>0, <1>4 DEF Leave, Resting, Locked
  <2> QED BY <2>1, RunnerConstants DEF Locked
\* A step of the one that holds the lock.
<1>5. ASSUME NEW p \in Runners, holder = p, UNCHANGED holder,
             runners'[p].at \in {"locked", "wait", "run"},
             \A q \in Runners \ {p} : runners'[q] = runners[q],
             runners'[p].at \in {"wait", "run"} => schedule'.current /\ schedule'.due <= 0
      PROVE  P
  BY <1>5 DEF Locked
<1>6. \A p \in Runners : Renew(p) => P
  <2> SUFFICES ASSUME NEW p \in Runners, Renew(p) PROVE P
    OBVIOUS
  <2>1. runners[p].at = "locked" /\ holder = p
    BY DEF Renew, Is, Locked
  <2> QED BY <1>5, <2>1 DEF Renew
<1>7. \A p \in Runners : Attempt(p) => P
  <2> SUFFICES ASSUME NEW p \in Runners, Attempt(p) PROVE P
    OBVIOUS
  <2>1. runners[p].at = "locked" /\ holder = p /\ runners[p].age \in 0 .. MaxLag
    BY <1>0 DEF Attempt, Is, Locked, RunnerStates
  <2>2. CASE schedule.current /\ IsDue(runners[p].age)
    <3>1. /\ schedule' = [schedule EXCEPT !.retry = RetryTime - runners[p].age]
          /\ runners' = [runners EXCEPT ![p] = [at |-> "wait", age |-> 0]]
          /\ UNCHANGED holder
      BY <2>2 DEF Attempt
    <3>2. schedule'.current /\ schedule'.due = schedule.due
      BY <1>0, <2>2, <3>1 DEF Schedules
    <3>3. schedule.due <= 0
      <4>1. schedule.due \in Int /\ MaxLag \in Nat
        BY <1>0, RunnerConstants DEF Schedules
      <4> QED BY <2>1, <2>2, <4>1 DEF IsDue
    <3>4. runners'[p].at = "wait" /\ \A q \in Runners \ {p} : runners'[q] = runners[q]
      BY <1>0, <3>1
    <3> QED BY <1>5, <2>1, <3>1, <3>2, <3>3, <3>4
  <2>3. CASE ~(schedule.current /\ IsDue(runners[p].age))
    BY <1>4, <2>1, <2>3 DEF Attempt
  <2> QED BY <2>2, <2>3
<1>8. \A p \in Runners : RunCommand(p) => P
  <2> SUFFICES ASSUME NEW p \in Runners, RunCommand(p) PROVE P
    OBVIOUS
  <2>1. /\ runners[p].at = "wait" /\ holder = p /\ runners'[p].at = "run"
        /\ \A q \in Runners \ {p} : runners'[q] = runners[q]
    BY <1>0 DEF RunCommand, Is, Turn, Locked, RunnerStates
  <2> QED BY <1>5, <2>1 DEF RunCommand, Locked
<1>9. \A p \in Runners : GiveUp(p) \/ (\E ok \in BOOLEAN : CommandEnds(p, ok)) => P
  BY <1>4 DEF GiveUp, CommandEnds, Is
<1>10. \A p \in Runners : KillRunner(p) => P
  <2> SUFFICES ASSUME NEW p \in Runners, KillRunner(p) PROVE P
    OBVIOUS
  <2>1. /\ runners'[p].at = "off" /\ schedule' = schedule
        /\ \A q \in Runners \ {p} : runners'[q] = runners[q]
        /\ holder' = IF holder = p THEN "free" ELSE holder
    BY <1>0 DEF KillRunner, Resting, Interrupted
  <2> QED BY <2>1, RunnerConstants DEF Locked
<1>11. Tick => P
  <2> SUFFICES ASSUME Tick PROVE P
    OBVIOUS
  <2>1. \A p \in Runners : runners'[p].at = runners[p].at
    BY <1>0 DEF Tick, RunnerStates
  <2>2. schedule'.current = schedule.current /\ schedule'.due = Later(schedule.due)
        /\ schedule.due \in Int /\ schedule.due >= Past
    BY <1>0, RunnerConstants DEF Tick, Schedules
  <2>3. schedule.due <= 0 => schedule'.due <= 0
    BY <2>2, Passing
  <2> QED BY <2>1, <2>2, <2>3 DEF Tick, Locked
<1>12. Reboot => P
  <2> SUFFICES ASSUME Reboot PROVE P
    OBVIOUS
  <2>1. holder' = "free" /\ \A p \in Runners : runners'[p].at = "off"
    BY DEF Reboot, Resting
  <2> QED BY <2>1, RunnerConstants DEF Locked
<1>13. (NetworkChanges \/ UNCHANGED runnerVars) => P
  BY <1>1 DEF NetworkChanges, runnerVars
<1>14. \A p \in Runners : OrphanEnds(p) => P
  BY <1>1 DEF OrphanEnds
<1>15. P
  <2> HIDE DEF P
  <2> QED BY <1>2, <1>3, <1>6, <1>7, <1>8, <1>9, <1>10, <1>11, <1>12, <1>13, <1>14, RunnerCases
<1> QED BY <1>15

\* What was not due at the time that is left of the delay and the interval is not due later.
LEMMA SpacedStep ==
  ASSUME RTyped, Locked, Spaced, [RunnerNext]_runnerVars
  PROVE  Spaced'
<1> DEFINE P == Spaced'
<1>0. /\ schedule \in Schedules /\ schedule.due \in Int /\ schedule.due >= Past
      /\ schedule.current \in BOOLEAN
      /\ booting \in Int /\ booting >= Past /\ succeeded \in Int /\ succeeded >= Past
      /\ \A p \in Runners : runners[p].age \in 0 .. MaxLag
  BY RunnerConstants DEF RTyped, Schedules, RunnerStates
<1>1. ASSUME UNCHANGED <<schedule, booting, succeeded>> PROVE P
  BY <1>1 DEF Spaced
<1>2. \A p \in Runners : Renew(p) => P
  <2> SUFFICES ASSUME NEW p \in Runners, Renew(p) PROVE P
    OBVIOUS
  <2>1. schedule'.current /\ schedule'.is = "valid"
        /\ schedule'.due = FirstDue(runners[p].age)
    BY DEF Renew, NewSchedule
  <2>2. succeeded = Past /\ UNCHANGED <<booting, succeeded>>
    BY <1>0 DEF Renew, Spaced, history
  <2>3. FirstDue(runners[p].age) >= booting /\ FirstDue(runners[p].age) >= Past
    BY <1>0, RunnerConstants DEF FirstDue, Larger
  <2> QED BY <2>1, <2>2, <2>3 DEF Spaced
<1>3. \A p \in Runners : Attempt(p) => P
  <2> SUFFICES ASSUME NEW p \in Runners, Attempt(p) PROVE P
    OBVIOUS
  <2>1. UNCHANGED schedule \/ schedule' = [schedule EXCEPT !.retry = RetryTime - runners[p].age]
    BY DEF Attempt
  <2>2. schedule'.current = schedule.current /\ schedule'.is = schedule.is
        /\ schedule'.due = schedule.due
    BY <1>0, <2>1 DEF Schedules
  <2> QED BY <2>2 DEF Attempt, Spaced, history
<1>4. \A p \in Runners : \A ok \in BOOLEAN : CommandEnds(p, ok) => P
  <2> SUFFICES ASSUME NEW p \in Runners, NEW ok \in BOOLEAN, CommandEnds(p, ok) PROVE P
    OBVIOUS
  <2>1. CASE ~ok
    BY <1>1, <2>1 DEF CommandEnds
  <2>2. CASE ok
    <3>1. schedule.current /\ schedule.due <= 0
      BY DEF CommandEnds, Is, Locked
    <3>2. schedule'.current /\ schedule'.is = schedule.is /\ schedule'.due = Interval
          /\ succeeded' = Interval /\ UNCHANGED booting
      BY <1>0, <2>2, <3>1 DEF CommandEnds, Succeeded, Schedules
    <3>3. booting <= Interval
      BY <1>0, <3>1, RunnerConstants DEF Spaced
    <3> QED BY <3>1, <3>2, <3>3, RunnerConstants DEF Spaced
  <2> QED BY <2>1, <2>2
<1>5. Tick => P
  <2> SUFFICES ASSUME Tick PROVE P
    OBVIOUS
  <2>1. schedule'.current = schedule.current /\ schedule'.is = schedule.is
        /\ schedule'.due = Later(schedule.due)
    BY <1>0 DEF Tick, Schedules
  <2>2. booting' = Later(booting) /\ succeeded' = Later(succeeded)
    BY DEF Tick
  <2> QED BY <1>0, <2>1, <2>2, Passing DEF Spaced
<1>6. Reboot => P
  <2> SUFFICES ASSUME Reboot PROVE P
    OBVIOUS
  <2>1. schedule'.current = FALSE /\ succeeded' = Past
    BY <1>0 DEF Reboot, Schedules
  <2> QED BY <2>1 DEF Spaced
<1>7. \A p \in Runners : Poll(p) \/ TakeLock(p) \/ RunCommand(p) \/ GiveUp(p) \/ OrphanEnds(p)
                          \/ KillRunner(p) => P
  BY <1>1 DEF Poll, TakeLock, RunCommand, GiveUp, OrphanEnds, KillRunner, Interrupted, history
<1>8. (NetworkChanges \/ UNCHANGED runnerVars) => P
  BY <1>1 DEF NetworkChanges, runnerVars, history
<1>9. P
  <2> HIDE DEF P
  <2> QED BY <1>2, <1>3, <1>4, <1>5, <1>6, <1>7, <1>8, RunnerCases
<1> QED BY <1>9

LEMMA AttendedStep ==
  ASSUME RTyped, Attended, [RunnerNext]_runnerVars
  PROVE  Attended'
<1> DEFINE P == Attended'
<1>0. /\ runners \in [Runners -> RunnerStates] /\ children \in [Runners -> Nat]
      /\ killed \in BOOLEAN /\ \A p \in Runners : children[p] \in Nat
      /\ \A p \in Runners : runners[p].at = "run" => children[p] > 0
      /\ ~killed => \A p \in Runners : children[p] = IF runners[p].at = "run" THEN 1 ELSE 0
  BY DEF RTyped, Attended
\* Where no command starts or ends.
<1>1. ASSUME UNCHANGED children, ~killed' => ~killed,
             \A p \in Runners : \/ runners'[p].at = "run" <=> runners[p].at = "run"
                                \/ killed' /\ runners'[p].at # "run"
      PROVE  P
  BY <1>0, <1>1 DEF Attended
<1>2. \A p \in Runners : Poll(p) \/ TakeLock(p) => P
  <2> SUFFICES ASSUME NEW p \in Runners, Poll(p) \/ TakeLock(p) PROVE P
    OBVIOUS
  <2>1. /\ runners[p].at # "run" /\ runners'[p].at # "run"
        /\ \A q \in Runners \ {p} : runners'[q] = runners[q]
    BY <1>0 DEF Poll, TakeLock, Is, Turn, Resting, RunnerStates
  <2> QED BY <1>1, <2>1 DEF Poll, TakeLock, history
<1>3. \A p \in Runners : Attempt(p) \/ GiveUp(p) => P
  <2> SUFFICES ASSUME NEW p \in Runners, Attempt(p) \/ GiveUp(p) PROVE P
    OBVIOUS
  <2>1. /\ runners[p].at # "run" /\ runners'[p].at # "run"
        /\ \A q \in Runners \ {p} : runners'[q] = runners[q]
    BY <1>0 DEF Attempt, GiveUp, Is, Leave, Resting
  <2> QED BY <1>1, <2>1 DEF Attempt, GiveUp, history
<1>4. \A p \in Runners : RunCommand(p) => P
  <2> SUFFICES ASSUME NEW p \in Runners, RunCommand(p) PROVE P
    OBVIOUS
  <2>1. /\ runners[p].at = "wait" /\ runners'[p].at = "run" /\ children'[p] = children[p] + 1
        /\ \A q \in Runners \ {p} : runners'[q] = runners[q] /\ children'[q] = children[q]
        /\ UNCHANGED killed
    BY <1>0 DEF RunCommand, Is, Turn, RunnerStates, history
  <2> QED BY <1>0, <2>1 DEF Attended
<1>5. \A p \in Runners : \A ok \in BOOLEAN : CommandEnds(p, ok) => P
  <2> SUFFICES ASSUME NEW p \in Runners, NEW ok \in BOOLEAN, CommandEnds(p, ok) PROVE P
    OBVIOUS
  <2>1. /\ runners[p].at = "run" /\ runners'[p].at = "off" /\ children'[p] = children[p] - 1
        /\ \A q \in Runners \ {p} : runners'[q] = runners[q] /\ children'[q] = children[q]
        /\ UNCHANGED killed
    BY <1>0 DEF CommandEnds, Is, Leave, Resting
  <2> QED BY <1>0, <2>1 DEF Attended
<1>6. \A p \in Runners : OrphanEnds(p) => P
  <2> SUFFICES ASSUME NEW p \in Runners, OrphanEnds(p) PROVE P
    OBVIOUS
  <2>1. /\ children[p] > (IF runners[p].at = "run" THEN 1 ELSE 0) /\ children'[p] = children[p] - 1
        /\ \A q \in Runners \ {p} : children'[q] = children[q]
        /\ UNCHANGED <<killed, runners>>
    BY <1>0 DEF OrphanEnds, Is, history
  <2> QED BY <1>0, <2>1 DEF Attended
<1>7. \A p \in Runners : KillRunner(p) => P
  <2> SUFFICES ASSUME NEW p \in Runners, KillRunner(p) PROVE P
    OBVIOUS
  <2>1. runners'[p].at = "off" /\ \A q \in Runners \ {p} : runners'[q] = runners[q]
    BY <1>0 DEF KillRunner, Resting
  <2> QED BY <1>1, <2>1 DEF KillRunner
<1>8. Tick => P
  <2>1. Tick => \A p \in Runners : runners'[p].at = runners[p].at
    BY <1>0 DEF Tick, RunnerStates
  <2> QED BY <1>1, <2>1 DEF Tick
<1>9. Reboot => P
  <2>1. Reboot => \A p \in Runners : runners'[p].at = "off" /\ children'[p] = 0
    BY DEF Reboot, Resting
  <2> QED BY <2>1 DEF Attended
<1>10. (NetworkChanges \/ UNCHANGED runnerVars \/ \E p \in Runners : Renew(p)) => P
  BY <1>1 DEF NetworkChanges, Renew, runnerVars, history
<1>11. P
  <2> HIDE DEF P
  <2> QED BY <1>2, <1>3, <1>4, <1>5, <1>6, <1>7, <1>8, <1>9, <1>10, RunnerCases
<1> QED BY <1>11

LEMMA RunnerInvStart == RunnerInit => RunnerInv
<1> SUFFICES ASSUME RunnerInit PROVE RunnerInv
  OBVIOUS
<1>1. Resting \in RunnerStates /\ Resting.at = "off" /\ ~NoSchedule.current
      /\ NoSchedule \in Schedules
  <2>1. Past \in Past .. Larger(Interval, StartupDelay) /\ Past \in Past .. RetryTime
    BY RunnerConstants DEF Larger
  <2> QED BY <2>1, RunnerConstants DEF Resting, RunnerStates, NoSchedule, Schedules
<1>2. RTyped
  <2>1. StartupDelay \in Past .. StartupDelay /\ Past \in Past .. Interval /\ 0 \in Nat
    BY RunnerConstants
  <2> QED BY <1>1, <2>1 DEF RunnerInit, RTyped
<1>3. \A p \in Runners : runners[p].at = "off" /\ children[p] = 0 /\ holder # p
  <2>1. holder = "free" /\ \A p \in Runners : runners[p] = Resting /\ children[p] = 0
    BY DEF RunnerInit
  <2> QED BY <1>1, <2>1, RunnerConstants
<1>4. Spaced
  BY <1>1 DEF RunnerInit, Spaced
<1>5. Locked /\ Attended
  BY <1>3 DEF Locked, Attended
<1> QED BY <1>2, <1>4, <1>5 DEF RunnerInv

LEMMA RunnerAlways == RunnerInit /\ [][RunnerNext]_runnerVars => []RunnerInv
<1>1. RunnerInv /\ [RunnerNext]_runnerVars => RunnerInv'
  BY RTypedStep, LockedStep, SpacedStep, AttendedStep DEF RunnerInv
<1> QED BY <1>1, RunnerInvStart, PTL

LEMMA RunnerInvTyped == RunnerInv => RunnerTypeOK
BY DEF RunnerInv, RTyped, Locked, Spaced, RunnerTypeOK, RunnerStates

\* Only the run that holds the lock is past it, and what it attempts was due.
THEOREM RunnerTypeCorrect == RunnerSpec => []RunnerTypeOK
BY RunnerAlways, RunnerInvTyped, PTL DEF RunnerSpec

LEMMA StartsHold == RunnerInit /\ [][RunnerNext]_runnerVars => StartsInTurn
<1> DEFINE A == \A p \in Runners : RunCommand(p) =>
                  /\ booting <= 0 /\ succeeded <= 0
                  /\ ~killed => children[Launchd] + children[Person] = 0
<1>1. RunnerInv /\ [RunnerNext]_runnerVars => [A]_runnerVars
  <2> SUFFICES ASSUME RunnerInv, NEW p \in Runners, RunCommand(p)
               PROVE  /\ booting <= 0 /\ succeeded <= 0
                      /\ ~killed => children[Launchd] + children[Person] = 0
    OBVIOUS
  <2>1. runners[p].at = "wait" /\ holder = p /\ schedule.current /\ schedule.due <= 0
    BY DEF RunCommand, Is, RunnerInv, Locked
  <2>2. schedule.due \in Int /\ booting \in Int /\ succeeded \in Int
    BY RunnerConstants DEF RunnerInv, RTyped, Schedules
  <2>3. booting <= 0 /\ succeeded <= 0
    BY <2>1, <2>2 DEF RunnerInv, Spaced
  <2>4. \A q \in Runners : runners[q].at # "run"
    BY <2>1 DEF RunnerInv, Locked
  <2>5. ~killed => children[Launchd] = 0 /\ children[Person] = 0
    BY <2>4 DEF RunnerInv, Attended, Runners
  <2> QED BY <2>3, <2>5
<1>2. RunnerInit /\ [][RunnerNext]_runnerVars => [][A]_runnerVars
  <2> HIDE DEF A
  <2> QED BY <1>1, RunnerAlways, PTL
<1> QED BY <1>2 DEF StartsInTurn

\* No command starts before its time, nor beside another one, unless a runner was killed.
THEOREM JobsStartInTurn == RunnerSpec => StartsInTurn
BY StartsHold DEF RunnerSpec

-----------------------------------------------------------------------------
(* ActionsSwitch                                                           *)

SRuns == [at : {"visit", "permit", "flows", "send", "save"},
          cmd : {"enable", "disable", "check"}, asked : SUBSET Repos, todo : SUBSET Repos,
          manual : BOOLEAN, book : Ledger, now : 1 .. month, failed : SUBSET Repos,
          others : SUBSET Repos, found : SUBSET Keys, row : Repos, seen : Switches]

STyped ==
  /\ hosted \in [Repos -> Switches] /\ month \in Nat \ {0} /\ overdrawn \in BOOLEAN
  /\ ledger \in Ledger /\ healthy \in BOOLEAN /\ switchEvents \in Nat
  /\ runs \in [Switchers -> SRuns \cup {Off}]
  /\ paused \subseteq Repos /\ told \subseteq Keys /\ unfiled \subseteq told
  /\ overlapped \in BOOLEAN

\* What a run of its kind does, and what an enable has reached.
RunOK(p) ==
  runs[p] # Off =>
    /\ runs[p].todo \subseteq runs[p].asked
    /\ runs[p].at \in {"send", "save"} => runs[p].cmd = "check"
    /\ runs[p].at \in {"permit", "flows"} => runs[p].cmd # "check" /\ runs[p].row \in runs[p].todo
    /\ runs[p].at = "flows" => runs[p].cmd = "enable"
    /\ runs[p].cmd = "enable" =>
         /\ \A r \in runs[p].asked \ (runs[p].todo \cup runs[p].failed \cup runs[p].others) :
              \/ hosted[r].archived
              \/ hosted[r].on /\ hosted[r].flow \notin Targets(runs[p].manual)
         /\ runs[p].at = "permit" => ~runs[p].seen.on
         /\ runs[p].at = "flows" /\ runs[p].row \notin runs[p].others =>
              /\ hosted[runs[p].row].on
              /\ runs[p].seen.on => runs[p].seen.flow = hosted[runs[p].row].flow

\* Of one run after the other: every pause is in the file, or in the copy that will
\* replace it, and so is every announcement that it must name.
HasReasons(book) == \A r \in paused : book.note[r] # 0
HasTold(book) == book.recent \subseteq told /\ told \ unfiled \subseteq book.recent

Orderly ==
  /\ \A r \in paused : ~hosted[r].on
  /\ ~overlapped =>
       /\ \A p, q \in Switchers : runs[p] # Off /\ runs[q] # Off => p = q
       /\ (\A p \in Switchers : runs[p] = Off \/ runs[p].cmd = "check") => HasReasons(ledger)
       /\ (\A p \in Switchers : ~Running(p, "save")) => HasTold(ledger)
       /\ ledger.recent \subseteq told
       /\ \A p \in Switchers : runs[p] # Off =>
            /\ HasReasons(runs[p].book) /\ HasTold(runs[p].book)
            /\ runs[p].at = "flows" => runs[p].row \notin paused

SwitchInv == STyped /\ (\A p \in Switchers : RunOK(p)) /\ Orderly

LEMMA SwitchCases ==
  ASSUME NEW P, [SwitchNext]_switchVars, UNCHANGED switchVars => P,
         \A p \in Switchers : StartRun(p) \/ SwitchStep(p) \/ Abort(p) => P,
         ByHand => P, NextMonth => P, Overdraw => P, NetworkChange => P,
         \A k \in Keys : Expire(k) => P
  PROVE  P
BY DEF SwitchNext

LEMMA NotOff ==
  /\ \A x \in SRuns : x # Off /\ x.at # "off"
  /\ Off.at = "off"
BY DEF SRuns, Off

LEMMA SameMonth == month' = month => SRuns' = SRuns /\ Ledger' = Ledger
BY DEF SRuns, Ledger

\* Where a run is, and what it may read.
LEMMA RunTyped ==
  ASSUME STyped, NEW p \in Switchers
  PROVE  /\ runs[p] = Off <=> runs[p].at = "off"
         /\ runs[p] # Off => runs[p] \in SRuns
         /\ Todo(p) \subseteq Repos
         /\ \A label \in {"visit", "permit", "flows", "send", "save"} :
              Running(p, label) => runs[p] \in SRuns /\ runs[p] # Off /\ runs[p].at = label
<1>1. runs[p] = Off \/ runs[p] \in SRuns
  BY DEF STyped
<1>2. runs[p] \in SRuns => runs[p].todo \subseteq Repos
  BY DEF SRuns
<1> QED BY <1>1, <1>2, NotOff DEF Running, Todo

\* A note that is set or removed is all that changes of a copy.
LEMMA NoteSet ==
  ASSUME NEW b \in Ledger, NEW r \in Repos, NEW n \in 0 .. month
  PROVE  /\ [b EXCEPT !.note[r] = n] \in Ledger
         /\ [b EXCEPT !.note[r] = n].recent = b.recent
         /\ \A z \in Repos : [b EXCEPT !.note[r] = n].note[z] = IF z = r THEN n ELSE b.note[z]
BY DEF Ledger

\* The run p goes on from here with these repositories and this copy.
Goes(p, at, todo, book) ==
  /\ runs'[p] \in SRuns /\ runs'[p].at = at /\ runs'[p].todo = todo /\ runs'[p].book = book
  /\ runs'[p].cmd = runs[p].cmd /\ runs'[p].asked = runs[p].asked
  /\ runs'[p].manual = runs[p].manual

SameTroubles(p) ==
  runs'[p].failed = runs[p].failed /\ runs'[p].others = runs[p].others

\* Another run, or one that only looks on: at most it is told of a change.
Kept(q) ==
  \/ runs[q] = Off /\ runs'[q] = Off
  \/ /\ runs[q] # Off /\ runs'[q] \in SRuns'
     /\ runs'[q].at = runs[q].at /\ runs'[q].cmd = runs[q].cmd
     /\ runs'[q].asked = runs[q].asked /\ runs'[q].todo = runs[q].todo
     /\ runs'[q].manual = runs[q].manual /\ runs'[q].failed = runs[q].failed
     /\ runs'[q].row = runs[q].row /\ runs'[q].seen = runs[q].seen
     /\ runs'[q].book.note = runs[q].book.note
     /\ runs[q].others \subseteq runs'[q].others
     /\ runs[q].cmd = "enable" =>
          \A z \in Repos : hosted'[z] # hosted[z] => z \in runs'[q].others

LEMMA PassedIs ==
  ASSUME STyped, NEW p \in Switchers, runs[p] \in SRuns, NEW r \in Repos
  PROVE  LET x == Passed(p, r) IN
         /\ x \in SRuns /\ x.at = "visit" /\ x.todo = runs[p].todo \ {r}
         /\ x.book = runs[p].book /\ x.cmd = runs[p].cmd /\ x.asked = runs[p].asked
         /\ x.manual = runs[p].manual /\ x.failed = runs[p].failed
         /\ x.others = runs[p].others /\ x.now = runs[p].now
<1>1. (CHOOSE x \in Repos : TRUE) \in Repos
  OBVIOUS
<1>2. [on |-> TRUE, archived |-> FALSE, flow |-> "active"] \in Switches
  BY DEF Switches
<1>3. runs[p].todo \ {r} \subseteq Repos
  BY DEF SRuns
<1> QED BY <1>1, <1>2, <1>3 DEF Passed, SRuns

LEMMA FailedIs ==
  ASSUME STyped, NEW p \in Switchers, runs[p] \in SRuns, NEW r \in Repos
  PROVE  LET x == Failed(p, r) IN
         /\ x \in SRuns /\ x.at = "visit" /\ x.todo = runs[p].todo \ {r}
         /\ x.book = runs[p].book /\ x.cmd = runs[p].cmd /\ x.asked = runs[p].asked
         /\ x.manual = runs[p].manual /\ x.failed = runs[p].failed \cup {r}
         /\ x.others = runs[p].others /\ x.now = runs[p].now
<1> DEFINE y == Passed(p, r)
<1>1. /\ y \in SRuns /\ y.at = "visit" /\ y.todo = runs[p].todo \ {r}
      /\ y.book = runs[p].book /\ y.cmd = runs[p].cmd /\ y.asked = runs[p].asked
      /\ y.manual = runs[p].manual /\ y.failed = runs[p].failed
      /\ y.others = runs[p].others /\ y.now = runs[p].now
  BY PassedIs
<1>2. Failed(p, r) = [y EXCEPT !.failed = @ \cup {r}]
  BY DEF Failed
<1> HIDE DEF y
<1>3. y.failed \cup {r} \subseteq Repos
  BY <1>1 DEF SRuns
<1> QED BY <1>1, <1>2, <1>3 DEF SRuns

\* The same with another copy.
LEMMA RewrittenIs ==
  ASSUME STyped, NEW p \in Switchers, runs[p] \in SRuns, NEW r \in Repos, NEW b \in Ledger
  PROVE  LET x == [Passed(p, r) EXCEPT !.book = b] IN
         /\ x \in SRuns /\ x.at = "visit" /\ x.todo = runs[p].todo \ {r}
         /\ x.book = b /\ x.cmd = runs[p].cmd /\ x.asked = runs[p].asked
         /\ x.manual = runs[p].manual /\ x.failed = runs[p].failed
         /\ x.others = runs[p].others
<1> DEFINE y == Passed(p, r)
<1>1. /\ y \in SRuns /\ y.at = "visit" /\ y.todo = runs[p].todo \ {r}
      /\ y.cmd = runs[p].cmd /\ y.asked = runs[p].asked
      /\ y.manual = runs[p].manual /\ y.failed = runs[p].failed
      /\ y.others = runs[p].others
  BY PassedIs
<1> HIDE DEF y
<1>2. LET x == [y EXCEPT !.book = b] IN
         /\ x \in SRuns /\ x.at = "visit" /\ x.todo = runs[p].todo \ {r}
         /\ x.book = b /\ x.cmd = runs[p].cmd /\ x.asked = runs[p].asked
         /\ x.manual = runs[p].manual /\ x.failed = runs[p].failed
         /\ x.others = runs[p].others
  BY <1>1 DEF SRuns
<1> QED BY <1>2 DEF y

LEMMA ProceedIs ==
  ASSUME STyped, NEW p \in Switchers, NEW x \in SRuns \cup {Off}, Proceed(p, x),
         UNCHANGED <<month, hosted>>
  PROVE  /\ runs'[p] = x /\ runs' \in [Switchers -> SRuns' \cup {Off}]
         /\ \A q \in Switchers \ {p} : Kept(q) /\ runs'[q] = runs[q]
<1>1. runs \in [Switchers -> SRuns \cup {Off}] /\ runs' = [runs EXCEPT ![p] = x]
  BY DEF STyped, Proceed
<1>2. SRuns' = SRuns
  BY SameMonth
<1>3. \A q \in Switchers \ {p} : runs'[q] = runs[q] /\ (runs[q] = Off \/ runs[q] \in SRuns)
  BY <1>1
<1> QED BY <1>1, <1>2, <1>3, NotOff DEF Kept

\* Whoever is enabling is told that a repository was changed.
LEMMA ToldOf ==
  ASSUME STyped, NEW r \in Repos, NEW q \in Switchers, UNCHANGED month,
         \A z \in Repos : hosted'[z] # hosted[z] => z = r,
         runs'[q] = IF Running(q, "off") \/ runs[q].cmd # "enable" THEN runs[q]
                    ELSE [runs[q] EXCEPT !.others = @ \cup {r}]
  PROVE  Kept(q) /\ runs'[q] \in SRuns' \cup {Off} /\ runs'[q].book = runs[q].book
<1>1. SRuns' = SRuns
  BY SameMonth
<1>2. runs[q] = Off \/ runs[q] \in SRuns
  BY DEF STyped
<1>3. CASE runs[q] = Off
  BY <1>3, NotOff DEF Kept, Running
<1>4. CASE runs[q] \in SRuns /\ runs[q].cmd # "enable"
  BY <1>1, <1>4, NotOff DEF Kept
<1>5. CASE runs[q] \in SRuns /\ runs[q].cmd = "enable"
  <2>1. runs'[q] = [runs[q] EXCEPT !.others = @ \cup {r}]
    BY <1>5, NotOff DEF Running
  <2>2. runs[q].others \cup {r} \subseteq Repos
    BY <1>5 DEF SRuns
  <2>3. runs'[q] \in SRuns
    BY <1>5, <2>1, <2>2 DEF SRuns
  <2>4. /\ runs'[q].at = runs[q].at /\ runs'[q].cmd = runs[q].cmd
        /\ runs'[q].asked = runs[q].asked /\ runs'[q].todo = runs[q].todo
        /\ runs'[q].manual = runs[q].manual /\ runs'[q].failed = runs[q].failed
        /\ runs'[q].row = runs[q].row /\ runs'[q].seen = runs[q].seen
        /\ runs'[q].book = runs[q].book /\ runs'[q].others = runs[q].others \cup {r}
    BY <1>5, <2>1 DEF SRuns
  <2> QED BY <1>1, <1>5, <2>3, <2>4, NotOff DEF Kept
<1> QED BY <1>2, <1>3, <1>4, <1>5

LEMMA DisturbIs ==
  ASSUME STyped, NEW r \in Repos, NEW p \in Switchers, NEW x \in SRuns,
         runs' = Disturb(r, p, x), UNCHANGED month,
         \A z \in Repos : hosted'[z] # hosted[z] => z = r
  PROVE  /\ runs'[p] = x /\ runs' \in [Switchers -> SRuns' \cup {Off}]
         /\ \A q \in Switchers \ {p} : Kept(q)
<1>1. runs'[p] = x /\ x \in SRuns'
  BY SameMonth DEF Disturb
<1>2. \A q \in Switchers \ {p} : Kept(q) /\ runs'[q] \in SRuns' \cup {Off}
  <2> SUFFICES ASSUME NEW q \in Switchers \ {p}
               PROVE  Kept(q) /\ runs'[q] \in SRuns' \cup {Off}
    OBVIOUS
  <2>1. runs'[q] = IF Running(q, "off") \/ runs[q].cmd # "enable" THEN runs[q]
                   ELSE [runs[q] EXCEPT !.others = @ \cup {r}]
    BY DEF Disturb
  <2> QED BY <2>1, ToldOf
<1>3. runs' = [q \in Switchers |-> runs'[q]]
  BY DEF Disturb
<1> QED BY <1>1, <1>2, <1>3

\* What each step of a run does to it.
LEMMA StartGoes ==
  ASSUME STyped, NEW p \in Switchers, StartRun(p)
  PROVE  /\ runs'[p] \in SRuns /\ runs' \in [Switchers -> SRuns' \cup {Off}]
         /\ \A q \in Switchers \ {p} : Kept(q)
         /\ runs[p] = Off /\ runs'[p].at = "visit" /\ runs'[p].todo = runs'[p].asked
         /\ runs'[p].book = ledger
<1>1. PICK c \in Commands(p), asked \in (SUBSET Repos) \ {{}}, manual \in BOOLEAN :
        /\ Running(p, "off") /\ (manual => c = "enable") /\ (c = "check" => asked = Repos)
        /\ Proceed(p, [at |-> "visit", cmd |-> c, asked |-> asked, todo |-> asked,
             manual |-> manual, book |-> ledger, now |-> month, failed |-> {},
             others |-> {}, found |-> {}, row |-> CHOOSE r \in asked : TRUE,
             seen |-> hosted[CHOOSE r \in asked : TRUE]])
  BY DEF StartRun
<1>2. PICK w : w = CHOOSE r \in asked : TRUE
  OBVIOUS
<1>3. w \in asked /\ w \in Repos /\ hosted[w] \in Switches
  <2>1. w \in asked
    BY <1>2
  <2> QED BY <2>1 DEF STyped
<1>4. PICK x : x = [at |-> "visit", cmd |-> c, asked |-> asked, todo |-> asked,
             manual |-> manual, book |-> ledger, now |-> month, failed |-> {},
             others |-> {}, found |-> {}, row |-> w, seen |-> hosted[w]]
  OBVIOUS
<1>5. x \in SRuns
  <2>1. c \in {"enable", "disable", "check"} /\ ledger \in Ledger /\ month \in 1 .. month
    BY DEF Commands, STyped
  <2> QED BY <1>3, <1>4, <2>1 DEF SRuns
<1>6. Proceed(p, x)
  BY <1>1, <1>2, <1>4
<1>7. UNCHANGED <<month, hosted>>
  BY DEF StartRun
<1> QED BY <1>1, <1>4, <1>5, <1>6, <1>7, ProceedIs, RunTyped DEF Running

LEMMA FailureGoes ==
  ASSUME STyped, NEW p \in Switchers, RunOK(p), VisitFailed(p) \/ CallFailed(p)
  PROVE  /\ runs[p] \in SRuns /\ runs' \in [Switchers -> SRuns' \cup {Off}]
         /\ \A q \in Switchers \ {p} : Kept(q)
         /\ UNCHANGED <<hosted, paused, told, unfiled, overlapped, ledger, month>>
         /\ runs[p].cmd # "check"
         /\ \E r \in Repos : /\ Goes(p, "visit", runs[p].todo \ {r}, runs[p].book)
                             /\ runs'[p].failed = runs[p].failed \cup {r}
                             /\ runs'[p].others = runs[p].others
<1>1. runs[p] \in SRuns /\ runs[p].cmd # "check"
  BY RunTyped DEF VisitFailed, CallFailed, Running, RunOK
<1>2. PICK r \in Repos : Proceed(p, Failed(p, r))
  <2>1. runs[p].row \in Repos
    BY <1>1 DEF SRuns
  <2> QED BY <2>1, RunTyped DEF VisitFailed, CallFailed, FailedCall
<1>3. UNCHANGED <<hosted, paused, told, unfiled, overlapped, ledger, month>>
  BY DEF VisitFailed, CallFailed, Quiet, outside
<1>4. PICK x : x = Failed(p, r)
  OBVIOUS
<1>5. /\ x \in SRuns /\ x.at = "visit" /\ x.todo = runs[p].todo \ {r}
      /\ x.book = runs[p].book /\ x.cmd = runs[p].cmd /\ x.asked = runs[p].asked
      /\ x.manual = runs[p].manual /\ x.failed = runs[p].failed \cup {r}
      /\ x.others = runs[p].others
  BY <1>1, <1>4, FailedIs
<1>6. /\ runs'[p] = x /\ runs' \in [Switchers -> SRuns' \cup {Off}]
      /\ \A q \in Switchers \ {p} : Kept(q)
  BY <1>2, <1>3, <1>4, <1>5, ProceedIs
<1> QED BY <1>1, <1>3, <1>5, <1>6 DEF Goes

LEMMA VisitGoes ==
  ASSUME STyped, NEW p \in Switchers, Visit(p)
  PROVE  /\ runs[p] \in SRuns /\ runs' \in [Switchers -> SRuns' \cup {Off}]
         /\ \A q \in Switchers \ {p} : Kept(q)
         /\ UNCHANGED <<hosted, told, unfiled, overlapped, ledger, month>>
         /\ runs[p].cmd # "check" /\ SameTroubles(p)
         /\ \E r \in runs[p].todo :
              \/ /\ hosted[r].archived /\ Goes(p, "visit", runs[p].todo \ {r}, runs[p].book)
                 /\ paused' = paused
              \/ /\ runs[p].cmd = "disable" /\ ~hosted[r].on /\ paused' = paused \cup {r}
                 /\ \E b \in Ledger : /\ Goes(p, "visit", runs[p].todo \ {r}, b)
                                      /\ b.recent = runs[p].book.recent /\ b.note[r] # 0
                                      /\ \A z \in Repos : runs[p].book.note[z] # 0 => b.note[z] # 0
              \/ /\ runs'[p].row = r /\ runs'[p].seen = hosted[r] /\ paused' = paused
                 /\ \/ /\ Goes(p, "flows", runs[p].todo, runs[p].book)
                       /\ runs[p].cmd = "enable" /\ hosted[r].on
                    \/ /\ Goes(p, "permit", runs[p].todo, runs[p].book)
                       /\ runs[p].cmd = "enable" => ~hosted[r].on
<1>1. runs[p] \in SRuns /\ runs[p].cmd # "check" /\ Todo(p) = runs[p].todo
      /\ runs[p].todo \subseteq Repos
  BY RunTyped DEF Visit, Running, Todo, SRuns
<1>2. PICK r \in runs[p].todo :
        \/ hosted[r].archived /\ Proceed(p, Passed(p, r)) /\ UNCHANGED paused
        \/ /\ ~hosted[r].archived /\ runs[p].cmd = "disable" /\ ~hosted[r].on
           /\ Proceed(p, [Passed(p, r) EXCEPT !.book = Noted(@, r, runs[p].now)])
           /\ paused' = paused \cup {r}
        \/ /\ ~hosted[r].archived /\ (runs[p].cmd = "disable" => hosted[r].on)
           /\ Proceed(p, [runs[p] EXCEPT !.row = r, !.seen = hosted[r],
                !.at = IF runs[p].cmd = "enable" /\ hosted[r].on THEN "flows" ELSE "permit"])
           /\ UNCHANGED paused
  BY <1>1 DEF Visit
<1>3. UNCHANGED <<hosted, told, unfiled, overlapped, ledger, month>>
  BY DEF Visit, outside
<1>4. r \in Repos /\ hosted[r] \in Switches
  BY <1>1 DEF STyped
<1>5. CASE hosted[r].archived /\ Proceed(p, Passed(p, r)) /\ UNCHANGED paused
  <2>1. PICK x : x = Passed(p, r)
    OBVIOUS
  <2>2. /\ x \in SRuns /\ x.at = "visit" /\ x.todo = runs[p].todo \ {r}
        /\ x.book = runs[p].book /\ x.cmd = runs[p].cmd /\ x.asked = runs[p].asked
        /\ x.manual = runs[p].manual /\ x.failed = runs[p].failed
        /\ x.others = runs[p].others
    BY <1>1, <1>4, <2>1, PassedIs
  <2>3. /\ runs'[p] = x /\ runs' \in [Switchers -> SRuns' \cup {Off}]
        /\ \A q \in Switchers \ {p} : Kept(q)
    BY <1>3, <1>5, <2>1, <2>2, ProceedIs
  <2> QED BY <1>1, <1>3, <1>5, <2>2, <2>3 DEF Goes, SameTroubles
<1>6. CASE /\ runs[p].cmd = "disable" /\ ~hosted[r].on /\ paused' = paused \cup {r}
           /\ Proceed(p, [Passed(p, r) EXCEPT !.book = Noted(@, r, runs[p].now)])
  <2>1. runs[p].book \in Ledger /\ runs[p].now \in 0 .. month /\ runs[p].now # 0
    BY <1>1 DEF SRuns, STyped
  <2>2. PICK b : b = Noted(runs[p].book, r, runs[p].now)
    OBVIOUS
  <2>3. /\ b \in Ledger /\ b.recent = runs[p].book.recent /\ b.note[r] # 0
        /\ \A z \in Repos : runs[p].book.note[z] # 0 => b.note[z] # 0
    BY <1>4, <2>1, <2>2, NoteSet DEF Noted
  <2>4. PICK x : x = [Passed(p, r) EXCEPT !.book = b]
    OBVIOUS
  <2>5. /\ x \in SRuns /\ x.at = "visit" /\ x.todo = runs[p].todo \ {r}
        /\ x.book = b /\ x.cmd = runs[p].cmd /\ x.asked = runs[p].asked
        /\ x.manual = runs[p].manual /\ x.failed = runs[p].failed
        /\ x.others = runs[p].others
    BY <1>1, <1>4, <2>3, <2>4, RewrittenIs
  <2>6. Proceed(p, x)
    <3>1. Passed(p, r).book = runs[p].book
      BY <1>1, <1>4, PassedIs
    <3> QED BY <1>6, <2>2, <2>4, <3>1
  <2>7. /\ runs'[p] = x /\ runs' \in [Switchers -> SRuns' \cup {Off}]
        /\ \A q \in Switchers \ {p} : Kept(q)
    BY <1>3, <2>5, <2>6, ProceedIs
  <2> QED BY <1>1, <1>3, <1>6, <2>3, <2>5, <2>7 DEF Goes, SameTroubles
<1>7. CASE /\ Proceed(p, [runs[p] EXCEPT !.row = r, !.seen = hosted[r],
                !.at = IF runs[p].cmd = "enable" /\ hosted[r].on THEN "flows" ELSE "permit"])
           /\ UNCHANGED paused
  <2>1. PICK label \in {"flows", "permit"} :
          label = IF runs[p].cmd = "enable" /\ hosted[r].on THEN "flows" ELSE "permit"
    OBVIOUS
  <2>2. PICK x : x = [runs[p] EXCEPT !.row = r, !.seen = hosted[r], !.at = label]
    OBVIOUS
  <2>3. /\ x \in SRuns /\ x.at = label /\ x.todo = runs[p].todo
        /\ x.book = runs[p].book /\ x.cmd = runs[p].cmd /\ x.asked = runs[p].asked
        /\ x.manual = runs[p].manual /\ x.failed = runs[p].failed
        /\ x.others = runs[p].others /\ x.row = r /\ x.seen = hosted[r]
    BY <1>1, <1>4, <2>2 DEF SRuns
  <2>4. /\ runs'[p] = x /\ runs' \in [Switchers -> SRuns' \cup {Off}]
        /\ \A q \in Switchers \ {p} : Kept(q)
    BY <1>3, <1>7, <2>1, <2>2, <2>3, ProceedIs
  <2>5. paused' = paused
    BY <1>7
  <2> QED BY <1>1, <1>3, <2>1, <2>3, <2>4, <2>5 DEF Goes, SameTroubles
<1> QED BY <1>2, <1>5, <1>6, <1>7

\* PUT of a permission: on, and next the workflows, or off with a note.
LEMMA PermitGoes ==
  ASSUME STyped, NEW p \in Switchers, RunOK(p), Permit(p)
  PROVE  /\ runs[p] \in SRuns /\ runs' \in [Switchers -> SRuns' \cup {Off}]
         /\ \A q \in Switchers \ {p} : Kept(q)
         /\ UNCHANGED <<told, unfiled, overlapped, ledger, month>>
         /\ SameTroubles(p) /\ runs[p].at = "permit"
         /\ hosted' = [hosted EXCEPT ![runs[p].row].on = runs[p].cmd = "enable"]
         /\ \/ /\ runs[p].cmd = "enable" /\ Goes(p, "flows", runs[p].todo, runs[p].book)
               /\ runs'[p].row = runs[p].row /\ runs'[p].seen = runs[p].seen
               /\ paused' = paused \ {runs[p].row}
            \/ /\ runs[p].cmd = "disable" /\ paused' = paused \cup {runs[p].row}
               /\ \E b \in Ledger :
                    /\ Goes(p, "visit", runs[p].todo \ {runs[p].row}, b)
                    /\ b.recent = runs[p].book.recent /\ b.note[runs[p].row] # 0
                    /\ \A z \in Repos : runs[p].book.note[z] # 0 => b.note[z] # 0
<1>1. /\ runs[p] \in SRuns /\ runs[p].at = "permit" /\ runs[p].cmd # "check"
      /\ runs[p] # Off
  BY RunTyped DEF Permit, RunOK
<1>2. PICK r : r = runs[p].row
  OBVIOUS
<1>3. r \in Repos
  BY <1>1, <1>2 DEF SRuns
<1>4. /\ hosted' = [hosted EXCEPT ![r].on = runs[p].cmd = "enable"]
      /\ UNCHANGED <<told, unfiled, overlapped, ledger, month>>
      /\ paused' = IF runs[p].cmd = "disable" THEN paused \cup {r} ELSE paused \ {r}
  BY <1>2 DEF Permit, Permitted, outside
<1>5. \A z \in Repos : hosted'[z] # hosted[z] => z = r
  BY <1>4 DEF STyped
<1>6. CASE runs[p].cmd = "enable"
  <2>1. PICK x : x = [runs[p] EXCEPT !.at = "flows"]
    OBVIOUS
  <2>2. /\ x \in SRuns /\ x.at = "flows" /\ x.todo = runs[p].todo
        /\ x.book = runs[p].book /\ x.cmd = runs[p].cmd /\ x.asked = runs[p].asked
        /\ x.manual = runs[p].manual /\ x.failed = runs[p].failed
        /\ x.others = runs[p].others /\ x.row = r /\ x.seen = runs[p].seen
    BY <1>1, <1>2, <2>1 DEF SRuns
  <2>3. runs' = Disturb(r, p, x)
    BY <1>2, <1>6, <2>1 DEF Permit
  <2>4. /\ runs'[p] = x /\ runs' \in [Switchers -> SRuns' \cup {Off}]
        /\ \A q \in Switchers \ {p} : Kept(q)
    BY <1>3, <1>4, <1>5, <2>2, <2>3, DisturbIs
  <2> QED BY <1>1, <1>2, <1>4, <1>6, <2>2, <2>4 DEF Goes, SameTroubles
<1>7. CASE runs[p].cmd = "disable"
  <2>1. runs[p].book \in Ledger /\ runs[p].now \in 0 .. month /\ runs[p].now # 0
    BY <1>1 DEF SRuns, STyped
  <2>2. PICK b : b = [runs[p].book EXCEPT !.note[r] = runs[p].now]
    OBVIOUS
  <2>3. /\ b \in Ledger /\ b.recent = runs[p].book.recent /\ b.note[r] # 0
        /\ \A z \in Repos : runs[p].book.note[z] # 0 => b.note[z] # 0
    BY <1>3, <2>1, <2>2, NoteSet
  <2>4. PICK x : x = [Passed(p, r) EXCEPT !.book = b]
    OBVIOUS
  <2>5. /\ x \in SRuns /\ x.at = "visit" /\ x.todo = runs[p].todo \ {r}
        /\ x.book = b /\ x.cmd = runs[p].cmd /\ x.asked = runs[p].asked
        /\ x.manual = runs[p].manual /\ x.failed = runs[p].failed
        /\ x.others = runs[p].others
    BY <1>1, <1>3, <2>3, <2>4, RewrittenIs
  <2>6. runs' = Disturb(r, p, x)
    <3>1. Passed(p, r).book = runs[p].book /\ Passed(p, r) \in SRuns
      BY <1>1, <1>3, PassedIs
    <3>2. runs' = Disturb(r, p, [Passed(p, r) EXCEPT !.book.note[r] = runs[p].now])
      BY <1>2, <1>7 DEF Permit
    <3>3. PICK y : y = Passed(p, r)
      OBVIOUS
    <3>4. [y EXCEPT !.book.note[r] = runs[p].now] = [y EXCEPT !.book = b]
      BY <2>2, <3>1, <3>3
    <3> QED BY <2>4, <3>2, <3>3, <3>4
  <2>7. /\ runs'[p] = x /\ runs' \in [Switchers -> SRuns' \cup {Off}]
        /\ \A q \in Switchers \ {p} : Kept(q)
    BY <1>3, <1>4, <1>5, <2>5, <2>6, DisturbIs
  <2> QED BY <1>1, <1>2, <1>4, <1>7, <2>3, <2>5, <2>7 DEF Goes, SameTroubles
<1>8. runs[p].cmd = "enable" \/ runs[p].cmd = "disable"
  BY <1>1 DEF SRuns
<1> QED BY <1>6, <1>7, <1>8

\* PUT of the workflows, or nothing to do: the repository is left behind.
LEMMA ReviveGoes ==
  ASSUME STyped, NEW p \in Switchers, RunOK(p), Revive(p)
  PROVE  /\ runs[p] \in SRuns /\ runs' \in [Switchers -> SRuns' \cup {Off}]
         /\ \A q \in Switchers \ {p} : Kept(q)
         /\ UNCHANGED <<paused, told, unfiled, overlapped, ledger, month>>
         /\ SameTroubles(p) /\ runs[p].at = "flows"
         /\ \E b \in Ledger :
              /\ Goes(p, "visit", runs[p].todo \ {runs[p].row}, b)
              /\ b.recent = runs[p].book.recent
              /\ \A z \in Repos \ {runs[p].row} : b.note[z] = runs[p].book.note[z]
         /\ IF FlowFound(p) \in Targets(runs[p].manual)
            THEN hosted' = [hosted EXCEPT ![runs[p].row].flow = "active"]
            ELSE hosted' = hosted
<1>1. runs[p] \in SRuns /\ runs[p].at = "flows" /\ runs[p] # Off
  BY RunTyped DEF Revive
<1>2. PICK r : r = runs[p].row
  OBVIOUS
<1>3. r \in Repos
  BY <1>1, <1>2 DEF SRuns
<1>4. UNCHANGED <<paused, told, unfiled, overlapped, ledger, month>>
  BY DEF Revive, outside, Quiet
<1>5. runs[p].book \in Ledger /\ 0 \in 0 .. month
  BY <1>1 DEF SRuns, STyped
<1>6. PICK b : b = Unpaused(runs[p].book, r)
  OBVIOUS
<1>7. /\ b \in Ledger /\ b.recent = runs[p].book.recent
      /\ \A z \in Repos \ {r} : b.note[z] = runs[p].book.note[z]
  BY <1>3, <1>5, <1>6, NoteSet DEF Unpaused
<1>8. PICK x : x = [Passed(p, r) EXCEPT !.book = b]
  OBVIOUS
<1>9. /\ x \in SRuns /\ x.at = "visit" /\ x.todo = runs[p].todo \ {r}
      /\ x.book = b /\ x.cmd = runs[p].cmd /\ x.asked = runs[p].asked
      /\ x.manual = runs[p].manual /\ x.failed = runs[p].failed
      /\ x.others = runs[p].others
  BY <1>1, <1>3, <1>7, <1>8, RewrittenIs
<1>10. x = [Passed(p, r) EXCEPT !.book = Unpaused(@, r)]
  <2>1. Passed(p, r).book = runs[p].book
    BY <1>1, <1>3, PassedIs
  <2> QED BY <1>6, <1>8, <2>1
<1>11. CASE FlowFound(p) \in Targets(runs[p].manual)
  <2>1. /\ hosted' = [hosted EXCEPT ![r].flow = "active"]
        /\ runs' = Disturb(r, p, x)
    BY <1>2, <1>10, <1>11 DEF Revive, HasTargets, Revived
  <2>2. \A z \in Repos : hosted'[z] # hosted[z] => z = r
    BY <2>1 DEF STyped
  <2>3. /\ runs'[p] = x /\ runs' \in [Switchers -> SRuns' \cup {Off}]
        /\ \A q \in Switchers \ {p} : Kept(q)
    BY <1>3, <1>4, <1>9, <2>1, <2>2, DisturbIs
  <2> QED BY <1>1, <1>2, <1>4, <1>7, <1>9, <1>11, <2>1, <2>3 DEF Goes, SameTroubles
<1>12. CASE ~(FlowFound(p) \in Targets(runs[p].manual))
  <2>1. hosted' = hosted /\ Proceed(p, x)
    BY <1>2, <1>10, <1>12 DEF Revive, HasTargets
  <2>2. /\ runs'[p] = x /\ runs' \in [Switchers -> SRuns' \cup {Off}]
        /\ \A q \in Switchers \ {p} : Kept(q)
    BY <1>4, <1>9, <2>1, ProceedIs
  <2> QED BY <1>1, <1>2, <1>4, <1>7, <1>9, <1>12, <2>1, <2>2 DEF Goes, SameTroubles
<1> QED BY <1>11, <1>12

\* GitHub has done what was asked, and the repository is reported as failed.
LEMMA LostGoes ==
  ASSUME STyped, NEW p \in Switchers, RunOK(p), AnswerLost(p)
  PROVE  /\ runs[p] \in SRuns /\ runs' \in [Switchers -> SRuns' \cup {Off}]
         /\ \A q \in Switchers \ {p} : Kept(q)
         /\ UNCHANGED <<told, unfiled, overlapped, ledger, month>>
         /\ runs[p].cmd # "check" /\ paused' \subseteq paused
         /\ Goes(p, "visit", runs[p].todo \ {runs[p].row}, runs[p].book)
         /\ runs'[p].failed = runs[p].failed \cup {runs[p].row}
         /\ runs'[p].others = runs[p].others
         /\ hosted' \in [Repos -> Switches]
         /\ \A z \in Repos \ {runs[p].row} : hosted'[z] = hosted[z]
         /\ hosted'[runs[p].row].on => hosted[runs[p].row].on \/ runs[p].row \notin paused'
<1>1. /\ runs[p] \in SRuns /\ runs[p].cmd # "check" /\ runs[p] # Off
      /\ hosted \in [Repos -> Switches]
  BY RunTyped DEF AnswerLost, RunOK, STyped
<1>2. PICK r : r = runs[p].row
  OBVIOUS
<1>3. r \in Repos /\ hosted[r] \in Switches
  BY <1>1, <1>2 DEF SRuns
<1>4. UNCHANGED <<told, unfiled, overlapped, ledger, month>>
  BY DEF AnswerLost, outside
<1>5. PICK onn \in BOOLEAN : onn = (runs[p].cmd = "enable")
  OBVIOUS
<1>6. \/ /\ hosted' = [hosted EXCEPT ![r].on = onn]
         /\ paused' = IF onn THEN paused \ {r} ELSE paused
      \/ hosted' = [hosted EXCEPT ![r].flow = "active"] /\ paused' = paused
  BY <1>2, <1>5 DEF AnswerLost, Permitted, Revived
<1>7. /\ hosted' \in [Repos -> Switches] /\ paused' \subseteq paused
      /\ \A z \in Repos \ {r} : hosted'[z] = hosted[z]
      /\ hosted'[r].on => hosted[r].on \/ r \notin paused'
  <2>1. /\ [hosted[r] EXCEPT !.on = onn] \in Switches
        /\ [hosted[r] EXCEPT !.flow = "active"] \in Switches
    BY <1>3 DEF Switches
  <2>2. CASE /\ hosted' = [hosted EXCEPT ![r].on = onn]
             /\ paused' = IF onn THEN paused \ {r} ELSE paused
    <3>1. hosted'[r] = [hosted[r] EXCEPT !.on = onn]
      BY <1>1, <1>3, <2>2
    <3>2. hosted'[r].on = onn
      BY <1>3, <3>1 DEF Switches
    <3> QED BY <1>1, <1>3, <2>1, <2>2, <3>2
  <2>3. CASE hosted' = [hosted EXCEPT ![r].flow = "active"] /\ paused' = paused
    <3>1. hosted'[r] = [hosted[r] EXCEPT !.flow = "active"]
      BY <1>1, <1>3, <2>3
    <3>2. hosted'[r].on = hosted[r].on
      BY <1>3, <3>1 DEF Switches
    <3> QED BY <1>1, <1>3, <2>1, <2>3, <3>2
  <2> QED BY <1>6, <2>2, <2>3
<1>8. PICK x : x = Failed(p, r)
  OBVIOUS
<1>9. /\ x \in SRuns /\ x.at = "visit" /\ x.todo = runs[p].todo \ {r}
      /\ x.book = runs[p].book /\ x.cmd = runs[p].cmd /\ x.asked = runs[p].asked
      /\ x.manual = runs[p].manual /\ x.failed = runs[p].failed \cup {r}
      /\ x.others = runs[p].others
  BY <1>1, <1>3, <1>8, FailedIs
<1>10. runs' = Disturb(r, p, x)
  BY <1>2, <1>8 DEF AnswerLost, FailedCall
<1>11. \A z \in Repos : hosted'[z] # hosted[z] => z = r
  BY <1>7
<1>12. /\ runs'[p] = x /\ runs' \in [Switchers -> SRuns' \cup {Off}]
       /\ \A q \in Switchers \ {p} : Kept(q)
  BY <1>3, <1>4, <1>9, <1>10, <1>11, DisturbIs
<1> QED BY <1>1, <1>2, <1>4, <1>7, <1>9, <1>12 DEF Goes

LEMMA ExamineGoes ==
  ASSUME STyped, NEW p \in Switchers, Examine(p)
  PROVE  /\ runs[p] \in SRuns /\ runs' \in [Switchers -> SRuns' \cup {Off}]
         /\ \A q \in Switchers \ {p} : Kept(q)
         /\ UNCHANGED <<hosted, paused, told, unfiled, overlapped, ledger, month>>
         /\ runs[p].cmd = "check" /\ SameTroubles(p)
         /\ \E r \in Repos : Goes(p, "visit", runs[p].todo \ {r}, runs[p].book)
<1>1. runs[p] \in SRuns /\ runs[p].cmd = "check" /\ runs[p].at = "visit"
  BY RunTyped DEF Examine
<1>2. PICK r \in Todo(p) :
        Proceed(p, [runs[p] EXCEPT !.todo = @ \ {r}, !.found = @ \cup
          IF healthy THEN Finding(r, hosted[r], runs[p].book, runs[p].now)
          ELSE {<<"error", r>>}])
  BY DEF Examine
<1>3. UNCHANGED <<hosted, paused, told, unfiled, overlapped, ledger, month>>
  BY DEF Examine, Quiet, outside
<1>4. r \in Repos
  BY RunTyped
<1>5. PICK more : more = IF healthy THEN Finding(r, hosted[r], runs[p].book, runs[p].now)
                         ELSE {<<"error", r>>}
  OBVIOUS
<1>6. more \subseteq Keys
  <2>1. \A kind \in {"error", "unrecorded", "rolled", "stuck"} : <<kind, r>> \in Keys
    BY <1>4 DEF Keys
  <2>2. Finding(r, hosted[r], runs[p].book, runs[p].now)
          \in {{}, {<<"unrecorded", r>>}, {<<"rolled", r>>}, {<<"stuck", r>>}}
    BY DEF Finding
  <2> QED BY <1>5, <2>1, <2>2
<1>7. PICK x : x = [runs[p] EXCEPT !.todo = @ \ {r}, !.found = @ \cup more]
  OBVIOUS
<1>8. /\ x \in SRuns /\ x.at = "visit" /\ x.todo = runs[p].todo \ {r}
      /\ x.book = runs[p].book /\ x.cmd = runs[p].cmd /\ x.asked = runs[p].asked
      /\ x.manual = runs[p].manual /\ x.failed = runs[p].failed
      /\ x.others = runs[p].others
  <2>1. runs[p].todo \ {r} \subseteq Repos /\ runs[p].found \cup more \subseteq Keys
    BY <1>1, <1>6 DEF SRuns
  <2> QED BY <1>1, <1>7, <2>1 DEF SRuns
<1>9. /\ runs'[p] = x /\ runs' \in [Switchers -> SRuns' \cup {Off}]
      /\ \A q \in Switchers \ {p} : Kept(q)
  BY <1>2, <1>3, <1>5, <1>7, <1>8, ProceedIs
<1> QED BY <1>1, <1>3, <1>4, <1>8, <1>9 DEF Goes, SameTroubles

\* What check finds resolved leaves the copy, and is due again when it comes back.
LEMMA JudgeGoes ==
  ASSUME STyped, NEW p \in Switchers, Judge(p)
  PROVE  /\ runs[p] \in SRuns /\ runs' \in [Switchers -> SRuns' \cup {Off}]
         /\ \A q \in Switchers \ {p} : Kept(q)
         /\ UNCHANGED <<hosted, paused, told, overlapped, month>>
         /\ runs[p].cmd = "check" /\ runs[p].at = "visit"
         /\ \E found \in SUBSET Keys, b \in Ledger :
              /\ unfiled' = unfiled \cup (told \ found)
              /\ b.note = runs[p].book.note /\ b.recent = runs[p].book.recent \cap found
              /\ \/ ledger' = b /\ runs'[p] = Off
                 \/ ledger' = ledger /\ runs'[p] = Off
                 \/ /\ ledger' = ledger /\ SameTroubles(p)
                    /\ Goes(p, "send", runs[p].todo, b)
<1>1. runs[p] \in SRuns /\ runs[p].cmd = "check" /\ runs[p].at = "visit"
  BY RunTyped DEF Judge
<1>2. PICK usage : usage = IF overdrawn /\ healthy THEN {<<"usage", "account">>} ELSE {}
  OBVIOUS
<1>3. PICK found : found = runs[p].found \cup usage
  OBVIOUS
<1>4. PICK b : b = Resolved(runs[p].book, found)
  OBVIOUS
<1>5. PICK due : due = found \ b.recent
  OBVIOUS
<1>6. /\ unfiled' = unfiled \cup (told \ found)
      /\ \/ ledger' = b /\ Proceed(p, Off)
         \/ UNCHANGED ledger /\ Proceed(p, Off)
         \/ UNCHANGED ledger /\ Proceed(p, [runs[p] EXCEPT !.at = "send", !.book = b,
                                                           !.found = due])
  <2>1. CASE found = {}
    BY <1>2, <1>3, <1>4, <1>5, <2>1 DEF Judge
  <2>2. CASE found # {} /\ due = {}
    BY <1>2, <1>3, <1>4, <1>5, <2>2 DEF Judge
  <2>3. CASE due # {}
    BY <1>2, <1>3, <1>4, <1>5, <2>3 DEF Judge
  <2> QED BY <2>1, <2>2, <2>3
<1>7. UNCHANGED <<hosted, paused, told, overlapped, month>>
  BY DEF Judge, outside
<1>8. found \subseteq Keys /\ due \subseteq Keys
  BY <1>1, <1>2, <1>3, <1>5 DEF SRuns, Keys
<1>9. b \in Ledger /\ b.note = runs[p].book.note /\ b.recent = runs[p].book.recent \cap found
  <2>1. runs[p].book \in Ledger
    BY <1>1 DEF SRuns
  <2>2. runs[p].book.recent \cap found \subseteq Keys
    BY <1>8
  <2> QED BY <1>4, <2>1, <2>2 DEF Resolved, Ledger
<1>10. CASE Proceed(p, Off)
  <2>1. /\ runs'[p] = Off /\ runs' \in [Switchers -> SRuns' \cup {Off}]
        /\ \A q \in Switchers \ {p} : Kept(q)
    BY <1>7, <1>10, ProceedIs
  <2>2. ledger' = b \/ ledger' = ledger
    BY <1>6
  <2> QED BY <1>1, <1>6, <1>7, <1>8, <1>9, <2>1, <2>2
<1>11. CASE UNCHANGED ledger /\ Proceed(p, [runs[p] EXCEPT !.at = "send", !.book = b,
                                                           !.found = due])
  <2>1. PICK x : x = [runs[p] EXCEPT !.at = "send", !.book = b, !.found = due]
    OBVIOUS
  <2>2. /\ x \in SRuns /\ x.at = "send" /\ x.todo = runs[p].todo
        /\ x.book = b /\ x.cmd = runs[p].cmd /\ x.asked = runs[p].asked
        /\ x.manual = runs[p].manual /\ x.failed = runs[p].failed
        /\ x.others = runs[p].others
    BY <1>1, <1>8, <1>9, <2>1 DEF SRuns
  <2>3. /\ runs'[p] = x /\ runs' \in [Switchers -> SRuns' \cup {Off}]
        /\ \A q \in Switchers \ {p} : Kept(q)
    BY <1>7, <1>11, <2>1, <2>2, ProceedIs
  <2>4. Goes(p, "send", runs[p].todo, b) /\ SameTroubles(p)
    BY <2>2, <2>3 DEF Goes, SameTroubles
  <2> QED BY <1>1, <1>6, <1>7, <1>8, <1>9, <1>11, <2>3, <2>4
<1> QED BY <1>6, <1>10, <1>11

LEMMA SendGoes ==
  ASSUME STyped, NEW p \in Switchers, Send(p) \/ SendFailed(p)
  PROVE  /\ runs[p] \in SRuns /\ runs' \in [Switchers -> SRuns' \cup {Off}]
         /\ \A q \in Switchers \ {p} : Kept(q)
         /\ UNCHANGED <<hosted, paused, ledger, overlapped, month>>
         /\ runs[p].at = "send"
         /\ \/ /\ runs'[p] = Off
               /\ \E found \in SUBSET Keys :
                    told' = told \cup found /\ unfiled' = unfiled \cup found
            \/ \E found \in SUBSET Keys, b \in Ledger :
                 /\ told' = told \cup found /\ unfiled' = unfiled \ found
                 /\ b.note = runs[p].book.note /\ b.recent = runs[p].book.recent \cup found
                 /\ Goes(p, "save", runs[p].todo, b) /\ SameTroubles(p)
<1>1. runs[p] \in SRuns /\ runs[p].at = "send"
  BY RunTyped DEF Send, SendFailed
<1>2. UNCHANGED <<hosted, paused, ledger, overlapped, month>>
  BY DEF Send, SendFailed, outside
<1>3. CASE Send(p)
  <2>1. PICK found : found = runs[p].found
    OBVIOUS
  <2>2. PICK b : b = Announced(runs[p].book, found)
    OBVIOUS
  <2>3. PICK x : x = [runs[p] EXCEPT !.at = "save", !.book = b]
    OBVIOUS
  <2>4. told' = told \cup found /\ unfiled' = unfiled \ found /\ Proceed(p, x)
    BY <1>3, <2>1, <2>2, <2>3 DEF Send
  <2>5. found \subseteq Keys /\ runs[p].book \in Ledger
    BY <1>1, <2>1 DEF SRuns
  <2>6. b \in Ledger /\ b.note = runs[p].book.note /\ b.recent = runs[p].book.recent \cup found
    <3>1. runs[p].book.recent \cup found \subseteq Keys
      BY <2>5 DEF Ledger
    <3> QED BY <2>2, <2>5, <3>1 DEF Announced, Ledger
  <2>7. /\ x \in SRuns /\ x.at = "save" /\ x.todo = runs[p].todo
        /\ x.book = b /\ x.cmd = runs[p].cmd /\ x.asked = runs[p].asked
        /\ x.manual = runs[p].manual /\ x.failed = runs[p].failed
        /\ x.others = runs[p].others
    BY <1>1, <2>3, <2>6 DEF SRuns
  <2>8. /\ runs'[p] = x /\ runs' \in [Switchers -> SRuns' \cup {Off}]
        /\ \A q \in Switchers \ {p} : Kept(q)
    BY <1>2, <2>4, <2>7, ProceedIs
  <2>9. Goes(p, "save", runs[p].todo, b) /\ SameTroubles(p)
    BY <2>7, <2>8 DEF Goes, SameTroubles
  <2> QED BY <1>1, <1>2, <2>4, <2>5, <2>6, <2>8, <2>9
<1>4. CASE SendFailed(p)
  <2>1. /\ Proceed(p, Off)
        /\ \/ UNCHANGED <<told, unfiled>>
           \/ told' = told \cup runs[p].found /\ unfiled' = unfiled \cup runs[p].found
    BY <1>4 DEF SendFailed
  <2>2. PICK found \in SUBSET Keys :
          told' = told \cup found /\ unfiled' = unfiled \cup found
    <3>1. runs[p].found \in SUBSET Keys /\ {} \in SUBSET Keys
      BY <1>1 DEF SRuns
    <3> QED BY <2>1, <3>1
  <2> QED BY <1>1, <1>2, <2>1, <2>2, ProceedIs
<1> QED BY <1>3, <1>4

\* A run that saves, or that is killed, is over.
LEMMA EndGoes ==
  ASSUME STyped, NEW p \in Switchers, SaveRun(p) \/ SaveTold(p) \/ Abort(p)
  PROVE  /\ runs[p] \in SRuns /\ runs' \in [Switchers -> SRuns' \cup {Off}]
         /\ \A q \in Switchers \ {p} : Kept(q)
         /\ UNCHANGED <<hosted, paused, told, unfiled, month>> /\ runs'[p] = Off
<1>1. runs[p] \in SRuns /\ runs[p] # Off
  BY RunTyped DEF SaveRun, SaveTold, Abort, Running
<1>2. Proceed(p, Off) /\ UNCHANGED <<hosted, paused, told, unfiled, month>>
  BY DEF SaveRun, SaveTold, Abort, Quiet, outside
<1> QED BY <1>1, <1>2, ProceedIs

\* What happens around the runs leaves each of them at its place.
LEMMA AroundGoes ==
  ASSUME STyped, SwitchAssumption,
         ByHand \/ NextMonth \/ Overdraw \/ NetworkChange \/ \E k \in Keys : Expire(k)
  PROVE  /\ runs' \in [Switchers -> SRuns' \cup {Off}] /\ \A q \in Switchers : Kept(q)
         /\ UNCHANGED overlapped
<1>1. runs \in [Switchers -> SRuns \cup {Off}] /\ month \in Nat
  BY DEF STyped
<1>2. ASSUME UNCHANGED <<runs, hosted>>, month' = month \/ month' = month + 1
      PROVE  runs' \in [Switchers -> SRuns' \cup {Off}] /\ \A q \in Switchers : Kept(q)
  <2>1. 1 .. month \subseteq 1 .. month' /\ 0 .. month \subseteq 0 .. month'
    BY <1>1, <1>2
  <2>2. Ledger \subseteq Ledger'
    BY <2>1 DEF Ledger
  <2>3. SRuns \subseteq SRuns'
    BY <2>1, <2>2 DEF SRuns
  <2> QED BY <1>1, <1>2, <2>3, NotOff DEF Kept
<1>3. CASE ByHand
  <2>1. PICK r \in Repos, s \in Switches :
          hosted' = [hosted EXCEPT ![r] = s] /\ runs' = Disturb(r, "nobody", Off)
    BY <1>3 DEF ByHand
  <2>2. \A z \in Repos : hosted'[z] # hosted[z] => z = r
    BY <2>1 DEF STyped
  <2>3. UNCHANGED <<month, overlapped>>
    BY <1>3 DEF ByHand
  <2>4. \A q \in Switchers : Kept(q) /\ runs'[q] \in SRuns' \cup {Off}
    <3> SUFFICES ASSUME NEW q \in Switchers
                 PROVE  Kept(q) /\ runs'[q] \in SRuns' \cup {Off}
      OBVIOUS
    <3>1. q # "nobody"
      BY SwitchAssumption DEF SwitchAssumption, Switchers
    <3>2. runs'[q] = IF Running(q, "off") \/ runs[q].cmd # "enable" THEN runs[q]
                     ELSE [runs[q] EXCEPT !.others = @ \cup {r}]
      BY <2>1, <3>1 DEF Disturb
    <3> QED BY <2>2, <2>3, <3>2, ToldOf
  <2>5. runs' = [q \in Switchers |-> runs'[q]]
    BY <2>1 DEF Disturb
  <2> QED BY <2>3, <2>4, <2>5
<1>4. CASE NextMonth
  BY <1>2, <1>4 DEF NextMonth
<1>5. CASE Overdraw
  BY <1>2, <1>5 DEF Overdraw
<1>6. CASE NetworkChange
  BY <1>2, <1>6 DEF NetworkChange
<1>7. CASE \E k \in Keys : Expire(k)
  <2>1. PICK k \in Keys : Expire(k)
    BY <1>7
  <2>2. UNCHANGED <<hosted, month, overlapped>>
    BY <2>1 DEF Expire, outside
  <2>3. runs' = [p \in Switchers |-> IF Running(p, "off") THEN Off
                                  ELSE [runs[p] EXCEPT !.book.recent = @ \ {k}]]
    BY <2>1 DEF Expire
  <2>4. SRuns' = SRuns
    BY <2>2, SameMonth
  <2>5. \A q \in Switchers : Kept(q) /\ runs'[q] \in SRuns' \cup {Off}
    <3> SUFFICES ASSUME NEW q \in Switchers
                 PROVE  Kept(q) /\ runs'[q] \in SRuns' \cup {Off}
      OBVIOUS
    <3>1. CASE runs[q] = Off
      BY <2>3, <3>1, RunTyped DEF Kept, Running
    <3>2. CASE runs[q] \in SRuns
      <4>1. PICK b : b = [runs[q].book EXCEPT !.recent = @ \ {k}]
        OBVIOUS
      <4>2. b \in Ledger /\ b.note = runs[q].book.note
        <5>1. runs[q].book \in Ledger
          BY <3>2 DEF SRuns
        <5>2. runs[q].book.recent \ {k} \subseteq Keys
          BY <5>1 DEF Ledger
        <5> QED BY <4>1, <5>1, <5>2 DEF Ledger
      <4>3. runs'[q] = [runs[q] EXCEPT !.book = b]
        BY <2>3, <3>2, <4>1, NotOff DEF Running
      <4>4. /\ runs'[q] \in SRuns
            /\ runs'[q].at = runs[q].at /\ runs'[q].cmd = runs[q].cmd
            /\ runs'[q].asked = runs[q].asked /\ runs'[q].todo = runs[q].todo
            /\ runs'[q].manual = runs[q].manual /\ runs'[q].failed = runs[q].failed
            /\ runs'[q].row = runs[q].row /\ runs'[q].seen = runs[q].seen
            /\ runs'[q].book = b /\ runs'[q].others = runs[q].others
        BY <3>2, <4>2, <4>3 DEF SRuns
      <4> QED BY <2>2, <2>4, <3>2, <4>2, <4>4, NotOff DEF Kept
    <3> QED BY <1>1, <3>1, <3>2
  <2>6. runs' = [q \in Switchers |-> runs'[q]]
    BY <2>3
  <2> QED BY <2>2, <2>5, <2>6
<1>8. UNCHANGED overlapped
  BY <1>3, <1>4, <1>5, <1>6, <1>7
     DEF ByHand, NextMonth, Overdraw, NetworkChange, Expire, outside
<1> QED BY <1>3, <1>4, <1>5, <1>6, <1>7, <1>8

-----------------------------------------------------------------------------
(* Typed, and each run as it should be.                                    *)

LEMMA KeptOK ==
  ASSUME STyped, NEW q \in Switchers, RunOK(q), Kept(q)
  PROVE  RunOK(q)'
<1> SUFFICES ASSUME runs'[q] # Off
             PROVE  RunOK(q)'
  BY DEF RunOK
<1>1. runs[q] # Off /\ runs[q] \in SRuns
  BY RunTyped DEF Kept
<1>2. /\ runs'[q].at = runs[q].at /\ runs'[q].cmd = runs[q].cmd
      /\ runs'[q].asked = runs[q].asked /\ runs'[q].todo = runs[q].todo
      /\ runs'[q].manual = runs[q].manual /\ runs'[q].failed = runs[q].failed
      /\ runs'[q].row = runs[q].row /\ runs'[q].seen = runs[q].seen
      /\ runs[q].others \subseteq runs'[q].others
      /\ runs[q].cmd = "enable" =>
           \A z \in Repos : hosted'[z] # hosted[z] => z \in runs'[q].others
  BY <1>1 DEF Kept
<1>3. runs[q].asked \subseteq Repos /\ runs[q].row \in Repos
  BY <1>1 DEF SRuns
<1> QED BY <1>1, <1>2, <1>3 DEF RunOK, Targets

LEMMA RunOKStep ==
  ASSUME STyped, SwitchAssumption, \A p \in Switchers : RunOK(p), [SwitchNext]_switchVars
  PROVE  \A p \in Switchers : RunOK(p)'
<1>1. ASSUME \A q \in Switchers : Kept(q)
      PROVE  \A q \in Switchers : RunOK(q)'
  BY <1>1, KeptOK
<1>2. ASSUME NEW p \in Switchers, \A q \in Switchers \ {p} : Kept(q), RunOK(p)'
      PROVE  \A q \in Switchers : RunOK(q)'
  BY <1>2, KeptOK
<1>3. CASE UNCHANGED switchVars
  BY <1>3 DEF switchVars, RunOK
<1>4. CASE ByHand \/ NextMonth \/ Overdraw \/ NetworkChange \/ \E k \in Keys : Expire(k)
  BY <1>1, <1>4, AroundGoes
<1>5. ASSUME NEW p \in Switchers, StartRun(p) \/ SwitchStep(p) \/ Abort(p)
      PROVE  \A q \in Switchers : RunOK(q)'
  <2>0. RunOK(p) /\ (runs[p] \in SRuns => runs[p] # Off)
    BY NotOff
  <2>1. CASE StartRun(p)
    <3>1. RunOK(p)'
      BY <2>1, StartGoes DEF RunOK, Targets
    <3> QED BY <1>2, <2>1, <3>1, StartGoes
  <2>2. CASE VisitFailed(p) \/ CallFailed(p)
    <3>1. RunOK(p)'
      BY <2>0, <2>2, FailureGoes DEF RunOK, Targets, Goes
    <3> QED BY <1>2, <2>0, <2>2, <3>1, FailureGoes
  <2>3. CASE Visit(p)
    <3>1. RunOK(p)'
      BY <2>0, <2>3, VisitGoes DEF RunOK, Targets, Goes, SameTroubles
    <3> QED BY <1>2, <2>3, <3>1, VisitGoes
  <2>4. CASE Permit(p)
    <3>1. RunOK(p)'
      <4>1. /\ runs[p] \in SRuns /\ hosted \in [Repos -> Switches]
            /\ runs[p].asked \subseteq Repos /\ runs[p].row \in Repos
        BY <2>0, <2>4, PermitGoes DEF STyped, SRuns
      <4>2. /\ \A z \in Repos \ {runs[p].row} : hosted'[z] = hosted[z]
            /\ runs[p].cmd = "enable" => hosted'[runs[p].row].on
        <5>1. hosted' = [hosted EXCEPT ![runs[p].row].on = runs[p].cmd = "enable"]
          BY <2>0, <2>4, PermitGoes
        <5>2. hosted[runs[p].row] \in Switches
          BY <4>1
        <5> QED BY <4>1, <5>1, <5>2 DEF Switches
      <4>3. /\ SameTroubles(p) /\ runs[p].at = "permit"
            /\ \/ /\ runs[p].cmd = "enable" /\ Goes(p, "flows", runs[p].todo, runs[p].book)
                  /\ runs'[p].row = runs[p].row /\ runs'[p].seen = runs[p].seen
               \/ /\ runs[p].cmd = "disable"
                  /\ \E b \in Ledger : Goes(p, "visit", runs[p].todo \ {runs[p].row}, b)
        BY <2>0, <2>4, PermitGoes
      <4> QED BY <2>0, <4>1, <4>2, <4>3 DEF RunOK, Targets, Goes, SameTroubles
    <3> QED BY <1>2, <2>0, <2>4, <3>1, PermitGoes
  <2>5. CASE Revive(p)
    <3>1. RunOK(p)'
      <4>1. /\ runs[p] \in SRuns /\ hosted \in [Repos -> Switches]
            /\ runs[p].asked \subseteq Repos /\ runs[p].row \in Repos
        BY <2>0, <2>5, ReviveGoes DEF STyped, SRuns
      <4>2. /\ \A z \in Repos \ {runs[p].row} : hosted'[z] = hosted[z]
            /\ hosted'[runs[p].row].on = hosted[runs[p].row].on
            /\ FlowFound(p) \in Targets(runs[p].manual) =>
                 hosted'[runs[p].row].flow = "active"
            /\ FlowFound(p) \notin Targets(runs[p].manual) => hosted' = hosted
        <5>1. IF FlowFound(p) \in Targets(runs[p].manual)
              THEN hosted' = [hosted EXCEPT ![runs[p].row].flow = "active"]
              ELSE hosted' = hosted
          BY <2>0, <2>5, ReviveGoes
        <5>2. hosted[runs[p].row] \in Switches
          BY <4>1
        <5>3. CASE FlowFound(p) \in Targets(runs[p].manual)
          <6>1. hosted' = [hosted EXCEPT ![runs[p].row].flow = "active"]
            BY <5>1, <5>3
          <6> QED BY <4>1, <5>2, <5>3, <6>1 DEF Switches
        <5>4. CASE FlowFound(p) \notin Targets(runs[p].manual)
          BY <5>1, <5>4
        <5> QED BY <5>3, <5>4
      <4>3. /\ SameTroubles(p) /\ runs[p].at = "flows"
            /\ \E b \in Ledger : Goes(p, "visit", runs[p].todo \ {runs[p].row}, b)
        BY <2>0, <2>5, ReviveGoes
      <4>4. runs[p].row \notin runs[p].others =>
              hosted[runs[p].row].on /\ FlowFound(p) = hosted[runs[p].row].flow
        BY <2>0, <4>1, <4>3 DEF RunOK, FlowFound
      <4>5. "active" \notin Targets(runs[p].manual)
        BY DEF Targets
      <4> QED BY <2>0, <4>1, <4>2, <4>3, <4>4, <4>5 DEF RunOK, Goes, SameTroubles
    <3> QED BY <1>2, <2>0, <2>5, <3>1, ReviveGoes
  <2>6. CASE Examine(p)
    <3>1. RunOK(p)'
      BY <2>0, <2>6, ExamineGoes DEF RunOK, Goes, SameTroubles
    <3> QED BY <1>2, <2>6, <3>1, ExamineGoes
  <2>7. CASE Judge(p)
    <3>1. RunOK(p)'
      BY <2>0, <2>7, JudgeGoes DEF RunOK, Goes, SameTroubles
    <3> QED BY <1>2, <2>7, <3>1, JudgeGoes
  <2>8. CASE Send(p) \/ SendFailed(p)
    <3>1. RunOK(p)'
      BY <2>0, <2>8, SendGoes DEF RunOK, Goes, SameTroubles
    <3> QED BY <1>2, <2>8, <3>1, SendGoes
  <2>9. CASE SaveRun(p) \/ SaveTold(p) \/ Abort(p)
    <3>1. RunOK(p)'
      BY <2>9, EndGoes DEF RunOK
    <3> QED BY <1>2, <2>9, <3>1, EndGoes
  <2>10. CASE AnswerLost(p)
    <3>1. RunOK(p)'
      <4>1. runs[p] \in SRuns
        BY <2>0, <2>10, LostGoes
      <4>2. runs[p].asked \subseteq Repos
        BY <4>1 DEF SRuns
      <4> QED BY <2>0, <2>10, <4>1, <4>2, LostGoes DEF RunOK, Targets, Goes
    <3> QED BY <1>2, <2>0, <2>10, <3>1, LostGoes
  <2> QED BY <1>5, <2>1, <2>2, <2>3, <2>4, <2>5, <2>6, <2>7, <2>8, <2>9, <2>10 DEF SwitchStep
<1> DEFINE P == \A p \in Switchers : RunOK(p)'
<1>6. P
  <2> HIDE DEF P
  <2>1. (UNCHANGED switchVars => P) /\ (ByHand => P) /\ (NextMonth => P)
        /\ (Overdraw => P) /\ (NetworkChange => P) /\ \A k \in Keys : Expire(k) => P
    BY <1>3, <1>4 DEF P
  <2>2. \A p \in Switchers : StartRun(p) \/ SwitchStep(p) \/ Abort(p) => P
    BY <1>5 DEF P
  <2> QED BY <2>1, <2>2, SwitchCases
<1> QED BY <1>6

LEMMA STypedStep ==
  ASSUME STyped, SwitchAssumption, \A p \in Switchers : RunOK(p), [SwitchNext]_switchVars
  PROVE  STyped'
<1> DEFINE Around == /\ hosted \in [Repos -> Switches] /\ month \in Nat \ {0}
                     /\ overdrawn \in BOOLEAN /\ healthy \in BOOLEAN /\ switchEvents \in Nat
           Books == /\ ledger \in Ledger /\ paused \subseteq Repos /\ told \subseteq Keys
                    /\ unfiled \subseteq told /\ overlapped \in BOOLEAN
           Tasks == runs \in [Switchers -> SRuns \cup {Off}]
<1>1. Around /\ Books /\ Tasks
  BY DEF STyped
<1>2. (Around /\ Books /\ Tasks)' => STyped'
  BY DEF STyped
<1>3. Around'
  <2>1. /\ hosted \in [Repos -> Switches] /\ month \in Nat \ {0}
        /\ overdrawn \in BOOLEAN /\ healthy \in BOOLEAN /\ switchEvents \in Nat
    BY <1>1
  <2>2. ASSUME UNCHANGED <<month, overdrawn, healthy>>,
               switchEvents' = switchEvents \/ switchEvents' = switchEvents + 1,
               hosted' \in [Repos -> Switches]
        PROVE  Around'
    BY <2>1, <2>2
  <2>3. ASSUME UNCHANGED hosted,
               month' = month \/ month' = month + 1,
               overdrawn' \in BOOLEAN, healthy' \in BOOLEAN,
               switchEvents' = switchEvents \/ switchEvents' = switchEvents + 1
        PROVE  Around'
    BY <2>1, <2>3
  <2> HIDE DEF Around
  <2>4. CASE UNCHANGED switchVars
    BY <2>1, <2>2, <2>4 DEF switchVars
  <2>5. CASE ByHand
    <3>1. PICK r \in Repos, s \in Switches : hosted' = [hosted EXCEPT ![r] = s]
      BY <2>5 DEF ByHand
    <3>2. hosted' \in [Repos -> Switches]
      BY <2>1, <3>1
    <3> QED BY <2>2, <2>5, <3>2 DEF ByHand, Event
  <2>6. CASE NextMonth
    BY <2>1, <2>3, <2>6 DEF NextMonth, Event
  <2>7. CASE Overdraw
    BY <2>1, <2>3, <2>7 DEF Overdraw, Event
  <2>8. CASE NetworkChange
    BY <2>1, <2>3, <2>8, SwitchAssumption DEF NetworkChange, Event, SwitchAssumption
  <2>9. ASSUME NEW k \in Keys, Expire(k)
        PROVE  Around'
    BY <2>1, <2>2, <2>9 DEF Expire, outside
  <2>10. ASSUME NEW p \in Switchers, StartRun(p) \/ SwitchStep(p) \/ Abort(p)
         PROVE  Around'
    <3>1. CASE Permit(p) \/ Revive(p)
      <4>1. UNCHANGED outside
        BY <3>1 DEF Permit, Revive
      <4>2. hosted' \in [Repos -> Switches]
        <5>1. RunOK(p)
          OBVIOUS
        <5>2. runs[p] \in SRuns
          BY <3>1, <5>1, PermitGoes, ReviveGoes
        <5>3. runs[p].row \in Repos
          BY <5>2 DEF SRuns
        <5>4. PICK onn \in BOOLEAN : onn = (runs[p].cmd = "enable")
          OBVIOUS
        <5>5. \/ hosted' = [hosted EXCEPT ![runs[p].row].on = onn]
              \/ hosted' = [hosted EXCEPT ![runs[p].row].flow = "active"]
              \/ hosted' = hosted
          <6>1. CASE Permit(p)
            BY <5>1, <5>4, <6>1, PermitGoes
          <6>2. CASE Revive(p)
            BY <5>1, <6>2, ReviveGoes
          <6> QED BY <3>1, <6>1, <6>2
        <5>6. hosted[runs[p].row] \in Switches
          BY <2>1, <5>3
        <5>7. /\ [hosted[runs[p].row] EXCEPT !.on = onn] \in Switches
              /\ [hosted[runs[p].row] EXCEPT !.flow = "active"] \in Switches
          BY <5>6 DEF Switches
        <5> QED BY <2>1, <5>3, <5>5, <5>7
      <4> QED BY <2>2, <4>1, <4>2 DEF outside
    <3>2. CASE AnswerLost(p)
      <4>1. UNCHANGED outside
        BY <3>2 DEF AnswerLost
      <4>2. RunOK(p)
        OBVIOUS
      <4>3. hosted' \in [Repos -> Switches]
        BY <3>2, <4>2, LostGoes
      <4> QED BY <2>2, <4>1, <4>3 DEF outside
    <3>3. CASE ~(Permit(p) \/ Revive(p) \/ AnswerLost(p))
      <4>1. UNCHANGED <<hosted, month, overdrawn, healthy>>
        BY <2>10, <3>3 DEF SwitchStep, StartRun, VisitFailed, Visit, CallFailed, SaveRun,
             Examine, Judge, Send, SendFailed, SaveTold, Abort, outside
      <4>2. switchEvents' = switchEvents \/ switchEvents' = switchEvents + 1
        BY <2>10, <3>3 DEF SwitchStep, StartRun, VisitFailed, Visit, CallFailed, SaveRun,
             Examine, Judge, Send, SendFailed, SaveTold, Abort, outside, Event
      <4> QED BY <2>1, <2>2, <4>1, <4>2
    <3> QED BY <3>1, <3>2, <3>3
  <2> QED BY <2>4, <2>5, <2>6, <2>7, <2>8, <2>9, <2>10 DEF SwitchNext
<1>4. Tasks'
  <2> HIDE DEF Tasks
  <2>1. CASE UNCHANGED switchVars
    <3>1. runs' = runs /\ month' = month
      BY <2>1 DEF switchVars
    <3> QED BY <1>1, <3>1, SameMonth DEF Tasks
  <2>2. CASE ByHand \/ NextMonth \/ Overdraw \/ NetworkChange \/ \E k \in Keys : Expire(k)
    BY <2>2, AroundGoes DEF Tasks
  <2>3. ASSUME NEW p \in Switchers, StartRun(p) \/ SwitchStep(p) \/ Abort(p)
        PROVE  Tasks'
    <3>1. RunOK(p)
      OBVIOUS
    <3>2. runs' \in [Switchers -> SRuns' \cup {Off}]
      BY <2>3, <3>1, StartGoes, FailureGoes, VisitGoes, PermitGoes, ReviveGoes, LostGoes,
         ExamineGoes, JudgeGoes, SendGoes, EndGoes DEF SwitchStep
    <3> QED BY <3>2 DEF Tasks
  <2> QED BY <2>1, <2>2, <2>3 DEF SwitchNext
<1>5. Books'
  <2>1. /\ ledger \in Ledger /\ paused \subseteq Repos /\ told \subseteq Keys
        /\ unfiled \subseteq told /\ overlapped \in BOOLEAN
    BY <1>1
  <2>2. month \in Nat /\ (month' = month => Ledger' = Ledger)
    BY <1>1, SameMonth
  <2> HIDE DEF Books
  <2>3. ASSUME UNCHANGED <<ledger, paused, told, unfiled>>, overlapped' \in BOOLEAN,
               Ledger \subseteq Ledger'
        PROVE  Books'
    BY <2>1, <2>3 DEF Books
  <2>4. CASE UNCHANGED switchVars
    BY <2>1, <2>2, <2>3, <2>4 DEF switchVars
  <2>5. CASE ByHand
    <3>1. /\ UNCHANGED <<month, ledger, told, unfiled, overlapped>>
          /\ paused' \subseteq paused
      BY <2>5 DEF ByHand
    <3> QED BY <2>1, <2>2, <3>1 DEF Books
  <2>6. CASE NextMonth
    <3>1. /\ UNCHANGED <<ledger, paused, told, unfiled, overlapped>> /\ month' = month + 1
      BY <2>6 DEF NextMonth
    <3>2. Ledger \subseteq Ledger'
      BY <2>2, <3>1 DEF Ledger
    <3> QED BY <2>1, <2>3, <3>1, <3>2
  <2>7. CASE Overdraw \/ NetworkChange
    BY <2>1, <2>2, <2>3, <2>7 DEF Overdraw, NetworkChange
  <2>8. ASSUME NEW k \in Keys, Expire(k)
        PROVE  Books'
    <3>1. /\ ledger' = [ledger EXCEPT !.recent = @ \ {k}] /\ month' = month
          /\ told' = told \ {k} /\ unfiled' = unfiled \ {k} /\ UNCHANGED <<paused, overlapped>>
      BY <2>8 DEF Expire, outside
    <3>2. ledger' \in Ledger
      <4>1. ledger.recent \ {k} \subseteq Keys
        BY <2>1 DEF Ledger
      <4> QED BY <2>1, <3>1, <4>1 DEF Ledger
    <3> QED BY <2>1, <2>2, <3>1, <3>2 DEF Books
  <2>9. ASSUME NEW p \in Switchers, StartRun(p) \/ SwitchStep(p) \/ Abort(p)
        PROVE  Books'
    <3>0. RunOK(p) /\ month' = month
      BY <2>9 DEF StartRun, SwitchStep, VisitFailed, Visit, Permit, Revive, CallFailed,
           AnswerLost, SaveRun, Examine, Judge, Send, SendFailed, SaveTold, Abort, outside
    <3>1. CASE StartRun(p)
      <4>1. UNCHANGED <<ledger, paused, told, unfiled>> /\ overlapped' \in BOOLEAN
        BY <2>1, <3>1 DEF StartRun
      <4> QED BY <2>2, <2>3, <3>0, <4>1
    <3>2. CASE VisitFailed(p) \/ CallFailed(p) \/ Revive(p) \/ Examine(p)
      <4>1. UNCHANGED <<ledger, paused, told, unfiled, overlapped>>
        BY <3>0, <3>2, FailureGoes, ReviveGoes, ExamineGoes
      <4> QED BY <2>1, <2>2, <2>3, <3>0, <4>1
    <3>3. CASE Permit(p)
      <4>1. runs[p] \in SRuns /\ UNCHANGED <<told, unfiled, overlapped, ledger>>
            /\ paused' \subseteq paused \cup {runs[p].row}
        BY <3>0, <3>3, PermitGoes
      <4>2. runs[p].row \in Repos
        BY <4>1 DEF SRuns
      <4> QED BY <2>1, <2>2, <3>0, <4>1, <4>2 DEF Books
    <3>7. CASE Visit(p) \/ AnswerLost(p)
      <4>1. /\ runs[p] \in SRuns /\ UNCHANGED <<told, unfiled, overlapped, ledger>>
            /\ \/ paused' \subseteq paused
               \/ \E r \in runs[p].todo : paused' = paused \cup {r}
        BY <3>0, <3>7, VisitGoes, LostGoes
      <4>2. runs[p].todo \subseteq Repos
        BY <4>1 DEF SRuns
      <4> QED BY <2>1, <2>2, <3>0, <4>1, <4>2 DEF Books
    <3>4. CASE Judge(p)
      <4>1. /\ UNCHANGED <<paused, told, overlapped>> /\ unfiled' \subseteq unfiled \cup told
            /\ ledger' \in Ledger
        BY <2>1, <3>4, JudgeGoes
      <4> QED BY <2>1, <2>2, <3>0, <4>1 DEF Books
    <3>5. CASE Send(p) \/ SendFailed(p)
      <4>1. /\ UNCHANGED <<paused, ledger, overlapped>> /\ told' \subseteq Keys
            /\ unfiled' \subseteq told'
        BY <2>1, <3>5, SendGoes
      <4> QED BY <2>1, <2>2, <3>0, <4>1 DEF Books
    <3>6. CASE SaveRun(p) \/ SaveTold(p) \/ Abort(p)
      <4>1. UNCHANGED <<paused, told, unfiled>> /\ runs[p] \in SRuns
        BY <3>6, EndGoes
      <4>2. ledger' \in {ledger, runs[p].book} /\ overlapped' \in BOOLEAN
        BY <2>1, <3>6 DEF SaveRun, SaveTold, Abort, Quiet
      <4>3. runs[p].book \in Ledger
        BY <4>1 DEF SRuns
      <4> QED BY <2>1, <2>2, <3>0, <4>1, <4>2, <4>3 DEF Books
    <3> QED BY <2>9, <3>1, <3>2, <3>3, <3>4, <3>5, <3>6, <3>7 DEF SwitchStep
  <2> QED BY <2>4, <2>5, <2>6, <2>7, <2>8, <2>9 DEF SwitchNext
<1> HIDE DEF Around, Books, Tasks
<1> QED BY <1>2, <1>3, <1>4, <1>5

-----------------------------------------------------------------------------
(* One run after the other.                                                *)

\* While runs have not overlapped, a run that takes a step is the only one.
LEMMA Alone ==
  ASSUME STyped, Orderly, ~overlapped, NEW p \in Switchers, runs[p] # Off,
         \A q \in Switchers \ {p} : Kept(q)
  PROVE  \A q \in Switchers \ {p} : runs[q] = Off /\ runs'[q] = Off
BY DEF Orderly, Kept

\* What Orderly asks for then.
LEMMA OneRun ==
  ASSUME NEW p \in Switchers,
         \A r \in paused' : ~hosted'[r].on,
         ~overlapped' =>
           /\ \A q \in Switchers \ {p} : runs'[q] = Off
           /\ runs'[p] = Off \/ runs'[p].cmd = "check" => HasReasons(ledger)'
           /\ runs'[p].at # "save" => HasTold(ledger)'
           /\ ledger'.recent \subseteq told'
           /\ runs'[p] # Off => /\ (HasReasons(runs[p].book))' /\ (HasTold(runs[p].book))'
                                /\ runs'[p].at = "flows" => runs'[p].row \notin paused'
  PROVE  Orderly'
BY DEF Orderly, Running

LEMMA PausedStaysOff ==
  ASSUME STyped, SwitchAssumption, \A p \in Switchers : RunOK(p), Orderly,
         [SwitchNext]_switchVars
  PROVE  \A r \in paused' : ~hosted'[r].on
<1>1. /\ hosted \in [Repos -> Switches] /\ paused \subseteq Repos
      /\ \A r \in paused : ~hosted[r].on
  BY DEF STyped, Orderly
<1>2. CASE UNCHANGED <<hosted, paused>>
  BY <1>1, <1>2
<1>3. CASE ByHand
  <2>1. PICK r \in Repos, s \in Switches :
          /\ hosted' = [hosted EXCEPT ![r] = s]
          /\ paused' = IF s.on = hosted[r].on THEN paused ELSE paused \ {r}
    BY <1>3 DEF ByHand
  <2> QED BY <1>1, <2>1
<1>4. ASSUME NEW p \in Switchers, Permit(p)
      PROVE  \A r \in paused' : ~hosted'[r].on
  <2>1. RunOK(p)
    OBVIOUS
  <2>2. runs[p] \in SRuns
    BY <1>4, <2>1, PermitGoes
  <2>3. runs[p].row \in Repos
    BY <2>2 DEF SRuns
  <2>4. hosted[runs[p].row] \in Switches
    BY <1>1, <2>3
  <2>5. hosted' = [hosted EXCEPT ![runs[p].row].on = runs[p].cmd = "enable"]
    BY <1>4, <2>1, PermitGoes
  <2>6. CASE runs[p].cmd = "enable"
    <3>1. paused' = paused \ {runs[p].row}
      BY <1>4, <2>1, <2>6, PermitGoes
    <3> QED BY <1>1, <2>3, <2>5, <3>1
  <2>7. CASE runs[p].cmd # "enable"
    <3>1. paused' \subseteq paused \cup {runs[p].row}
      BY <1>4, <2>1, PermitGoes
    <3>2. hosted' = [hosted EXCEPT ![runs[p].row].on = FALSE]
      <4>1. (runs[p].cmd = "enable") = FALSE
        BY <2>7
      <4> QED BY <2>5, <4>1
    <3>3. ~hosted'[runs[p].row].on
      BY <1>1, <2>3, <2>4, <3>2 DEF Switches
    <3> QED BY <1>1, <2>3, <3>1, <3>2, <3>3
  <2> QED BY <2>6, <2>7
<1>5. ASSUME NEW p \in Switchers, Revive(p)
      PROVE  \A r \in paused' : ~hosted'[r].on
  <2>1. RunOK(p)
    OBVIOUS
  <2>2. runs[p] \in SRuns /\ paused' = paused
    BY <1>5, <2>1, ReviveGoes
  <2>3. runs[p].row \in Repos
    BY <2>2 DEF SRuns
  <2>4. hosted[runs[p].row] \in Switches
    BY <1>1, <2>3
  <2>5. hosted' = [hosted EXCEPT ![runs[p].row].flow = "active"] \/ hosted' = hosted
    BY <1>5, <2>1, ReviveGoes
  <2>6. \A z \in Repos : hosted'[z].on = hosted[z].on
    BY <1>1, <2>3, <2>4, <2>5 DEF Switches
  <2> QED BY <1>1, <2>2, <2>6
<1>6. ASSUME NEW p \in Switchers, Visit(p)
      PROVE  \A r \in paused' : ~hosted'[r].on
  <2>1. /\ hosted' = hosted
        /\ paused' = paused \/ \E r \in runs[p].todo : /\ paused' = paused \cup {r}
                                                       /\ ~hosted[r].on
    BY <1>6, VisitGoes
  <2> QED BY <1>1, <2>1
<1>7. ASSUME NEW p \in Switchers, AnswerLost(p)
      PROVE  \A r \in paused' : ~hosted'[r].on
  <2>1. RunOK(p)
    OBVIOUS
  <2>2. /\ paused' \subseteq paused
        /\ \A z \in Repos \ {runs[p].row} : hosted'[z] = hosted[z]
        /\ hosted'[runs[p].row].on => hosted[runs[p].row].on \/ runs[p].row \notin paused'
    BY <1>7, <2>1, LostGoes
  <2> QED BY <1>1, <2>2
<1>8. \/ UNCHANGED <<hosted, paused>> \/ ByHand
      \/ \E p \in Switchers : Visit(p) \/ Permit(p) \/ Revive(p) \/ AnswerLost(p)
  BY DEF SwitchNext, switchVars, NextMonth, Overdraw, NetworkChange, Expire, StartRun,
     SwitchStep, VisitFailed, CallFailed, SaveRun, Examine, Judge, Send, SendFailed, SaveTold,
     Abort, Quiet
<1> QED BY <1>2, <1>3, <1>4, <1>5, <1>6, <1>7, <1>8

LEMMA OrderlyStep ==
  ASSUME STyped, SwitchAssumption, \A p \in Switchers : RunOK(p), Orderly,
         [SwitchNext]_switchVars
  PROVE  Orderly'
<1>1. \A r \in paused' : ~hosted'[r].on
  BY PausedStaysOff
<1>2. /\ paused \subseteq Repos /\ unfiled \subseteq told /\ ledger \in Ledger
      /\ hosted \in [Repos -> Switches]
      /\ \A r \in paused : ~hosted[r].on
  BY DEF STyped, Orderly
<1>3. CASE UNCHANGED switchVars
  BY <1>3 DEF switchVars, Orderly, HasReasons, HasTold, Running
<1>4. ASSUME UNCHANGED <<ledger, told, unfiled, overlapped>>, paused' \subseteq paused,
             \A q \in Switchers : Kept(q) /\ (runs[q] # Off => runs'[q].book = runs[q].book)
      PROVE  Orderly'
  <2> SUFFICES ASSUME ~overlapped
               PROVE  Orderly'
    BY <1>1, <1>4 DEF Orderly
  <2>1. \A q \in Switchers :
          /\ runs[q] = Off <=> runs'[q] = Off
          /\ Running(q, "save") <=> runs'[q].at = "save"
          /\ runs[q] # Off => runs'[q].cmd = runs[q].cmd /\ runs'[q].at = runs[q].at
                              /\ runs'[q].row = runs[q].row
    <3>1. Off \notin SRuns'
      BY DEF SRuns, Off
    <3> QED BY <1>4, <3>1, NotOff DEF Kept, Running
  <2> QED BY <1>1, <1>4, <2>1 DEF Orderly, HasReasons, HasTold, Running
<1>5. CASE ByHand \/ NextMonth \/ Overdraw \/ NetworkChange
  <2>1. UNCHANGED <<ledger, told, unfiled, overlapped>> /\ paused' \subseteq paused
    BY <1>5 DEF ByHand, NextMonth, Overdraw, NetworkChange
  <2>2. \A q \in Switchers : Kept(q)
    BY <1>5, AroundGoes
  <2>3. \A q \in Switchers : runs[q] # Off => runs'[q].book = runs[q].book
    <3>1. CASE ByHand
      <4> SUFFICES ASSUME NEW q \in Switchers, runs[q] # Off
                   PROVE  runs'[q].book = runs[q].book
        OBVIOUS
      <4>1. PICK r \in Repos : runs' = Disturb(r, "nobody", Off)
        BY <3>1 DEF ByHand
      <4>2. q # "nobody" /\ runs[q] \in SRuns
        BY SwitchAssumption, RunTyped DEF SwitchAssumption, Switchers
      <4>3. runs'[q] = runs[q] \/ runs'[q] = [runs[q] EXCEPT !.others = @ \cup {r}]
        BY <4>1, <4>2 DEF Disturb
      <4> QED BY <4>2, <4>3 DEF SRuns
    <3>2. CASE NextMonth \/ Overdraw \/ NetworkChange
      BY <3>2 DEF NextMonth, Overdraw, NetworkChange
    <3> QED BY <1>5, <3>1, <3>2
  <2> QED BY <1>4, <2>1, <2>2, <2>3
<1>6. ASSUME NEW k \in Keys, Expire(k)
      PROVE  Orderly'
  <2> SUFFICES ASSUME ~overlapped
               PROVE  Orderly'
    BY <1>1, <1>6 DEF Orderly, Expire
  <2>1. /\ ledger' = [ledger EXCEPT !.recent = @ \ {k}]
        /\ told' = told \ {k} /\ unfiled' = unfiled \ {k} /\ paused' = paused
        /\ runs' = [p \in Switchers |-> IF Running(p, "off") THEN Off
                                  ELSE [runs[p] EXCEPT !.book.recent = @ \ {k}]]
    BY <1>6 DEF Expire
  <2>2. ledger'.recent = ledger.recent \ {k} /\ ledger'.note = ledger.note
    BY <1>2, <2>1 DEF Ledger
  <2>3. \A q \in Switchers :
          /\ runs[q] = Off <=> runs'[q] = Off
          /\ Running(q, "save") <=> runs'[q].at = "save"
          /\ runs[q] # Off =>
               /\ runs'[q].cmd = runs[q].cmd /\ runs'[q].at = runs[q].at
               /\ runs'[q].row = runs[q].row /\ runs'[q].book.note = runs[q].book.note
               /\ runs'[q].book.recent = runs[q].book.recent \ {k}
    <3> SUFFICES ASSUME NEW q \in Switchers
                 PROVE  /\ runs[q] = Off <=> runs'[q] = Off
                        /\ Running(q, "save") <=> runs'[q].at = "save"
                        /\ runs[q] # Off =>
                             /\ runs'[q].cmd = runs[q].cmd /\ runs'[q].at = runs[q].at
                             /\ runs'[q].row = runs[q].row
                             /\ runs'[q].book.note = runs[q].book.note
                             /\ runs'[q].book.recent = runs[q].book.recent \ {k}
      OBVIOUS
    <3>1. CASE runs[q] = Off
      BY <2>1, <3>1, NotOff DEF Running
    <3>2. CASE runs[q] \in SRuns
      <4>1. runs[q].book \in Ledger /\ runs[q] # Off /\ ~Running(q, "off")
        BY <3>2, NotOff DEF SRuns, Running
      <4>2. PICK b : b = [runs[q].book EXCEPT !.recent = @ \ {k}]
        OBVIOUS
      <4>3. b.note = runs[q].book.note /\ b.recent = runs[q].book.recent \ {k}
        BY <4>1, <4>2 DEF Ledger
      <4>4. runs'[q] = [runs[q] EXCEPT !.book = b]
        BY <2>1, <4>1, <4>2
      <4>5. /\ runs'[q].cmd = runs[q].cmd /\ runs'[q].at = runs[q].at
            /\ runs'[q].row = runs[q].row /\ runs'[q].book = b
        BY <3>2, <4>4 DEF SRuns
      <4> QED BY <3>2, <4>1, <4>3, <4>5, NotOff DEF Running
    <3> QED BY <3>1, <3>2 DEF STyped
  <2>5. HasTold(ledger) => HasTold(ledger)'
    BY <2>1, <2>2 DEF HasTold
  <2>6. \A q \in Switchers : runs[q] # Off =>
          /\ (HasTold(runs[q].book))'
          /\ (HasReasons(runs[q].book))'
    <3> SUFFICES ASSUME NEW q \in Switchers, runs[q] # Off
                 PROVE  (HasTold(runs[q].book))' /\ (HasReasons(runs[q].book))'
      OBVIOUS
    <3>1. HasTold(runs[q].book) /\ HasReasons(runs[q].book)
      BY DEF Orderly
    <3>2. /\ runs'[q].book.note = runs[q].book.note
          /\ runs'[q].book.recent = runs[q].book.recent \ {k}
      BY <2>3
    <3> QED BY <2>1, <3>1, <3>2 DEF HasTold, HasReasons
  <2>7. HasReasons(ledger) => HasReasons(ledger)'
    BY <2>1, <2>2 DEF HasReasons
  <2>8. ledger.recent \subseteq told => ledger'.recent \subseteq told'
    BY <2>1, <2>2
  <2>9. ~overlapped' =>
       /\ \A p, q \in Switchers : runs'[p] # Off /\ runs'[q] # Off => p = q
       /\ (\A p \in Switchers : runs'[p] = Off \/ runs'[p].cmd = "check") => HasReasons(ledger)'
       /\ (\A p \in Switchers : runs'[p].at # "save") => HasTold(ledger)'
       /\ ledger'.recent \subseteq told'
       /\ \A p \in Switchers : runs'[p] # Off =>
            /\ (HasReasons(runs[p].book))' /\ (HasTold(runs[p].book))'
            /\ runs'[p].at = "flows" => runs'[p].row \notin paused'
    BY <2>1, <2>3, <2>5, <2>6, <2>7, <2>8 DEF Orderly
  <2> QED BY <1>1, <2>9 DEF Orderly, Running
<1>7. ASSUME NEW p \in Switchers, StartRun(p) \/ SwitchStep(p) \/ Abort(p)
      PROVE  Orderly'
  <2>0. RunOK(p) /\ (runs[p] \in SRuns => runs[p] # Off)
    BY NotOff
  <2>1. ASSUME ~overlapped, runs[p] \in SRuns, \A q \in Switchers \ {p} : Kept(q)
        PROVE  /\ \A q \in Switchers \ {p} : runs[q] = Off /\ runs'[q] = Off
               /\ HasReasons(runs[p].book) /\ HasTold(runs[p].book)
               /\ ledger.recent \subseteq told
               /\ runs[p].cmd = "check" => HasReasons(ledger)
               /\ runs[p].at # "save" => HasTold(ledger)
               /\ runs[p].at = "flows" => runs[p].row \notin paused
    <3>1. \A q \in Switchers \ {p} : runs[q] = Off /\ runs'[q] = Off
      BY <2>0, <2>1, Alone
    <3>2. runs[p] # Off
      BY <2>0, <2>1
    <3> QED BY <2>0, <2>1, <3>1, <3>2, NotOff DEF Orderly, Running
  <2>2. CASE StartRun(p)
    <3> SUFFICES ASSUME ~overlapped'
                 PROVE  Orderly'
      BY <1>1 DEF Orderly
    <3>1. /\ runs'[p] \in SRuns /\ \A q \in Switchers \ {p} : Kept(q)
          /\ runs[p] = Off /\ runs'[p].at = "visit" /\ runs'[p].book = ledger
      BY <2>2, StartGoes
    <3>2. UNCHANGED <<ledger, paused, told, unfiled, overlapped>>
          /\ \A q \in Switchers : Running(q, "off")
      BY <2>2 DEF StartRun
    <3>3. \A q \in Switchers : runs[q] = Off
      BY <3>2, RunTyped DEF Running
    <3>4. \A q \in Switchers \ {p} : runs'[q] = Off
      BY <3>1, <3>3 DEF Kept
    <3>5. HasReasons(ledger) /\ HasTold(ledger) /\ ledger.recent \subseteq told
      BY <3>2, <3>3 DEF Orderly, Running, Off
    <3>6. runs'[p].at # "flows"
      BY <3>1
    <3>7. HasReasons(ledger)' /\ HasTold(ledger)' /\ ledger'.recent \subseteq told'
      BY <3>2, <3>5 DEF HasReasons, HasTold
    <3>8. (HasReasons(runs[p].book))' /\ (HasTold(runs[p].book))'
      BY <3>1, <3>2, <3>5 DEF HasReasons, HasTold
    <3> QED BY <1>1, <3>4, <3>6, <3>7, <3>8, OneRun
  <2>3. ASSUME overlapped' = overlapped, runs[p] \in SRuns,
               \A q \in Switchers \ {p} : Kept(q),
               ~overlapped =>
                 /\ runs'[p] = Off \/ runs'[p].cmd = "check" => HasReasons(ledger)'
                 /\ runs'[p].at # "save" => HasTold(ledger)'
                 /\ ledger'.recent \subseteq told'
                 /\ runs'[p] # Off => /\ (HasReasons(runs[p].book))' /\ (HasTold(runs[p].book))'
                                      /\ runs'[p].at = "flows" => runs'[p].row \notin paused'
        PROVE  Orderly'
    BY <1>1, <2>1, <2>3, OneRun
  <2>4. ASSUME UNCHANGED <<ledger, told, unfiled, overlapped>>, runs[p] \in SRuns,
               paused' = paused \/ runs[p].cmd # "check",
               \A q \in Switchers \ {p} : Kept(q), runs[p].at # "save",
               runs'[p].cmd = runs[p].cmd, runs'[p].book.recent = runs[p].book.recent,
               \A z \in paused' : (z \in paused => runs[p].book.note[z] # 0)
                                      => runs'[p].book.note[z] # 0,
               ~overlapped /\ runs'[p].at = "flows" => runs'[p].row \notin paused',
               runs'[p] # Off
        PROVE  Orderly'
    <3>1. ~overlapped =>
                 /\ runs'[p] = Off \/ runs'[p].cmd = "check" => HasReasons(ledger)'
                 /\ runs'[p].at # "save" => HasTold(ledger)'
                 /\ ledger'.recent \subseteq told'
                 /\ runs'[p] # Off => /\ (HasReasons(runs[p].book))' /\ (HasTold(runs[p].book))'
                                      /\ runs'[p].at = "flows" => runs'[p].row \notin paused'
      BY <2>1, <2>4 DEF HasReasons, HasTold
    <3> QED BY <2>3, <2>4, <3>1
  <2>5. CASE VisitFailed(p) \/ CallFailed(p)
    <3>1. /\ UNCHANGED <<ledger, paused, told, unfiled, overlapped>> /\ runs[p] \in SRuns
          /\ \A q \in Switchers \ {p} : Kept(q)
          /\ runs[p].cmd # "check"
          /\ \E todo \in SUBSET Repos : Goes(p, "visit", todo, runs[p].book)
      <4>1. runs[p].todo \subseteq Repos
        BY <2>0, <2>5, FailureGoes DEF SRuns
      <4>2. \A r \in Repos : runs[p].todo \ {r} \in SUBSET Repos
        BY <4>1
      <4> QED BY <2>0, <2>5, <4>2, FailureGoes
    <3>2. runs[p].at # "save"
      BY <2>0, <3>1 DEF RunOK
    <3>3. /\ runs'[p].cmd = runs[p].cmd /\ runs'[p].book = runs[p].book
          /\ runs'[p] # Off /\ runs'[p].at = "visit"
      BY <3>1, NotOff DEF Goes
    <3> QED BY <2>4, <3>1, <3>2, <3>3
  <2>6. CASE Visit(p)
    <3>1. /\ UNCHANGED <<hosted, ledger, told, unfiled, overlapped>>
          /\ runs[p] \in SRuns
          /\ \A q \in Switchers \ {p} : Kept(q)
          /\ runs[p].cmd # "check"
      BY <2>6, VisitGoes
    <3>2. runs[p].at # "save"
      BY <2>0, <3>1 DEF RunOK
    <3>3. PICK r \in runs[p].todo :
              \/ /\ hosted[r].archived /\ Goes(p, "visit", runs[p].todo \ {r}, runs[p].book)
                 /\ paused' = paused
              \/ /\ runs[p].cmd = "disable" /\ ~hosted[r].on /\ paused' = paused \cup {r}
                 /\ \E b \in Ledger : /\ Goes(p, "visit", runs[p].todo \ {r}, b)
                                      /\ b.recent = runs[p].book.recent /\ b.note[r] # 0
                                      /\ \A z \in Repos : runs[p].book.note[z] # 0 => b.note[z] # 0
              \/ /\ runs'[p].row = r /\ runs'[p].seen = hosted[r] /\ paused' = paused
                 /\ \/ /\ Goes(p, "flows", runs[p].todo, runs[p].book)
                       /\ runs[p].cmd = "enable" /\ hosted[r].on
                    \/ /\ Goes(p, "permit", runs[p].todo, runs[p].book)
                       /\ runs[p].cmd = "enable" => ~hosted[r].on
      BY <2>6, VisitGoes
    <3>4. /\ runs'[p].cmd = runs[p].cmd /\ runs'[p] # Off
          /\ runs'[p].book.recent = runs[p].book.recent
          /\ \A z \in paused' : (z \in paused => runs[p].book.note[z] # 0)
                                 => runs'[p].book.note[z] # 0
          /\ runs'[p].at = "flows" => runs'[p].row \notin paused'
      BY <1>2, <3>3, NotOff DEF Goes
    <3> QED BY <2>4, <3>1, <3>2, <3>4
  <2>7. CASE Examine(p)
    <3>1. /\ UNCHANGED <<ledger, paused, told, unfiled, overlapped>> /\ runs[p] \in SRuns
          /\ \A q \in Switchers \ {p} : Kept(q)
          /\ \E r \in Repos : Goes(p, "visit", runs[p].todo \ {r}, runs[p].book)
      BY <2>7, ExamineGoes
    <3>2. runs[p].at # "save"
      BY <2>7 DEF Examine, Running
    <3>3. /\ runs'[p].cmd = runs[p].cmd /\ runs'[p].book = runs[p].book
          /\ runs'[p] # Off /\ runs'[p].at = "visit"
      BY <3>1, NotOff DEF Goes
    <3> QED BY <2>4, <3>1, <3>2, <3>3
  <2>8. CASE Permit(p)
    <3>1. /\ runs[p] \in SRuns /\ \A q \in Switchers \ {p} : Kept(q)
          /\ UNCHANGED <<told, unfiled, overlapped, ledger>>
          /\ runs[p].at = "permit"
      BY <2>0, <2>8, PermitGoes
    <3>2. /\ runs'[p] # Off /\ runs'[p].cmd = runs[p].cmd /\ runs[p].cmd # "check"
          /\ runs'[p].book.recent = runs[p].book.recent
          /\ runs'[p].at # "save"
          /\ \A z \in paused' : (z \in paused => runs[p].book.note[z] # 0)
                                  => runs'[p].book.note[z] # 0
          /\ runs'[p].at = "flows" => runs'[p].row \notin paused'
      <4>1. CASE /\ Goes(p, "flows", runs[p].todo, runs[p].book)
                 /\ runs'[p].row = runs[p].row
                 /\ paused' = paused \ {runs[p].row} /\ runs[p].cmd = "enable"
        BY <4>1, NotOff DEF Goes
      <4>2. CASE /\ runs[p].cmd = "disable" /\ paused' = paused \cup {runs[p].row}
                 /\ \E b \in Ledger :
                      /\ Goes(p, "visit", runs[p].todo \ {runs[p].row}, b)
                      /\ b.recent = runs[p].book.recent /\ b.note[runs[p].row] # 0
                      /\ \A z \in Repos : runs[p].book.note[z] # 0 => b.note[z] # 0
        BY <1>2, <4>2, NotOff DEF Goes
      <4> QED BY <2>0, <2>8, <4>1, <4>2, PermitGoes
    <3>3. ~overlapped =>
                 /\ runs'[p] = Off \/ runs'[p].cmd = "check" => HasReasons(ledger)'
                 /\ runs'[p].at # "save" => HasTold(ledger)'
                 /\ ledger'.recent \subseteq told'
                 /\ runs'[p] # Off => /\ (HasReasons(runs[p].book))' /\ (HasTold(runs[p].book))'
                                      /\ runs'[p].at = "flows" => runs'[p].row \notin paused'
      BY <2>1, <3>1, <3>2 DEF HasReasons, HasTold
    <3> QED BY <2>3, <3>1, <3>3
  <2>9. CASE Revive(p)
    <3>1. /\ runs[p] \in SRuns /\ \A q \in Switchers \ {p} : Kept(q)
          /\ UNCHANGED <<paused, told, unfiled, overlapped, ledger>>
          /\ runs[p].at = "flows" /\ runs[p].cmd = "enable"
      <4>1. runs[p] \in SRuns /\ runs[p].at = "flows"
        BY <2>0, <2>9, ReviveGoes
      <4>2. runs[p].cmd = "enable"
        BY <2>0, <4>1 DEF RunOK
      <4>3. /\ \A q \in Switchers \ {p} : Kept(q)
            /\ UNCHANGED <<paused, told, unfiled, overlapped, ledger>>
        BY <2>0, <2>9, ReviveGoes
      <4> QED BY <4>1, <4>2, <4>3
    <3>2. /\ runs'[p] # Off /\ runs'[p].cmd = runs[p].cmd /\ runs'[p].at = "visit"
          /\ runs'[p].book.recent = runs[p].book.recent
          /\ \A z \in Repos \ {runs[p].row} : runs'[p].book.note[z] = runs[p].book.note[z]
      <4>1. PICK b \in Ledger :
              /\ Goes(p, "visit", runs[p].todo \ {runs[p].row}, b)
              /\ b.recent = runs[p].book.recent
              /\ \A z \in Repos \ {runs[p].row} : b.note[z] = runs[p].book.note[z]
        BY <2>0, <2>9, ReviveGoes
      <4> QED BY <4>1, NotOff DEF Goes
    <3>3. ~overlapped =>
                 /\ runs'[p] = Off \/ runs'[p].cmd = "check" => HasReasons(ledger)'
                 /\ runs'[p].at # "save" => HasTold(ledger)'
                 /\ ledger'.recent \subseteq told'
                 /\ runs'[p] # Off => /\ (HasReasons(runs[p].book))' /\ (HasTold(runs[p].book))'
                                      /\ runs'[p].at = "flows" => runs'[p].row \notin paused'
      BY <1>2, <2>1, <3>1, <3>2 DEF HasReasons, HasTold
    <3> QED BY <2>3, <3>1, <3>3
  <2>10. CASE Judge(p)
    <3>1. /\ runs[p] \in SRuns /\ \A q \in Switchers \ {p} : Kept(q)
          /\ UNCHANGED <<paused, told, overlapped>>
          /\ runs[p].cmd = "check" /\ runs[p].at = "visit"
      BY <2>10, JudgeGoes
    <3>2. PICK found \in SUBSET Keys, b \in Ledger :
              /\ unfiled' = unfiled \cup (told \ found)
              /\ b.note = runs[p].book.note /\ b.recent = runs[p].book.recent \cap found
              /\ \/ ledger' = b /\ runs'[p] = Off
                 \/ ledger' = ledger /\ runs'[p] = Off
                 \/ /\ ledger' = ledger
                    /\ Goes(p, "send", runs[p].todo, b)
      BY <2>10, JudgeGoes
    <3>3. runs'[p].at # "save" /\ runs'[p].at # "flows" /\ (runs'[p] # Off => runs'[p].book = b)
      BY <3>2, NotOff DEF Goes
    <3>4. ledger' \in {ledger, b}
      BY <3>2
    <3>5. ~overlapped =>
            /\ HasReasons(ledger) /\ HasTold(ledger) /\ ledger.recent \subseteq told
            /\ HasReasons(runs[p].book) /\ HasTold(runs[p].book)
      BY <2>1, <3>1
    <3>6. ~overlapped =>
            /\ \A r \in paused' : b.note[r] # 0 /\ ledger.note[r] # 0
            /\ b.recent \subseteq told' /\ told' \ unfiled' \subseteq b.recent
            /\ ledger.recent \subseteq told' /\ told' \ unfiled' \subseteq ledger.recent
      BY <3>1, <3>2, <3>5 DEF HasReasons, HasTold
    <3>7. ~overlapped =>
                 /\ runs'[p] = Off \/ runs'[p].cmd = "check" => HasReasons(ledger)'
                 /\ runs'[p].at # "save" => HasTold(ledger)'
                 /\ ledger'.recent \subseteq told'
                 /\ runs'[p] # Off => /\ (HasReasons(runs[p].book))' /\ (HasTold(runs[p].book))'
                                      /\ runs'[p].at = "flows" => runs'[p].row \notin paused'
      BY <3>3, <3>4, <3>6 DEF HasReasons, HasTold
    <3> QED BY <2>3, <3>1, <3>7
  <2>11. CASE Send(p) \/ SendFailed(p)
    <3>1. /\ runs[p] \in SRuns /\ \A q \in Switchers \ {p} : Kept(q)
          /\ UNCHANGED <<paused, ledger, overlapped>>
          /\ runs[p].at = "send" /\ runs[p].cmd = "check"
      BY <2>0, <2>11, SendGoes DEF RunOK
    <3>2. ~overlapped =>
            /\ HasReasons(ledger) /\ HasTold(ledger) /\ ledger.recent \subseteq told
            /\ HasReasons(runs[p].book) /\ HasTold(runs[p].book)
      BY <2>1, <3>1
    <3>3. CASE /\ runs'[p] = Off
               /\ \E found \in SUBSET Keys :
                    told' = told \cup found /\ unfiled' = unfiled \cup found
      <4>1. ~overlapped =>
                 /\ runs'[p] = Off \/ runs'[p].cmd = "check" => HasReasons(ledger)'
                 /\ runs'[p].at # "save" => HasTold(ledger)'
                 /\ ledger'.recent \subseteq told'
                 /\ runs'[p] # Off => /\ (HasReasons(runs[p].book))' /\ (HasTold(runs[p].book))'
                                      /\ runs'[p].at = "flows" => runs'[p].row \notin paused'
        BY <3>1, <3>2, <3>3 DEF HasReasons, HasTold
      <4> QED BY <2>3, <3>1, <4>1
    <3>4. CASE \E found \in SUBSET Keys, b \in Ledger :
                 /\ told' = told \cup found /\ unfiled' = unfiled \ found
                 /\ b.note = runs[p].book.note /\ b.recent = runs[p].book.recent \cup found
                 /\ Goes(p, "save", runs[p].todo, b)
      <4>1. PICK found \in SUBSET Keys, b \in Ledger :
                 /\ told' = told \cup found /\ unfiled' = unfiled \ found
                 /\ b.note = runs[p].book.note /\ b.recent = runs[p].book.recent \cup found
                 /\ Goes(p, "save", runs[p].todo, b)
        BY <3>4
      <4>2. runs'[p].at = "save" /\ runs'[p].book = b
        BY <4>1 DEF Goes
      <4>3. ~overlapped =>
                 /\ runs'[p] = Off \/ runs'[p].cmd = "check" => HasReasons(ledger)'
                 /\ runs'[p].at # "save" => HasTold(ledger)'
                 /\ ledger'.recent \subseteq told'
                 /\ runs'[p] # Off => /\ (HasReasons(runs[p].book))' /\ (HasTold(runs[p].book))'
                                      /\ runs'[p].at = "flows" => runs'[p].row \notin paused'
        BY <3>1, <3>2, <4>1, <4>2 DEF HasReasons, HasTold
      <4> QED BY <2>3, <3>1, <4>3
    <3> QED BY <2>11, <3>3, <3>4, SendGoes
  <2>12. CASE SaveRun(p) \/ SaveTold(p)
    <3>1. /\ runs[p] \in SRuns /\ \A q \in Switchers \ {p} : Kept(q)
          /\ UNCHANGED <<paused, told, unfiled>> /\ runs'[p] = Off
      BY <2>12, EndGoes
    <3>2. ledger' = runs[p].book /\ UNCHANGED overlapped
      BY <2>12 DEF SaveRun, SaveTold, Quiet
    <3>3. ~overlapped => HasReasons(runs[p].book) /\ HasTold(runs[p].book)
      BY <2>1, <3>1
    <3>4. ~overlapped =>
                 /\ runs'[p] = Off \/ runs'[p].cmd = "check" => HasReasons(ledger)'
                 /\ runs'[p].at # "save" => HasTold(ledger)'
                 /\ ledger'.recent \subseteq told'
                 /\ runs'[p] # Off => /\ (HasReasons(runs[p].book))' /\ (HasTold(runs[p].book))'
                                      /\ runs'[p].at = "flows" => runs'[p].row \notin paused'
      BY <3>1, <3>2, <3>3 DEF HasReasons, HasTold
    <3> QED BY <2>3, <3>1, <3>2, <3>4
  <2>13. CASE Abort(p)
    BY <1>1, <2>13 DEF Abort, Orderly
  <2>14. CASE AnswerLost(p)
    <3>1. /\ UNCHANGED <<ledger, told, unfiled, overlapped>> /\ runs[p] \in SRuns
          /\ \A q \in Switchers \ {p} : Kept(q)
          /\ runs[p].cmd # "check" /\ paused' \subseteq paused
          /\ Goes(p, "visit", runs[p].todo \ {runs[p].row}, runs[p].book)
      BY <2>0, <2>14, LostGoes
    <3>2. runs[p].at # "save"
      BY <2>0, <3>1 DEF RunOK
    <3>3. /\ runs'[p].cmd = runs[p].cmd /\ runs'[p].book = runs[p].book
          /\ runs'[p] # Off /\ runs'[p].at = "visit"
      BY <3>1, NotOff DEF Goes
    <3> QED BY <2>4, <3>1, <3>2, <3>3
  <2> QED BY <1>7, <2>2, <2>5, <2>6, <2>7, <2>8, <2>9, <2>10, <2>11, <2>12, <2>13, <2>14
          DEF SwitchStep
<1> QED BY <1>3, <1>5, <1>6, <1>7 DEF SwitchNext

LEMMA SwitchInvStart == SwitchInit => SwitchInv
<1> SUFFICES ASSUME SwitchInit
             PROVE  SwitchInv
  OBVIOUS
<1>1. \A p \in Switchers : runs[p] = Off
  BY DEF SwitchInit
<1>2. STyped
  <2>1. hosted \in [Repos -> Switches]
    BY DEF SwitchInit, Switches
  <2>2. ledger \in Ledger /\ month \in Nat \ {0}
    BY DEF SwitchInit, Ledger
  <2>3. runs \in [Switchers -> SRuns \cup {Off}]
    BY DEF SwitchInit
  <2> QED BY <2>1, <2>2, <2>3 DEF SwitchInit, STyped
<1>3. \A p \in Switchers : RunOK(p)
  BY <1>1 DEF RunOK
<1>4. Orderly
  BY <1>1, NotOff DEF SwitchInit, Orderly, HasReasons, HasTold, Running
<1> QED BY <1>2, <1>3, <1>4 DEF SwitchInv

LEMMA SwitchInvStep == SwitchInv /\ [SwitchNext]_switchVars => SwitchInv'
<1> SUFFICES ASSUME STyped, \A p \in Switchers : RunOK(p), Orderly, [SwitchNext]_switchVars
             PROVE  SwitchInv'
  BY DEF SwitchInv
<1>1. SwitchAssumption
  BY SwitchAssumption
<1>2. STyped' /\ Orderly' /\ \A p \in Switchers : RunOK(p)'
  BY <1>1, STypedStep, RunOKStep, OrderlyStep
<1>3. Switchers' = Switchers
  BY DEF Switchers
<1> QED BY <1>2, <1>3 DEF SwitchInv

LEMMA SwitchAlways == SwitchInit /\ [][SwitchNext]_switchVars => []SwitchInv
BY SwitchInvStart, SwitchInvStep, PTL

LEMMA SwitchInvTyped == SwitchInv => SwitchTypeOK
<1> SUFFICES ASSUME STyped, \A p \in Switchers : RunOK(p), Orderly
             PROVE  SwitchTypeOK
  BY DEF SwitchInv
<1>1. \A p \in Switchers : ~Running(p, "off") =>
     /\ runs[p].book \in Ledger /\ runs[p].todo \subseteq runs[p].asked
     /\ runs[p].found \subseteq Keys /\ runs[p].row \in Repos
  <2> SUFFICES ASSUME NEW p \in Switchers, ~Running(p, "off")
               PROVE  /\ runs[p].book \in Ledger /\ runs[p].todo \subseteq runs[p].asked
                      /\ runs[p].found \subseteq Keys /\ runs[p].row \in Repos
    OBVIOUS
  <2>1. runs[p] # Off /\ runs[p] \in SRuns /\ RunOK(p)
    BY RunTyped DEF Running
  <2> QED BY <2>1 DEF SRuns, RunOK
<1>2. ~overlapped => /\ ledger.recent \subseteq told
                     /\ (\A p \in Switchers : ~Running(p, "save")) =>
                          told \ unfiled \subseteq ledger.recent
  BY DEF Orderly, HasTold
<1> QED BY <1>1, <1>2 DEF STyped, SwitchTypeOK

(***************************************************************************)
(* Pauses and announcements are what the file says they are: its entries,  *)
(* and those of the copies that runs work on, are notes and keys of this   *)
(* month or before, and unless runs overlap or one is killed the file      *)
(* names no announcement that was not made recently, and every one that a  *)
(* send has reported as delivered and no check has found resolved since.   *)
(***************************************************************************)
THEOREM SwitchTypeCorrect == SwitchSpec => []SwitchTypeOK
BY SwitchAlways, SwitchInvTyped, PTL DEF SwitchSpec

LEMMA SwitchInvRecorded == SwitchInv => PausesRecorded
<1> SUFFICES ASSUME STyped, Orderly, ~overlapped, \A p \in Switchers : Running(p, "off")
             PROVE  \A r \in paused : ~hosted[r].on => ledger.note[r] # 0
  BY DEF SwitchInv, PausesRecorded
<1>1. \A p \in Switchers : runs[p] = Off
  BY RunTyped DEF Running
<1> QED BY <1>1 DEF Orderly, HasReasons

(***************************************************************************)
(* A repository that disable has reported as off, and that has stayed off, *)
(* has its reason in the file once no run is under way, whatever GitHub    *)
(* and people did meanwhile and whatever calls failed or lost their answer *)
(* after it, unless two runs have overlapped or one was killed: the file   *)
(* is replaced whole, by the copy its last run has made.                   *)
(***************************************************************************)
THEOREM PausesAreRecorded == SwitchSpec => []PausesRecorded
BY SwitchInvRecorded, SwitchAlways, PTL DEF SwitchSpec

LEMMA EnableHolds == SwitchInit /\ [][SwitchNext]_switchVars => EnableIsComplete
<1> DEFINE Whole == \A p \in Switchers : SaveRun(p) /\ runs[p].cmd = "enable" =>
       \A r \in runs[p].asked \ (runs[p].failed \cup runs[p].others) :
         \/ hosted[r].archived
         \/ hosted[r].on /\ hosted[r].flow \notin Targets(runs[p].manual)
<1>1. SwitchInv => [Whole]_switchVars
  <2> SUFFICES ASSUME STyped, \A p \in Switchers : RunOK(p),
                      NEW p \in Switchers, SaveRun(p), runs[p].cmd = "enable"
               PROVE  \A r \in runs[p].asked \ (runs[p].failed \cup runs[p].others) :
                        \/ hosted[r].archived
                        \/ hosted[r].on /\ hosted[r].flow \notin Targets(runs[p].manual)
    BY DEF SwitchInv
  <2>1. runs[p] # Off /\ RunOK(p) /\ runs[p].todo = {}
    BY RunTyped DEF SaveRun, Running, Todo
  <2> QED BY <2>1 DEF RunOK
<1> QED BY <1>1, SwitchAlways, PTL DEF EnableIsComplete

(***************************************************************************)
(* When an enable run ends, what it was asked for runs: every repository   *)
(* it has not reported and nobody else has switched meanwhile is archived, *)
(* or on with none of the workflows it was to revive still switched off,   *)
(* also when it had to switch the repository on before it could list them. *)
(***************************************************************************)
THEOREM EnableCompletes == SwitchSpec => EnableIsComplete
BY EnableHolds DEF SwitchSpec

-----------------------------------------------------------------------------
(* JobGuardNotify                                                          *)

Plans == [at : Hours, dropped : SUBSET Events, due : BOOLEAN, waiting : SUBSET Services,
          through : 0 .. MaxEvents, notified : Hours \cup {Never}]

NTyped ==
  /\ now \in Hours /\ first \in [Services -> Hours \cup {Never}]
  /\ clock \in 0 .. MaxEvents /\ stamped \subseteq Events /\ log \subseteq Events
  /\ through \in 0 .. MaxEvents /\ notified \in Hours \cup {Never}
  /\ pc \in {"idle", "reading", "sending", "saving", "truncated"} /\ plan \in Plans
  /\ doubts \in 0 .. MaxDoubts /\ delivered \in [Events -> Nat]
  /\ spoken \in Hours \cup {Never} /\ calm \in BOOLEAN

\* What a run is about to tell is behind the cursor, and the cursor it saves is not
\* behind what it tells.
Planned ==
  /\ pc \in {"reading", "sending"} => \A e \in plan.dropped : e > through
  /\ pc \in {"sending", "saving", "truncated"} => \A e \in plan.dropped : e <= plan.through
  /\ pc = "sending" => plan.through \in plan.dropped \cup {through}
  /\ pc = "sending" /\ plan.due => plan.notified = plan.at
  /\ pc = "sending" /\ ~plan.due /\ ~calm => plan.notified = notified

\* What is not behind the cursor has been told only by sends of unknown outcome.
Counted ==
  /\ \A e \in Events : delivered[e] <= 1 + doubts
  /\ pc \in {"idle", "reading", "sending"} =>
       \A e \in Events : e > through => delivered[e] <= doubts
  /\ pc \in {"saving", "truncated"} =>
       \A e \in Events : e > plan.through => delivered[e] <= doubts

\* The hour in the file, or the one to be saved, is that of the last word on pressure.
Episode ==
  /\ ~calm => spoken # Never
  /\ ~calm /\ doubts = 0 =>
       IF pc \in {"saving", "truncated"} THEN plan.notified = spoken ELSE notified = spoken
  /\ pc = "sending" /\ plan.due /\ ~calm /\ doubts = 0 => plan.at - spoken >= Renotify

NotifyInv == NTyped /\ Planned /\ Counted /\ Episode

\* One event is stamped and appended after the other, so that the log is whole up to
\* what is being appended, and up to the cursor everything was told.
Whole ==
  /\ stamped \subseteq {clock} /\ log = (1 .. clock) \ stamped
  /\ \A e \in Events : e <= through => delivered[e] > 0
  /\ pc \in {"reading", "sending"} =>
       \A d \in plan.dropped, e \in Events : e < d => e \in plan.dropped \/ delivered[e] > 0
  /\ pc \in {"saving", "truncated"} =>
       \A e \in Events : e <= plan.through => delivered[e] > 0

LEMMA NotifyConstants ==
  /\ MaxEvents \in Nat /\ MaxTime \in Nat /\ Pressure \in Nat /\ Renotify \in Nat
  /\ MaxDoubts \in Nat
BY TimeAssumption, FaultsAssumption

\* Among events there is a latest: the intervals that end at MaxEvents are finite,
\* and shrink as their first element grows.
LEMMA Latest ==
  ASSUME NEW S \in (SUBSET Events) \ {{}}
  PROVE  \E m \in S : \A e \in S : m >= e
<1> DEFINE T == {n .. MaxEvents : n \in S}
           R == StrictSubsetOrdering(Nat)
<1>1. IsWellFoundedOn(R, FiniteSubsetsOf(Nat))
  BY FS_StrictSubsetOrderingWellFounded
<1>2. T \subseteq FiniteSubsetsOf(Nat) /\ T # {}
  <2>1. \A n \in Events : n .. MaxEvents \in SUBSET Nat /\ IsFiniteSet(n .. MaxEvents)
    BY NotifyConstants, FS_Interval DEF Events
  <2> QED BY <2>1 DEF FiniteSubsetsOf
<1>3. PICK x \in T : \A y \in T : ~(<<y, x>> \in R)
  <2> HIDE DEF R, T
  <2> QED BY <1>1, <1>2, WFMin
<1>4. PICK m \in S : x = m .. MaxEvents
  OBVIOUS
<1>5. ASSUME NEW e \in S, ~(m >= e) PROVE FALSE
  <2>1. m \in Nat /\ e \in Nat /\ m <= MaxEvents
    BY NotifyConstants DEF Events
  <2>2. e .. MaxEvents \subseteq m .. MaxEvents /\ m \in m .. MaxEvents
        /\ m \notin e .. MaxEvents
    BY <1>5, <2>1, NotifyConstants
  <2>3. <<e .. MaxEvents, m .. MaxEvents>> \in R
    <3>1. e .. MaxEvents \in SUBSET Nat /\ m .. MaxEvents \in SUBSET Nat
      BY <2>1, NotifyConstants
    <3>2. e .. MaxEvents # m .. MaxEvents
      BY <2>2
    <3> QED BY <2>2, <3>1, <3>2 DEF StrictSubsetOrdering
  <2> QED BY <2>3, <1>3, <1>4
<1> QED BY <1>5

\* The cursor that a run saves is the latest of what it tells and of the old one.
LEMMA NewThroughIs ==
  ASSUME NTyped, Planned, pc = "reading"
  PROVE  /\ NewThrough \in plan.dropped \cup {through}
         /\ \A e \in plan.dropped : e <= NewThrough
<1>1. plan.dropped \subseteq Events /\ through \in Nat
  BY NotifyConstants DEF NTyped, Plans
<1>2. \A e \in plan.dropped : e \in Nat
  BY <1>1 DEF Events
<1>3. \E t \in plan.dropped \cup {through} : \A e \in plan.dropped : t >= e
  <2>1. CASE plan.dropped = {}
    BY <2>1
  <2>2. CASE plan.dropped # {}
    BY <1>1, <2>2, Latest
  <2> QED BY <2>1, <2>2
<1>4. PICK t : t = NewThrough
  OBVIOUS
<1>5. t \in plan.dropped \cup {through} /\ \A e \in plan.dropped : t >= e
  BY <1>3, <1>4 DEF NewThrough
<1> QED BY <1>1, <1>2, <1>4, <1>5

\* What a run reads, and what it makes of it.
LEMMA ReadGives ==
  ASSUME NTyped, ReadEvents
  PROVE  plan' \in Plans /\ plan'.dropped = {e \in log : e > through}
<1>1. plan' = [NoPlan EXCEPT !.at = now, !.dropped = Unread]
  BY DEF ReadEvents
<1>2. now \in Hours /\ Unread \subseteq Events /\ Never \in Hours \cup {Never}
  BY DEF NTyped, Unread
<1>3. 0 \in 0 .. MaxEvents
  BY NotifyConstants
<1> QED BY <1>1, <1>2, <1>3 DEF NoPlan, Plans, Unread

LEMMA PlanGives ==
  ASSUME NTyped, Planned, MakePlan
  PROVE  \E waiting \in SUBSET Services, due \in BOOLEAN :
           /\ due <=> waiting # {} /\ (notified = Never \/ plan.at - notified >= Renotify)
           /\ plan' \in Plans /\ plan'.at = plan.at /\ plan'.dropped = plan.dropped
           /\ plan'.due = due /\ plan'.waiting = waiting /\ plan'.through = NewThrough
           /\ plan'.notified = IF due THEN plan.at ELSE IF waiting = {} THEN Never ELSE notified
           /\ pc = "reading"
           /\ pc' = IF ~(plan.dropped = {} /\ ~due) THEN "sending"
                    ELSE IF plan'.notified # notified THEN "saving" ELSE "idle"
           /\ calm' = (calm \/ waiting = {})
<1>1. plan \in Plans /\ pc = "reading"
  BY DEF NTyped, MakePlan
<1>2. PICK waiting : waiting = Pressured
  OBVIOUS
<1>3. waiting \in SUBSET Services
  BY <1>2 DEF Pressured
<1>4. PICK due \in BOOLEAN :
        due <=> waiting # {} /\ (notified = Never \/ plan.at - notified >= Renotify)
  OBVIOUS
<1>5. due = Due(waiting)
  BY <1>4 DEF Due, DueAgain
<1>6. PICK t : t = NewThrough
  OBVIOUS
<1>7. PICK n : n = IF due THEN plan.at ELSE IF waiting = {} THEN Never ELSE notified
  OBVIOUS
<1>8. t \in 0 .. MaxEvents /\ n \in Hours \cup {Never}
  <2>1. NewThrough \in plan.dropped \cup {through}
    BY <1>1, NewThroughIs
  <2>2. plan.dropped \subseteq Events /\ through \in 0 .. MaxEvents /\ plan.at \in Hours
        /\ notified \in Hours \cup {Never}
    BY <1>1 DEF NTyped, Plans
  <2>3. Events \subseteq 0 .. MaxEvents
    BY NotifyConstants DEF Events
  <2> QED BY <1>6, <1>7, <2>1, <2>2, <2>3
<1>9. plan' = [plan EXCEPT !.due = due, !.waiting = waiting, !.through = t, !.notified = n]
  BY <1>2, <1>5, <1>6, <1>7 DEF MakePlan, NewNotified
<1>10. /\ plan' \in Plans /\ plan'.at = plan.at /\ plan'.dropped = plan.dropped
       /\ plan'.due = due /\ plan'.waiting = waiting /\ plan'.through = t
       /\ plan'.notified = n
  BY <1>1, <1>3, <1>8, <1>9 DEF Plans
<1>11. /\ pc' = IF ~(plan.dropped = {} /\ ~due) THEN "sending"
                ELSE IF plan'.notified # notified THEN "saving" ELSE "idle"
       /\ calm' = (calm \/ waiting = {})
  BY <1>2, <1>5 DEF MakePlan
<1> QED BY <1>1, <1>3, <1>4, <1>6, <1>7, <1>10, <1>11

LEMMA NoPlanIs ==
  /\ NoPlan \in Plans /\ NoPlan.dropped = {}
<1>1. 0 \in 0 .. MaxEvents /\ 0 \in Hours /\ Never \in Hours \cup {Never}
  BY NotifyConstants DEF Hours
<1> QED BY <1>1 DEF NoPlan, Plans

LEMMA NotifyCases ==
  ASSUME NEW P, [NotifyNext]_notifyVars, UNCHANGED notifyVars => P,
         Hour => P, \A u \in Services : Defer(u) \/ Clear(u) => P,
         Stamp \/ (\E e \in Events : Append(e)) => P, ReadEvents => P, MakePlan => P,
         SendMessage => P, SentLate => P, NotSent => P, Truncate => P, SaveState => P,
         Crash => P
  PROVE  P
BY DEF NotifyNext, Run

\* What a delivery adds to.
LEMMA DeliveryIs ==
  ASSUME NTyped, Delivered
  PROVE  /\ delivered' \in [Events -> Nat]
         /\ \A e \in Events : delivered'[e] = IF e \in plan.dropped THEN delivered[e] + 1
                                              ELSE delivered[e]
         /\ spoken' = IF plan.due THEN plan.at ELSE spoken
         /\ calm' = IF plan.due THEN FALSE ELSE calm
         /\ plan.at \in Hours /\ plan.due \in BOOLEAN
         /\ spoken' \in Hours \cup {Never} /\ calm' \in BOOLEAN
<1>1. plan.at \in Hours /\ plan.due \in BOOLEAN /\ delivered \in [Events -> Nat]
      /\ spoken \in Hours \cup {Never} /\ calm \in BOOLEAN
  BY DEF NTyped, Plans
<1>2. /\ \A e \in Events : delivered'[e] = IF e \in plan.dropped THEN delivered[e] + 1
                                           ELSE delivered[e]
      /\ DOMAIN delivered' = Events
      /\ delivered' = [e \in Events |-> delivered'[e]]
      /\ spoken' = IF plan.due THEN plan.at ELSE spoken
      /\ calm' = IF plan.due THEN FALSE ELSE calm
  BY DEF Delivered
<1>3. \A e \in Events : delivered'[e] \in Nat
  BY <1>1, <1>2
<1>4. delivered' \in [Events -> Nat]
  BY <1>2, <1>3
<1>5. spoken' \in Hours \cup {Never} /\ calm' \in BOOLEAN
  BY <1>1, <1>2
<1> QED BY <1>1, <1>2, <1>4, <1>5

LEMMA NTypedStep == NTyped /\ Planned /\ [NotifyNext]_notifyVars => NTyped'
<1> SUFFICES ASSUME NTyped, Planned, [NotifyNext]_notifyVars
             PROVE  NTyped'
  OBVIOUS
<1>0. /\ MaxEvents \in Nat /\ MaxTime \in Nat /\ MaxDoubts \in Nat /\ Never \in Int
  BY NotifyConstants DEF Never
<1>1. CASE UNCHANGED notifyVars
  BY <1>1 DEF notifyVars, guard, saved, notifyHistory, NTyped
<1>2. CASE Hour
  <2>1. now' \in Hours
    BY <1>0, <1>2 DEF Hour, NTyped, Hours
  <2> QED BY <1>2, <2>1 DEF Hour, NTyped, guard, saved, notifyHistory
<1>3. ASSUME NEW u \in Services, Defer(u) \/ Clear(u)
      PROVE  NTyped'
  BY <1>3 DEF Defer, Clear, NTyped, saved, notifyHistory
<1>4. CASE Stamp
  <2>1. clock' \in 0 .. MaxEvents /\ stamped' \subseteq Events
    BY <1>0, <1>4 DEF Stamp, NTyped, Events
  <2> QED BY <1>4, <2>1 DEF Stamp, NTyped, saved, notifyHistory
<1>5. ASSUME NEW e \in Events, Append(e)
      PROVE  NTyped'
  <2>1. stamped' \subseteq Events /\ log' \subseteq Events
    BY <1>5 DEF Append, NTyped
  <2> QED BY <1>5, <2>1 DEF Append, NTyped, saved, notifyHistory
<1>6. CASE ReadEvents
  BY <1>6, ReadGives DEF ReadEvents, NTyped, guard, saved, notifyHistory
<1>7. CASE MakePlan
  <2>1. plan' \in Plans /\ calm' \in BOOLEAN /\ pc' \in {"idle", "sending", "saving"}
    BY <1>7, PlanGives DEF NTyped
  <2> QED BY <1>7, <2>1 DEF MakePlan, NTyped, guard, saved
<1>8. CASE SendMessage
  <2>1. Delivered
    BY <1>8 DEF SendMessage
  <2> QED BY <1>8, <2>1, DeliveryIs DEF SendMessage, NTyped, guard, saved
<1>9. CASE SentLate
  <2>1. Delivered
    BY <1>9 DEF SentLate
  <2>2. doubts' = doubts + 1 /\ doubts < MaxDoubts
    BY <1>9 DEF SentLate
  <2>3. doubts' \in 0 .. MaxDoubts
    BY <1>0, <2>2 DEF NTyped
  <2> QED BY <1>9, <2>1, <2>3, DeliveryIs, NoPlanIs DEF SentLate, NTyped, guard, saved
<1>10. CASE NotSent
  BY <1>10, NoPlanIs DEF NotSent, NTyped, guard, saved, notifyHistory
<1>11. CASE Truncate
  BY <1>0, <1>11 DEF Truncate, NTyped, guard, notifyHistory
<1>12. CASE SaveState
  <2>1. plan.through \in 0 .. MaxEvents /\ plan.notified \in Hours \cup {Never}
    BY DEF NTyped, Plans
  <2> QED BY <1>12, <2>1, NoPlanIs DEF SaveState, NTyped, guard, notifyHistory
<1>13. CASE Crash
  <2>1. doubts' \in 0 .. MaxDoubts
    BY <1>0, <1>13 DEF Crash, NTyped
  <2> QED BY <1>13, <2>1, NoPlanIs DEF Crash, NTyped, guard, saved
<1> QED BY <1>1, <1>2, <1>3, <1>4, <1>5, <1>6, <1>7, <1>8, <1>9, <1>10, <1>11, <1>12, <1>13
        DEF NotifyNext, Run

LEMMA PlannedStep == NTyped /\ Planned /\ [NotifyNext]_notifyVars => Planned'
<1> SUFFICES ASSUME NTyped, Planned, [NotifyNext]_notifyVars
             PROVE  Planned'
  OBVIOUS
<1>1. ASSUME UNCHANGED <<pc, plan, through, calm, notified>>
      PROVE  Planned'
  BY <1>1 DEF Planned
<1>2. CASE UNCHANGED notifyVars
  BY <1>1, <1>2 DEF notifyVars, saved, notifyHistory
<1>3. CASE \/ Hour \/ Stamp \/ (\E u \in Services : Defer(u) \/ Clear(u))
           \/ \E e \in Events : Append(e)
  BY <1>1, <1>3 DEF Hour, Stamp, Defer, Clear, Append, saved, notifyHistory
<1>4. CASE ReadEvents
  BY <1>4, ReadGives DEF ReadEvents, Planned, saved
<1>5. CASE MakePlan
  <2>1. /\ plan'.dropped = plan.dropped /\ plan'.through = NewThrough /\ pc = "reading"
        /\ plan'.at = plan.at /\ pc' \in {"sending", "saving", "idle"}
        /\ plan'.due => plan'.notified = plan'.at
        /\ ~plan'.due /\ ~calm' => plan'.notified = notified
    BY <1>5, PlanGives DEF NTyped
  <2>2. through' = through /\ notified' = notified
    BY <1>5 DEF MakePlan, saved
  <2> QED BY <2>1, <2>2, NewThroughIs DEF Planned
<1>6. CASE SendMessage
  BY <1>6 DEF SendMessage, Planned
<1>7. CASE SentLate \/ NotSent \/ SaveState \/ Crash
  BY <1>7 DEF SentLate, NotSent, SaveState, Crash, Planned
<1>8. CASE Truncate
  BY <1>8 DEF Truncate, Planned
<1> QED BY <1>2, <1>3, <1>4, <1>5, <1>6, <1>7, <1>8 DEF NotifyNext, Run

LEMMA CountedStep == NTyped /\ Planned /\ Counted /\ [NotifyNext]_notifyVars => Counted'
<1> SUFFICES ASSUME NTyped, Planned, Counted, [NotifyNext]_notifyVars
             PROVE  Counted'
  OBVIOUS
<1>0. /\ delivered \in [Events -> Nat] /\ doubts \in Nat /\ through \in Nat
      /\ plan.through \in Nat /\ plan.dropped \subseteq Events
      /\ \A e \in Events : e \in Nat /\ e > 0
  BY NotifyConstants DEF NTyped, Plans, Events
<1>1. ASSUME UNCHANGED <<delivered, doubts, pc, plan, through>>
      PROVE  Counted'
  BY <1>1 DEF Counted
<1>2. CASE UNCHANGED notifyVars
  BY <1>1, <1>2 DEF notifyVars, saved, notifyHistory
<1>3. CASE \/ Hour \/ Stamp \/ (\E u \in Services : Defer(u) \/ Clear(u))
           \/ \E e \in Events : Append(e)
  BY <1>1, <1>3 DEF Hour, Stamp, Defer, Clear, Append, saved, notifyHistory
<1>4. CASE ReadEvents
  BY <1>4 DEF ReadEvents, saved, notifyHistory, Counted
<1>5. CASE MakePlan
  <2>1. /\ plan'.dropped = plan.dropped /\ plan'.through = NewThrough /\ pc = "reading"
        /\ pc' \in {"sending", "saving", "idle"}
        /\ pc' = "saving" => plan.dropped = {}
    BY <1>5, PlanGives
  <2>2. NewThrough \in plan.dropped \cup {through}
    BY <2>1, NewThroughIs
  <2>3. UNCHANGED <<delivered, doubts, through>>
    BY <1>5 DEF MakePlan, saved
  <2> QED BY <2>1, <2>2, <2>3 DEF Counted
<1>6. CASE SendMessage
  <2>1. /\ pc = "sending" /\ pc' = "saving" /\ UNCHANGED <<plan, doubts, through>>
        /\ \A e \in Events : delivered'[e] = IF e \in plan.dropped THEN delivered[e] + 1
                                              ELSE delivered[e]
    BY <1>6, DeliveryIs DEF SendMessage, saved
  <2>2. ASSUME NEW e \in Events
        PROVE  /\ delivered'[e] <= 1 + doubts
               /\ e > plan.through => delivered'[e] <= doubts
    <3>1. CASE e \in plan.dropped
      <4>1. e > through /\ e <= plan.through
        BY <2>1, <3>1 DEF Planned
      <4>2. delivered[e] <= doubts
        BY <2>1, <4>1 DEF Counted
      <4> QED BY <1>0, <2>1, <3>1, <4>1, <4>2
    <3>2. CASE e \notin plan.dropped
      <4>1. delivered[e] <= 1 + doubts /\ (e > through => delivered[e] <= doubts)
        BY <2>1 DEF Counted
      <4>2. e > plan.through => e > through
        BY <1>0, <2>1 DEF Planned
      <4> QED BY <2>1, <3>2, <4>1, <4>2
    <3> QED BY <3>1, <3>2
  <2> QED BY <2>1, <2>2 DEF Counted
<1>7. CASE SentLate
  <2>1. /\ pc = "sending" /\ pc' = "idle" /\ UNCHANGED through /\ doubts' = doubts + 1
        /\ \A e \in Events : delivered'[e] = IF e \in plan.dropped THEN delivered[e] + 1
                                              ELSE delivered[e]
    BY <1>7, DeliveryIs DEF SentLate, saved
  <2>2. ASSUME NEW e \in Events
        PROVE  delivered'[e] <= 1 + doubts' /\ (e > through => delivered'[e] <= doubts')
    <3>1. e \in plan.dropped => e > through
      BY <2>1 DEF Planned
    <3>2. delivered[e] <= 1 + doubts /\ (e > through => delivered[e] <= doubts)
      BY <2>1 DEF Counted
    <3> QED BY <1>0, <2>1, <3>1, <3>2
  <2> QED BY <2>1, <2>2 DEF Counted
<1>8. CASE NotSent
  BY <1>8 DEF NotSent, saved, notifyHistory, Counted
<1>9. CASE Truncate
  BY <1>9 DEF Truncate, notifyHistory, Counted
<1>10. CASE SaveState
  BY <1>10 DEF SaveState, notifyHistory, Counted
<1>11. CASE Crash
  <2>1. pc' = "idle" /\ UNCHANGED <<delivered, through>>
    BY <1>11 DEF Crash, saved
  <2>2. CASE pc \in {"reading", "sending"} /\ UNCHANGED doubts
    BY <2>1, <2>2 DEF Counted
  <2>3. CASE doubts' = doubts + 1
    BY <1>0, <2>1, <2>3 DEF Counted
  <2> QED BY <1>11, <2>2, <2>3 DEF Crash
<1> QED BY <1>2, <1>3, <1>4, <1>5, <1>6, <1>7, <1>8, <1>9, <1>10, <1>11 DEF NotifyNext, Run

LEMMA EpisodeStep ==
  NTyped /\ Planned /\ Episode /\ [NotifyNext]_notifyVars => Episode'
<1> SUFFICES ASSUME NTyped, Planned, Episode, [NotifyNext]_notifyVars
             PROVE  Episode'
  OBVIOUS
<1>0. /\ doubts \in Nat /\ notified \in Hours \cup {Never} /\ spoken \in Hours \cup {Never}
      /\ plan.at \in Hours /\ Never \notin Hours /\ calm \in BOOLEAN /\ plan.due \in BOOLEAN
  BY NotifyConstants DEF NTyped, Plans, Hours, Never
<1>1. ASSUME UNCHANGED <<calm, doubts, spoken, notified, pc, plan>>
      PROVE  Episode'
  BY <1>1 DEF Episode
<1>2. CASE UNCHANGED notifyVars
  BY <1>1, <1>2 DEF notifyVars, saved, notifyHistory
<1>3. CASE \/ Hour \/ Stamp \/ (\E u \in Services : Defer(u) \/ Clear(u))
           \/ \E e \in Events : Append(e)
  BY <1>1, <1>3 DEF Hour, Stamp, Defer, Clear, Append, saved, notifyHistory
<1>4. CASE ReadEvents
  BY <1>4 DEF ReadEvents, saved, notifyHistory, Episode
<1>5. CASE MakePlan
  <2>1. PICK waiting \in SUBSET Services, due \in BOOLEAN :
           /\ due <=> waiting # {} /\ (notified = Never \/ plan.at - notified >= Renotify)
           /\ plan'.at = plan.at /\ plan'.due = due
           /\ plan'.notified = IF due THEN plan.at ELSE IF waiting = {} THEN Never ELSE notified
           /\ pc = "reading"
           /\ pc' = IF ~(plan.dropped = {} /\ ~due) THEN "sending"
                    ELSE IF plan'.notified # notified THEN "saving" ELSE "idle"
           /\ calm' = (calm \/ waiting = {})
    BY <1>5, PlanGives
  <2>2. UNCHANGED <<doubts, spoken, notified>>
    BY <1>5 DEF MakePlan, saved
  <2>3. ~calm' => ~calm /\ waiting # {}
    BY <1>0, <2>1
  <2>4. ~calm' => pc' # "saving"
    BY <2>1, <2>3
  <2>5. pc' \in {"sending", "saving", "idle"}
    BY <2>1
  <2>6. ~calm' => spoken # Never /\ (doubts = 0 => notified = spoken)
    BY <2>1, <2>3 DEF Episode
  <2>7. ~calm' /\ doubts = 0 /\ plan'.due => plan'.at - spoken >= Renotify
    BY <2>1, <2>6
  <2> QED BY <2>2, <2>4, <2>5, <2>6, <2>7 DEF Episode
<1>6. ASSUME pc = "sending", Delivered
      PROVE  /\ ~calm' => spoken' # Never
             /\ ~calm' /\ doubts = 0 => plan.notified = spoken'
  <2>1. /\ spoken' = IF plan.due THEN plan.at ELSE spoken
        /\ calm' = IF plan.due THEN FALSE ELSE calm
    BY <1>6, DeliveryIs
  <2>2. CASE plan.due
    <3>1. spoken' = plan.at
      BY <2>1, <2>2
    <3>2. plan.notified = plan.at
      BY <1>6, <2>2 DEF Planned
    <3> QED BY <1>0, <3>1, <3>2
  <2>3. CASE ~plan.due
    <3>1. spoken' = spoken /\ calm' = calm
      BY <2>1, <2>3
    <3> QED BY <1>6, <2>3, <3>1 DEF Episode, Planned
  <2> QED BY <2>2, <2>3
<1>7. CASE SendMessage
  <2>1. pc = "sending" /\ Delivered /\ pc' = "saving" /\ UNCHANGED <<plan, doubts>>
    BY <1>7 DEF SendMessage
  <2> QED BY <1>6, <2>1 DEF Episode
<1>8. CASE SentLate
  <2>1. pc = "sending" /\ Delivered /\ pc' = "idle" /\ doubts' = doubts + 1
    BY <1>8 DEF SentLate
  <2>2. doubts' # 0
    BY <1>0, <2>1
  <2> QED BY <1>6, <2>1, <2>2 DEF Episode
<1>9. CASE NotSent
  BY <1>9 DEF NotSent, saved, notifyHistory, Episode
<1>10. CASE Truncate
  BY <1>10 DEF Truncate, notifyHistory, Episode
<1>11. CASE SaveState
  BY <1>11 DEF SaveState, notifyHistory, Episode
<1>12. CASE Crash
  <2>1. pc' = "idle" /\ UNCHANGED <<spoken, calm, notified>>
    BY <1>12 DEF Crash, saved
  <2>2. CASE pc \in {"reading", "sending"} /\ UNCHANGED doubts
    BY <2>1, <2>2 DEF Episode
  <2>3. CASE doubts' = doubts + 1
    <3>1. doubts' # 0
      BY <1>0, <2>3
    <3> QED BY <2>1, <3>1 DEF Episode
  <2> QED BY <1>12, <2>2, <2>3 DEF Crash
<1> QED BY <1>2, <1>3, <1>4, <1>5, <1>7, <1>8, <1>9, <1>10, <1>11, <1>12
        DEF NotifyNext, Run

LEMMA WholeStep ==
  ASSUME "race" \notin Faults, NTyped, Planned, Whole, [NotifyNext]_notifyVars
  PROVE  Whole'
<1>0. /\ delivered \in [Events -> Nat] /\ through \in Nat /\ plan.through \in Nat
      /\ plan.dropped \subseteq Events /\ clock \in 0 .. MaxEvents /\ MaxEvents \in Nat
      /\ stamped \subseteq Events
      /\ \A e \in Events : e \in Nat /\ e > 0 /\ e <= MaxEvents
  BY NotifyConstants DEF NTyped, Plans, Events
<1>1. ASSUME UNCHANGED <<clock, stamped, log>>,
             \A e \in Events : e <= through' => delivered'[e] > 0,
             pc' \in {"reading", "sending"} =>
               \A d \in plan'.dropped, e \in Events :
                 e < d => e \in plan'.dropped \/ delivered'[e] > 0,
             pc' \in {"saving", "truncated"} =>
               \A e \in Events : e <= plan'.through => delivered'[e] > 0
      PROVE  Whole'
  BY <1>1 DEF Whole
<1>2. ASSUME UNCHANGED <<delivered, through, pc, plan>>, stamped' \subseteq {clock'},
             log' = (1 .. clock') \ stamped'
      PROVE  Whole'
  BY <1>2 DEF Whole
<1>3. CASE UNCHANGED notifyVars
  BY <1>2, <1>3 DEF notifyVars, guard, saved, notifyHistory, Whole
<1>4. CASE Hour \/ \E u \in Services : Defer(u) \/ Clear(u)
  BY <1>2, <1>4 DEF Hour, Defer, Clear, guard, saved, notifyHistory, Whole
<1>5. CASE Stamp
  <2>1. /\ stamped = {} /\ stamped' = {clock + 1} /\ clock' = clock + 1 /\ log' = log
        /\ UNCHANGED <<delivered, through, pc, plan>>
    BY <1>5 DEF Stamp, saved, notifyHistory
  <2>2. log = 1 .. clock
    BY <2>1 DEF Whole
  <2>3. (1 .. clock + 1) \ {clock + 1} = 1 .. clock
    BY <1>0
  <2> QED BY <1>2, <2>1, <2>2, <2>3
<1>6. ASSUME NEW x \in Events, Append(x)
      PROVE  Whole'
  <2>1. /\ x \in stamped /\ stamped' = stamped \ {x} /\ log' = log \cup {x}
        /\ UNCHANGED <<clock, delivered, through, pc, plan>>
    BY <1>6 DEF Append, saved, notifyHistory
  <2>2. stamped = {clock} /\ x = clock /\ log = (1 .. clock) \ stamped
    BY <2>1 DEF Whole
  <2>3. x \in 1 .. clock
    BY <1>0, <2>2
  <2>4. log' = (1 .. clock') \ stamped'
    BY <2>1, <2>2, <2>3
  <2> QED BY <1>2, <2>1, <2>2, <2>4
<1>7. CASE ReadEvents
  <2>1. /\ pc' = "reading" /\ plan'.dropped = {e \in log : e > through}
        /\ UNCHANGED <<clock, stamped, log, delivered, through>>
    BY <1>7, ReadGives DEF ReadEvents, guard, saved, notifyHistory
  <2>2. ASSUME NEW d \in plan'.dropped, NEW e \in Events, e < d
        PROVE  e \in plan'.dropped \/ delivered'[e] > 0
    <3>1. d \in log /\ log = (1 .. clock) \ stamped /\ stamped \subseteq {clock}
      BY <2>1, <2>2 DEF Whole
    <3>2. d <= clock /\ d \in Nat
      BY <1>0, <3>1
    <3>3. e \in 1 .. clock /\ e # clock
      BY <1>0, <2>2, <3>2
    <3>4. e \in log
      BY <3>1, <3>3
    <3>5. e > through \/ e <= through
      BY <1>0
    <3> QED BY <2>1, <3>4, <3>5 DEF Whole
  <2>3. \A e \in Events : e <= through' => delivered'[e] > 0
    BY <2>1 DEF Whole
  <2> QED BY <1>1, <2>1, <2>2, <2>3
<1>8. CASE MakePlan
  <2>1. /\ plan'.dropped = plan.dropped /\ plan'.through = NewThrough /\ pc = "reading"
        /\ pc' \in {"sending", "saving", "idle"}
        /\ pc' = "saving" => plan.dropped = {}
    BY <1>8, PlanGives
  <2>2. NewThrough \in plan.dropped \cup {through}
    BY <2>1, NewThroughIs
  <2>3. UNCHANGED <<clock, stamped, log, delivered, through>>
    BY <1>8 DEF MakePlan, guard, saved
  <2> QED BY <1>1, <2>1, <2>2, <2>3 DEF Whole
<1>9. ASSUME pc = "sending", Delivered
      PROVE  /\ \A e \in Events : e <= through => delivered'[e] > 0
             /\ \A e \in Events : e <= plan.through => delivered'[e] > 0
  <2>1. \A e \in Events : delivered'[e] = IF e \in plan.dropped THEN delivered[e] + 1
                                          ELSE delivered[e]
    BY <1>9, DeliveryIs
  <2>2. \A e \in Events : delivered[e] > 0 \/ e \in plan.dropped => delivered'[e] > 0
    BY <1>0, <2>1
  <2>3. ASSUME NEW e \in Events, e <= plan.through
        PROVE  delivered'[e] > 0
    <3>1. CASE plan.through \in plan.dropped
      <4>1. e = plan.through \/ e < plan.through
        BY <1>0, <2>3
      <4>2. e < plan.through => e \in plan.dropped \/ delivered[e] > 0
        BY <1>9, <3>1 DEF Whole
      <4> QED BY <2>2, <3>1, <4>1, <4>2
    <3>2. CASE plan.through = through
      BY <2>2, <2>3, <3>2 DEF Whole
    <3> QED BY <1>9, <3>1, <3>2 DEF Planned
  <2> QED BY <2>2, <2>3 DEF Whole
<1>10. CASE SendMessage
  <2>1. /\ pc = "sending" /\ Delivered /\ pc' = "saving"
        /\ UNCHANGED <<clock, stamped, log, plan, through>>
    BY <1>10 DEF SendMessage, guard, saved
  <2> QED BY <1>1, <1>9, <2>1
<1>11. CASE SentLate
  <2>1. /\ pc = "sending" /\ Delivered /\ pc' = "idle"
        /\ UNCHANGED <<clock, stamped, log, through>>
    BY <1>11 DEF SentLate, guard, saved
  <2> QED BY <1>1, <1>9, <2>1
<1>12. CASE NotSent \/ Crash
  <2>1. pc' = "idle" /\ UNCHANGED <<clock, stamped, log, through, delivered>>
    BY <1>12 DEF NotSent, Crash, guard, saved, notifyHistory
  <2> QED BY <1>1, <2>1 DEF Whole
<1>13. CASE Truncate
  <2>1. /\ pc = "saving" /\ pc' = "truncated" /\ through' = 0
        /\ UNCHANGED <<clock, stamped, log, plan, delivered>>
    BY <1>13 DEF Truncate, guard, notifyHistory
  <2>2. \A e \in Events : ~(e <= 0)
    BY <1>0
  <2> QED BY <1>1, <2>1, <2>2 DEF Whole
<1>14. CASE SaveState
  <2>1. /\ pc = "truncated" /\ pc' = "idle" /\ through' = plan.through
        /\ UNCHANGED <<clock, stamped, log, delivered>>
    BY <1>14 DEF SaveState, guard, notifyHistory
  <2> QED BY <1>1, <2>1 DEF Whole
<1> QED BY <1>3, <1>4, <1>5, <1>6, <1>7, <1>8, <1>10, <1>11, <1>12, <1>13, <1>14
        DEF NotifyNext, Run

LEMMA NotifyInvStart == NotifyInit => NotifyInv /\ Whole
<1> SUFFICES ASSUME NotifyInit
             PROVE  NotifyInv /\ Whole
  OBVIOUS
<1>1. /\ 0 \in Hours /\ 0 \in 0 .. MaxEvents /\ 0 \in 0 .. MaxDoubts /\ 1 .. 0 = {}
      /\ \A e \in Events : ~(e <= 0)
  BY NotifyConstants DEF Hours, Events
<1>2. NTyped
  BY <1>1, NoPlanIs DEF NotifyInit, NTyped
<1>3. Planned /\ Counted /\ Episode
  BY DEF NotifyInit, Planned, Counted, Episode
<1>4. Whole
  BY <1>1 DEF NotifyInit, Whole
<1> QED BY <1>2, <1>3, <1>4 DEF NotifyInv

LEMMA NotifyAlways == NotifySpec => []NotifyInv
<1>1. NotifyInv /\ [NotifyNext]_notifyVars => NotifyInv'
  BY NTypedStep, PlannedStep, CountedStep, EpisodeStep DEF NotifyInv
<1> QED BY <1>1, NotifyInvStart, PTL DEF NotifySpec

(***************************************************************************)
(* What the notifier keeps is of its type, and what it says is not said    *)
(* again and again: an event is delivered once and at most once more for   *)
(* each send whose outcome was lost, and two messages about one episode of *)
(* pressure are --renotify-hours apart when no outcome was lost.           *)
(***************************************************************************)
THEOREM NotifyTypeCorrect == NotifySpec => []NotifyTypeOK
<1>1. NotifyInv => NotifyTypeOK
  <2> SUFFICES ASSUME NTyped, Counted, Episode
               PROVE  NotifyTypeOK
    BY DEF NotifyInv
  <2>1. delivered \in [Events -> 0 .. 1 + doubts]
    <3>1. delivered \in [Events -> Nat] /\ doubts \in Nat
      BY NotifyConstants DEF NTyped
    <3>2. \A e \in Events : delivered[e] \in 0 .. 1 + doubts
      BY <3>1 DEF Counted
    <3> QED BY <3>1, <3>2
  <2>2. pc = "sending" /\ plan.due /\ ~calm /\ doubts = 0 => plan.at - spoken >= Renotify
    BY DEF Episode
  <2> QED BY <2>1, <2>2 DEF NTyped, Plans, NotifyTypeOK
<1> QED BY <1>1, NotifyAlways, PTL

(***************************************************************************)
(* Unless two checks append their events at the same time, the cursor in   *)
(* the notifier's state never passes an event of the log that was not      *)
(* delivered, whatever sends fail, answers are late and runs are killed.   *)
(***************************************************************************)
THEOREM ToldBeforePassed == "race" \notin Faults => (NotifySpec => []NothingSkipped)
<1> SUFFICES ASSUME "race" \notin Faults
             PROVE  NotifySpec => []NothingSkipped
  OBVIOUS
<1>1. NotifyInv /\ Whole /\ [NotifyNext]_notifyVars => Whole'
  BY WholeStep DEF NotifyInv
<1>2. NotifyInv /\ Whole => NothingSkipped
  BY DEF NotifyInv, NTyped, Whole, NothingSkipped
<1> QED BY <1>1, <1>2, NotifyInvStart, NotifyAlways, PTL DEF NotifySpec

-----------------------------------------------------------------------------
(* The three together                                                      *)

LEMMA TimersParts ==
  ASSUME [TimersNext]_timersVars
  PROVE  [NotifyNext]_notifyVars /\ [SwitchNext]_switchVars /\ [RunnerNext]_runnerVars
BY DEF TimersNext, timersVars

\* A behaviour of the three is one of each of them, though not a fair one.
LEMMA TimersBehaviour ==
  TimersSpec =>
    /\ NotifySpec
    /\ SwitchInit /\ [][SwitchNext]_switchVars
    /\ RunnerInit /\ [][RunnerNext]_runnerVars
<1>1. TimersInit => NotifyInit /\ SwitchInit /\ RunnerInit
  BY DEF TimersInit
<1>2. [TimersNext]_timersVars =>
        [NotifyNext]_notifyVars /\ [SwitchNext]_switchVars /\ [RunnerNext]_runnerVars
  BY TimersParts
<1> QED BY <1>1, <1>2, PTL DEF TimersSpec, NotifySpec

(***************************************************************************)
(* Whichever of the three programs the timers start, what it keeps is what *)
(* it should be: the notifier's cursor and pause, the switch's file and    *)
(* copies, the runner's schedule and lock.                                 *)
(***************************************************************************)
THEOREM TimersTypeCorrect == TimersSpec => []TimersTypeOK
<1>1. TimersSpec => []NotifyTypeOK
  BY TimersBehaviour, NotifyTypeCorrect, PTL
<1>2. TimersSpec => []SwitchTypeOK
  BY TimersBehaviour, SwitchAlways, SwitchInvTyped, PTL
<1>3. TimersSpec => []RunnerTypeOK
  BY TimersBehaviour, RunnerAlways, RunnerInvTyped, PTL
<1> QED BY <1>1, <1>2, <1>3, PTL DEF TimersTypeOK

(***************************************************************************)
(* Whichever of the three programs the timers start: pauses are recorded,  *)
(* an enable run reaches what it was asked for, jobs start in turn, and    *)
(* without two checks at once no event is passed over untold.              *)
(***************************************************************************)
THEOREM TimersAreSafe ==
  TimersSpec =>
    /\ []PausesRecorded /\ EnableIsComplete /\ StartsInTurn
    /\ "race" \notin Faults => []NothingSkipped
<1>1. TimersSpec => []PausesRecorded
  BY TimersBehaviour, SwitchAlways, SwitchInvRecorded, PTL
<1>2. TimersSpec => EnableIsComplete /\ StartsInTurn
  BY TimersBehaviour, EnableHolds, StartsHold
<1>3. TimersSpec => ("race" \notin Faults => []NothingSkipped)
  BY TimersBehaviour, ToldBeforePassed
<1> QED BY <1>1, <1>2, <1>3
=============================================================================
