------------------------------ MODULE JobGuard ------------------------------
(***************************************************************************)
(* scripts/job_guard.py: the check that runs as ExecCondition= of every    *)
(* timer-driven service.  It looks at the machine and at the heavy units   *)
(* that systemd reports as active, and lets the unit start or defers it.   *)
(* A deferral is counted in a file of the unit and retried by a transient  *)
(* timer, until the count passes the cap and the trigger is dropped.       *)
(*                                                                         *)
(* systemd is external: it serialises the activations of one unit, merges  *)
(* a start of an active unit with the activation under way, and runs the   *)
(* activations of different units concurrently.                            *)
(***************************************************************************)
EXTENDS Integers, FiniteSets

CONSTANTS
    Units,         \* the guarded units, as numbers: their order is the name order
    Heavy,         \* the heavy ones; the others are light
    MaxDeferrals,  \* limits.max_deferrals
    MaxTriggers,   \* bound: how often a unit's own timer fires
    Overlap,       \* units whose own timer may fire while a retry is pending
    Blind,         \* units whose check may not see, or that run on unlisted
    Forgetful      \* units whose retry or counter may get lost

ASSUME UnitsAssumption ==
    /\ Units \subseteq Nat
    /\ Heavy \subseteq Units
    /\ Overlap \subseteq Units /\ Blind \subseteq Units /\ Forgetful \subseteq Units
ASSUME BoundsAssumption == MaxDeferrals \in Nat \ {0} /\ MaxTriggers \in Nat

VARIABLES
    machine,    \* what the sensors show
    phase,      \* where the activation of each unit is
    ahead,      \* the active units whose start time, then name, is smaller
    deferrals,  \* the count in the unit's state file, 0 when there is no file
    pending,    \* the triggers that have a transient timer
    current,    \* the trigger of the activation under way
    fired,      \* how often the unit's own timer has fired
    blockers,   \* the active peers for which an activation was deferred
    tries,      \* history: deferrals of each trigger
    dropped     \* events.jsonl: the triggers reported as dropped

files  == <<deferrals, dropped>>
timers == <<pending, fired>>
vars   == <<machine, phase, ahead, deferrals, pending, current, fired,
            blockers, tries, dropped>>

Triggers == 1 .. MaxTriggers
Phases   == { "inactive", "checking", "admitted", "deferring", "noting",
              "announcing", "running", "stopping" }

(* ActiveState activating or active, the two that active_units() reports;  *)
(* a oneshot service is activating for as long as it runs.                 *)
Active(u) == phase[u] \notin {"inactive", "stopping"}

TypeOK ==
    /\ machine \in {"cool", "hot", "critical"}
    /\ phase \in [Units -> Phases]
    /\ ahead \in [Units -> SUBSET Units]
    /\ deferrals \in [Units -> 0 .. MaxDeferrals]
    /\ pending \in [Units -> SUBSET Triggers]
    /\ current \in [Units -> Triggers \cup {0}]
    /\ fired \in [Units -> 0 .. MaxTriggers]
    /\ blockers \in [Units -> SUBSET Units]
    /\ tries \in [Units -> [Triggers -> 0 .. MaxDeferrals + 1]]
    /\ dropped \subseteq Units \X Triggers

Init ==
    /\ machine = "cool"
    /\ phase = [u \in Units |-> "inactive"]
    /\ ahead = [u \in Units |-> {}]
    /\ deferrals = [u \in Units |-> 0]
    /\ pending = [u \in Units |-> {}]
    /\ current = [u \in Units |-> 0]
    /\ fired = [u \in Units |-> 0]
    /\ blockers = [u \in Units |-> {}]
    /\ tries = [u \in Units |-> [i \in Triggers |-> 0]]
    /\ dropped = {}

(* Temperature and load change under every reading.                        *)
Weather ==
    /\ machine' \in {"cool", "hot", "critical"} \ {machine}
    /\ UNCHANGED <<phase, ahead, deferrals, pending, current, fired, blockers,
                   tries, dropped>>

----------------------------------------------------------------------------
(* systemd starts units                                                    *)

(* The units of S leave "inactive" at one instant: after every unit that   *)
(* is active, and by name among themselves (peers_to_wait_for).            *)
Activate(S) ==
    /\ phase' = [u \in Units |-> IF u \in S THEN "checking" ELSE phase[u]]
    /\ ahead' = [u \in Units |->
           IF u \in S THEN {v \in Units : Active(v) \/ (v \in S /\ v < u)}
                      ELSE ahead[u]]

OwnTimer(u) ==
    /\ fired[u] < MaxTriggers
    /\ u \in Overlap \/ (pending[u] = {} /\ phase[u] = "inactive")

(* The own timers of the units of S fire in the same instant.              *)
TimersFire(S) ==
    /\ \A u \in S : OwnTimer(u) /\ phase[u] = "inactive"
    /\ fired' = [u \in Units |-> IF u \in S THEN fired[u] + 1 ELSE fired[u]]
    /\ current' = [u \in Units |-> IF u \in S THEN fired[u] + 1 ELSE current[u]]
    /\ Activate(S)
    /\ UNCHANGED <<machine, deferrals, pending, blockers, tries, dropped>>

(* A retry timer elapses: systemctl start --no-block.                      *)
RetryFires(u, i) ==
    /\ i \in pending[u]
    /\ phase[u] = "inactive"
    /\ pending' = [pending EXCEPT ![u] = @ \ {i}]
    /\ current' = [current EXCEPT ![u] = i]
    /\ Activate({u})
    /\ UNCHANGED <<machine, deferrals, fired, blockers, tries, dropped>>

(* A start of a unit that is active joins the activation under way.  The   *)
(* retry is at least retry_minutes away when the check writes its state.   *)
MergedStart(u) ==
    /\ Active(u)
    /\ \/ /\ OwnTimer(u)
          /\ fired' = [fired EXCEPT ![u] = @ + 1]
          /\ UNCHANGED pending
       \/ /\ phase[u] # "noting"
          /\ \E i \in pending[u] : pending' = [pending EXCEPT ![u] = @ \ {i}]
          /\ UNCHANGED fired
    /\ UNCHANGED <<machine, phase, ahead, files, current, blockers, tries>>

(* The unit is inactive again: nobody is behind it or held up by it.       *)
Without(f, u) == [v \in Units |-> IF v = u THEN {} ELSE f[v] \ {u}]

Gone(u) ==
    /\ phase' = [phase EXCEPT ![u] = "inactive"]
    /\ ahead' = Without(ahead, u)
    /\ blockers' = Without(blockers, u)
    /\ current' = [current EXCEPT ![u] = 0]

Goto(u, next) ==
    /\ phase' = [phase EXCEPT ![u] = next]
    /\ UNCHANGED <<ahead, current>>

----------------------------------------------------------------------------
(* The check                                                               *)

TooHot(u) == machine = "critical" \/ (machine = "hot" /\ u \in Heavy)

(* Variants: ties are not broken; a unit whose check is still under way    *)
(* (activating) is not seen.                                               *)
PeersNoTieBreak(u) == {v \in Heavy \ {u} : Active(v)}
PeersRunningOnly(u) == {v \in ahead[u] \cap Heavy : phase[v] = "running"}

(* peers_to_wait_for(): what a heavy unit yields to.  An empty listing     *)
(* shows no peer at all.                                                   *)
Peers(u) == {v \in ahead[u] \cap Heavy : Active(v)}

WaitFor(u) == IF u \in Heavy THEN Peers(u) ELSE {}

(* read_readings, active_units and decide.  When systemctl fails, nobody   *)
(* is listed.                                                              *)
Decide(u) ==
    /\ phase[u] = "checking"
    /\ \E peers \in {WaitFor(u)} \cup {{} : b \in Blind \cap {u}} :
          /\ blockers' = [blockers EXCEPT ![u] = IF TooHot(u) THEN {} ELSE peers]
          /\ Goto(u, IF TooHot(u) \/ peers # {} THEN "deferring" ELSE "admitted")
    /\ UNCHANGED <<machine, deferrals, pending, fired, tries, dropped>>

(* write_state(None), exit 0, and systemd goes on to the job.              *)
Admit(u) ==
    /\ phase[u] = "admitted"
    /\ deferrals' = [deferrals EXCEPT ![u] = 0]
    /\ Goto(u, "running")
    /\ UNCHANGED <<machine, pending, fired, blockers, tries, dropped>>

NextCount(u) == deferrals[u] + 1

(* The history stops counting just above the cap.                          *)
OneMore(counts, i) ==
    [counts EXCEPT ![i] = IF @ > MaxDeferrals THEN @ ELSE @ + 1]

Retry(u) ==
    /\ phase[u] = "deferring"
    /\ NextCount(u) <= MaxDeferrals
    /\ \/ pending' = [pending EXCEPT ![u] = @ \cup {current[u]}]
       \/ u \in Forgetful /\ UNCHANGED pending
    /\ tries' = [tries EXCEPT ![u] = OneMore(@, current[u])]
    /\ Goto(u, "noting")
    /\ UNCHANGED <<machine, deferrals, fired, blockers, dropped>>

(* Variant: every deferral is written as the first.                        *)
FirstCount(u) == 1
NewCount(u) == NextCount(u)
Note(u) ==
    /\ phase[u] = "noting"
    /\ deferrals' = [deferrals EXCEPT ![u] = NewCount(u)]
    /\ Gone(u)
    /\ UNCHANGED <<machine, pending, fired, tries, dropped>>

(* Variants: the file is left as it is, or written before the cap is seen. *)
CountKept(u) == deferrals[u]
CountAfterDrop(u) == 0

(* count > max_deferrals: the counter is cleared, then the event is        *)
(* appended; record_event swallows an error.                               *)
Drop(u) ==
    /\ phase[u] = "deferring"
    /\ NextCount(u) > MaxDeferrals
    /\ deferrals' = [deferrals EXCEPT ![u] = CountAfterDrop(u)]
    /\ Goto(u, "announcing")
    /\ UNCHANGED <<machine, pending, fired, blockers, tries, dropped>>

Announce(u) ==
    /\ phase[u] = "announcing"
    /\ \/ dropped' = dropped \cup {<<u, current[u]>>}
       \/ u \in Forgetful /\ UNCHANGED dropped
    /\ Gone(u)
    /\ UNCHANGED <<machine, deferrals, pending, fired, tries>>

(* The file is truncated before it is written, and an unreadable file      *)
(* counts as none.                                                         *)
MaybeTorn(u) ==
    \/ UNCHANGED deferrals
    \/ phase[u] = "noting" /\ deferrals' = [deferrals EXCEPT ![u] = 0]

(* main(): an error in the check lets the job start, whatever was decided. *)
FailOpen(u) ==
    /\ u \in Blind \cap Forgetful
    /\ phase[u] \in {"checking", "admitted", "deferring", "noting"}
    /\ MaybeTorn(u)
    /\ Goto(u, "running")
    /\ UNCHANGED <<machine, pending, fired, blockers, tries, dropped>>

----------------------------------------------------------------------------
(* The rest of an activation                                               *)

(* The job ends, or its time limit does.                                   *)
Finish(u) ==
    /\ phase[u] \in {"running", "stopping"}
    /\ Gone(u)
    /\ UNCHANGED <<machine, deferrals, pending, fired, tries, dropped>>

(* After the time limit the processes may take a while to go.              *)
Overrun(u) ==
    /\ u \in Blind
    /\ phase[u] = "running"
    /\ Goto(u, "stopping")
    /\ UNCHANGED <<machine, deferrals, pending, fired, blockers, tries, dropped>>

(* The check is killed by the unit's time limit, or by a shutdown.         *)
Killed(u) ==
    /\ u \in Forgetful
    /\ phase[u] \in {"checking", "admitted", "deferring", "noting", "announcing"}
    /\ MaybeTorn(u)
    /\ Gone(u)
    /\ UNCHANGED <<machine, pending, fired, tries, dropped>>

(* Transient timers do not survive the user manager.                       *)
TimersLost(u) ==
    /\ u \in Forgetful
    /\ pending[u] # {}
    /\ pending' = [pending EXCEPT ![u] = {}]
    /\ UNCHANGED <<machine, phase, ahead, deferrals, current, fired, blockers,
                   tries, dropped>>

Check(u) ==
    Decide(u) \/ Admit(u) \/ Retry(u) \/ Note(u) \/ Drop(u) \/ Announce(u)

Step(u) ==
    \/ Check(u) \/ FailOpen(u) \/ Finish(u) \/ Overrun(u) \/ Killed(u)
    \/ TimersLost(u) \/ MergedStart(u)
    \/ \E i \in Triggers : RetryFires(u, i)

Next ==
    \/ Weather
    \/ \E S \in (SUBSET Units) \ {{}} : TimersFire(S)
    \/ \E u \in Units : Step(u)

Spec == Init /\ [][Next]_vars

(* A check is a short script, a job is under a time limit, and systemd     *)
(* fires a transient timer that is due.                                    *)
Fairness ==
    \A u \in Units :
        /\ WF_vars(Check(u))
        /\ WF_vars(Finish(u))
        /\ WF_vars(\E i \in Triggers : RetryFires(u, i))

FairSpec == Spec /\ Fairness

----------------------------------------------------------------------------
(* Properties                                                              *)

(* "runs heavy jobs one at a time": two heavy jobs never execute together, *)
(* although each check reads systemd once and holds no lock.               *)
OneHeavyAtATime ==
    \A u, v \in Heavy \ Blind :
        /\ phase[u] \in {"running", "stopping"}
        /\ phase[v] \in {"running", "stopping"}
        => u = v

(* Two jobs released together do not defer to each other: whoever is       *)
(* waited for was not itself sent away to wait for the waiter, directly or *)
(* around a circle.                                                        *)
NoCircularWait ==
    \A S \in (SUBSET Units) \ {{}} :
        \E u \in S : ~ \E v \in S : v \in blockers[u]

(* A deferred unit is not forgotten: while its counter is above zero and   *)
(* nothing of it is active, a transient timer will start it again.         *)
DeferralHasRetry ==
    \A u \in Units \ Forgetful :
        phase[u] = "inactive" /\ deferrals[u] > 0 => pending[u] # {}

(* A trigger is deferred at most max_deferrals times, and given up only    *)
(* after that many.                                                        *)
CappedFor(U) ==
    \A u \in U, i \in Triggers :
        /\ tries[u][i] <= MaxDeferrals
        /\ <<u, i>> \in dropped => tries[u][i] = MaxDeferrals

(* "After max_deferrals the trigger is dropped", said of every unit whose  *)
(* retries and counter are not lost.                                       *)
EveryTriggerCapped == CappedFor(Units \ Forgetful)

(* Whatever the machine does, a series of deferrals comes to an end: the   *)
(* unit runs, or is dropped.                                               *)
SeriesEnds ==
    \A u \in Units \ Forgetful : []<>(deferrals[u] = 0)
=============================================================================
