--------------------------- MODULE JobGuardNotify ---------------------------
(***************************************************************************)
(* scripts/job_guard_notify.py: a timer runs the notifier, which reads the *)
(* events that checks append to events.jsonl and the units' deferral       *)
(* files, sends at most one message, and keeps two values between runs:    *)
(* events_through, the largest time of an event it told, and               *)
(* pressure_notified_at, when it last told that units are held back.       *)
(*                                                                         *)
(* An event is identified by the time in it, and the times of events are   *)
(* counted on a clock of their own, finer than the hours that the          *)
(* notifier compares.  The channels (shock-relay) are external.            *)
(***************************************************************************)
EXTENDS Integers, FiniteSets

CONSTANTS
    Services,   \* the guarded units
    MaxEvents,  \* bound: dropped triggers
    MaxTime,    \* bound: hours
    Pressure,   \* --pressure-minutes, in hours
    Renotify,   \* --renotify-hours
    MaxDoubts,  \* bound: sends whose outcome is lost
    Faults      \* what may go wrong, see KnownFaults

KnownFaults ==
    { "failed send",  \* no channel delivers
      "late answer",  \* a channel delivers and is then reported as failed
      "crash",        \* the notifier is killed after a delivery
      "race" }        \* two checks append events at the same time

ASSUME TimeAssumption ==
    MaxEvents \in Nat /\ MaxTime \in Nat /\ Pressure \in Nat /\ Renotify \in Nat
ASSUME FaultsAssumption == Faults \subseteq KnownFaults /\ MaxDoubts \in Nat

Never == -1
Events == 1 .. MaxEvents
Hours == 0 .. MaxTime

VARIABLES
    now,       \* hours since the first run
    first,     \* first_deferred_at in the deferral file of each unit
    clock,     \* the time of the latest event
    stamped,   \* events with a time that are not in the log yet
    log,       \* events.jsonl
    through,   \* events_through in the notifier's state file
    notified,  \* pressure_notified_at in it
    pc,        \* where the run of the notifier is
    plan,      \* what it read and is going to send
    delivered, \* history: how often each event was delivered
    spoken,    \* history: the hour of the latest delivery that named pressure
    calm,      \* history: a run has seen no pressure since then
    doubts     \* history: deliveries whose outcome the state does not show

guard   == <<first, clock, stamped, log>>
saved   == <<through, notified>>
notifyHistory == <<delivered, spoken, calm, doubts>>
notifyVars    == <<now, guard, saved, pc, plan, notifyHistory>>

NoPlan == [at |-> 0, dropped |-> {}, due |-> FALSE, waiting |-> {},
           through |-> 0, notified |-> Never]

(* Besides the types: "not repeated", an event is told once more at most    *)
(* for each send whose outcome was lost; "repeated after --renotify-hours   *)
(* while it lasts", the message that is being sent about an episode of      *)
(* pressure is at least that far from the one before.                       *)
NotifyTypeOK ==
    /\ now \in Hours
    /\ first \in [Services -> Hours \cup {Never}]
    /\ clock \in 0 .. MaxEvents
    /\ stamped \subseteq Events /\ log \subseteq Events
    /\ through \in 0 .. MaxEvents
    /\ notified \in Hours \cup {Never}
    /\ pc \in {"idle", "reading", "sending", "saving", "truncated"}
    /\ plan \in [at : Hours, dropped : SUBSET Events, due : BOOLEAN,
                 waiting : SUBSET Services,
                 through : 0 .. MaxEvents, notified : Hours \cup {Never}]
    /\ doubts \in 0 .. MaxDoubts
    /\ delivered \in [Events -> 0 .. 1 + doubts]
    /\ spoken \in Hours \cup {Never}
    /\ calm \in BOOLEAN
    /\ pc = "sending" /\ plan.due /\ ~calm /\ doubts = 0 => plan.at - spoken >= Renotify

NotifyInit ==
    /\ now = 0
    /\ first = [u \in Services |-> Never]
    /\ clock = 0 /\ stamped = {} /\ log = {}
    /\ through = 0 /\ notified = Never
    /\ pc = "idle" /\ plan = NoPlan
    /\ delivered = [e \in Events |-> 0]
    /\ spoken = Never /\ calm = TRUE /\ doubts = 0

Hour ==
    /\ now < MaxTime
    /\ now' = now + 1
    /\ UNCHANGED <<guard, saved, pc, plan, notifyHistory>>

----------------------------------------------------------------------------
(* The guard, as far as the notifier sees it (job_guard.py check)          *)

Defer(u) ==
    /\ first[u] = Never
    /\ first' = [first EXCEPT ![u] = now]
    /\ UNCHANGED <<now, clock, stamped, log, saved, pc, plan, notifyHistory>>

(* The unit starts, or the first half of a drop: the file is removed.      *)
Clear(u) ==
    /\ first[u] # Never
    /\ first' = [first EXCEPT ![u] = Never]
    /\ UNCHANGED <<now, clock, stamped, log, saved, pc, plan, notifyHistory>>

(* The event of a drop gets its time, and is appended after that.  Checks  *)
(* of different units are processes of their own.                          *)
Stamp ==
    /\ clock < MaxEvents
    /\ stamped = {} \/ "race" \in Faults
    /\ clock' = clock + 1
    /\ stamped' = stamped \cup {clock + 1}
    /\ UNCHANGED <<now, first, log, saved, pc, plan, notifyHistory>>

Append(e) ==
    /\ e \in stamped
    /\ stamped' = stamped \ {e}
    /\ log' = log \cup {e}
    /\ UNCHANGED <<now, first, clock, saved, pc, plan, notifyHistory>>

----------------------------------------------------------------------------
(* A run of the notifier                                                   *)

(* Variant: >= in the place of >.                                          *)
UnreadFromLast == {e \in log : e >= through}
Unread == {e \in log : e > through}

ReadEvents ==
    /\ pc = "idle"
    /\ plan' = [NoPlan EXCEPT !.at = now, !.dropped = Unread]
    /\ pc' = "reading"
    /\ UNCHANGED <<now, guard, saved, notifyHistory>>

(* pressured(): who has been deferring for long enough.                    *)
Pressured == {u \in Services : first[u] # Never /\ plan.at - first[u] >= Pressure}

DueAgain(waiting) ==
    waiting # {} /\ (notified = Never \/ plan.at - notified >= Renotify)

Due(waiting) == DueAgain(waiting)

(* Variant: the latest event of the log, read or not.                      *)
ThroughLog == CHOOSE t \in log \cup {through} : \A e \in log : t >= e
NewThrough ==
    CHOOSE t \in plan.dropped \cup {through} : \A e \in plan.dropped : t >= e

NewNotified(waiting, due) ==
    IF due THEN plan.at ELSE IF waiting = {} THEN Never ELSE notified

MakePlan ==
    /\ pc = "reading"
    /\ LET waiting == Pressured
           due     == Due(waiting)
           quiet   == plan.dropped = {} /\ ~due
       IN  /\ plan' = [plan EXCEPT !.due = due, !.waiting = waiting,
                          !.through = NewThrough,
                          !.notified = NewNotified(waiting, due)]
           /\ pc' = IF ~quiet THEN "sending"
                    ELSE IF plan'.notified # notified THEN "saving" ELSE "idle"
           /\ calm' = (calm \/ waiting = {})
    /\ UNCHANGED <<now, guard, saved, delivered, spoken, doubts>>

(* The message reaches the reader.                                         *)
Delivered ==
    /\ delivered' = [e \in Events |->
           IF e \in plan.dropped THEN delivered[e] + 1 ELSE delivered[e]]
    /\ spoken' = IF plan.due THEN plan.at ELSE spoken
    /\ calm' = IF plan.due THEN FALSE ELSE calm

SendMessage ==
    /\ pc = "sending"
    /\ Delivered
    /\ pc' = "saving"
    /\ UNCHANGED <<now, guard, saved, plan, doubts>>

(* "no channel delivered; will retry": nothing is saved.                   *)
NotSent ==
    /\ pc = "sending"
    /\ "failed send" \in Faults
    /\ pc' = "idle" /\ plan' = NoPlan
    /\ UNCHANGED <<now, guard, saved, notifyHistory>>

(* A channel that is given up after a minute may have delivered.           *)
SentLate ==
    /\ pc = "sending"
    /\ "late answer" \in Faults /\ doubts < MaxDoubts
    /\ Delivered
    /\ doubts' = doubts + 1
    /\ pc' = "idle" /\ plan' = NoPlan
    /\ UNCHANGED <<now, guard, saved>>

(* save_state() truncates the file and writes it; an unreadable file is    *)
(* an empty state.                                                         *)
Truncate ==
    /\ pc = "saving"
    /\ pc' = "truncated"
    /\ through' = 0 /\ notified' = Never
    /\ UNCHANGED <<now, guard, plan, notifyHistory>>

SaveState ==
    /\ pc = "truncated"
    /\ through' = plan.through /\ notified' = plan.notified
    /\ pc' = "idle" /\ plan' = NoPlan
    /\ UNCHANGED <<now, guard, notifyHistory>>

Crash ==
    /\ "crash" \in Faults
    /\ \/ pc \in {"reading", "sending"} /\ UNCHANGED doubts
       \/ /\ pc \in {"saving", "truncated"} /\ doubts < MaxDoubts
          /\ doubts' = doubts + 1
    /\ pc' = "idle" /\ plan' = NoPlan
    /\ UNCHANGED <<now, guard, saved, delivered, spoken, calm>>

Run == ReadEvents \/ MakePlan \/ SendMessage \/ Truncate \/ SaveState

NotifyNext ==
    \/ Hour
    \/ \E u \in Services : Defer(u) \/ Clear(u)
    \/ Stamp
    \/ \E e \in Events : Append(e)
    \/ Run
    \/ NotSent \/ SentLate \/ Crash

NotifySpec == NotifyInit /\ [][NotifyNext]_notifyVars

(* A timer starts the notifier every quarter of an hour and each of its    *)
(* channels is under a time limit.  Runs are not all killed early, and a   *)
(* message that is tried again and again is delivered.                     *)
NotifyFairness ==
    /\ WF_notifyVars(Run)
    /\ SF_notifyVars(MakePlan)
    /\ SF_notifyVars(SendMessage)
    /\ \A e \in Events : WF_notifyVars(Append(e))

NotifyFairSpec == NotifySpec /\ NotifyFairness

----------------------------------------------------------------------------
(* Properties                                                              *)

(* "every job dropped since the last message": the cursor passes an event  *)
(* of the log only when the event was told.                                *)
NothingSkipped == \A e \in log : e <= through => delivered[e] > 0

(* Every drop is told in the end, however often sending fails.             *)
EveryDropTold == \A e \in Events : []<>(e \in log => delivered[e] > 0)
=============================================================================
