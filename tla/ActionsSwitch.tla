--------------------------- MODULE ActionsSwitch ---------------------------
(***************************************************************************)
(* Pausing GitHub Actions (scripts/actions_switch.py).  disable switches   *)
(* the repositories off and records why, enable switches them on together  *)
(* with the workflows GitHub has switched off, and check, run by a daily   *)
(* timer, announces what needs attention and remembers what it announced.  *)
(*                                                                         *)
(* Notes and announcements are in one file, which every run loads at its   *)
(* start and replaces at its end, without a lock.  Of the announcements it *)
(* is told here which are recent; the others are as good as forgotten.     *)
(*                                                                         *)
(* A call is reported as failed when no good answer comes in time: it may  *)
(* have taken effect all the same.                                         *)
(***************************************************************************)
EXTENDS Integers, FiniteSets

CONSTANTS
  Timer, Operator,   \* the two that run the program
  Repos,             \* the registered repositories
  Weathers,          \* whether GitHub and the channels answer: TRUE and FALSE
  MaxSwitchEvents    \* bound: changes by people and GitHub, overlaps, kills

ASSUME SwitchAssumption ==
  /\ MaxSwitchEvents \in Nat /\ TRUE \in Weathers /\ Weathers \subseteq BOOLEAN
  /\ Timer # Operator /\ "nobody" \notin {Timer, Operator}

VARIABLES
  hosted,    \* [Repos -> the repository's switches on GitHub]
  month,     \* the current month
  overdrawn, \* whether the month's minutes are above the limit
  ledger,    \* the state file: notes of pauses, recent announcements
  runs,      \* [Switchers -> what the run does]
  healthy,   \* whether GitHub and a channel answer
  switchEvents,
  paused,    \* history: repositories off since disable has reported them as off
  told,      \* history: what was announced recently
  unfiled,   \* history: what of that the file need not name, as a check has found it
             \* resolved since, or the send was reported as failed
  overlapped \* history: two runs have overlapped, or one was killed

switchVars == <<hosted, month, overdrawn, ledger, runs, healthy, switchEvents, paused,
                told, unfiled, overlapped>>
outside == <<month, overdrawn, healthy, switchEvents>>

Switchers == {Timer, Operator}
Keys == ({"error", "unrecorded", "rolled", "stuck"} \X Repos)
        \cup {<<"usage", "account">>}
Switches == [on : BOOLEAN, archived : BOOLEAN, flow : {"active", "inactivity", "manual"}]

\* No note, or the month it was made in.
Ledger == [note : [Repos -> 0 .. month], recent : SUBSET Keys]

Off == [at |-> "off"]

SwitchInit ==
  /\ hosted = [r \in Repos |-> [on |-> TRUE, archived |-> FALSE, flow |-> "active"]]
  /\ month = 1 /\ overdrawn = FALSE /\ healthy = TRUE /\ switchEvents = 0
  /\ ledger = [note |-> [r \in Repos |-> 0], recent |-> {}]
  /\ runs = [p \in Switchers |-> Off]
  /\ paused = {} /\ told = {} /\ unfiled = {}
  /\ overlapped = FALSE

-----------------------------------------------------------------------------
(* A run.  book is its copy of the ledger.                                 *)

Running(p, label) == runs[p].at = label
Proceed(p, run) == runs' = [runs EXCEPT ![p] = run]
Todo(p) == IF Running(p, "off") THEN {} ELSE runs[p].todo
Quiet == UNCHANGED <<paused, told, unfiled, overlapped>>

Commands(p) == IF p = Timer THEN {"check"} ELSE {"enable", "disable", "check"}
Targets(manual) == IF manual THEN {"inactivity", "manual"} ELSE {"inactivity"}

\* The bound: what happens around a run, or two runs that overlap.
Event == switchEvents < MaxSwitchEvents /\ switchEvents' = switchEvents + 1

\* select, load_ledger: the repositories asked for, and the file as it is now.
StartRun(p) ==
  \E c \in Commands(p), asked \in (SUBSET Repos) \ {{}}, manual \in BOOLEAN :
    /\ Running(p, "off") /\ (manual => c = "enable") /\ (c = "check" => asked = Repos)
    /\ Proceed(p, [at |-> "visit", cmd |-> c, asked |-> asked, todo |-> asked,
         manual |-> manual, book |-> ledger, now |-> month, failed |-> {},
         others |-> {}, found |-> {}, row |-> CHOOSE r \in asked : TRUE,
         seen |-> hosted[CHOOSE r \in asked : TRUE]])
    /\ IF \E q \in Switchers : ~Running(q, "off")
       THEN Event /\ overlapped' = TRUE
       ELSE UNCHANGED <<switchEvents, overlapped>>
    /\ UNCHANGED <<month, overdrawn, healthy, hosted, ledger, paused, told, unfiled>>

\* The run goes on with the next repository; what this one left behind is forgotten.
Passed(p, r) == [runs[p] EXCEPT !.at = "visit", !.todo = @ \ {r},
                   !.row = CHOOSE x \in Repos : TRUE,
                   !.seen = [on |-> TRUE, archived |-> FALSE, flow |-> "active"]]
Failed(p, r) == [Passed(p, r) EXCEPT !.failed = @ \cup {r}]

\* observe failed: the repository is reported and the run goes on.
VisitFailed(p) == \E r \in Todo(p) :
  /\ Running(p, "visit") /\ runs[p].cmd # "check" /\ ~healthy
  /\ Proceed(p, Failed(p, r))
  /\ Quiet /\ UNCHANGED <<outside, hosted, ledger>>

\* enable and disable look at a repository; one disable finds off is noted.
Noted(book, r, m) == IF book.note[r] = 0 THEN [book EXCEPT !.note[r] = m] ELSE book

Visit(p) == \E r \in Todo(p) :
  /\ Running(p, "visit") /\ runs[p].cmd # "check" /\ healthy
  /\ \/ hosted[r].archived /\ Proceed(p, Passed(p, r)) /\ UNCHANGED paused
     \/ /\ ~hosted[r].archived /\ runs[p].cmd = "disable" /\ ~hosted[r].on
        /\ Proceed(p, [Passed(p, r) EXCEPT !.book = Noted(@, r, runs[p].now)])
        /\ paused' = paused \cup {r}
     \/ /\ ~hosted[r].archived /\ (runs[p].cmd = "disable" => hosted[r].on)
        /\ Proceed(p, [runs[p] EXCEPT !.row = r, !.seen = hosted[r],
             !.at = IF runs[p].cmd = "enable" /\ hosted[r].on THEN "flows" ELSE "permit"])
        /\ UNCHANGED paused
  /\ UNCHANGED <<outside, hosted, ledger, told, unfiled, overlapped>>

\* Those who look at r again later must know that it was changed meanwhile.
Disturb(r, p, after) ==
  [q \in Switchers |-> IF q = p THEN after
                       ELSE IF Running(q, "off") \/ runs[q].cmd # "enable" THEN runs[q]
                       ELSE [runs[q] EXCEPT !.others = @ \cup {r}]]

\* What a PUT actions/permissions makes of GitHub.
Permitted(p) == [hosted EXCEPT ![runs[p].row].on = runs[p].cmd = "enable"]

\* It is answered: off with a note, or on, and on to the workflows.
Permit(p) == LET r == runs[p].row IN
  /\ Running(p, "permit") /\ healthy /\ hosted' = Permitted(p)
  /\ runs' = Disturb(r, p,
       IF runs[p].cmd = "enable" THEN [runs[p] EXCEPT !.at = "flows"]
       ELSE [Passed(p, r) EXCEPT !.book.note[r] = runs[p].now])
  /\ paused' = IF runs[p].cmd = "disable" THEN paused \cup {r} ELSE paused \ {r}
  /\ UNCHANGED <<outside, ledger, told, unfiled, overlapped>>

\* Mutant: the workflows are those listed while the repository was off, none.
FlowListed(p) == IF runs[p].seen.on THEN runs[p].seen.flow ELSE "active"

\* inactive_workflows: listed again if the repository was off when observed.
FlowFound(p) == IF runs[p].seen.on THEN runs[p].seen.flow ELSE hosted[runs[p].row].flow

\* enable forgets the note of a repository that is on.
Unpaused(book, r) == [book EXCEPT !.note[r] = 0]

\* PUT workflows/.../enable for what GitHub, or also a person, has switched off.
HasTargets(p) == FlowFound(p) \in Targets(runs[p].manual)
Revived(p) == [hosted EXCEPT ![runs[p].row].flow = "active"]

Revive(p) == LET r == runs[p].row IN
  /\ Running(p, "flows") /\ healthy
  /\ IF HasTargets(p)
     THEN /\ hosted' = Revived(p)
          /\ runs' = Disturb(r, p, [Passed(p, r) EXCEPT !.book = Unpaused(@, r)])
     ELSE /\ UNCHANGED hosted
          /\ Proceed(p, [Passed(p, r) EXCEPT !.book = Unpaused(@, r)])
  /\ Quiet /\ UNCHANGED <<outside, ledger>>

\* Mutant: the note goes although the repository could not be switched on.
FailedAndForgotten(p, r) == [Failed(p, r) EXCEPT !.book = Unpaused(@, r)]

FailedCall(p, r) == Failed(p, r)

\* A call failed and changed nothing; the note stays as it is.
CallFailed(p) ==
  /\ runs[p].at \in {"permit", "flows"} /\ ~healthy
  /\ Proceed(p, FailedCall(p, runs[p].row))
  /\ Quiet /\ UNCHANGED <<outside, hosted, ledger>>

\* GitHub did what a PUT asked for, and gh reports a failure or is given up after a
\* minute: disable leaves no note, enable leaves the one there is.
AnswerLost(p) == LET r == runs[p].row IN
  /\ ~healthy
  /\ \/ /\ Running(p, "permit") /\ hosted' = Permitted(p)
        /\ paused' = IF runs[p].cmd = "enable" THEN paused \ {r} ELSE paused
     \/ /\ Running(p, "flows") /\ HasTargets(p) /\ hosted' = Revived(p)
        /\ UNCHANGED paused
  /\ runs' = Disturb(r, p, FailedCall(p, r))
  /\ UNCHANGED <<outside, ledger, told, unfiled, overlapped>>

\* enable and disable replace the file by their copy, failures or not.
SaveRun(p) ==
  /\ Running(p, "visit") /\ runs[p].cmd # "check" /\ Todo(p) = {}
  /\ ledger' = runs[p].book /\ Proceed(p, Off)
  /\ Quiet /\ UNCHANGED <<outside, hosted>>

-----------------------------------------------------------------------------
(* check.                                                                  *)

\* Mutant: a pause of the month before last is not one of last month.
OfLastMonth(note, now) == note = now - 1

OfEarlierMonth(note, now) == note \in 1 .. now - 1

\* assess, for one repository and the notes the run has loaded.
Finding(r, s, book, now) ==
  CASE s.archived -> {}
    [] ~s.archived /\ ~s.on /\ book.note[r] = 0 -> {<<"unrecorded", r>>}
    [] ~s.archived /\ ~s.on /\ OfEarlierMonth(book.note[r], now) -> {<<"rolled", r>>}
    [] ~s.archived /\ s.on /\ s.flow = "inactivity" -> {<<"stuck", r>>}
    [] OTHER -> {}

\* observe_all reads the repositories in any order.
Examine(p) == \E r \in Todo(p) :
  /\ Running(p, "visit") /\ runs[p].cmd = "check"
  /\ Proceed(p, [runs[p] EXCEPT !.todo = @ \ {r}, !.found = @ \cup
       IF healthy THEN Finding(r, hosted[r], runs[p].book, runs[p].now)
       ELSE {<<"error", r>>}])
  /\ Quiet /\ UNCHANGED <<outside, hosted, ledger>>

\* A key that is not found any more is dropped from the copy.
Resolved(book, found) ==
  [book EXCEPT !.recent = @ \cap found]

\* The usage report may be missing, and is then passed over.  Without findings
\* the copy is saved; when nothing is due it is not.
Judge(p) ==
  LET usage == IF overdrawn /\ healthy THEN {<<"usage", "account">>} ELSE {}
      found == runs[p].found \cup usage
      book == Resolved(runs[p].book, found)
      due == found \ book.recent
  IN
  /\ Running(p, "visit") /\ runs[p].cmd = "check" /\ Todo(p) = {}
  /\ unfiled' = unfiled \cup (told \ found)
  /\ CASE found = {} -> ledger' = book /\ Proceed(p, Off)
       [] found # {} /\ due = {} -> UNCHANGED ledger /\ Proceed(p, Off)
       [] due # {} -> /\ Proceed(p, [runs[p] EXCEPT !.at = "send", !.book = book,
                                                    !.found = due])
                      /\ UNCHANGED ledger
  /\ UNCHANGED <<outside, hosted, paused, told, overlapped>>

Announced(book, due) == [book EXCEPT !.recent = @ \cup due]

\* One message for all that is due, over any channel that works.
Send(p) ==
  /\ Running(p, "send") /\ healthy
  /\ told' = told \cup runs[p].found /\ unfiled' = unfiled \ runs[p].found
  /\ Proceed(p, [runs[p] EXCEPT !.at = "save", !.book = Announced(@, runs[p].found)])
  /\ UNCHANGED <<outside, hosted, ledger, paused, overlapped>>

\* Every channel failed, or was given up after a minute, perhaps after it delivered:
\* nothing is saved.
SendFailed(p) ==
  /\ Running(p, "send") /\ ~healthy /\ Proceed(p, Off)
  /\ \/ UNCHANGED <<told, unfiled>>
     \/ told' = told \cup runs[p].found /\ unfiled' = unfiled \cup runs[p].found
  /\ UNCHANGED <<outside, hosted, ledger, paused, overlapped>>

SaveTold(p) ==
  /\ Running(p, "save") /\ ledger' = runs[p].book /\ Proceed(p, Off)
  /\ Quiet /\ UNCHANGED <<outside, hosted>>

-----------------------------------------------------------------------------
(* What happens around the runs.                                           *)

\* The process is killed, or its last write fails: the file stays.
Abort(p) ==
  /\ Event /\ ~Running(p, "off") /\ Proceed(p, Off) /\ overlapped' = TRUE
  /\ UNCHANGED <<hosted, month, overdrawn, ledger, healthy, paused, told, unfiled>>

\* A person uses GitHub's own switches, and GitHub stops an idle workflow.
ByHand == \E r \in Repos, s \in Switches :
  /\ Event /\ s # hosted[r] /\ (s.flow = "active" => hosted[r].flow = "active")
  /\ Cardinality({f \in {"on", "archived", "flow"} : s[f] # hosted[r][f]}) = 1
  /\ hosted' = [hosted EXCEPT ![r] = s]
  /\ runs' = Disturb(r, "nobody", Off)
  /\ paused' = IF s.on = hosted[r].on THEN paused ELSE paused \ {r}
  /\ UNCHANGED <<month, overdrawn, ledger, healthy, told, unfiled, overlapped>>

NextMonth ==
  /\ Event /\ month' = month + 1 /\ overdrawn' = FALSE
  /\ UNCHANGED <<hosted, ledger, runs, healthy, paused, told, unfiled, overlapped>>

Overdraw ==
  /\ Event /\ ~overdrawn /\ overdrawn' = TRUE
  /\ UNCHANGED <<hosted, month, ledger, runs, healthy, paused, told, unfiled, overlapped>>

\* GitHub and the channels stop or start to answer.
NetworkChange ==
  /\ Event /\ healthy' \in Weathers \ {healthy}
  /\ UNCHANGED <<hosted, month, overdrawn, ledger, runs, paused, told, unfiled,
                 overlapped>>

\* The hours after which a finding is announced again have passed.
Expire(k) ==
  /\ k \in ledger.recent \cup told
  /\ ledger' = [ledger EXCEPT !.recent = @ \ {k}]
  /\ runs' = [p \in Switchers |-> IF Running(p, "off") THEN Off
                                  ELSE [runs[p] EXCEPT !.book.recent = @ \ {k}]]
  /\ told' = told \ {k} /\ unfiled' = unfiled \ {k}
  /\ UNCHANGED <<outside, hosted, paused, overlapped>>

SwitchStep(p) ==
  \/ VisitFailed(p) \/ Visit(p) \/ Permit(p) \/ Revive(p) \/ CallFailed(p) \/ AnswerLost(p)
  \/ SaveRun(p) \/ Examine(p) \/ Judge(p) \/ Send(p) \/ SendFailed(p) \/ SaveTold(p)

SwitchNext ==
  \/ \E p \in Switchers : StartRun(p) \/ SwitchStep(p) \/ Abort(p)
  \/ ByHand \/ NextMonth \/ Overdraw \/ NetworkChange
  \/ \E k \in Keys : Expire(k)

\* The timer fires again and again, whatever the operator runs meanwhile, a run
\* that is not killed goes on, and time passes.
SwitchFairness ==
  /\ SF_switchVars(StartRun(Timer))
  /\ \A p \in Switchers : WF_switchVars(SwitchStep(p))
  /\ \A k \in Keys : WF_switchVars(Expire(k))

SwitchSpec == SwitchInit /\ [][SwitchNext]_switchVars /\ SwitchFairness

-----------------------------------------------------------------------------
(* Properties.                                                             *)

\* Ledger, copies and histories hold what they should; the file names only what
\* was announced recently and, if no run was lost, all of that which a send has
\* reported as delivered and no check has found resolved since.
SwitchTypeOK ==
  /\ hosted \in [Repos -> Switches] /\ ledger \in Ledger
  /\ \A p \in Switchers : ~Running(p, "off") =>
       /\ runs[p].book \in Ledger /\ runs[p].todo \subseteq runs[p].asked
       /\ runs[p].found \subseteq Keys /\ runs[p].row \in Repos
  /\ paused \subseteq Repos /\ told \subseteq Keys /\ unfiled \subseteq told
  /\ ~overlapped => /\ ledger.recent \subseteq told
                    /\ (\A p \in Switchers : ~Running(p, "save")) =>
                         told \ unfiled \subseteq ledger.recent

\* A repository that disable has reported as off ("disabled", or "already off") and
\* that nobody has switched on since has its reason on file when no run is under
\* way, unless runs have overlapped or one was killed.  One that a lost answer has
\* left off without a note gets it from the next disable that finds it off.
PausesRecorded ==
  ~overlapped /\ (\A p \in Switchers : Running(p, "off")) =>
    \A r \in paused : ~hosted[r].on => ledger.note[r] # 0

\* When enable ends, every repository it was asked for and did not report as
\* failed or archived runs, with its workflows, unless somebody else switched it.
EnableIsComplete ==
  [][\A p \in Switchers : SaveRun(p) /\ runs[p].cmd = "enable" =>
       \A r \in runs[p].asked \ (runs[p].failed \cup runs[p].others) :
         \/ hosted[r].archived
         \/ hosted[r].on /\ hosted[r].flow \notin Targets(runs[p].manual)]_switchVars

\* Off without a pause made this month, or on with a workflow GitHub has stopped.
NeedsAttention(r) ==
  /\ ~hosted[r].archived
  /\ IF hosted[r].on THEN hosted[r].flow = "inactivity" ELSE ledger.note[r] # month

\* What needs attention and stays so is announced again and again, if GitHub and
\* a channel answer from some moment on.
FindingsAnnounced ==
  /\ \A r \in Repos :
       <>[](healthy /\ NeedsAttention(r)) => []<>(\E k \in told : k[2] = r)
  /\ <>[](healthy /\ overdrawn) => []<>(<<"usage", "account">> \in told)
=============================================================================
