---------------------------- MODULE MailMonitor ----------------------------
(***************************************************************************)
(* The monitor of GitHub's failure mails                                   *)
(* (scripts/monitor_github_ci_emails.py).  A timer starts it; it reads the *)
(* inbox, moves what it has read to a folder, moves its own notices to     *)
(* another, asks GitHub which recorded failures are fixed and announces    *)
(* them, asks for a repair of what is new, and writes the state file last. *)
(*                                                                         *)
(* A mail is a CI run and the attempt that failed; each run of CI is one   *)
(* commit of a branch.  The text of mails, and the limits on how many and  *)
(* how old the mails are that one scan reads, are left out.                *)
(***************************************************************************)
EXTENDS Integers, FiniteSets

CONSTANTS
  Branches,      \* branches of the repositories with CI
  MaxPushes,     \* bound: commits of a branch
  MaxAttempts,   \* bound: mails about one CI run
  MaxStops       \* bound: calls that fail, kills

ASSUME MonitorAssumption ==
  MaxPushes \in Nat \ {0} /\ MaxAttempts \in Nat \ {0} /\ MaxStops \in Nat

VARIABLES
  ci,        \* [Builds -> "none", "pending", "bad" or "green"]
  mail,      \* [Mails -> where the mail is]
  copied,    \* mails in the folder of processed ones
  notice,    \* [Branches -> where the last notice is: "none", "inbox", "flagged"]
  file,      \* the state file: [Builds -> what is recorded]
  torn,      \* the file cannot be read
  monitor,   \* the run of the monitor
  stops,     \* calls that failed, kills
  resolved,  \* history: builds since whose failure the branch has been green
  asked      \* history: builds for which a repair has been asked

mailVars == <<ci, mail, copied, notice, file, torn, monitor, stops, resolved, asked>>
world == <<ci, resolved>>

Builds == Branches \X (1 .. MaxPushes)
Mails == Builds \X (1 .. MaxAttempts)
Of(m) == m[1]      \* detection_key: the build a mail is about
Records == [known : BOOLEAN, filed : BOOLEAN, noticed : BOOLEAN]
Unknown == [known |-> FALSE, filed |-> FALSE, noticed |-> FALSE]
Idle == [at |-> "off"]

MailInit ==
  /\ ci = [r \in Builds |-> "none"] /\ mail = [m \in Mails |-> "unsent"]
  /\ copied = {} /\ notice = [b \in Branches |-> "none"]
  /\ file = [r \in Builds |-> Unknown] /\ torn = FALSE
  /\ monitor = Idle /\ stops = 0 /\ resolved = {} /\ asked = {}

At(label) == monitor.at = label
Go(label) == monitor' = [monitor EXCEPT !.at = label]
Known(book) == {r \in Builds : book[r].known}

-----------------------------------------------------------------------------
(* GitHub.                                                                 *)

Tip(b) == CHOOSE c \in 0 .. MaxPushes :
  \A d \in 1 .. MaxPushes : ci[<<b, d>>] # "none" <=> d <= c

\* Mutant: every run of the branch counts, not only those of the last commit.
NeverBad(b) == Tip(b) # 0 /\ \A c \in 1 .. Tip(b) : ci[<<b, c>>] = "green"

\* latest_branch_run_state
Green(b) == Tip(b) # 0 /\ ci[<<b, Tip(b)>>] = "green"

Sent(r) == {n \in 1 .. MaxAttempts : mail[<<r, n>>] # "unsent"}

Push(b) ==
  /\ Tip(b) < MaxPushes /\ ci' = [ci EXCEPT ![<<b, Tip(b) + 1>>] = "pending"]
  /\ UNCHANGED <<mail, copied, notice, file, torn, monitor, stops, resolved, asked>>

Rerun(r) ==
  /\ ci[r] \in {"bad", "green"} /\ Cardinality(Sent(r)) < MaxAttempts
  /\ ci' = [ci EXCEPT ![r] = "pending"]
  /\ UNCHANGED <<mail, copied, notice, file, torn, monitor, stops, resolved, asked>>

\* A failure is mailed.
Complete(r, end) == LET n == Cardinality(Sent(r)) + 1 IN
  /\ ci[r] = "pending" /\ ci' = [ci EXCEPT ![r] = end]
  /\ IF end = "bad"
     THEN n <= MaxAttempts /\ mail' = [mail EXCEPT ![<<r, n>>] = "inbox"]
     ELSE UNCHANGED mail
  /\ resolved' = resolved \cup
       {q \in Builds : q[1] = r[1] /\ Tip(r[1])' # 0 /\ ci'[<<r[1], Tip(r[1])>>] = "green"
                       /\ \E n2 \in 1 .. MaxAttempts : mail'[<<q, n2>>] # "unsent"}
  /\ UNCHANGED <<copied, notice, file, torn, monitor, stops, asked>>

-----------------------------------------------------------------------------
(* A scan.                                                                 *)

InInbox(m) == mail[m] \in {"inbox", "flagged"}

\* One mail for each build that has any: the first that is listed.
Listings == {s \in SUBSET {m \in Mails : InInbox(m)} :
  \A m \in Mails : InInbox(m) => Cardinality({x \in s : Of(x) = Of(m)}) = 1}

\* should_file_processed_message
ShouldFile(book, m) == ~book[Of(m)].filed

\* The notices that have been long enough in the inbox.
Listed == {b \in Branches : notice[b] # "none"}

\* The state file and the inbox are read.
StartScan ==
  /\ At("off") /\ ~torn
  /\ \E s \in Listings, ready \in SUBSET Listed :
       monitor' = [at |-> "file", book |-> file, found |-> {Of(m) : m \in s},
                   todo |-> {m \in s : ShouldFile(file, m)}, moving |-> {}, filed |-> {},
                   ready |-> ready, pending |-> ready,
                   look |-> {}, fixed |-> {}, unsent |-> {}]
  /\ UNCHANGED <<world, mail, copied, notice, file, torn, stops, asked>>

\* Mutant: the message is flagged first and copied then.
FlagFirst(m) ==
  \/ /\ monitor.moving = {} /\ mail' = [mail EXCEPT ![m] = "flagged"]
     /\ monitor' = [monitor EXCEPT !.moving = {m}] /\ UNCHANGED copied
  \/ /\ monitor.moving = {m} /\ copied' = copied \cup {m}
     /\ monitor' = [monitor EXCEPT !.moving = {}, !.todo = @ \ {m}, !.filed = @ \cup {Of(m)}]
     /\ UNCHANGED mail

\* move_gmail_message: copy, then flag as deleted.
Move(m) ==
  \/ /\ monitor.moving = {} /\ copied' = copied \cup {m}
     /\ monitor' = [monitor EXCEPT !.moving = {m}] /\ UNCHANGED mail
  \/ /\ monitor.moving = {m} /\ mail' = [mail EXCEPT ![m] = "flagged"]
     /\ monitor' = [monitor EXCEPT !.moving = {}, !.todo = @ \ {m}, !.filed = @ \cup {Of(m)}]
     /\ UNCHANGED copied

FileMail ==
  /\ At("file") /\ \E m \in monitor.todo : Move(m)
  /\ UNCHANGED <<world, notice, file, torn, stops, asked>>

\* expunge removes whatever is flagged in the mailbox, of earlier scans too.
Expunge ==
  /\ mail' = [m \in Mails |-> IF mail[m] = "flagged" THEN "moved" ELSE mail[m]]
  /\ notice' = [b \in Branches |-> IF notice[b] = "flagged" THEN "none" ELSE notice[b]]

MailFiled ==
  /\ At("file") /\ monitor.todo = {} /\ Go("notices")
  /\ IF monitor.filed # {} THEN Expunge ELSE UNCHANGED <<mail, notice>>
  /\ UNCHANGED <<world, copied, file, torn, stops, asked>>

FileNotice ==
  /\ At("notices")
  /\ \E b \in monitor.ready :
       /\ notice' = [notice EXCEPT ![b] = IF @ = "none" THEN "none" ELSE "flagged"]
       /\ monitor' = [monitor EXCEPT !.ready = @ \ {b}]
  /\ UNCHANGED <<world, mail, copied, file, torn, stops, asked>>

\* Failures that have been filed and not been announced as fixed.
Open(book) == {r \in Builds : book[r].filed /\ ~book[r].noticed}

NoticesFiled ==
  /\ At("notices") /\ monitor.ready = {}
  /\ monitor' = [monitor EXCEPT !.at = "look", !.look = {r[1] : r \in Open(monitor.book)}]
  /\ IF monitor.pending # {} THEN Expunge ELSE UNCHANGED <<mail, notice>>
  /\ UNCHANGED <<world, copied, file, torn, stops, asked>>

\* find_fixed_runs asks GitHub once for a branch.  (A failure and a fix are never
\* one commit to it: a mail has the short form of the hash.)
LookAt ==
  /\ At("look")
  /\ \E b \in monitor.look : LET green == {b} \cap {x \in Branches : Green(x)} IN
       monitor' = [monitor EXCEPT !.look = @ \ {b}, !.fixed = @ \cup green,
                                  !.unsent = @ \cup green]
  /\ UNCHANGED <<world, mail, copied, notice, file, torn, stops, asked>>

Looked ==
  /\ At("look") /\ monitor.look = {} /\ Go("send")
  /\ UNCHANGED <<world, mail, copied, notice, file, torn, stops, asked>>

\* send_fixed_notifications, one by one; the notice may come to the same inbox.
SendNotice ==
  /\ At("send")
  /\ \E b \in monitor.unsent :
       /\ monitor' = [monitor EXCEPT !.unsent = @ \ {b}]
       /\ notice' = [notice EXCEPT ![b] = "inbox"]
  /\ UNCHANGED <<world, mail, copied, file, torn, stops, asked>>

\* schedule_repair_trigger: a trigger that exists already will do, and one that
\* could not be made is only reported.
Trigger ==
  /\ At("send") /\ monitor.unsent = {} /\ Go("save")
  /\ \/ asked' = asked \cup (monitor.found \ Known(monitor.book)) /\ UNCHANGED stops
     \/ /\ monitor.found \ Known(monitor.book) # {} /\ stops < MaxStops
        /\ stops' = stops + 1 /\ UNCHANGED asked
  /\ UNCHANGED <<world, mail, copied, notice, file, torn>>

\* What is recorded of a failure stays when it is seen again.
Renewed(old, filed) == [known |-> TRUE, filed |-> old.filed \/ filed, noticed |-> old.noticed]

\* Every record of a branch that was announced is marked.
Marked(book) == [r \in Builds |->
  [book[r] EXCEPT !.noticed = @ \/ (book[r].known /\ r[1] \in monitor.fixed)]]

\* update_state
Updated == Marked([r \in Builds |->
  IF r \in monitor.found THEN Renewed(monitor.book[r], r \in monitor.filed)
  ELSE monitor.book[r]])

Save ==
  /\ At("save") /\ file' = Updated /\ monitor' = Idle
  /\ UNCHANGED <<world, mail, copied, notice, torn, stops, asked>>

-----------------------------------------------------------------------------
(* Failures.                                                               *)

\* A call fails or the process is killed, in the middle of the last write too:
\* the file is then cut short and no scan reads it.
Stop ==
  /\ ~At("off") /\ stops < MaxStops /\ stops' = stops + 1 /\ monitor' = Idle
  /\ \/ UNCHANGED <<file, torn>>
     \/ At("save") /\ torn' = TRUE /\ file' = [r \in Builds |-> Unknown]
  /\ UNCHANGED <<world, mail, copied, notice, asked>>

\* A person removes it.
RemoveFile ==
  /\ torn /\ torn' = FALSE
  /\ UNCHANGED <<world, mail, copied, notice, file, monitor, stops, asked>>

MailStep ==
  \/ FileMail \/ MailFiled \/ FileNotice \/ NoticesFiled \/ LookAt \/ Looked
  \/ SendNotice \/ Trigger \/ Save

MailNext ==
  \/ StartScan \/ MailStep \/ Stop \/ RemoveFile
  \/ \E b \in Branches : Push(b)
  \/ \E r \in Builds : Rerun(r) \/ (\E end \in {"bad", "green"} : Complete(r, end))

\* The timer fires again and again, and a scan that is not stopped goes on.
MailFairness == WF_mailVars(StartScan) /\ WF_mailVars(MailStep)

MailSpec == MailInit /\ [][MailNext]_mailVars /\ MailFairness

-----------------------------------------------------------------------------
(* Properties.                                                             *)

\* The file records only failures that were mailed, and what it calls filed has
\* left the inbox, or would have, but for a mail about a later attempt.
MailTypeOK ==
  /\ ci \in [Builds -> {"none", "pending", "bad", "green"}]
  /\ mail \in [Mails -> {"unsent", "inbox", "flagged", "moved"}]
  /\ copied \subseteq Mails /\ file \in [Builds -> Records]
  /\ notice \in [Branches -> {"none", "inbox", "flagged"}]
  /\ \A r \in Builds :
       /\ file[r].known => Sent(r) # {}
       /\ file[r].filed => \E n \in Sent(r) : mail[<<r, n>>] = "moved"

\* No failure is lost: a mail that is out of the inbox is in the folder, and a
\* failure is on record as fixed only if its branch has been green since.
MailKept ==
  /\ \A m \in Mails : mail[m] = "moved" => m \in copied
  /\ \A r \in Builds : file[r].noticed => r \in resolved

\* A recorded failure of a branch that stays green is announced as fixed.
FixAnnounced ==
  \A b \in Branches :
    ~<>[](/\ \E c \in 1 .. Tip(b) : c = Tip(b) /\ ci[<<b, c>>] = "green"
          /\ \E r \in Open(file) : r[1] = b)

\* README.md: each newly detected failure email also schedules a trigger.  When
\* no scan is under way, a repair has been asked for what is out of the inbox.
RepairAsked ==
  At("off") => \A m \in Mails : mail[m] = "moved" => Of(m) \in asked
=============================================================================
