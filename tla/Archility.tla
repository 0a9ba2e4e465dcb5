----------------------------- MODULE Archility -----------------------------
(***************************************************************************)
(* The job that renders the diagrams of the registered repositories and    *)
(* proposes them for review (scripts/archility_pr_deploy.py), while people *)
(* go on working on GitHub.  A branch of the job is named for the commit   *)
(* of the default branch that it was made from; a commit is a number, and  *)
(* so is what the documentation says, which the diagrams follow or not.    *)
(* Which branch is the default one does not change.                        *)
(***************************************************************************)
EXTENDS Naturals, Sequences, FiniteSets

CONSTANTS
  Scheduled, Manual,   \* the job, and a run by hand
  Candidates,          \* the repositories, in the catalog's order
  MaxDeployEvents      \* bound: what people do and what fails

Sites == {Candidates[i] : i \in DOMAIN Candidates}

ASSUME DeployAssumption ==
  Scheduled # Manual /\ MaxDeployEvents \in Nat /\ Candidates \in Seq(Sites)

VARIABLES
  base,       \* [Sites -> the default branch: commit, documented, drawn]
  proposals,  \* [Sites -> the job's branches on GitHub]
  requests,   \* [Sites -> those with an open pull request against the default branch]
  checkouts,  \* [Sites -> a checkout is there, and is the registered one]
  deploys,    \* [Deployers -> the run]
  deployEvents,
  crossed     \* history: two runs overlapped, or a person opened a request

deployVars == <<base, proposals, requests, checkouts, deploys, deployEvents, crossed>>
github == <<base, proposals, requests>>

Deployers == {Scheduled, Manual}
Idling == [at |-> "off", left |-> <<>>, name |-> 0, shows |-> 0]
Names(s) == {b.name : b \in proposals[s]}
Drifted(s) == base[s].drawn # base[s].documented

DeployInit ==
  /\ base = [s \in Sites |-> [commit |-> 0, documented |-> 1, drawn |-> 0]]
  /\ proposals = [s \in Sites |-> {}] /\ requests = proposals
  /\ checkouts \in [Sites -> BOOLEAN]
  /\ deploys = [d \in Deployers |-> Idling]
  /\ deployEvents = 0 /\ crossed = FALSE

-----------------------------------------------------------------------------
(* People.                                                                 *)

DeployEvent == deployEvents < MaxDeployEvents /\ deployEvents' = deployEvents + 1

\* A commit on the default branch, of the documentation or of something else.
Edit(s, more) ==
  /\ DeployEvent
  /\ base' = [base EXCEPT ![s].commit = @ + 1, ![s].documented = @ + more]
  /\ UNCHANGED <<proposals, requests, checkouts, deploys, crossed>>

\* A request ends, merged or not, and the branch may be deleted with it; one that is
\* pointed at another base branch is no request of these any more.
EndReview(s, b, merged, deleted) ==
  /\ DeployEvent /\ b.name \in requests[s]
  /\ requests' = [requests EXCEPT ![s] = @ \ {b.name}]
  /\ proposals' = IF deleted THEN [proposals EXCEPT ![s] = @ \ {b}] ELSE proposals
  /\ base' = IF merged THEN [base EXCEPT ![s].commit = @ + 1, ![s].drawn = b.shows] ELSE base
  /\ UNCHANGED <<checkouts, deploys, crossed>>

\* A person opens the request for a branch that was left without one, or points one
\* at the default branch again.
OpenByHand(s, b) ==
  /\ DeployEvent /\ b.name \notin requests[s]
  /\ requests' = [requests EXCEPT ![s] = @ \cup {b.name}] /\ crossed' = TRUE
  /\ UNCHANGED <<base, proposals, checkouts, deploys>>

CheckoutChanges(s) ==
  /\ DeployEvent /\ checkouts' = [checkouts EXCEPT ![s] = ~@]
  /\ UNCHANGED <<github, deploys, crossed>>

-----------------------------------------------------------------------------
(* A run.                                                                  *)

Deploying(d, label) == deploys[d].at = label
RunStep(d, label) == deploys' = [deploys EXCEPT ![d].at = label]
Candidate(d) == Head(deploys[d].left)

\* Mutant: the first repository that fails ends the run.
GivenUp(d) == Idling

\* _deploy_one returns or raises: main goes on with the next repository.
NextOne(d) == [Idling EXCEPT !.at = "next", !.left = Tail(deploys[d].left)]
Done(d) == deploys' = [deploys EXCEPT ![d] = NextOne(d)]

Begin(d) ==
  /\ Deploying(d, "off")
  /\ deploys' = [deploys EXCEPT ![d] = [Idling EXCEPT !.at = "next", !.left = Candidates]]
  /\ crossed' = (crossed \/ \E e \in Deployers \ {d} : ~Deploying(e, "off"))
  /\ UNCHANGED <<github, checkouts, deployEvents>>

\* No usable checkout: skipped, or a failure.
NoCheckout(d) ==
  /\ Deploying(d, "next") /\ deploys[d].left # <<>> /\ ~checkouts[Candidate(d)] /\ Done(d)
  /\ UNCHANGED <<github, checkouts, deployEvents, crossed>>

\* Mutant: an open request is not looked for.
Regardless(s) == TRUE

\* _open_archility_pr_exists, which asks GitHub for those with --base the default branch.
NoneOpen(s) == requests[s] = {}

LookForRequest(d) ==
  /\ Deploying(d, "next") /\ deploys[d].left # <<>> /\ checkouts[Candidate(d)]
  /\ IF NoneOpen(Candidate(d)) THEN RunStep(d, "base") ELSE Done(d)
  /\ UNCHANGED <<github, checkouts, deployEvents, crossed>>

\* _latest_remote_sha
ReadBase(d) ==
  /\ Deploying(d, "base")
  /\ deploys' = [deploys EXCEPT ![d].at = "branch", ![d].name = base[Candidate(d)].commit]
  /\ UNCHANGED <<github, checkouts, deployEvents, crossed>>

\* _has_remote_branch
LookForBranch(d) ==
  /\ Deploying(d, "branch")
  /\ IF deploys[d].name \in Names(Candidate(d)) THEN Done(d) ELSE RunStep(d, "clone")
  /\ UNCHANGED <<github, checkouts, deployEvents, crossed>>

\* The clone is of the default branch as it is now; it is rendered and committed.
RenderClone(d) == LET s == Candidate(d) IN
  /\ Deploying(d, "clone")
  /\ IF Drifted(s)
     THEN deploys' = [deploys EXCEPT ![d].at = "push", ![d].shows = base[s].documented]
     ELSE Done(d)
  /\ UNCHANGED <<github, checkouts, deployEvents, crossed>>

\* Mutant: the push is forced.
ForcedOver(d) ==
  [proposals EXCEPT ![Candidate(d)] = {b \in @ : b.name # deploys[d].name}
                                 \cup {[name |-> deploys[d].name, shows |-> deploys[d].shows]}]

\* git refuses a push to a branch that is there with another commit.
Pushed(d) ==
  [proposals EXCEPT ![Candidate(d)] =
     IF deploys[d].name \in Names(Candidate(d)) THEN @
     ELSE @ \cup {[name |-> deploys[d].name, shows |-> deploys[d].shows]}]

PushBranch(d) ==
  /\ Deploying(d, "push") /\ proposals' = Pushed(d)
  /\ IF deploys[d].name \notin Names(Candidate(d)) THEN RunStep(d, "create") ELSE Done(d)
  /\ UNCHANGED <<base, requests, checkouts, deployEvents, crossed>>

\* gh pr create; there is nothing to ask for if the branch has gone.
CreateRequest(d) == LET s == Candidate(d) IN
  /\ Deploying(d, "create") /\ Done(d)
  /\ requests' = [requests EXCEPT ![s] = @ \cup ({deploys[d].name} \cap Names(s))]
  /\ UNCHANGED <<base, proposals, checkouts, deployEvents, crossed>>

AllDone(d) ==
  /\ Deploying(d, "next") /\ deploys[d].left = <<>>
  /\ deploys' = [deploys EXCEPT ![d] = Idling]
  /\ UNCHANGED <<github, checkouts, deployEvents, crossed>>

\* A command of _deploy_one fails or takes too long.  A push that reached GitHub all
\* the same is PushBranch and a failure after it; a request, CreateRequest itself.
FailsHere(d) ==
  /\ DeployEvent /\ ~Deploying(d, "off") /\ deploys[d].left # <<>> /\ Done(d)
  /\ UNCHANGED <<github, checkouts, crossed>>

DeployKilled(d) ==
  /\ DeployEvent /\ ~Deploying(d, "off") /\ deploys' = [deploys EXCEPT ![d] = Idling]
  /\ UNCHANGED <<github, checkouts, crossed>>

DeployStep(d) ==
  \/ NoCheckout(d) \/ LookForRequest(d) \/ ReadBase(d) \/ LookForBranch(d)
  \/ RenderClone(d) \/ PushBranch(d) \/ CreateRequest(d) \/ AllDone(d)

DeployNext ==
  \/ \E d \in Deployers : Begin(d) \/ DeployStep(d) \/ FailsHere(d) \/ DeployKilled(d)
  \/ \E s \in Sites :
       \/ CheckoutChanges(s)
       \/ \E more \in 0 .. 1 : Edit(s, more)
       \/ \E b \in proposals[s] :
            \/ OpenByHand(s, b)
            \/ \E merged, deleted \in BOOLEAN : EndReview(s, b, merged, deleted)

\* The job is started twice a week, and a run that is not killed ends.
DeployFairness ==
  WF_deployVars(Begin(Scheduled)) /\ \A d \in Deployers : WF_deployVars(DeployStep(d))

DeploySpec == DeployInit /\ [][DeployNext]_deployVars /\ DeployFairness

-----------------------------------------------------------------------------
(* Properties.                                                             *)

\* Every open request is of a branch that is there, branches are named for commits
\* that exist, and a run works on one candidate after the other.
DeployTypeOK ==
  /\ base \in [Sites -> [commit : Nat, documented : Nat, drawn : Nat]]
  /\ checkouts \in [Sites -> BOOLEAN]
  /\ \A s \in Sites :
       /\ requests[s] \subseteq Names(s) /\ Names(s) \subseteq 0 .. base[s].commit
       /\ \A b \in proposals[s] : b.shows <= base[s].documented
  /\ \A d \in Deployers :
       /\ deploys[d].at \in {"off", "next", "base", "branch", "clone", "push", "create"}
       /\ deploys[d].at \notin {"off", "next"} => deploys[d].left # <<>>

\* README.md: a repository is skipped while a diagram request is open.  Unless two
\* runs overlap or a person opens one, there is never a second open request,
\* whatever the default branch does and wherever runs fail or are killed.
OneRequest == ~crossed => \A s \in Sites : Cardinality(requests[s]) <= 1

\* What a branch of the job shows on GitHub is never replaced by another render.
RendersKept ==
  [][\A s \in Sites : \A b \in proposals[s], c \in proposals'[s] :
       b.name = c.name => b.shows = c.shows]_deployVars

\* Diagrams that have drifted are proposed sooner or later, whatever becomes of the
\* other repositories: they are drawn, a request is open, or a branch for the
\* present commit waits for a person.
DriftProposed ==
  \A s \in Sites : <>[]checkouts[s] =>
    []<>(~Drifted(s) \/ requests[s] # {} \/ base[s].commit \in Names(s))
=============================================================================
