---------------------------- MODULE UpkeepProofs ----------------------------
(***************************************************************************)
(* Theorems about the programs that look after the repositories: the       *)
(* diagram job (Archility), the mail monitor (MailMonitor) and the purge   *)
(* (Purge), each for all sets of whatever it works on, and the types of    *)
(* what these, the job guard and the bootstrap commands keep.              *)
(***************************************************************************)
EXTENDS MCUpkeep, JobGuardProofs, BootstrapProofs

-----------------------------------------------------------------------------
(* Archility                                                               *)

BaseRecords == [commit : Nat, documented : Nat, drawn : Nat]
Shown == [name : Nat, shows : Nat]
RunLabels == {"off", "next", "base", "branch", "clone", "push", "create"}
Runs == [at : RunLabels, left : Seq(Sites), name : Nat, shows : Nat]

DTyped ==
  /\ base \in [Sites -> BaseRecords] /\ proposals \in [Sites -> SUBSET Shown]
  /\ requests \in [Sites -> SUBSET Nat] /\ checkouts \in [Sites -> BOOLEAN]
  /\ deploys \in [Deployers -> Runs] /\ deployEvents \in Nat /\ crossed \in BOOLEAN

\* What a run has read is not newer than what is there.
Dated ==
  /\ \A s \in Sites :
       /\ requests[s] \subseteq Names(s) /\ Names(s) \subseteq 0 .. base[s].commit
       /\ \A b \in proposals[s] : b.shows <= base[s].documented
  /\ \A d \in Deployers :
       /\ deploys[d].at \notin {"off", "next"} => deploys[d].left # <<>>
       /\ deploys[d].at \in {"branch", "clone", "push", "create"} =>
            deploys[d].name <= base[Candidate(d)].commit
       /\ deploys[d].at = "push" => deploys[d].shows <= base[Candidate(d)].documented

\* A branch shows one render.
OneRender == \A s \in Sites : \A b, c \in proposals[s] : b.name = c.name => b.shows = c.shows

\* One run at a time, which is past its look for a request only if there was none.
Alone ==
  ~crossed =>
    /\ \A d, e \in Deployers : deploys[d].at # "off" /\ deploys[e].at # "off" => d = e
    /\ \A s \in Sites : \A x, y \in requests[s] : x = y
    /\ \A d \in Deployers : deploys[d].at \notin {"off", "next"} => requests[Candidate(d)] = {}

DeployInv == DTyped /\ Dated /\ OneRender /\ Alone

LEMMA IdlingTyped == Idling \in Runs
<1>1. <<>> \in Seq(Sites)
  OBVIOUS
<1> QED BY <1>1 DEF Idling, Runs, RunLabels

LEMMA DeployersApart == Scheduled \in Deployers /\ Manual \in Deployers
BY DEF Deployers

\* Every step is one of these.
LEMMA DeployCases ==
  ASSUME NEW P, [DeployNext]_deployVars, UNCHANGED deployVars => P,
         \A d \in Deployers :
           /\ Begin(d) => P
           /\ NoCheckout(d) => P
           /\ LookForRequest(d) => P
           /\ ReadBase(d) => P
           /\ LookForBranch(d) => P
           /\ RenderClone(d) => P
           /\ PushBranch(d) => P
           /\ CreateRequest(d) => P
           /\ AllDone(d) => P
           /\ FailsHere(d) => P
           /\ DeployKilled(d) => P,
         \A s \in Sites :
           /\ CheckoutChanges(s) => P
           /\ \A more \in 0 .. 1 : Edit(s, more) => P
           /\ \A b \in proposals[s] :
                /\ OpenByHand(s, b) => P
                /\ \A merged, deleted \in BOOLEAN : EndReview(s, b, merged, deleted) => P
  PROVE  P
BY DEF DeployNext, DeployStep

\* What a run does to its own record: it goes to the next repository, or to a
\* place within this one, or ends.
LEMMA DoneEffect ==
  ASSUME DTyped, NEW d \in Deployers, deploys[d].left # <<>>, Done(d)
  PROVE  /\ deploys' \in [Deployers -> Runs]
         /\ \A e \in Deployers \ {d} : deploys'[e] = deploys[e]
         /\ deploys'[d].at = "next"
<1> DEFINE t == Tail(deploys[d].left)
           r == [Idling EXCEPT !.at = "next", !.left = t]
<1>1. t \in Seq(Sites)
  BY DEF DTyped, Runs
<1>2. r \in Runs /\ r.at = "next"
  <2> HIDE DEF t
  <2> QED BY <1>1 DEF Idling, Runs, RunLabels
<1>3. deploys' = [deploys EXCEPT ![d] = r]
  BY DEF Done, NextOne
<1> HIDE DEF r
<1> QED BY <1>2, <1>3 DEF DTyped

LEMMA RunStepEffect ==
  ASSUME DTyped, NEW d \in Deployers, NEW l \in RunLabels, RunStep(d, l)
  PROVE  /\ deploys' \in [Deployers -> Runs]
         /\ \A e \in Deployers \ {d} : deploys'[e] = deploys[e]
         /\ deploys'[d].at = l /\ deploys'[d].left = deploys[d].left
         /\ deploys'[d].name = deploys[d].name /\ deploys'[d].shows = deploys[d].shows
BY DEF RunStep, DTyped, Runs

LEMMA FirstTyped ==
  ASSUME DTyped, NEW d \in Deployers, deploys[d].left # <<>>
  PROVE  Candidate(d) \in Sites
BY DEF DTyped, Runs, Candidate

\* A run that is in a repository, or about to be.
Busy(d) == deploys[d].at \in RunLabels \ {"off"} /\ deploys[d].left # <<>>

\* The steps of a run that end with Done, and those that stay in a repository.
LEMMA RunEffect ==
  ASSUME DTyped, Dated, NEW d \in Deployers,
         \/ NoCheckout(d) \/ LookForRequest(d) \/ ReadBase(d) \/ LookForBranch(d)
         \/ RenderClone(d) \/ PushBranch(d) \/ CreateRequest(d) \/ FailsHere(d)
  PROVE  /\ Busy(d) /\ Candidate(d) \in Sites /\ deploys' \in [Deployers -> Runs]
         /\ \A e \in Deployers \ {d} : deploys'[e] = deploys[e]
         /\ UNCHANGED <<base, checkouts, crossed>>
         /\ \/ deploys'[d].at = "next"
            \/ /\ deploys[d].at = "next" /\ deploys'[d].at = "base"
               /\ NoneOpen(Candidate(d)) /\ UNCHANGED <<proposals, requests>>
               /\ deploys'[d].left = deploys[d].left
            \/ /\ deploys[d].at = "base" /\ deploys'[d].at = "branch"
               /\ deploys'[d].name = base[Candidate(d)].commit
               /\ UNCHANGED <<proposals, requests>> /\ deploys'[d].left = deploys[d].left
            \/ /\ deploys[d].at = "branch" /\ deploys'[d].at = "clone"
               /\ deploys'[d].name = deploys[d].name
               /\ UNCHANGED <<proposals, requests>> /\ deploys'[d].left = deploys[d].left
            \/ /\ deploys[d].at = "clone" /\ deploys'[d].at = "push"
               /\ deploys'[d].name = deploys[d].name
               /\ deploys'[d].shows = base[Candidate(d)].documented
               /\ UNCHANGED <<proposals, requests>> /\ deploys'[d].left = deploys[d].left
            \/ /\ deploys[d].at = "push" /\ deploys'[d].at = "create"
               /\ deploys'[d].name = deploys[d].name
               /\ UNCHANGED requests /\ deploys'[d].left = deploys[d].left
<1>1. deploys[d].at \in RunLabels /\ deploys \in [Deployers -> Runs] /\ deploys[d] \in Runs
  BY DEF DTyped, Runs
<1>2. Busy(d)
  BY <1>1 DEF Busy, Dated, NoCheckout, LookForRequest, ReadBase, LookForBranch, RenderClone,
     PushBranch, CreateRequest, FailsHere, Deploying
<1>3. Candidate(d) \in Sites
  BY <1>2, FirstTyped DEF Busy
<1>4. UNCHANGED <<base, checkouts, crossed>>
  BY DEF NoCheckout, LookForRequest, ReadBase, LookForBranch, RenderClone, PushBranch,
     CreateRequest, FailsHere, github
<1>5. CASE Done(d)
  BY <1>2, <1>3, <1>4, <1>5, DoneEffect DEF Busy
<1>6. CASE LookForRequest(d) /\ RunStep(d, "base")
  <2>1. NoneOpen(Candidate(d)) \/ Done(d)
    BY <1>6 DEF LookForRequest
  <2> QED BY <1>2, <1>3, <1>4, <1>5, <1>6, <2>1, RunStepEffect
          DEF LookForRequest, RunLabels, Deploying, github
<1>7. CASE ReadBase(d)
  <2> DEFINE n == base[Candidate(d)].commit
             r == [deploys[d] EXCEPT !.at = "branch", !.name = n]
  <2>1. n \in Nat
    BY <1>3 DEF DTyped, BaseRecords
  <2>2. deploys' = [deploys EXCEPT ![d] = r]
    BY <1>7, <1>1 DEF ReadBase, Runs
  <2>3. r \in Runs /\ r.at = "branch" /\ r.name = n /\ r.left = deploys[d].left
    <3> HIDE DEF n
    <3> QED BY <1>1, <2>1 DEF Runs, RunLabels
  <2> HIDE DEF r
  <2>4. deploys' \in [Deployers -> Runs] /\ deploys'[d] = r
        /\ \A e \in Deployers \ {d} : deploys'[e] = deploys[e]
    BY <1>1, <2>2, <2>3
  <2> QED BY <1>2, <1>3, <1>4, <1>7, <2>3, <2>4 DEF ReadBase, Deploying, github
<1>8. CASE LookForBranch(d) /\ RunStep(d, "clone")
  BY <1>2, <1>3, <1>4, <1>8, RunStepEffect DEF LookForBranch, RunLabels, Deploying, github
<1>9. CASE RenderClone(d) /\ ~Done(d)
  <2> DEFINE n == base[Candidate(d)].documented
             r == [deploys[d] EXCEPT !.at = "push", !.shows = n]
  <2>1. n \in Nat
    BY <1>3 DEF DTyped, BaseRecords
  <2>2. deploys' = [deploys EXCEPT ![d] = r]
    BY <1>9, <1>1 DEF RenderClone, Runs
  <2>3. r \in Runs /\ r.at = "push" /\ r.name = deploys[d].name /\ r.shows = n
        /\ r.left = deploys[d].left
    <3> HIDE DEF n
    <3> QED BY <1>1, <2>1 DEF Runs, RunLabels
  <2> HIDE DEF r
  <2>4. deploys' \in [Deployers -> Runs] /\ deploys'[d] = r
        /\ \A e \in Deployers \ {d} : deploys'[e] = deploys[e]
    BY <1>1, <2>2, <2>3
  <2> QED BY <1>2, <1>3, <1>4, <1>9, <2>3, <2>4 DEF RenderClone, Deploying, github
<1>10. CASE PushBranch(d) /\ RunStep(d, "create")
  BY <1>2, <1>3, <1>4, <1>10, RunStepEffect DEF PushBranch, RunLabels, Deploying
<1> QED BY <1>5, <1>6, <1>7, <1>8, <1>9, <1>10 DEF NoCheckout, LookForRequest, LookForBranch,
           RenderClone, PushBranch, CreateRequest, FailsHere

\* The default branch moves on.
LEMMA EditEffect ==
  ASSUME DTyped, NEW s \in Sites, NEW more \in 0 .. 1, Edit(s, more)
  PROVE  /\ base' \in [Sites -> BaseRecords]
         /\ \A t \in Sites : base[t].commit <= base'[t].commit
                            /\ base[t].documented <= base'[t].documented
<1> DEFINE r == base[s]
           c == r.commit + 1
           d == r.documented + more
           q == [[r EXCEPT !.commit = c] EXCEPT !.documented = d]
<1>1. r \in BaseRecords /\ c \in Nat /\ d \in Nat /\ r.commit <= c /\ r.documented <= d
  BY DEF DTyped, BaseRecords
<1>2. base' = [base EXCEPT ![s] = q]
  BY DEF Edit, DTyped, BaseRecords
<1>3. q \in BaseRecords /\ q.commit = c /\ q.documented = d
  <2> HIDE DEF r, c, d
  <2> QED BY <1>1 DEF BaseRecords
<1> HIDE DEF q
<1>4. \A t \in Sites : base[t].commit \in Nat /\ base[t].documented \in Nat
  BY DEF DTyped, BaseRecords
<1> QED BY <1>1, <1>2, <1>3, <1>4 DEF DTyped

LEMMA ReviewEffect ==
  ASSUME DTyped, NEW s \in Sites, NEW b \in proposals[s], NEW merged \in BOOLEAN,
         NEW deleted \in BOOLEAN, EndReview(s, b, merged, deleted)
  PROVE  /\ base' \in [Sites -> BaseRecords]
         /\ \A t \in Sites : base[t].commit <= base'[t].commit
                            /\ base[t].documented <= base'[t].documented
<1> DEFINE r == base[s]
           c == r.commit + 1
           d == b.shows
           q == [[r EXCEPT !.commit = c] EXCEPT !.drawn = d]
<1>1. r \in BaseRecords /\ c \in Nat /\ d \in Nat /\ r.commit <= c
  BY DEF DTyped, BaseRecords, Shown
<1>2. base' = base \/ base' = [base EXCEPT ![s] = q]
  BY DEF EndReview, DTyped, BaseRecords
<1>3. q \in BaseRecords /\ q.commit = c /\ q.documented = r.documented
  <2> HIDE DEF r, c, d
  <2> QED BY <1>1 DEF BaseRecords
<1> HIDE DEF q
<1>4. \A t \in Sites : base[t].commit \in Nat /\ base[t].documented \in Nat
  BY DEF DTyped, BaseRecords
<1> QED BY <1>1, <1>2, <1>3, <1>4 DEF DTyped

LEMMA DTypedStep ==
  ASSUME DTyped, Dated, [DeployNext]_deployVars
  PROVE  DTyped'
<1> DEFINE P == DTyped'
<1>1. \A d \in Deployers : (NoCheckout(d) \/ LookForRequest(d) \/ ReadBase(d) \/ LookForBranch(d)
         \/ RenderClone(d) \/ FailsHere(d)) => P
  <2> SUFFICES ASSUME NEW d \in Deployers,
                      NoCheckout(d) \/ LookForRequest(d) \/ ReadBase(d) \/ LookForBranch(d)
                        \/ RenderClone(d) \/ FailsHere(d)
               PROVE  P
    OBVIOUS
  <2>1. UNCHANGED <<base, proposals, requests, checkouts, crossed>> /\ deployEvents' \in Nat
    BY DEF NoCheckout, LookForRequest, ReadBase, LookForBranch, RenderClone, FailsHere, github,
       DeployEvent, DTyped
  <2>2. deploys' \in [Deployers -> Runs]
    BY RunEffect
  <2> QED BY <2>1, <2>2 DEF DTyped
<1>2. \A d \in Deployers : PushBranch(d) => P
  <2> SUFFICES ASSUME NEW d \in Deployers, PushBranch(d) PROVE P
    OBVIOUS
  <2>1. Candidate(d) \in Sites /\ deploys' \in [Deployers -> Runs]
    BY RunEffect
  <2>2. [name |-> deploys[d].name, shows |-> deploys[d].shows] \in Shown
    BY DEF DTyped, Runs, Shown
  <2>3. proposals' \in [Sites -> SUBSET Shown]
    BY <2>1, <2>2 DEF PushBranch, Pushed, DTyped
  <2> QED BY <2>1, <2>3 DEF PushBranch, DTyped
<1>3. \A d \in Deployers : CreateRequest(d) => P
  <2> SUFFICES ASSUME NEW d \in Deployers, CreateRequest(d) PROVE P
    OBVIOUS
  <2>1. Candidate(d) \in Sites /\ deploys' \in [Deployers -> Runs]
    BY RunEffect
  <2>2. deploys[d].name \in Nat
    BY DEF DTyped, Runs
  <2>3. requests' \in [Sites -> SUBSET Nat]
    BY <2>1, <2>2 DEF CreateRequest, DTyped
  <2> QED BY <2>1, <2>3 DEF CreateRequest, DTyped
<1>4. \A d \in Deployers : Begin(d) => P
  <2> SUFFICES ASSUME NEW d \in Deployers, Begin(d) PROVE P
    OBVIOUS
  <2> DEFINE r == [Idling EXCEPT !.at = "next", !.left = Candidates]
  <2>1. r \in Runs
    BY DeployAssumption DEF Idling, Runs, RunLabels
  <2>2. deploys' = [deploys EXCEPT ![d] = r]
    BY DEF Begin
  <2> HIDE DEF r
  <2>3. deploys' \in [Deployers -> Runs] /\ crossed' \in BOOLEAN
    BY <2>1, <2>2 DEF DTyped, Begin
  <2> QED BY <2>3 DEF Begin, DTyped, github
<1>5. \A d \in Deployers : (AllDone(d) \/ DeployKilled(d)) => P
  BY IdlingTyped DEF AllDone, DeployKilled, DTyped, github, DeployEvent
<1>6. \A s \in Sites : CheckoutChanges(s) => P
  BY DEF CheckoutChanges, DTyped, github, DeployEvent
<1>7. \A s \in Sites, more \in 0 .. 1 : Edit(s, more) => P
  <2> SUFFICES ASSUME NEW s \in Sites, NEW more \in 0 .. 1, Edit(s, more) PROVE P
    OBVIOUS
  <2>1. base' \in [Sites -> BaseRecords]
    BY EditEffect
  <2> QED BY <2>1 DEF Edit, DTyped, DeployEvent
<1>8. \A s \in Sites : \A b \in proposals[s] : \A merged, deleted \in BOOLEAN :
        EndReview(s, b, merged, deleted) => P
  <2> SUFFICES ASSUME NEW s \in Sites, NEW b \in proposals[s], NEW merged \in BOOLEAN,
                      NEW deleted \in BOOLEAN, EndReview(s, b, merged, deleted)
               PROVE  P
    OBVIOUS
  <2>2. base' \in [Sites -> BaseRecords]
    BY ReviewEffect
  <2>3. proposals' \in [Sites -> SUBSET Shown] /\ requests' \in [Sites -> SUBSET Nat]
    BY DEF EndReview, DTyped
  <2> QED BY <2>2, <2>3 DEF EndReview, DTyped, DeployEvent
<1>9. \A s \in Sites : \A b \in proposals[s] : OpenByHand(s, b) => P
  <2> SUFFICES ASSUME NEW s \in Sites, NEW b \in proposals[s], OpenByHand(s, b) PROVE P
    OBVIOUS
  <2>1. b.name \in Nat
    BY DEF DTyped, Shown
  <2>2. requests' \in [Sites -> SUBSET Nat]
    BY <2>1 DEF OpenByHand, DTyped
  <2> QED BY <2>2 DEF OpenByHand, DTyped, DeployEvent
<1>10. UNCHANGED deployVars => P
  BY DEF deployVars, DTyped
<1>11. P
  <2> HIDE DEF P
  <2> QED BY <1>1, <1>2, <1>3, <1>4, <1>5, <1>6, <1>7, <1>8, <1>9, <1>10, DeployCases
<1> QED BY <1>11

\* Names and renders of a branch are at most as new as the default branch.
LEMMA DatedStep ==
  ASSUME DTyped, Dated, [DeployNext]_deployVars
  PROVE  Dated'
<1> DEFINE P == Dated'
           Places(d) ==
             /\ deploys[d].at \notin {"off", "next"} => deploys[d].left # <<>>
             /\ deploys[d].at \in {"branch", "clone", "push", "create"} =>
                  deploys[d].name <= base[Candidate(d)].commit
             /\ deploys[d].at = "push" => deploys[d].shows <= base[Candidate(d)].documented
           Branched(s) ==
             /\ requests[s] \subseteq Names(s) /\ Names(s) \subseteq 0 .. base[s].commit
             /\ \A b \in proposals[s] : b.shows <= base[s].documented
<1>0. /\ \A s \in Sites : base[s].commit \in Nat /\ base[s].documented \in Nat
      /\ \A s \in Sites : \A b \in proposals[s] : b.name \in Nat /\ b.shows \in Nat
      /\ \A d \in Deployers : deploys[d].name \in Nat /\ deploys[d].shows \in Nat
      /\ \A d \in Deployers : deploys[d].left # <<>> => Candidate(d) \in Sites
  BY FirstTyped DEF DTyped, BaseRecords, Shown, Runs
<1>1. (\A d \in Deployers : Places(d)) /\ \A s \in Sites : Branched(s)
  BY DEF Dated
<1>2. ASSUME (\A d \in Deployers : Places(d)'), \A s \in Sites : Branched(s)' PROVE P
  BY <1>2 DEF Dated
\* The branches stay, and the default branches move on.
<1>3. ASSUME NEW s \in Sites, proposals'[s] \subseteq proposals[s],
             requests'[s] \subseteq Names(s)', base'[s].commit \in Nat, base'[s].documented \in Nat,
             base[s].commit <= base'[s].commit, base[s].documented <= base'[s].documented
      PROVE  Branched(s)'
  BY <1>0, <1>1, <1>3 DEF Names
<1>4. ASSUME NEW d \in Deployers, deploys'[d] = deploys[d],
             \A s \in Sites : /\ base'[s].commit \in Nat /\ base'[s].documented \in Nat
                              /\ base[s].commit <= base'[s].commit
                              /\ base[s].documented <= base'[s].documented
      PROVE  Places(d)'
  <2>1. Candidate(d)' = Candidate(d)
    BY <1>4 DEF Candidate
  <2> QED BY <1>0, <1>1, <1>4, <2>1
<1>5. ASSUME NEW d \in Deployers, UNCHANGED base, \A e \in Deployers \ {d} : deploys'[e] = deploys[e]
      PROVE  \A e \in Deployers \ {d} : Places(e)'
  BY <1>0, <1>4, <1>5
<1>6. ASSUME UNCHANGED <<base, proposals, requests>> PROVE \A s \in Sites : Branched(s)'
  BY <1>1, <1>6 DEF Names
<1>7. \A d \in Deployers : (NoCheckout(d) \/ LookForRequest(d) \/ ReadBase(d) \/ LookForBranch(d)
         \/ RenderClone(d) \/ PushBranch(d) \/ CreateRequest(d) \/ FailsHere(d))
         => \A e \in Deployers : Places(e)'
  <2> SUFFICES ASSUME NEW d \in Deployers,
                      \/ NoCheckout(d) \/ LookForRequest(d) \/ ReadBase(d) \/ LookForBranch(d)
                      \/ RenderClone(d) \/ PushBranch(d) \/ CreateRequest(d) \/ FailsHere(d)
               PROVE  \A e \in Deployers : Places(e)'
    OBVIOUS
  <2>1. /\ Busy(d) /\ Candidate(d) \in Sites /\ UNCHANGED base
        /\ \A e \in Deployers \ {d} : deploys'[e] = deploys[e]
        /\ \/ deploys'[d].at = "next"
           \/ /\ deploys'[d].at = "base" /\ deploys'[d].left = deploys[d].left
           \/ /\ deploys'[d].at = "branch" /\ deploys'[d].name = base[Candidate(d)].commit
              /\ deploys'[d].left = deploys[d].left
           \/ /\ deploys[d].at = "branch" /\ deploys'[d].at = "clone"
              /\ deploys'[d].name = deploys[d].name /\ deploys'[d].left = deploys[d].left
           \/ /\ deploys[d].at = "clone" /\ deploys'[d].at = "push"
              /\ deploys'[d].name = deploys[d].name
              /\ deploys'[d].shows = base[Candidate(d)].documented
              /\ deploys'[d].left = deploys[d].left
           \/ /\ deploys[d].at = "push" /\ deploys'[d].at = "create"
              /\ deploys'[d].name = deploys[d].name /\ deploys'[d].left = deploys[d].left
    BY RunEffect
  <2>2. \A e \in Deployers \ {d} : Places(e)'
    BY <1>5, <2>1
  <2>3. CASE deploys'[d].at = "next"
    BY <2>2, <2>3
  <2>4. CASE deploys'[d].at # "next"
    <3>1. Candidate(d)' = Candidate(d) /\ deploys'[d].left # <<>>
      BY <2>1, <2>4 DEF Candidate, Busy
    <3>2. Places(d)
      BY <1>1
    <3>3. base[Candidate(d)].commit \in Nat /\ base[Candidate(d)].documented \in Nat
      BY <1>0, <2>1
    <3>4. Places(d)'
      BY <2>1, <2>4, <3>1, <3>2, <3>3
    <3> QED BY <2>2, <3>4
  <2> QED BY <2>3, <2>4
<1>8. \A d \in Deployers : (NoCheckout(d) \/ LookForRequest(d) \/ ReadBase(d) \/ LookForBranch(d)
         \/ RenderClone(d) \/ FailsHere(d)) => P
  <2>1. \A d \in Deployers : (NoCheckout(d) \/ LookForRequest(d) \/ ReadBase(d)
           \/ LookForBranch(d) \/ RenderClone(d) \/ FailsHere(d))
           => UNCHANGED <<base, proposals, requests>>
    BY DEF NoCheckout, LookForRequest, ReadBase, LookForBranch, RenderClone, FailsHere, github
  <2> HIDE DEF P, Places, Branched
  <2> QED BY <1>2, <1>6, <1>7, <2>1
<1>9. \A d \in Deployers : PushBranch(d) => P
  <2> SUFFICES ASSUME NEW d \in Deployers, PushBranch(d) PROVE P
    OBVIOUS
  <2>0. PICK s \in Sites : s = Candidate(d)
    BY RunEffect
  <2>1. UNCHANGED <<base, requests>> /\ deploys[d].at = "push"
    BY DEF PushBranch, Deploying
  <2>a. PICK b : b = [name |-> deploys[d].name, shows |-> deploys[d].shows]
    OBVIOUS
  <2>2. b.name \in 0 .. base[s].commit /\ b.shows <= base[s].documented
    BY <1>0, <1>1, <2>0, <2>1, <2>a
  <2>3. /\ \A t \in Sites \ {s} : proposals'[t] = proposals[t]
        /\ proposals[s] \subseteq proposals'[s] /\ proposals'[s] \subseteq proposals[s] \cup {b}
    BY <2>0, <2>a DEF PushBranch, Pushed, DTyped
  <2>4. \A t \in Sites \ {s} : Branched(t)'
    BY <1>1, <2>1, <2>3 DEF Names
  <2>5. Branched(s)'
    BY <1>1, <2>1, <2>2, <2>3 DEF Names
  <2>6. \A t \in Sites : Branched(t)'
    BY <2>4, <2>5
  <2> HIDE DEF P, Places, Branched
  <2> QED BY <1>2, <1>7, <2>6
<1>10. \A d \in Deployers : CreateRequest(d) => P
  <2> SUFFICES ASSUME NEW d \in Deployers, CreateRequest(d) PROVE P
    OBVIOUS
  <2>1. Candidate(d) \in Sites /\ UNCHANGED <<base, proposals>>
    BY RunEffect DEF CreateRequest
  <2>2. \A t \in Sites : requests'[t] \subseteq Names(t)
    BY <1>1, <2>1 DEF CreateRequest, DTyped
  <2>3. \A t \in Sites : Branched(t)'
    BY <1>1, <2>1, <2>2 DEF Names
  <2> HIDE DEF P, Places, Branched
  <2> QED BY <1>2, <1>7, <2>3
<1>11. \A d \in Deployers : (Begin(d) \/ AllDone(d) \/ DeployKilled(d)) => P
  <2> SUFFICES ASSUME NEW d \in Deployers, Begin(d) \/ AllDone(d) \/ DeployKilled(d) PROVE P
    OBVIOUS
  <2>1. /\ UNCHANGED <<base, proposals, requests>> /\ deploys'[d].at \in {"off", "next"}
        /\ \A e \in Deployers \ {d} : deploys'[e] = deploys[e]
    <3>1. CASE Begin(d)
      BY <3>1 DEF Begin, DTyped, Idling, github
    <3>2. CASE AllDone(d) \/ DeployKilled(d)
      BY <3>2 DEF AllDone, DeployKilled, DTyped, Idling, github
    <3> QED BY <3>1, <3>2
  <2>2. \A e \in Deployers : Places(e)'
    BY <1>5, <2>1
  <2> HIDE DEF P, Places, Branched
  <2> QED BY <1>2, <1>6, <2>1, <2>2
<1>12. \A s \in Sites : CheckoutChanges(s) => P
  <2>1. \A s \in Sites : CheckoutChanges(s) => UNCHANGED <<base, proposals, requests, deploys>>
    BY DEF CheckoutChanges, github
  <2> QED BY <1>1, <2>1 DEF Dated, Names, Candidate
<1>13. \A s \in Sites, more \in 0 .. 1 : Edit(s, more) => P
  <2> SUFFICES ASSUME NEW s \in Sites, NEW more \in 0 .. 1, Edit(s, more) PROVE P
    OBVIOUS
  <2>1. UNCHANGED <<proposals, requests, deploys>>
        /\ \A t \in Sites : /\ base'[t].commit \in Nat /\ base'[t].documented \in Nat
                            /\ base[t].commit <= base'[t].commit
                            /\ base[t].documented <= base'[t].documented
    BY EditEffect DEF Edit, BaseRecords
  <2>2. \A d \in Deployers : Places(d)'
    BY <1>4, <2>1
  <2>3. \A t \in Sites : Branched(t)'
    BY <1>1, <1>3, <2>1 DEF Names
  <2> HIDE DEF P, Places, Branched
  <2> QED BY <1>2, <2>2, <2>3
<1>14. \A s \in Sites : \A b \in proposals[s] : \A merged, deleted \in BOOLEAN :
         EndReview(s, b, merged, deleted) => P
  <2> SUFFICES ASSUME NEW s \in Sites, NEW b \in proposals[s], NEW merged \in BOOLEAN,
                      NEW deleted \in BOOLEAN, EndReview(s, b, merged, deleted)
               PROVE  P
    OBVIOUS
  <2>1. UNCHANGED deploys
        /\ \A t \in Sites : /\ base'[t].commit \in Nat /\ base'[t].documented \in Nat
                            /\ base[t].commit <= base'[t].commit
                            /\ base[t].documented <= base'[t].documented
    BY ReviewEffect DEF EndReview, BaseRecords
  <2>2. \A d \in Deployers : Places(d)'
    BY <1>4, <2>1
  <2>3. \A t \in Sites : /\ proposals'[t] \subseteq proposals[t]
                         /\ requests'[t] \subseteq Names(t)'
    <3>1. \A t \in Sites \ {s} : proposals'[t] = proposals[t] /\ requests'[t] = requests[t]
      BY DEF EndReview, DTyped
    <3>2. /\ proposals'[s] \subseteq proposals[s] /\ proposals[s] \ {b} \subseteq proposals'[s]
          /\ requests'[s] = requests[s] \ {b.name}
      BY DEF EndReview, DTyped
    <3> QED BY <1>1, <3>1, <3>2 DEF Names
  <2>4. \A t \in Sites : Branched(t)'
    BY <1>3, <2>1, <2>3
  <2> HIDE DEF P, Places, Branched
  <2> QED BY <1>2, <2>2, <2>4
<1>15. \A s \in Sites : \A b \in proposals[s] : OpenByHand(s, b) => P
  <2> SUFFICES ASSUME NEW s \in Sites, NEW b \in proposals[s], OpenByHand(s, b) PROVE P
    OBVIOUS
  <2>1. UNCHANGED <<base, proposals, deploys>>
    BY DEF OpenByHand
  <2>2. \A t \in Sites : requests'[t] \subseteq Names(t)
    BY <1>1 DEF OpenByHand, DTyped, Names
  <2>3. (\A d \in Deployers : Places(d)') /\ \A t \in Sites : Branched(t)'
    BY <1>1, <2>1, <2>2 DEF Names, Candidate
  <2> HIDE DEF P, Places, Branched
  <2> QED BY <1>2, <2>3
<1>16. UNCHANGED deployVars => P
  BY <1>1 DEF deployVars, Dated, Names, Candidate
<1>17. P
  <2> HIDE DEF P, Places, Branched
  <2> QED BY <1>8, <1>9, <1>10, <1>11, <1>12, <1>13, <1>14, <1>15, <1>16, DeployCases
<1> QED BY <1>17

\* A render stays what it is: a branch is new, or as it was, or it goes.
LEMMA RenderStep ==
  ASSUME DTyped, Dated, [DeployNext]_deployVars, NEW s \in Sites
  PROVE  \/ proposals'[s] \subseteq proposals[s]
         \/ \E b \in Shown : b.name \notin Names(s) /\ proposals'[s] = proposals[s] \cup {b}
<1> DEFINE P == \/ proposals'[s] \subseteq proposals[s]
                \/ \E b \in Shown : b.name \notin Names(s) /\ proposals'[s] = proposals[s] \cup {b}
<1>1. ASSUME UNCHANGED proposals PROVE P
  BY <1>1
<1>2. \A d \in Deployers : PushBranch(d) => P
  <2> SUFFICES ASSUME NEW d \in Deployers, PushBranch(d) PROVE P
    OBVIOUS
  <2> DEFINE b == [name |-> deploys[d].name, shows |-> deploys[d].shows]
  <2>1. b \in Shown /\ b.name = deploys[d].name
    BY DEF DTyped, Runs, Shown
  <2>2. proposals' = [proposals EXCEPT ![Candidate(d)] =
                        IF deploys[d].name \in Names(Candidate(d)) THEN @ ELSE @ \cup {b}]
    BY DEF PushBranch, Pushed
  <2> HIDE DEF b
  <2>3. CASE s = Candidate(d)
    BY <2>1, <2>2, <2>3 DEF DTyped
  <2>4. CASE s # Candidate(d)
    BY <2>2, <2>4 DEF DTyped
  <2> QED BY <2>3, <2>4
<1>3. \A t \in Sites : \A b \in proposals[t] : \A merged, deleted \in BOOLEAN :
        EndReview(t, b, merged, deleted) => P
  BY DEF EndReview, DTyped
<1>4. UNCHANGED deployVars => P
  BY <1>1 DEF deployVars
<1>5. \A d \in Deployers : (Begin(d) \/ NoCheckout(d) \/ LookForRequest(d) \/ ReadBase(d)
         \/ LookForBranch(d) \/ RenderClone(d) \/ CreateRequest(d) \/ AllDone(d) \/ FailsHere(d)
         \/ DeployKilled(d)) => P
  BY <1>1 DEF Begin, NoCheckout, LookForRequest, ReadBase, LookForBranch, RenderClone,
              CreateRequest, AllDone, FailsHere, DeployKilled, github
<1>6. \A t \in Sites : /\ CheckoutChanges(t) => P
                       /\ \A more \in 0 .. 1 : Edit(t, more) => P
                       /\ \A b \in proposals[t] : OpenByHand(t, b) => P
  BY <1>1 DEF CheckoutChanges, Edit, OpenByHand, github
<1>7. P
  <2> HIDE DEF P
  <2> QED BY <1>2, <1>3, <1>4, <1>5, <1>6, DeployCases
<1> QED BY <1>7

LEMMA OneRenderStep ==
  ASSUME DTyped, Dated, OneRender, [DeployNext]_deployVars
  PROVE  OneRender'
<1> SUFFICES ASSUME NEW s \in Sites, NEW b \in proposals'[s], NEW c \in proposals'[s],
                    b.name = c.name
             PROVE  b.shows = c.shows
  BY DEF OneRender
<1>1. CASE proposals'[s] \subseteq proposals[s]
  BY <1>1 DEF OneRender
<1>2. ASSUME NEW x \in Shown, x.name \notin Names(s), proposals'[s] = proposals[s] \cup {x}
      PROVE  b.shows = c.shows
  <2>1. \A y \in proposals[s] : y.name # x.name
    BY <1>2 DEF Names
  <2> QED BY <1>2, <2>1 DEF OneRender
<1> QED BY <1>1, <1>2, RenderStep

\* A run that is past its look for a request is alone.
LEMMA AloneStep ==
  ASSUME DTyped, Dated, Alone, [DeployNext]_deployVars
  PROVE  Alone'
<1> DEFINE P == Alone'
           A == /\ \A d, e \in Deployers : deploys[d].at # "off" /\ deploys[e].at # "off" => d = e
                /\ \A s \in Sites : \A x, y \in requests[s] : x = y
                /\ \A d \in Deployers : deploys[d].at \notin {"off", "next"} =>
                     requests[Candidate(d)] = {}
<1>0. /\ \A d \in Deployers : deploys[d].left # <<>> => Candidate(d) \in Sites
      /\ \A d \in Deployers : deploys[d].at \notin {"off", "next"} => deploys[d].left # <<>>
      /\ crossed \in BOOLEAN
  BY FirstTyped DEF DTyped, Dated
<1>1. ASSUME crossed' PROVE P
  BY <1>1 DEF Alone
<1>2. ASSUME A' PROVE P
  BY <1>2 DEF Alone
<1>3. CASE ~crossed => A
  <2>1. ASSUME UNCHANGED <<deploys, crossed>>,
               \A s \in Sites : requests'[s] \subseteq requests[s]
        PROVE  P
    BY <1>0, <1>3, <2>1 DEF Alone, Candidate
  <2>2. \A d \in Deployers : (NoCheckout(d) \/ LookForRequest(d) \/ ReadBase(d)
           \/ LookForBranch(d) \/ RenderClone(d) \/ PushBranch(d) \/ CreateRequest(d)
           \/ FailsHere(d)) => P
    <3> SUFFICES ASSUME NEW d \in Deployers,
                        \/ NoCheckout(d) \/ LookForRequest(d) \/ ReadBase(d) \/ LookForBranch(d)
                        \/ RenderClone(d) \/ PushBranch(d) \/ CreateRequest(d) \/ FailsHere(d),
                        ~crossed
                 PROVE  A'
      BY <1>1, <1>2, RunEffect
    <3>1. /\ Busy(d) /\ Candidate(d) \in Sites
          /\ \A e \in Deployers \ {d} : deploys'[e] = deploys[e]
          /\ \/ deploys'[d].at = "next"
             \/ /\ deploys[d].at = "next" /\ deploys'[d].at = "base"
                /\ NoneOpen(Candidate(d)) /\ UNCHANGED requests
                /\ deploys'[d].left = deploys[d].left
             \/ /\ deploys[d].at \in {"base", "branch", "clone", "push"}
                /\ UNCHANGED requests /\ deploys'[d].left = deploys[d].left
                /\ deploys'[d].at \in RunLabels
      BY RunEffect DEF RunLabels
    <3>2. \A e \in Deployers \ {d} : deploys[e].at = "off" /\ deploys'[e].at = "off"
      BY <1>3, <3>1 DEF Busy
    <3>3. \A e, f \in Deployers : deploys'[e].at # "off" /\ deploys'[f].at # "off" => e = f
      BY <3>2
    <3>4. \A s \in Sites : \A x, y \in requests'[s] : x = y
      <4>1. CASE UNCHANGED requests
        BY <1>3, <4>1
      <4>2. CASE CreateRequest(d)
        <5>1. requests[Candidate(d)] = {}
          BY <1>3, <4>2 DEF CreateRequest, Deploying
        <5> QED BY <1>3, <4>2, <5>1 DEF CreateRequest, DTyped
      <4>3. UNCHANGED requests \/ CreateRequest(d)
        BY DEF NoCheckout, LookForRequest, ReadBase, LookForBranch, RenderClone, PushBranch,
               FailsHere, github
      <4> QED BY <4>1, <4>2, <4>3
    <3>5. \A e \in Deployers : deploys'[e].at \notin {"off", "next"} =>
            requests'[Candidate(e)'] = {}
      <4>1. deploys'[d].at \notin {"off", "next"} => requests'[Candidate(d)'] = {}
        BY <1>3, <3>1 DEF Candidate, NoneOpen
      <4> QED BY <3>2, <4>1
    <3> QED BY <3>3, <3>4, <3>5
  <2>3. \A d \in Deployers : Begin(d) => P
    <3> SUFFICES ASSUME NEW d \in Deployers, Begin(d), ~crossed' PROVE A'
      BY <1>1, <1>2
    <3>1. ~crossed /\ \A e \in Deployers \ {d} : deploys[e].at = "off"
      BY DEF Begin, Deploying
    <3>2. UNCHANGED requests /\ deploys'[d].at = "next"
          /\ \A e \in Deployers \ {d} : deploys'[e] = deploys[e]
      BY DEF Begin, DTyped, Idling, github
    <3> QED BY <1>3, <3>1, <3>2
  <2>4. \A d \in Deployers : (AllDone(d) \/ DeployKilled(d)) => P
    <3> SUFFICES ASSUME NEW d \in Deployers, AllDone(d) \/ DeployKilled(d), ~crossed PROVE A'
      BY <1>1, <1>2 DEF AllDone, DeployKilled
    <3>1. UNCHANGED requests /\ deploys'[d].at = "off"
          /\ \A e \in Deployers \ {d} : deploys'[e] = deploys[e]
      BY DEF AllDone, DeployKilled, DTyped, Idling, github
    <3> QED BY <1>3, <3>1 DEF Candidate
  <2>5. \A s \in Sites : /\ CheckoutChanges(s) => P
                         /\ \A more \in 0 .. 1 : Edit(s, more) => P
    BY <2>1 DEF CheckoutChanges, Edit, github
  <2>6. \A s \in Sites : \A b \in proposals[s] : \A merged, deleted \in BOOLEAN :
          EndReview(s, b, merged, deleted) => P
    BY <2>1 DEF EndReview, DTyped
  <2>7. \A s \in Sites : \A b \in proposals[s] : OpenByHand(s, b) => P
    BY <1>1 DEF OpenByHand
  <2>8. UNCHANGED deployVars => P
    BY <2>1 DEF deployVars
  <2>9. P
    <3> HIDE DEF P
    <3> QED BY <2>2, <2>3, <2>4, <2>5, <2>6, <2>7, <2>8, DeployCases
  <2> QED BY <2>9
<1> QED BY <1>3 DEF Alone

LEMMA DeployInvStart == DeployInit => DeployInv
<1> SUFFICES ASSUME DeployInit PROVE DeployInv
  OBVIOUS
<1>1. Idling.at = "off" /\ \A d \in Deployers : deploys[d] = Idling
  BY DEF DeployInit, Idling
<1>2. /\ \A s \in Sites : base[s] = [commit |-> 0, documented |-> 1, drawn |-> 0]
      /\ \A s \in Sites : proposals[s] = {} /\ requests[s] = {}
  BY DEF DeployInit
<1>3. DTyped
  BY IdlingTyped DEF DeployInit, DTyped, BaseRecords
<1>4. Dated /\ OneRender /\ Alone
  BY <1>1, <1>2 DEF Dated, OneRender, Alone, Names
<1> QED BY <1>3, <1>4 DEF DeployInv

LEMMA DeployAlways == DeployInit /\ [][DeployNext]_deployVars => []DeployInv
<1>1. DeployInv /\ [DeployNext]_deployVars => DeployInv'
  BY DTypedStep, DatedStep, OneRenderStep, AloneStep DEF DeployInv
<1> QED BY <1>1, DeployInvStart, PTL

LEMMA DeployInvTyped == DeployInv => DeployTypeOK
BY DEF DeployInv, DTyped, Dated, DeployTypeOK, BaseRecords, Runs, RunLabels

\* Every open request is of a branch that is there, branches are named for commits
\* that exist, and a run works on one candidate after the other.
THEOREM DeployTypeCorrect == DeploySpec => []DeployTypeOK
BY DeployAlways, DeployInvTyped, PTL DEF DeploySpec

LEMMA DeployInvOne == DeployInv => OneRequest
<1> SUFFICES ASSUME DeployInv, ~crossed, NEW s \in Sites PROVE Cardinality(requests[s]) <= 1
  BY DEF OneRequest
<1>1. \A x, y \in requests[s] : x = y
  BY DEF DeployInv, Alone
<1>2. CASE requests[s] = {}
  BY <1>2, FS_EmptySet
<1>3. CASE requests[s] # {}
  <2>1. PICK x \in requests[s] : TRUE
    BY <1>3
  <2>2. requests[s] = {x}
    BY <1>1, <2>1
  <2>3. Cardinality({x}) = 1
    BY FS_Singleton
  <2> QED BY <2>2, <2>3
<1> QED BY <1>2, <1>3

\* However runs of the job fail or are killed, and whatever becomes of the default
\* branch, no second request is opened unless two runs overlap or a person opens one.
THEOREM OneRequestAtMost == DeploySpec => []OneRequest
BY DeployInvOne, DeployAlways, PTL DEF DeploySpec

LEMMA RendersHold == DeployInit /\ [][DeployNext]_deployVars => RendersKept
<1> DEFINE A == \A s \in Sites : \A b \in proposals[s], c \in proposals'[s] :
                  b.name = c.name => b.shows = c.shows
<1>1. DeployInv /\ [DeployNext]_deployVars => [A]_deployVars
  <2> SUFFICES ASSUME DeployInv, [DeployNext]_deployVars, NEW s \in Sites,
                      NEW b \in proposals[s], NEW c \in proposals'[s], b.name = c.name
               PROVE  b.shows = c.shows
    OBVIOUS
  <2>1. CASE proposals'[s] \subseteq proposals[s]
    BY <2>1 DEF DeployInv, OneRender
  <2>2. ASSUME NEW x \in Shown, x.name \notin Names(s), proposals'[s] = proposals[s] \cup {x}
        PROVE  b.shows = c.shows
    <3>1. b.name # x.name
      BY <2>2 DEF Names
    <3> QED BY <2>2, <3>1 DEF DeployInv, OneRender
  <2> QED BY <2>1, <2>2, RenderStep DEF DeployInv
<1>2. DeployInit /\ [][DeployNext]_deployVars => [][A]_deployVars
  <2> HIDE DEF A
  <2> QED BY <1>1, DeployAlways, PTL
<1> QED BY <1>2 DEF RendersKept

\* A render that is on GitHub is never replaced by another one under its name.
THEOREM RendersStay == DeploySpec => RendersKept
BY RendersHold DEF DeploySpec

-----------------------------------------------------------------------------
(* MailMonitor                                                             *)

ScanLabels == {"file", "notices", "look", "send", "save"}
Scans == [at : ScanLabels, book : [Builds -> Records], found : SUBSET Builds,
          todo : SUBSET Mails, moving : SUBSET Mails, filed : SUBSET Builds,
          ready : SUBSET Branches, pending : SUBSET Branches, look : SUBSET Branches,
          fixed : SUBSET Branches, unsent : SUBSET Branches]

MTyped ==
  /\ ci \in [Builds -> {"none", "pending", "bad", "green"}]
  /\ mail \in [Mails -> {"unsent", "inbox", "flagged", "moved"}]
  /\ copied \subseteq Mails /\ file \in [Builds -> Records] /\ torn \in BOOLEAN
  /\ notice \in [Branches -> {"none", "inbox", "flagged"}]
  /\ (monitor = Idle \/ monitor \in Scans) /\ stops \in Nat
  /\ resolved \subseteq Builds /\ asked \subseteq Builds

\* Commits and mails are numbered without gaps.
IsTip(b, c) == \A d \in 1 .. MaxPushes : ci[<<b, d>>] # "none" <=> d <= c
Numbered ==
  /\ \A b \in Branches : \E c \in 0 .. MaxPushes : IsTip(b, c)
  /\ \A r \in Builds : \E k \in 0 .. MaxAttempts : Sent(r) = 1 .. k

\* What failed and has been mailed is resolved as soon as its branch is green.
GreenResolves == \A r \in Builds : Green(r[1]) /\ Sent(r) # {} => r \in resolved

\* What a record says has happened.
Honest(book) ==
  \A r \in Builds :
    /\ book[r].known => Sent(r) # {}
    /\ book[r].filed => \E n \in Sent(r) : mail[<<r, n>>] = "moved"
    /\ book[r].noticed => r \in resolved

\* What the scan says has happened.
ScanHonest ==
  monitor # Idle =>
    /\ Honest(monitor.book) /\ monitor.moving \subseteq monitor.todo \cap copied
    /\ monitor.at = "file" => \A m \in monitor.todo : InInbox(m)
    /\ \A r \in monitor.found : Sent(r) # {}
    /\ \A r \in monitor.filed : \E n \in Sent(r) :
         \/ mail[<<r, n>>] = "moved"
         \/ monitor.at = "file" /\ mail[<<r, n>>] = "flagged"
    /\ \A r \in Builds : r[1] \in monitor.fixed /\ (monitor.book[r].known \/ r \in monitor.found)
         => r \in resolved

Copied == \A m \in Mails : mail[m] \in {"flagged", "moved"} => m \in copied

MailInv == MTyped /\ Numbered /\ GreenResolves /\ Honest(file) /\ ScanHonest /\ Copied

LEMMA MailCases ==
  ASSUME NEW P, [MailNext]_mailVars, UNCHANGED mailVars => P,
         StartScan => P, FileMail => P, MailFiled => P, FileNotice => P, NoticesFiled => P,
         LookAt => P, Looked => P, SendNotice => P, Trigger => P, Save => P, Stop => P,
         RemoveFile => P,
         \A b \in Branches : Push(b) => P,
         \A r \in Builds : Rerun(r) => P,
         \A r \in Builds : \A end \in {"bad", "green"} : Complete(r, end) => P
  PROVE  P
BY DEF MailNext, MailStep

LEMMA Tuples ==
  /\ \A r \in Builds : r[1] \in Branches /\ r[2] \in 1 .. MaxPushes /\ r = <<r[1], r[2]>>
  /\ \A b \in Branches, c \in 1 .. MaxPushes : <<b, c>> \in Builds
  /\ \A m \in Mails : m[1] \in Builds /\ m[2] \in 1 .. MaxAttempts /\ m = <<m[1], m[2]>>
  /\ \A r \in Builds, n \in 1 .. MaxAttempts : <<r, n>> \in Mails
BY DEF Builds, Mails

\* The last commit of a branch is the one that its numbers say.
LEMMA TipOf ==
  ASSUME NEW f, NEW b, NEW c \in 0 .. MaxPushes,
         \A d \in 1 .. MaxPushes : f[<<b, d>>] # "none" <=> d <= c
  PROVE  c = CHOOSE e \in 0 .. MaxPushes :
               \A d \in 1 .. MaxPushes : f[<<b, d>>] # "none" <=> d <= e
<1> DEFINE F(d) == f[<<b, d>>] # "none"
           Q(e) == \A d \in 1 .. MaxPushes : F(d) <=> d <= e
           t == CHOOSE e \in 0 .. MaxPushes : Q(e)
<1>1. t \in 0 .. MaxPushes /\ Q(t)
  <2>1. \E e \in 0 .. MaxPushes : Q(e)
    OBVIOUS
  <2> HIDE DEF Q
  <2> QED BY <2>1
<1>2. Q(c)
  OBVIOUS
<1>3. MaxPushes \in Nat
  BY MonitorAssumption
<1> HIDE DEF t, F
<1>4. t <= c
  <2> SUFFICES ASSUME ~(t <= c) PROVE FALSE
    OBVIOUS
  <2>1. t \in 1 .. MaxPushes
    BY <1>1, <1>3
  <2> QED BY <1>1, <1>2, <1>3, <2>1
<1>5. c <= t
  <2> SUFFICES ASSUME ~(c <= t) PROVE FALSE
    OBVIOUS
  <2>1. c \in 1 .. MaxPushes
    BY <1>1, <1>3
  <2> QED BY <1>1, <1>2, <1>3, <2>1
<1>6. t = c
  BY <1>1, <1>3, <1>4, <1>5
<1> QED BY <1>6 DEF t, F

LEMMA TipHere ==
  ASSUME Numbered, NEW b \in Branches
  PROVE  Tip(b) \in 0 .. MaxPushes /\ IsTip(b, Tip(b))
<1>1. PICK c \in 0 .. MaxPushes : IsTip(b, c)
  BY DEF Numbered
<1>2. Tip(b) = c
  BY <1>1, TipOf DEF IsTip, Tip
<1> QED BY <1>1, <1>2

\* Another commit's answer changes nothing about which is the last one.
LEMMA SameTip ==
  ASSUME Numbered, NEW b \in Branches,
         \A d \in 1 .. MaxPushes : ci'[<<b, d>>] = "none" <=> ci[<<b, d>>] = "none"
  PROVE  IsTip(b, Tip(b))' /\ Tip(b)' = Tip(b)
<1> DEFINE c == Tip(b)
<1>1. c \in 0 .. MaxPushes /\ \A d \in 1 .. MaxPushes : ci'[<<b, d>>] # "none" <=> d <= c
  BY TipHere DEF IsTip
<1>2. PICK x : x = Tip(b)
  OBVIOUS
<1>3. Tip(b)' = x
  BY <1>1, <1>2, TipOf DEF Tip
<1> QED BY <1>1, <1>2, <1>3 DEF IsTip

LEMMA SentSize ==
  ASSUME NEW r, NEW k \in 0 .. MaxAttempts, Sent(r) = 1 .. k
  PROVE  Cardinality(Sent(r)) = k
<1>1. k \in Int /\ k >= 0 /\ 1 \in Int
  BY MonitorAssumption
<1>2. Cardinality(1 .. k) = IF 1 > k THEN 0 ELSE k - 1 + 1
  BY <1>1, FS_Interval
<1> QED BY <1>1, <1>2

\* What the steps do to the mails: one is sent, or flagged after it was copied, or
\* what is flagged is expunged.
LEMMA MailMoves ==
  ASSUME MailInv, [MailNext]_mailVars
  PROVE  \A m \in Mails :
           \/ mail'[m] = mail[m]
           \/ /\ mail[m] = "unsent" /\ mail'[m] = "inbox"
              /\ \E r \in Builds : \E end \in {"bad", "green"} : Complete(r, end)
           \/ InInbox(m) /\ mail'[m] = "flagged" /\ m \in copied
           \/ mail[m] = "flagged" /\ mail'[m] = "moved"
<1> SUFFICES ASSUME NEW m \in Mails
             PROVE  \/ mail'[m] = mail[m]
                    \/ /\ mail[m] = "unsent" /\ mail'[m] = "inbox"
                       /\ \E r \in Builds : \E end \in {"bad", "green"} : Complete(r, end)
                    \/ InInbox(m) /\ mail'[m] = "flagged" /\ m \in copied
                    \/ mail[m] = "flagged" /\ mail'[m] = "moved"
  OBVIOUS
<1> DEFINE P == \/ mail'[m] = mail[m]
                \/ /\ mail[m] = "unsent" /\ mail'[m] = "inbox"
                   /\ \E r \in Builds : \E end \in {"bad", "green"} : Complete(r, end)
                \/ InInbox(m) /\ mail'[m] = "flagged" /\ m \in copied
                \/ mail[m] = "flagged" /\ mail'[m] = "moved"
<1>0. mail \in [Mails -> {"unsent", "inbox", "flagged", "moved"}]
  BY DEF MailInv, MTyped
<1>1. ASSUME UNCHANGED mail PROVE P
  BY <1>1
<1>2. Expunge => P
  BY <1>0 DEF Expunge
<1>3. FileMail => P
  <2> SUFFICES ASSUME FileMail PROVE P
    OBVIOUS
  <2>1. PICK x \in monitor.todo : Move(x)
    BY DEF FileMail
  <2>2. monitor # Idle /\ monitor.at = "file"
    BY DEF FileMail, At, Idle
  <2>3. CASE UNCHANGED mail
    BY <1>1, <2>3
  <2>4. CASE monitor.moving = {x} /\ mail' = [mail EXCEPT ![x] = "flagged"]
    <3>1. x \in copied /\ InInbox(x)
      BY <2>1, <2>2, <2>4 DEF MailInv, ScanHonest
    <3> QED BY <1>0, <2>4, <3>1
  <2> QED BY <2>1, <2>3, <2>4 DEF Move
<1>4. \A r \in Builds : \A end \in {"bad", "green"} : Complete(r, end) => P
  <2> SUFFICES ASSUME NEW r \in Builds, NEW end \in {"bad", "green"}, Complete(r, end) PROVE P
    OBVIOUS
  <2>1. PICK k \in 0 .. MaxAttempts : Sent(r) = 1 .. k
    BY DEF MailInv, Numbered
  <2>2. Cardinality(Sent(r)) = k
    BY <2>1, SentSize
  <2>3. CASE UNCHANGED mail
    BY <1>1, <2>3
  <2>4. CASE k + 1 <= MaxAttempts /\ mail' = [mail EXCEPT ![<<r, k + 1>>] = "inbox"]
    <3>1. k + 1 \in 1 .. MaxAttempts /\ k + 1 \notin Sent(r)
      BY <2>1, <2>4, MonitorAssumption
    <3>2. mail[<<r, k + 1>>] = "unsent"
      BY <3>1 DEF Sent
    <3> QED BY <1>0, <2>4, <3>2
  <2> QED BY <2>2, <2>3, <2>4 DEF Complete
<1>5. (MailFiled \/ NoticesFiled) => P
  BY <1>1, <1>2 DEF MailFiled, NoticesFiled
<1>6. (StartScan \/ FileNotice \/ LookAt \/ Looked \/ SendNotice \/ Trigger \/ Save \/ Stop
         \/ RemoveFile) => P
  BY <1>1 DEF StartScan, FileNotice, LookAt, Looked, SendNotice, Trigger, Save, Stop, RemoveFile
<1>7. /\ UNCHANGED mailVars => P
      /\ \A b \in Branches : Push(b) => P
      /\ \A r \in Builds : Rerun(r) => P
  BY <1>1 DEF mailVars, Push, Rerun
<1>8. P
  <2> HIDE DEF P
  <2> QED BY <1>3, <1>4, <1>5, <1>6, <1>7, MailCases
<1> QED BY <1>8

LEMMA SentStays ==
  ASSUME MailInv, [MailNext]_mailVars, NEW r \in Builds
  PROVE  /\ Sent(r) \subseteq Sent(r)'
         /\ \A n \in Sent(r) : mail[<<r, n>>] = "moved" => mail'[<<r, n>>] = "moved"
         /\ \A n \in Sent(r) : mail[<<r, n>>] = "flagged" => mail'[<<r, n>>] \in {"flagged", "moved"}
<1>1. \A n \in 1 .. MaxAttempts :
        LET m == <<r, n>> IN \/ mail'[m] = mail[m]
                             \/ mail[m] = "unsent" /\ mail'[m] = "inbox"
                             \/ InInbox(m) /\ mail'[m] = "flagged"
                             \/ mail[m] = "flagged" /\ mail'[m] = "moved"
  BY MailMoves, Tuples
<1> QED BY <1>1 DEF Sent, InInbox

\* Where no build ends, no mail is sent, and no build is resolved.
LEMMA Unended ==
  ASSUME MailInv, [MailNext]_mailVars,
         \A r \in Builds : \A end \in {"bad", "green"} : ~Complete(r, end)
  PROVE  (\A r \in Builds : Sent(r)' = Sent(r)) /\ resolved' = resolved
<1>1. \A r \in Builds : Sent(r)' = Sent(r)
  <2> SUFFICES ASSUME NEW r \in Builds PROVE Sent(r)' = Sent(r)
    OBVIOUS
  <2>1. \A n \in 1 .. MaxAttempts : mail'[<<r, n>>] # "unsent" <=> mail[<<r, n>>] # "unsent"
    BY MailMoves, Tuples DEF InInbox
  <2> QED BY <2>1 DEF Sent
<1>2. resolved' = resolved
  BY DEF MailNext, MailStep, mailVars, StartScan, FileMail, MailFiled, FileNotice, NoticesFiled,
         LookAt, Looked, SendNotice, Trigger, Save, Stop, RemoveFile, Push, Rerun, world
<1> QED BY <1>1, <1>2

LEMMA ResolvedStays ==
  ASSUME MailInv, [MailNext]_mailVars
  PROVE  resolved \subseteq resolved' /\ resolved' \subseteq resolved \cup Builds
<1>1. CASE \A r \in Builds : \A end \in {"bad", "green"} : ~Complete(r, end)
  BY <1>1, Unended
<1>2. CASE \E r \in Builds : \E end \in {"bad", "green"} : Complete(r, end)
  BY <1>2 DEF Complete
<1> QED BY <1>1, <1>2

\* Numbers have no gaps: a push adds the next commit, a failure the next mail.
LEMMA NumberedStep ==
  ASSUME MailInv, [MailNext]_mailVars
  PROVE  Numbered'
<1>0. Numbered /\ ci \in [Builds -> {"none", "pending", "bad", "green"}]
  BY DEF MailInv, MTyped
<1>1. \A b \in Branches : \E c \in 0 .. MaxPushes : IsTip(b, c)'
  <2> SUFFICES ASSUME NEW b \in Branches PROVE \E c \in 0 .. MaxPushes : IsTip(b, c)'
    OBVIOUS
  <2> DEFINE P == \E c \in 0 .. MaxPushes : IsTip(b, c)'
  <2>1. PICK t \in 0 .. MaxPushes : t = Tip(b) /\ IsTip(b, t)
    BY <1>0, TipHere
  <2>2. ASSUME \A d \in 1 .. MaxPushes : ci'[<<b, d>>] = "none" <=> ci[<<b, d>>] = "none"
        PROVE  P
    BY <2>1, <2>2 DEF IsTip
  <2>3. ASSUME UNCHANGED ci PROVE P
    BY <2>2, <2>3
  <2>4. \A x \in Branches : Push(x) => P
    <3> SUFFICES ASSUME NEW x \in Branches, Push(x) PROVE P
      OBVIOUS
    <3>1. CASE x = b
      <4>1. t < MaxPushes /\ ci' = [ci EXCEPT ![<<b, t + 1>>] = "pending"]
        BY <2>1, <3>1 DEF Push
      <4>2. t + 1 \in 1 .. MaxPushes /\ MaxPushes \in Nat
        BY <4>1, MonitorAssumption
      <4>3. \A d \in 1 .. MaxPushes : ci'[<<b, d>>] # "none" <=> d <= t \/ d = t + 1
        BY <1>0, <2>1, <4>1, <4>2, Tuples DEF IsTip
      <4>4. \A d \in 1 .. MaxPushes : (d <= t \/ d = t + 1) <=> d <= t + 1
        BY <4>2
      <4> QED BY <4>2, <4>3, <4>4 DEF IsTip
    <3>2. CASE x # b
      BY <1>0, <2>2, <3>2, Tuples DEF Push
    <3> QED BY <3>1, <3>2
  <2>5. \A r \in Builds : Rerun(r) => P
    BY <1>0, <2>2, Tuples DEF Rerun
  <2>6. \A r \in Builds : \A end \in {"bad", "green"} : Complete(r, end) => P
    BY <1>0, <2>2, Tuples DEF Complete
  <2>7. (StartScan \/ FileMail \/ MailFiled \/ FileNotice \/ NoticesFiled \/ LookAt \/ Looked
           \/ SendNotice \/ Trigger \/ Save \/ Stop \/ RemoveFile \/ UNCHANGED mailVars) => P
    BY <2>3 DEF StartScan, FileMail, MailFiled, FileNotice, NoticesFiled, LookAt, Looked,
       SendNotice, Trigger, Save, Stop, RemoveFile, mailVars, world
  <2>8. P
    <3> HIDE DEF P
    <3> QED BY <2>4, <2>5, <2>6, <2>7, MailCases
  <2> QED BY <2>8
<1>2. \A r \in Builds : \E k \in 0 .. MaxAttempts : Sent(r)' = 1 .. k
  <2> SUFFICES ASSUME NEW r \in Builds PROVE \E k \in 0 .. MaxAttempts : Sent(r)' = 1 .. k
    OBVIOUS
  <2>1. PICK k \in 0 .. MaxAttempts : Sent(r) = 1 .. k
    BY <1>0 DEF Numbered
  <2>2. CASE Sent(r)' = Sent(r)
    BY <2>1, <2>2
  <2>3. ASSUME NEW q \in Builds, NEW end \in {"bad", "green"}, Complete(q, end)
        PROVE  \E l \in 0 .. MaxAttempts : Sent(r)' = 1 .. l
    <3>1. CASE UNCHANGED mail
      BY <2>2, <3>1 DEF Sent
    <3>2. CASE q # r /\ end = "bad"
      <4>1. \A n \in 1 .. MaxAttempts : mail'[<<r, n>>] = mail[<<r, n>>]
        BY <2>3, <3>2, Tuples DEF Complete, MailInv, MTyped
      <4> QED BY <2>2, <4>1 DEF Sent
    <3>3. CASE q = r /\ end = "bad"
      <4>1. Cardinality(Sent(r)) = k
        BY <2>1, SentSize
      <4>2. k + 1 <= MaxAttempts /\ mail' = [mail EXCEPT ![<<r, k + 1>>] = "inbox"]
        BY <2>3, <3>3, <4>1 DEF Complete
      <4>3. k + 1 \in 1 .. MaxAttempts /\ MaxAttempts \in Nat
        BY <4>2, MonitorAssumption
      <4>4. \A n \in 1 .. MaxAttempts : n \in Sent(r)' <=> n \in Sent(r) \/ n = k + 1
        BY <4>2, <4>3, Tuples DEF MailInv, MTyped, Sent
      <4>5. Sent(r)' = 1 .. (k + 1)
        BY <2>1, <4>3, <4>4 DEF Sent
      <4> QED BY <4>3, <4>5
    <3> QED BY <2>3, <3>1, <3>2, <3>3 DEF Complete
  <2> QED BY <2>2, <2>3, Unended
<1> QED BY <1>1, <1>2 DEF Numbered

LEMMA GreenStep ==
  ASSUME MailInv, [MailNext]_mailVars
  PROVE  GreenResolves'
<1> SUFFICES ASSUME NEW q \in Builds, Green(q[1])', Sent(q)' # {} PROVE q \in resolved'
  BY DEF GreenResolves
<1> DEFINE P == q \in resolved'
<1>0. /\ Numbered /\ ci \in [Builds -> {"none", "pending", "bad", "green"}]
      /\ q[1] \in Branches /\ resolved \subseteq resolved'
  BY ResolvedStays, Tuples DEF MailInv, MTyped
<1> DEFINE b == q[1]
<1>1. ASSUME \A d \in 1 .. MaxPushes : ci'[<<b, d>>] = "none" <=> ci[<<b, d>>] = "none"
      PROVE  Tip(b)' = Tip(b) /\ Tip(b) \in 0 .. MaxPushes
  BY <1>0, <1>1, SameTip, TipHere
<1>2. ASSUME \A d \in 1 .. MaxPushes : ci'[<<b, d>>] = "none" <=> ci[<<b, d>>] = "none",
             \A d \in 1 .. MaxPushes : ci'[<<b, d>>] = "green" => ci[<<b, d>>] = "green",
             Sent(q)' = Sent(q)
      PROVE  P
  <2>1. Tip(b)' = Tip(b) /\ Tip(b) \in 0 .. MaxPushes /\ Tip(b)' # 0
    BY <1>1, <1>2 DEF Green
  <2>2. Tip(b) \in 1 .. MaxPushes
    BY <2>1, MonitorAssumption
  <2>3. Green(b)
    BY <1>2, <2>1, <2>2 DEF Green
  <2> QED BY <1>0, <1>2, <2>3 DEF MailInv, GreenResolves
<1>3. \A x \in Branches : Push(x) => P
  <2> SUFFICES ASSUME NEW x \in Branches, Push(x) PROVE P
    OBVIOUS
  <2>0. Sent(q)' = Sent(q)
    BY DEF Push, Sent
  <2>1. CASE x = b
    <3>1. PICK t \in 0 .. MaxPushes : t = Tip(b) /\ IsTip(b, t)
      BY <1>0, TipHere
    <3>2. t < MaxPushes /\ ci' = [ci EXCEPT ![<<b, t + 1>>] = "pending"]
      BY <2>1, <3>1 DEF Push
    <3>3. t + 1 \in 1 .. MaxPushes /\ MaxPushes \in Nat /\ t + 1 \in 0 .. MaxPushes
      BY <3>2, MonitorAssumption
    <3>4. \A d \in 1 .. MaxPushes : ci'[<<b, d>>] # "none" <=> d <= t + 1
      <4>1. \A d \in 1 .. MaxPushes : ci'[<<b, d>>] # "none" <=> d <= t \/ d = t + 1
        BY <1>0, <3>1, <3>2, <3>3, Tuples DEF IsTip
      <4> QED BY <3>3, <4>1
    <3>5. PICK u \in 0 .. MaxPushes : u = t + 1
      BY <3>3
    <3>6. Tip(b)' = u
      <4>1. \A d \in 1 .. MaxPushes : ci'[<<b, d>>] # "none" <=> d <= u
        BY <3>4, <3>5
      <4>2. PICK y : y = b
        OBVIOUS
      <4>3. u = CHOOSE e \in 0 .. MaxPushes :
                  \A d \in 1 .. MaxPushes : ci'[<<y, d>>] # "none" <=> d <= e
        BY <4>1, <4>2, TipOf
      <4> QED BY <4>2, <4>3 DEF Tip
    <3>7. ci'[<<b, u>>] = "pending"
      BY <1>0, <3>2, <3>3, <3>5, Tuples
    <3> QED BY <3>6, <3>7 DEF Green
  <2>2. CASE x # b
    <3>1. \A d \in 1 .. MaxPushes : ci'[<<b, d>>] = ci[<<b, d>>]
      BY <1>0, <2>2, Tuples DEF Push
    <3> QED BY <1>2, <2>0, <3>1
  <2> QED BY <2>1, <2>2
<1>4. \A r \in Builds : Rerun(r) => P
  <2> SUFFICES ASSUME NEW r \in Builds, Rerun(r) PROVE P
    OBVIOUS
  <2>1. Sent(q)' = Sent(q)
    BY DEF Rerun, Sent
  <2>2. \A d \in 1 .. MaxPushes : /\ ci'[<<b, d>>] = "none" <=> ci[<<b, d>>] = "none"
                                  /\ ci'[<<b, d>>] = "green" => ci[<<b, d>>] = "green"
    BY <1>0, Tuples DEF Rerun
  <2> QED BY <1>2, <2>1, <2>2
<1>5. \A r \in Builds : \A end \in {"bad", "green"} : Complete(r, end) => P
  <2> SUFFICES ASSUME NEW r \in Builds, NEW end \in {"bad", "green"}, Complete(r, end) PROVE P
    OBVIOUS
  <2>1. CASE r[1] = b
    <3>1. \E n \in 1 .. MaxAttempts : mail'[<<q, n>>] # "unsent"
      BY DEF Sent
    <3>2. \A d \in 1 .. MaxPushes : ci'[<<b, d>>] = "none" <=> ci[<<b, d>>] = "none"
      BY <1>0, Tuples DEF Complete
    <3>3. Tip(b)' = Tip(b) /\ Tip(b)' # 0 /\ ci'[<<b, Tip(b)>>] = "green"
      BY <1>1, <3>2 DEF Green
    <3>4. q \in {x \in Builds : /\ x[1] = r[1] /\ Tip(r[1])' # 0
                               /\ ci'[<<r[1], Tip(r[1])>>] = "green"
                               /\ \E n2 \in 1 .. MaxAttempts : mail'[<<x, n2>>] # "unsent"}
      BY <2>1, <3>1, <3>3
    <3> QED BY <3>4 DEF Complete
  <2>2. CASE r[1] # b
    <3>1. \A d \in 1 .. MaxPushes : ci'[<<b, d>>] = ci[<<b, d>>]
      BY <1>0, <2>2, Tuples DEF Complete
    <3>2. \A n \in 1 .. MaxAttempts : mail'[<<q, n>>] = mail[<<q, n>>]
      BY <2>2, Tuples DEF Complete, MailInv, MTyped
    <3>3. Sent(q)' = Sent(q)
      BY <3>2 DEF Sent
    <3> QED BY <1>2, <3>1, <3>3
  <2> QED BY <2>1, <2>2
<1>6. (StartScan \/ FileMail \/ MailFiled \/ FileNotice \/ NoticesFiled \/ LookAt \/ Looked
         \/ SendNotice \/ Trigger \/ Save \/ Stop \/ RemoveFile \/ UNCHANGED mailVars) => P
  <2> SUFFICES ASSUME StartScan \/ FileMail \/ MailFiled \/ FileNotice \/ NoticesFiled \/ LookAt
                        \/ Looked \/ SendNotice \/ Trigger \/ Save \/ Stop \/ RemoveFile
                        \/ UNCHANGED mailVars
               PROVE  P
    OBVIOUS
  <2>1. UNCHANGED ci /\ \A r \in Builds : \A end \in {"bad", "green"} : ~Complete(r, end)
                                                                  \/ q \in resolved'
    <3>1. UNCHANGED ci
      BY DEF StartScan, FileMail, MailFiled, FileNotice, NoticesFiled, LookAt, Looked,
         SendNotice, Trigger, Save, Stop, RemoveFile, mailVars, world
    <3> QED BY <1>5, <3>1
  <2>2. CASE \A r \in Builds : \A end \in {"bad", "green"} : ~Complete(r, end)
    BY <1>2, <2>1, <2>2, Unended
  <2> QED BY <2>1, <2>2
<1>7. P
  <2> HIDE DEF P
  <2> QED BY <1>3, <1>4, <1>5, <1>6, MailCases
<1> QED BY <1>7

\* A scan that is under way has a record.
LEMMA Scanning ==
  ASSUME MTyped
  PROVE  (monitor = Idle <=> monitor.at = "off") /\ (monitor.at # "off" => monitor \in Scans)
BY DEF MTyped, Scans, ScanLabels, Idle

\* What a scan writes.
LEMMA Written ==
  ASSUME monitor \in Scans
  PROVE  /\ Updated \in [Builds -> Records]
         /\ \A r \in Builds :
              /\ Updated[r].known <=> monitor.book[r].known \/ r \in monitor.found
              /\ Updated[r].filed => monitor.book[r].filed \/ r \in monitor.filed
              /\ Updated[r].noticed =>
                   \/ monitor.book[r].noticed
                   \/ r[1] \in monitor.fixed /\ (monitor.book[r].known \/ r \in monitor.found)
<1> DEFINE Seen(r) == IF r \in monitor.found THEN Renewed(monitor.book[r], r \in monitor.filed)
                      ELSE monitor.book[r]
           now == [r \in Builds |-> Seen(r)]
           Mark(r) == [now[r] EXCEPT !.noticed = @ \/ (now[r].known /\ r[1] \in monitor.fixed)]
<1>1. \A r \in Builds :
        /\ now[r] \in Records
        /\ now[r].known <=> monitor.book[r].known \/ r \in monitor.found
        /\ now[r].filed => monitor.book[r].filed \/ r \in monitor.filed
        /\ now[r].noticed <=> monitor.book[r].noticed
  <2> SUFFICES ASSUME NEW r \in Builds
               PROVE  /\ Seen(r) \in Records
                      /\ Seen(r).known <=> monitor.book[r].known \/ r \in monitor.found
                      /\ Seen(r).filed => monitor.book[r].filed \/ r \in monitor.filed
                      /\ Seen(r).noticed <=> monitor.book[r].noticed
    OBVIOUS
  <2>1. monitor.book[r] \in Records
    BY DEF Scans
  <2>2. monitor.book[r].known \in BOOLEAN /\ monitor.book[r].filed \in BOOLEAN
        /\ monitor.book[r].noticed \in BOOLEAN
    BY <2>1 DEF Records
  <2>3. CASE r \in monitor.found
    <3>1. Seen(r) = [known |-> TRUE, filed |-> monitor.book[r].filed \/ r \in monitor.filed,
                     noticed |-> monitor.book[r].noticed]
      BY <2>3 DEF Renewed
    <3> HIDE DEF Seen
    <3> QED BY <2>2, <2>3, <3>1 DEF Records
  <2>4. CASE r \notin monitor.found
    BY <2>1, <2>2, <2>4
  <2> QED BY <2>3, <2>4
<1>2. Updated = [r \in Builds |-> Mark(r)]
  BY DEF Updated, Marked
<1> HIDE DEF now
<1>3. \A r \in Builds :
        /\ Mark(r) \in Records
        /\ Mark(r).known = now[r].known /\ Mark(r).filed = now[r].filed
        /\ Mark(r).noticed => now[r].noticed \/ (now[r].known /\ r[1] \in monitor.fixed)
  <2> SUFFICES ASSUME NEW r \in Builds
               PROVE  /\ Mark(r) \in Records
                      /\ Mark(r).known = now[r].known /\ Mark(r).filed = now[r].filed
                      /\ Mark(r).noticed => now[r].noticed \/ (now[r].known /\ r[1] \in monitor.fixed)
    OBVIOUS
  <2>1. now[r] \in Records
    BY <1>1
  <2> QED BY <2>1 DEF Records
<1> HIDE DEF Mark
<1> QED BY <1>1, <1>2, <1>3

LEMMA MTypedStep ==
  ASSUME MailInv, [MailNext]_mailVars
  PROVE  MTyped'
<1> USE DEF MailInv
<1>1. ci' \in [Builds -> {"none", "pending", "bad", "green"}]
  <2> DEFINE P == ci' \in [Builds -> {"none", "pending", "bad", "green"}]
  <2>1. /\ \A b \in Branches : Push(b) => P
        /\ \A r \in Builds : Rerun(r) => P
        /\ \A r \in Builds : \A end \in {"bad", "green"} : Complete(r, end) => P
    BY DEF MTyped, Push, Rerun, Complete
  <2>2. (StartScan \/ FileMail \/ MailFiled \/ FileNotice \/ NoticesFiled \/ LookAt \/ Looked
           \/ SendNotice \/ Trigger \/ Save \/ Stop \/ RemoveFile \/ UNCHANGED mailVars) => P
    BY DEF MTyped, StartScan, FileMail, MailFiled, FileNotice, NoticesFiled, LookAt, Looked,
       SendNotice, Trigger, Save, Stop, RemoveFile, mailVars, world
  <2>3. P
    <3> HIDE DEF P
    <3> QED BY <2>1, <2>2, MailCases
  <2> QED BY <2>3
<1>2. mail' \in [Mails -> {"unsent", "inbox", "flagged", "moved"}]
  <2>1. mail' \in [Mails -> {"unsent", "inbox", "flagged", "moved"}]
    <3> DEFINE P == mail' \in [Mails -> {"unsent", "inbox", "flagged", "moved"}]
    <3>1. (UNCHANGED mail \/ Expunge) => P
      BY DEF MTyped, Expunge
    <3>2. FileMail => P
      BY DEF MTyped, FileMail, Move
    <3>3. \A r \in Builds : \A end \in {"bad", "green"} : Complete(r, end) => P
      BY DEF MTyped, Complete
    <3>4. (MailFiled \/ NoticesFiled) => P
      BY <3>1 DEF MailFiled, NoticesFiled
    <3>5. (StartScan \/ FileNotice \/ LookAt \/ Looked \/ SendNotice \/ Trigger \/ Save \/ Stop
             \/ RemoveFile \/ UNCHANGED mailVars) => P
      BY <3>1 DEF StartScan, FileNotice, LookAt, Looked, SendNotice, Trigger, Save, Stop,
         RemoveFile, mailVars
    <3>6. /\ \A b \in Branches : Push(b) => P
          /\ \A r \in Builds : Rerun(r) => P
      BY <3>1 DEF Push, Rerun
    <3>7. P
      <4> HIDE DEF P
      <4> QED BY <3>2, <3>3, <3>4, <3>5, <3>6, MailCases
    <3> QED BY <3>7
  <2> QED BY <2>1
<1>3. notice' \in [Branches -> {"none", "inbox", "flagged"}]
  <2> DEFINE P == notice' \in [Branches -> {"none", "inbox", "flagged"}]
  <2>1. (UNCHANGED notice \/ Expunge) => P
    BY DEF MTyped, Expunge
  <2>2. (FileNotice \/ SendNotice) => P
    BY DEF MTyped, FileNotice, SendNotice
  <2>3. (MailFiled \/ NoticesFiled) => P
    BY <2>1 DEF MailFiled, NoticesFiled
  <2>4. (StartScan \/ FileMail \/ LookAt \/ Looked \/ Trigger \/ Save \/ Stop
           \/ RemoveFile \/ UNCHANGED mailVars) => P
    BY <2>1 DEF StartScan, FileMail, LookAt, Looked, Trigger, Save, Stop, RemoveFile, mailVars
  <2>5. /\ \A b \in Branches : Push(b) => P
        /\ \A r \in Builds : Rerun(r) => P
        /\ \A r \in Builds : \A end \in {"bad", "green"} : Complete(r, end) => P
    BY <2>1 DEF Push, Rerun, Complete
  <2>6. P
    <3> HIDE DEF P
    <3> QED BY <2>2, <2>3, <2>4, <2>5, MailCases
  <2> QED BY <2>6
<1>4. monitor' = Idle \/ monitor' \in Scans
  <2> DEFINE P == monitor' = Idle \/ monitor' \in Scans
  <2>1. UNCHANGED monitor => P
    BY DEF MTyped
  <2>2. \A label \in ScanLabels : monitor.at # "off" /\ Go(label) => P
    BY Scanning DEF Go, Scans
  <2>3. StartScan => P
    <3> SUFFICES ASSUME StartScan PROVE monitor' \in Scans
      OBVIOUS
    <3>1. PICK s \in Listings, ready \in SUBSET Listed :
            monitor' = [at |-> "file", book |-> file, found |-> {Of(m) : m \in s},
                   todo |-> {m \in s : ShouldFile(file, m)}, moving |-> {}, filed |-> {},
                   ready |-> ready, pending |-> ready,
                   look |-> {}, fixed |-> {}, unsent |-> {}]
      BY DEF StartScan
    <3>2. s \subseteq Mails /\ ready \subseteq Branches
      BY DEF Listings, Listed
    <3>3. {Of(m) : m \in s} \subseteq Builds /\ {m \in s : ShouldFile(file, m)} \subseteq Mails
      BY <3>2, Tuples DEF Of
    <3> QED BY <3>1, <3>2, <3>3 DEF MTyped, Scans, ScanLabels
  <2>4. FileMail => P
    <3> SUFFICES ASSUME FileMail PROVE monitor' \in Scans
      OBVIOUS
    <3>1. PICK m \in monitor.todo :
             \/ monitor' = [monitor EXCEPT !.moving = {m}]
             \/ monitor' = [monitor EXCEPT !.moving = {}, !.todo = @ \ {m}, !.filed = @ \cup {Of(m)}]
      BY DEF FileMail, Move
    <3>2. monitor \in Scans
      BY Scanning DEF FileMail, At
    <3>3. m \in Mails /\ Of(m) \in Builds
      BY <3>2, Tuples DEF Scans, Of
    <3> HIDE DEF MailInv
    <3>4. \A a, t \in SUBSET Mails, f \in SUBSET Builds :
            /\ [monitor EXCEPT !.moving = a] \in Scans
            /\ [monitor EXCEPT !.moving = a, !.todo = t, !.filed = f] \in Scans
      BY <3>2 DEF Scans
    <3>5. monitor.todo \ {m} \in SUBSET Mails /\ monitor.filed \cup {Of(m)} \in SUBSET Builds
          /\ {m} \in SUBSET Mails /\ {} \in SUBSET Mails
      BY <3>2, <3>3 DEF Scans
    <3> QED BY <3>1, <3>4, <3>5
  <2>5. (MailFiled \/ Looked \/ Trigger) => P
    BY <2>2 DEF MailFiled, Looked, Trigger, At, ScanLabels
  <2>6. (FileNotice \/ NoticesFiled \/ SendNotice) => P
    <3> SUFFICES ASSUME FileNotice \/ NoticesFiled \/ SendNotice PROVE monitor' \in Scans
      OBVIOUS
    <3>1. monitor \in Scans
      BY Scanning DEF FileNotice, NoticesFiled, SendNotice, At
    <3>2. {r[1] : r \in Open(monitor.book)} \subseteq Branches
      BY Tuples DEF Open
    <3>3. \/ \E b \in Branches : monitor' = [monitor EXCEPT !.ready = @ \ {b}]
          \/ \E b \in Branches : monitor' = [monitor EXCEPT !.unsent = @ \ {b}]
          \/ monitor' = [monitor EXCEPT !.at = "look", !.look = {r[1] : r \in Open(monitor.book)}]
      <4>1. monitor.ready \subseteq Branches /\ monitor.unsent \subseteq Branches
        BY <3>1 DEF Scans
      <4> QED BY <4>1 DEF FileNotice, NoticesFiled, SendNotice
    <3> HIDE DEF MailInv
    <3> QED BY <3>1, <3>2, <3>3 DEF Scans, ScanLabels
  <2>7. LookAt => P
    <3> SUFFICES ASSUME LookAt PROVE monitor' \in Scans
      OBVIOUS
    <3>1. PICK b \in monitor.look : LET green == {b} \cap {x \in Branches : Green(x)} IN
            monitor' = [monitor EXCEPT !.look = @ \ {b}, !.fixed = @ \cup green,
                                       !.unsent = @ \cup green]
      BY DEF LookAt
    <3>2. monitor \in Scans
      BY Scanning DEF LookAt, At
    <3>3. PICK green \in SUBSET Branches : green = {b} \cap {x \in Branches : Green(x)}
      OBVIOUS
    <3>4. monitor' = [monitor EXCEPT !.look = @ \ {b}, !.fixed = @ \cup green,
                                     !.unsent = @ \cup green]
      BY <3>1, <3>3
    <3> QED BY <3>2, <3>4 DEF Scans
  <2>8. (Save \/ Stop \/ RemoveFile \/ UNCHANGED mailVars) => P
    BY <2>1 DEF Save, Stop, RemoveFile, mailVars
  <2>9. /\ \A b \in Branches : Push(b) => P
        /\ \A r \in Builds : Rerun(r) => P
        /\ \A r \in Builds : \A end \in {"bad", "green"} : Complete(r, end) => P
    BY <2>1 DEF Push, Rerun, Complete
  <2>10. P
    <3> HIDE DEF P
    <3> QED BY <2>3, <2>4, <2>5, <2>6, <2>7, <2>8, <2>9, MailCases
  <2> QED BY <2>10
<1>5. file' \in [Builds -> Records] /\ torn' \in BOOLEAN /\ stops' \in Nat
  <2> DEFINE P == file' \in [Builds -> Records] /\ torn' \in BOOLEAN /\ stops' \in Nat
  <2>0. file \in [Builds -> Records] /\ torn \in BOOLEAN /\ stops \in Nat
    BY DEF MTyped
  <2>1. UNCHANGED <<file, torn, stops>> => P
    BY <2>0
  <2>2. Save => P
    <3> SUFFICES ASSUME Save PROVE P
      OBVIOUS
    <3>1. Updated \in [Builds -> Records]
      BY Scanning, Written DEF Save, At
    <3> QED BY <3>1 DEF Save, MTyped
  <2>3. Stop => P
    <3> SUFFICES ASSUME Stop PROVE P
      OBVIOUS
    <3>1. Unknown \in Records
      BY DEF Unknown, Records
    <3>2. stops' \in Nat
      BY <2>0 DEF Stop
    <3>3. torn' \in BOOLEAN /\ file' \in [Builds -> Records]
      BY <2>0, <3>1 DEF Stop
    <3> QED BY <3>2, <3>3
  <2>4. (RemoveFile \/ Trigger) => P
    <3> SUFFICES ASSUME RemoveFile \/ Trigger PROVE P
      OBVIOUS
    <3>1. stops' \in Nat
      BY <2>0 DEF RemoveFile, Trigger
    <3>2. torn' \in BOOLEAN /\ file' \in [Builds -> Records]
      BY <2>0 DEF RemoveFile, Trigger
    <3> QED BY <3>1, <3>2
  <2>5. (StartScan \/ FileMail \/ MailFiled \/ FileNotice \/ NoticesFiled \/ LookAt \/ Looked
           \/ SendNotice \/ UNCHANGED mailVars) => P
    BY <2>1 DEF StartScan, FileMail, MailFiled, FileNotice, NoticesFiled, LookAt, Looked,
       SendNotice, mailVars
  <2>6. /\ \A b \in Branches : Push(b) => P
        /\ \A r \in Builds : Rerun(r) => P
        /\ \A r \in Builds : \A end \in {"bad", "green"} : Complete(r, end) => P
    BY <2>1 DEF Push, Rerun, Complete
  <2>7. P
    <3> HIDE DEF P
    <3> QED BY <2>2, <2>3, <2>4, <2>5, <2>6, MailCases
  <2> QED BY <2>7
<1>6. copied' \subseteq Mails
  <2> DEFINE P == copied' \subseteq Mails
  <2>1. UNCHANGED copied => P
    BY DEF MTyped
  <2>2. FileMail => P
    <3>1. FileMail => monitor.todo \subseteq Mails
      BY Scanning DEF FileMail, At, Scans
    <3> QED BY <2>1, <3>1 DEF FileMail, Move, MTyped
  <2>3. (StartScan \/ MailFiled \/ FileNotice \/ NoticesFiled \/ LookAt \/ Looked
           \/ SendNotice \/ Trigger \/ Save \/ Stop \/ RemoveFile \/ UNCHANGED mailVars) => P
    BY <2>1 DEF StartScan, MailFiled, FileNotice, NoticesFiled, LookAt, Looked,
       SendNotice, Trigger, Save, Stop, RemoveFile, mailVars
  <2>4. /\ \A b \in Branches : Push(b) => P
        /\ \A r \in Builds : Rerun(r) => P
        /\ \A r \in Builds : \A end \in {"bad", "green"} : Complete(r, end) => P
    BY <2>1 DEF Push, Rerun, Complete
  <2>5. P
    <3> HIDE DEF P
    <3> QED BY <2>2, <2>3, <2>4, MailCases
  <2> QED BY <2>5
<1>7. asked' \subseteq Builds
  <2> DEFINE P == asked' \subseteq Builds
  <2>1. UNCHANGED asked => P
    BY DEF MTyped
  <2>2. Trigger => P
    <3>1. Trigger => monitor.found \subseteq Builds
      BY Scanning DEF Trigger, At, Scans
    <3> QED BY <3>1 DEF Trigger, MTyped
  <2>3. (StartScan \/ FileMail \/ MailFiled \/ FileNotice \/ NoticesFiled \/ LookAt \/ Looked
           \/ SendNotice \/ Save \/ Stop \/ RemoveFile \/ UNCHANGED mailVars) => P
    BY <2>1 DEF StartScan, FileMail, MailFiled, FileNotice, NoticesFiled, LookAt, Looked,
       SendNotice, Save, Stop, RemoveFile, mailVars
  <2>4. /\ \A b \in Branches : Push(b) => P
        /\ \A r \in Builds : Rerun(r) => P
        /\ \A r \in Builds : \A end \in {"bad", "green"} : Complete(r, end) => P
    BY <2>1 DEF Push, Rerun, Complete
  <2>5. P
    <3> HIDE DEF P
    <3> QED BY <2>2, <2>3, <2>4, MailCases
  <2> QED BY <2>5
<1>8. resolved' \subseteq Builds
  BY ResolvedStays DEF MTyped
<1> QED BY <1>1, <1>2, <1>3, <1>4, <1>5, <1>6, <1>7, <1>8 DEF MTyped

\* What a record says goes on having happened.
LEMMA HonestStays ==
  ASSUME MailInv, [MailNext]_mailVars, NEW book, Honest(book)
  PROVE  Honest(book)'
<1> SUFFICES ASSUME NEW r \in Builds
             PROVE  /\ book[r].known => Sent(r)' # {}
                    /\ book[r].filed => \E n \in Sent(r)' : mail'[<<r, n>>] = "moved"
                    /\ book[r].noticed => r \in resolved'
  BY DEF Honest
<1> QED BY SentStays, ResolvedStays DEF Honest

LEMMA HonestStep ==
  ASSUME MailInv, [MailNext]_mailVars
  PROVE  Honest(file)'
<1> DEFINE P == Honest(file)'
<1>1. ASSUME UNCHANGED file PROVE P
  <2>1. PICK f : f = file
    OBVIOUS
  <2>2. Honest(f)'
    BY <2>1, HonestStays DEF MailInv
  <2>3. file' = f
    BY <1>1, <2>1
  <2> QED BY <2>2, <2>3 DEF Honest
<1>2. Save => P
  <2> SUFFICES ASSUME Save PROVE P
    OBVIOUS
  <2>1. monitor \in Scans /\ monitor # Idle /\ monitor.at = "save"
    BY Scanning DEF Save, At, MailInv
  <2>2. PICK f : f = Updated
    OBVIOUS
  <2>3. Honest(f)
    <3>1. /\ Honest(monitor.book)
          /\ \A r \in monitor.found : Sent(r) # {}
          /\ \A r \in monitor.filed : \E n \in Sent(r) : mail[<<r, n>>] = "moved"
          /\ \A r \in Builds : r[1] \in monitor.fixed
               /\ (monitor.book[r].known \/ r \in monitor.found) => r \in resolved
      BY <2>1 DEF MailInv, ScanHonest
    <3> QED BY <2>1, <2>2, <3>1, Written DEF Honest
  <2>4. Honest(f)'
    BY <2>3, HonestStays
  <2>5. file' = f
    BY <2>2 DEF Save
  <2> QED BY <2>4, <2>5 DEF Honest
<1>3. Stop => P
  <2>1. \A r \in Builds : LET u == [q \in Builds |-> Unknown] IN
          ~u[r].known /\ ~u[r].filed /\ ~u[r].noticed
    BY DEF Unknown
  <2>2. CASE file' = [q \in Builds |-> Unknown]
    BY <2>1, <2>2 DEF Honest
  <2> QED BY <1>1, <2>2 DEF Stop
<1>4. (StartScan \/ FileMail \/ MailFiled \/ FileNotice \/ NoticesFiled \/ LookAt \/ Looked
         \/ SendNotice \/ Trigger \/ RemoveFile \/ UNCHANGED mailVars) => P
  BY <1>1 DEF StartScan, FileMail, MailFiled, FileNotice, NoticesFiled, LookAt, Looked,
     SendNotice, Trigger, RemoveFile, mailVars
<1>5. /\ \A b \in Branches : Push(b) => P
      /\ \A r \in Builds : Rerun(r) => P
      /\ \A r \in Builds : \A end \in {"bad", "green"} : Complete(r, end) => P
  BY <1>1 DEF Push, Rerun, Complete
<1>6. P
  <2> HIDE DEF P
  <2> QED BY <1>2, <1>3, <1>4, <1>5, MailCases
<1> QED BY <1>6

LEMMA CopiedStep ==
  ASSUME MailInv, [MailNext]_mailVars
  PROVE  Copied'
<1>1. copied \subseteq copied'
  BY DEF MailNext, MailStep, mailVars, StartScan, FileMail, Move, MailFiled, FileNotice,
     NoticesFiled, LookAt, Looked, SendNotice, Trigger, Save, Stop, RemoveFile, Push, Rerun,
     Complete
<1> QED BY <1>1, MailMoves DEF MailInv, Copied, InInbox

\* While the scan itself does not move, mails only arrive.
LEMMA Arrivals ==
  ASSUME MailInv, [MailNext]_mailVars,
         \/ UNCHANGED mailVars \/ RemoveFile \/ \E b \in Branches : Push(b)
         \/ \E r \in Builds : Rerun(r) \/ \E end \in {"bad", "green"} : Complete(r, end)
  PROVE  /\ UNCHANGED <<monitor, copied>>
         /\ \A m \in Mails : mail'[m] = mail[m] \/ (mail[m] = "unsent" /\ mail'[m] = "inbox")
<1>1. UNCHANGED <<monitor, copied>>
  BY DEF mailVars, RemoveFile, Push, Rerun, Complete
<1>2. \A m \in Mails : mail'[m] \in {mail[m], "inbox"}
  BY DEF mailVars, RemoveFile, Push, Rerun, Complete, MailInv, MTyped
<1> QED BY <1>1, <1>2, MailMoves

LEMMA ScanHonestStep ==
  ASSUME MailInv, [MailNext]_mailVars
  PROVE  ScanHonest'
<1> DEFINE P == ScanHonest'
           Left(r) == \E n \in Sent(r) : \/ mail[<<r, n>>] = "moved"
                                         \/ monitor.at = "file" /\ mail[<<r, n>>] = "flagged"
<1>1. ASSUME monitor.at # "off"
      PROVE  /\ monitor \in Scans /\ monitor # Idle
             /\ Honest(monitor.book) /\ monitor.moving \subseteq monitor.todo \cap copied
             /\ monitor.at = "file" => \A m \in monitor.todo : InInbox(m)
             /\ \A r \in monitor.found : r \in Builds /\ Sent(r) # {}
             /\ \A r \in monitor.filed : r \in Builds /\ Left(r)
             /\ \A r \in Builds : r[1] \in monitor.fixed
                  /\ (monitor.book[r].known \/ r \in monitor.found) => r \in resolved
             /\ monitor.todo \subseteq Mails
  <2>1. monitor \in Scans /\ monitor # Idle
    BY <1>1, Scanning DEF MailInv
  <2>2. monitor.found \subseteq Builds /\ monitor.filed \subseteq Builds
        /\ monitor.todo \subseteq Mails
    BY <2>1 DEF Scans
  <2> QED BY <2>1, <2>2 DEF MailInv, ScanHonest
<1>2. ASSUME monitor' = Idle PROVE P
  BY <1>2 DEF ScanHonest
\* What does not depend on the step.
<1>3. /\ \A r \in Builds : Sent(r) # {} => Sent(r)' # {}
      /\ \A r \in Builds : r \in resolved => r \in resolved'
  BY SentStays, ResolvedStays
<1>4. ASSUME monitor.at # "off", monitor'.book = monitor.book PROVE Honest(monitor.book)'
  <2>1. PICK f : f = monitor.book
    OBVIOUS
  <2>2. Honest(f)'
    BY <1>1, <1>4, <2>1, HonestStays
  <2>3. monitor'.book = f
    BY <1>4, <2>1
  <2> QED BY <2>2, <2>3 DEF Honest
<1> DEFINE Stay == \A r \in Builds : Left(r) => \E n \in Sent(r)' :
                      \/ mail'[<<r, n>>] = "moved"
                      \/ monitor'.at = "file" /\ mail'[<<r, n>>] = "flagged"
<1>5. ASSUME \/ monitor'.at = monitor.at \/ monitor.at # "file"
             \/ \A m \in Mails : mail'[m] # "flagged"
      PROVE  Stay
  <2> SUFFICES ASSUME NEW r \in Builds, Left(r)
               PROVE  \E n \in Sent(r)' : \/ mail'[<<r, n>>] = "moved"
                                          \/ monitor'.at = "file" /\ mail'[<<r, n>>] = "flagged"
    OBVIOUS
  <2>1. PICK n \in Sent(r) : \/ mail[<<r, n>>] = "moved"
                             \/ monitor.at = "file" /\ mail[<<r, n>>] = "flagged"
    OBVIOUS
  <2>2. <<r, n>> \in Mails
    BY Tuples DEF Sent
  <2> QED BY <1>5, <2>1, <2>2, SentStays
<1> HIDE DEF Left
<1>6. ASSUME UNCHANGED monitor, monitor.at = "file" => \A m \in monitor.todo : InInbox(m)',
             copied \subseteq copied'
      PROVE  P
  <2>1. CASE monitor = Idle
    BY <1>2, <1>6, <2>1
  <2>2. CASE monitor # Idle
    <3>1. monitor.at # "off"
      BY <2>2, Scanning DEF MailInv
    <3> QED BY <1>1, <1>3, <1>4, <1>5, <1>6, <3>1 DEF ScanHonest
  <2> QED BY <2>1, <2>2
<1>7. (\/ UNCHANGED mailVars \/ RemoveFile \/ \E b \in Branches : Push(b)
       \/ \E r \in Builds : Rerun(r) \/ \E end \in {"bad", "green"} : Complete(r, end)) => P
  <2> SUFFICES ASSUME \/ UNCHANGED mailVars \/ RemoveFile \/ \E b \in Branches : Push(b)
                      \/ \E r \in Builds : Rerun(r) \/ \E end \in {"bad", "green"} : Complete(r, end)
               PROVE  P
    OBVIOUS
  <2>1. /\ UNCHANGED <<monitor, copied>>
        /\ \A m \in Mails : mail'[m] = mail[m] \/ (mail[m] = "unsent" /\ mail'[m] = "inbox")
    BY Arrivals
  <2>2. monitor.at = "file" => \A m \in monitor.todo : InInbox(m)'
    BY <1>1, <2>1 DEF InInbox
  <2> QED BY <1>6, <2>1, <2>2
<1>8. StartScan => P
  <2> SUFFICES ASSUME StartScan PROVE P
    OBVIOUS
  <2>1. PICK s \in Listings, ready \in SUBSET Listed :
          monitor' = [at |-> "file", book |-> file, found |-> {Of(m) : m \in s},
                 todo |-> {m \in s : ShouldFile(file, m)}, moving |-> {}, filed |-> {},
                 ready |-> ready, pending |-> ready,
                 look |-> {}, fixed |-> {}, unsent |-> {}]
    BY DEF StartScan
  <2>2. UNCHANGED <<mail, file>>
    BY DEF StartScan
  <2>3. Honest(monitor.book)'
    BY <2>1, <2>2, HonestStep DEF Honest
  <2>4. \A m \in s : m \in Mails /\ InInbox(m)
    BY DEF Listings
  <2>5. \A m \in monitor'.todo : InInbox(m)'
    BY <2>1, <2>2, <2>4 DEF InInbox
  <2>6. \A r \in monitor'.found : Sent(r)' # {}
    <3> SUFFICES ASSUME NEW m \in s PROVE Sent(Of(m))' # {}
      BY <2>1
    <3>1. m[2] \in Sent(Of(m))'
      BY <2>2, <2>4, Tuples DEF Sent, Of, InInbox
    <3> QED BY <3>1
  <2>7. /\ monitor'.moving = {} /\ monitor'.filed = {} /\ monitor'.fixed = {}
    BY <2>1
  <2> QED BY <2>3, <2>5, <2>6, <2>7 DEF ScanHonest
<1>9. FileMail => P
  <2> SUFFICES ASSUME FileMail PROVE P
    OBVIOUS
  <2>0. monitor.at # "off" /\ monitor.at = "file"
    BY DEF FileMail, At
  <2>1. PICK m \in monitor.todo : Move(m)
    BY DEF FileMail
  <2>2. m \in Mails /\ m[1] \in Builds /\ m[2] \in 1 .. MaxAttempts /\ m = <<m[1], m[2]>>
    BY <1>1, <2>0, Tuples
  <2>3. CASE /\ copied' = copied \cup {m} /\ monitor' = [monitor EXCEPT !.moving = {m}]
             /\ UNCHANGED mail
    <3>1. /\ monitor'.at = "file" /\ monitor'.book = monitor.book /\ monitor'.moving = {m}
          /\ monitor'.todo = monitor.todo /\ monitor'.found = monitor.found
          /\ monitor'.filed = monitor.filed /\ monitor'.fixed = monitor.fixed
      BY <1>1, <2>0, <2>3 DEF Scans
    <3>2. \A x \in monitor.todo : InInbox(x)'
      BY <1>1, <2>0, <2>3 DEF InInbox
    <3>3. Stay
      BY <1>5, <2>0, <3>1
    <3> QED BY <1>1, <1>3, <1>4, <2>0, <2>3, <3>1, <3>2, <3>3 DEF ScanHonest
  <2>4. CASE /\ mail' = [mail EXCEPT ![m] = "flagged"] /\ UNCHANGED copied
             /\ monitor' = [monitor EXCEPT !.moving = {}, !.todo = @ \ {m},
                                           !.filed = @ \cup {Of(m)}]
    <3>1. /\ monitor'.at = "file" /\ monitor'.book = monitor.book /\ monitor'.moving = {}
          /\ monitor'.todo = monitor.todo \ {m} /\ monitor'.found = monitor.found
          /\ monitor'.filed = monitor.filed \cup {Of(m)} /\ monitor'.fixed = monitor.fixed
      BY <1>1, <2>0, <2>4 DEF Scans
    <3>2. \A x \in monitor'.todo : InInbox(x)'
      BY <1>1, <2>0, <2>4, <3>1 DEF InInbox, MailInv, MTyped
    <3>3. Stay
      BY <1>5, <2>0, <3>1
    <3>4. \E n \in Sent(Of(m))' : \/ mail'[<<Of(m), n>>] = "moved"
                                  \/ monitor'.at = "file" /\ mail'[<<Of(m), n>>] = "flagged"
      <4>1. mail'[m] = "flagged"
        BY <2>2, <2>4 DEF MailInv, MTyped
      <4>2. m[2] \in Sent(Of(m))' /\ <<Of(m), m[2]>> = m
        BY <2>2, <4>1 DEF Sent, Of
      <4> QED BY <3>1, <4>1, <4>2
    <3>5. \A r \in monitor'.filed : \E n \in Sent(r)' :
            mail'[<<r, n>>] = "moved" \/ (monitor'.at = "file" /\ mail'[<<r, n>>] = "flagged")
      BY <1>1, <2>0, <3>1, <3>3, <3>4
    <3> HIDE DEF Stay
    <3> QED BY <1>1, <1>3, <1>4, <2>0, <2>4, <3>1, <3>2, <3>5 DEF ScanHonest
  <2> QED BY <2>1, <2>3, <2>4 DEF Move
\* The steps that leave moving, book, found, filed and fixed alone.
<1>10. ASSUME monitor.at # "off", monitor'.at # "file",
              \/ monitor.at # "file" \/ monitor.filed = {} \/ Expunge,
              monitor'.book = monitor.book, monitor'.moving = monitor.moving,
              monitor'.todo = monitor.todo, monitor'.found = monitor.found,
              monitor'.filed = monitor.filed, monitor'.fixed = monitor.fixed, UNCHANGED copied
       PROVE  P
  <2>1. \A r \in monitor.filed : \E n \in Sent(r)' :
            mail'[<<r, n>>] = "moved" \/ (monitor'.at = "file" /\ mail'[<<r, n>>] = "flagged")
    <3>1. CASE monitor.filed = {}
      BY <3>1
    <3>2. CASE monitor.at # "file"
      BY <1>1, <1>5, <1>10, <3>2
    <3>3. CASE Expunge
      <4>1. \A m \in Mails : mail'[m] # "flagged"
        BY <3>3 DEF Expunge
      <4> QED BY <1>1, <1>5, <1>10, <4>1
    <3> QED BY <1>10, <3>1, <3>2, <3>3
  <2> HIDE DEF Stay
  <2> QED BY <1>1, <1>3, <1>4, <1>10, <2>1 DEF ScanHonest
<1>11. (MailFiled \/ FileNotice \/ NoticesFiled \/ Looked \/ SendNotice \/ Trigger) => P
  <2> SUFFICES ASSUME MailFiled \/ FileNotice \/ NoticesFiled \/ Looked \/ SendNotice \/ Trigger
               PROVE  P
    OBVIOUS
  <2>1. monitor.at # "off"
    BY DEF MailFiled, FileNotice, NoticesFiled, Looked, SendNotice, Trigger, At
  <2>2. /\ monitor'.at # "file" /\ monitor'.book = monitor.book
        /\ monitor'.moving = monitor.moving /\ monitor'.todo = monitor.todo
        /\ monitor'.found = monitor.found /\ monitor'.filed = monitor.filed
        /\ monitor'.fixed = monitor.fixed
    BY <1>1, <2>1 DEF MailFiled, FileNotice, NoticesFiled, Looked, SendNotice, Trigger, At, Go, Scans
  <2>3. UNCHANGED copied /\ (monitor.at # "file" \/ monitor.filed = {} \/ Expunge)
    BY DEF MailFiled, FileNotice, NoticesFiled, Looked, SendNotice, Trigger, At
  <2> QED BY <1>10, <2>1, <2>2, <2>3
<1>12. LookAt => P
  <2> SUFFICES ASSUME LookAt PROVE P
    OBVIOUS
  <2>0. monitor.at # "off" /\ monitor.at = "look" /\ UNCHANGED <<mail, copied, resolved>>
    BY DEF LookAt, At, world
  <2>1. PICK b \in monitor.look : LET green == {b} \cap {x \in Branches : Green(x)} IN
          monitor' = [monitor EXCEPT !.look = @ \ {b}, !.fixed = @ \cup green,
                                     !.unsent = @ \cup green]
    BY DEF LookAt
  <2>2. PICK green \in SUBSET {x \in Branches : Green(x)} : 
          monitor' = [monitor EXCEPT !.look = @ \ {b}, !.fixed = @ \cup green,
                                     !.unsent = @ \cup green]
    BY <2>1
  <2>3. /\ monitor'.at = "look" /\ monitor'.book = monitor.book
        /\ monitor'.moving = monitor.moving /\ monitor'.todo = monitor.todo
        /\ monitor'.found = monitor.found /\ monitor'.filed = monitor.filed
        /\ monitor'.fixed = monitor.fixed \cup green
    BY <1>1, <2>0, <2>2 DEF Scans
  <2>4. \A r \in Builds : r[1] \in green
           /\ (monitor.book[r].known \/ r \in monitor.found) => r \in resolved
    <3> SUFFICES ASSUME NEW r \in Builds, r[1] \in green,
                        monitor.book[r].known \/ r \in monitor.found
                 PROVE  r \in resolved
      OBVIOUS
    <3>1. Sent(r) # {} /\ Green(r[1])
      BY <1>1, <2>0 DEF Honest
    <3> QED BY <3>1 DEF MailInv, GreenResolves
  <2>5. Stay
    BY <1>5, <2>0
  <2> QED BY <1>1, <1>3, <1>4, <2>0, <2>3, <2>4, <2>5 DEF ScanHonest
<1>13. (Save \/ Stop) => P
  BY <1>2 DEF Save, Stop
<1>14. P
  <2> HIDE DEF P
  <2> QED BY <1>7, <1>8, <1>9, <1>11, <1>12, <1>13, MailCases
<1> QED BY <1>14

LEMMA MailInvStart == MailInit => MailInv
<1> SUFFICES ASSUME MailInit PROVE MailInv
  OBVIOUS
<1>1. Unknown \in Records /\ ~Unknown.known /\ ~Unknown.filed /\ ~Unknown.noticed
  BY DEF Unknown, Records
<1>2. MTyped
  BY <1>1 DEF MailInit, MTyped
<1>3. \A r \in Builds : Sent(r) = {}
  <2> SUFFICES ASSUME NEW r \in Builds, NEW n \in Sent(r) PROVE FALSE
    OBVIOUS
  <2> QED BY Tuples DEF MailInit, Sent
<1>4. Numbered
  <2>1. ASSUME NEW b \in Branches PROVE IsTip(b, 0)
    <3>1. \A d \in 1 .. MaxPushes : ci[<<b, d>>] = "none"
      BY Tuples DEF MailInit
    <3>2. \A d \in 1 .. MaxPushes : ~(d <= 0)
      BY MonitorAssumption
    <3> QED BY <3>1, <3>2 DEF IsTip
  <2>2. 0 \in 0 .. MaxPushes /\ 0 \in 0 .. MaxAttempts /\ 1 .. 0 = {}
    BY MonitorAssumption
  <2> QED BY <1>3, <2>1, <2>2 DEF Numbered
<1>5. GreenResolves /\ Honest(file)
  BY <1>1, <1>3 DEF MailInit, GreenResolves, Honest
<1>6. ScanHonest /\ Copied
  BY DEF MailInit, ScanHonest, Copied
<1> QED BY <1>2, <1>4, <1>5, <1>6 DEF MailInv

LEMMA MailAlways == MailInit /\ [][MailNext]_mailVars => []MailInv
<1>1. MailInv /\ [MailNext]_mailVars => MailInv'
  BY MTypedStep, NumberedStep, GreenStep, HonestStep, ScanHonestStep, CopiedStep DEF MailInv
<1> QED BY <1>1, MailInvStart, PTL

LEMMA MailInvKept == MailInv => MailKept
BY DEF MailInv, Copied, Honest, MailKept

LEMMA MailInvTyped == MailInv => MailTypeOK
BY DEF MailInv, MTyped, Honest, MailTypeOK

\* The file records only failures that were mailed, and what it calls filed has left
\* the inbox.
THEOREM MailTypeCorrect == MailSpec => []MailTypeOK
BY MailAlways, MailInvTyped, PTL DEF MailSpec

\* Whichever call of a scan fails, no mail leaves the inbox before it is in the folder,
\* and no failure is written down as fixed that has not been fixed.
THEOREM MailIsKept == MailSpec => []MailKept
BY MailInvKept, MailAlways, PTL DEF MailSpec
-----------------------------------------------------------------------------
(* Purge                                                                   *)

Requests == {"open", "merged", "closed"}
SweepLabels == {"fetch", "trees", "remove", "branches", "delete", "remotes", "push"}
Sweeps == [at : SweepLabels, todo : SUBSET Topics, topic : Topics \cup {"main"},
           inUse : SUBSET Topics, cleared : SUBSET Topics, expired : SUBSET Topics,
           remotes : BOOLEAN, head : Topics \cup {"main"}, answer : SUBSET Requests,
           seen : SUBSET Changes]

PTyped ==
  /\ main \in Trunk /\ fetched \in Trunk /\ purgeEvents \in Nat
  /\ local \in [Topics -> Line] /\ remote \in [Topics -> Line] /\ tracking \in [Topics -> Line]
  /\ prs \in [Topics -> SUBSET Requests] /\ trees \in [Topics -> Trees]
  /\ head \in Topics \cup {"main"} /\ (purge = Asleep \/ purge \in Sweeps)
  /\ purge.at \in {"remove", "delete", "push"} => purge.topic \in Topics

\* A branch is checked out at most once; what was fetched has been on GitHub.
Placed ==
  /\ \A n \in Topics : CheckedOut(n) => local[n].there /\ (head # n \/ trees[n] = "none")
  /\ main.hist \subseteq main.content
  /\ fetched.content \subseteq main.content /\ fetched.hist \subseteq main.hist

\* What is about to be deleted was finished when it was looked at.
Deleting ==
  purge.at = "delete" => LET n == purge.topic IN
    \/ local[n].work \subseteq main.content
    \/ "merged" \in prs[n] \/ n \in purge.expired \/ n \in moved
Pushing ==
  purge.at = "push" =>
    /\ purge.seen \subseteq main.content \/ "merged" \in purge.answer
    /\ "merged" \in purge.answer => "merged" \in prs[purge.topic]
    /\ "open" \notin purge.answer

PurgeInv == PTyped /\ Placed /\ Deleting /\ Pushing

LEMMA PurgeCases ==
  ASSUME NEW P, [PurgeNext]_purgeVars, UNCHANGED purgeVars => P,
         PurgeStart => P, Fetched => P, RemoveTree => P, Prune => P, DeleteBranch => P,
         BranchesDone => P, DeleteRemote => P, RemotesDone => P,
         \A n \in Topics : TreeLook(n) => P,
         \A n \in Topics : BranchLook(n) => P,
         \A n \in Topics : RemoteLook(n) => P,
         \A n \in Topics : Branch(n) => P,
         \A n \in Topics : PushTopic(n) => P,
         \A n \in Topics : OpenRequest(n) => P,
         \A n \in Topics : \A s \in {"old", "dirty", "locked", "gone"} : TreeChanges(n, s) => P,
         \A n \in Topics : \A c \in Changes : Commit(n, c) => P,
         \A n \in Topics : \A c \in Changes : OtherPush(n, c) => P,
         \A n \in Topics : \A how \in {"merge", "squash", "closed"} : EndRequest(n, how) => P,
         \A n \in Topics \cup {"main"} : SwitchTo(n) => P
  PROVE  P
BY DEF PurgeNext

\* A run that is under way has a record.
LEMMA Sweeping ==
  ASSUME PTyped
  PROVE  (purge = Asleep <=> purge.at = "off") /\ (purge.at # "off" => purge \in Sweeps)
BY DEF PTyped, Sweeps, SweepLabels, Asleep

\* The branches on this computer and where they are checked out.
LEMMA CheckoutsTyped ==
  ASSUME PTyped, Placed, [PurgeNext]_purgeVars
  PROVE  /\ local' \in [Topics -> Line] /\ trees' \in [Topics -> Trees]
         /\ head' \in Topics \cup {"main"}
         /\ \A n \in Topics : CheckedOut(n)' => local'[n].there /\ (head' # n \/ trees'[n] = "none")
<1> DEFINE P == /\ local' \in [Topics -> Line] /\ trees' \in [Topics -> Trees]
                /\ head' \in Topics \cup {"main"}
                /\ \A n \in Topics : CheckedOut(n)' =>
                     local'[n].there /\ (head' # n \/ trees'[n] = "none")
<1>0. /\ local \in [Topics -> Line] /\ trees \in [Topics -> Trees]
      /\ head \in Topics \cup {"main"} /\ "main" \notin Topics
      /\ \A n \in Topics : CheckedOut(n) => local[n].there /\ (head # n \/ trees[n] = "none")
  BY PurgeAssumption DEF PTyped, Placed
<1>1. ASSUME UNCHANGED <<local, trees, head>> PROVE P
  BY <1>0, <1>1 DEF CheckedOut
<1>2. \A n \in Topics : Branch(n) => P
  <2> SUFFICES ASSUME NEW n \in Topics, Branch(n) PROVE P
    OBVIOUS
  <2>1. [there |-> TRUE, work |-> {}] \in Line /\ "new" \in Trees
    BY DEF Line, Trees
  <2>2. local' = [local EXCEPT ![n] = [there |-> TRUE, work |-> {}]] /\ ~CheckedOut(n)
    BY <1>0 DEF Branch
  <2>3. local' \in [Topics -> Line] /\ local'[n].there /\ \A x \in Topics \ {n} : local'[x] = local[x]
    BY <1>0, <2>1, <2>2
  <2>4. trees' \in [Topics -> Trees] /\ head' \in Topics \cup {"main"}
    BY <1>0, <2>1 DEF Branch
  <2>5. CASE head' = n /\ UNCHANGED trees
    BY <1>0, <2>2, <2>3, <2>4, <2>5 DEF CheckedOut
  <2>6. CASE trees' = [trees EXCEPT ![n] = "new"] /\ UNCHANGED head
    BY <1>0, <2>2, <2>3, <2>4, <2>6 DEF CheckedOut
  <2> QED BY <2>5, <2>6 DEF Branch
<1>3. \A n \in Topics \cup {"main"} : SwitchTo(n) => P
  BY <1>0 DEF SwitchTo, CheckedOut
<1>4. \A n \in Topics : \A s \in {"old", "dirty", "locked", "gone"} : TreeChanges(n, s) => P
  BY <1>0 DEF TreeChanges, CheckedOut, Trees
<1>5. \A n \in Topics : \A c \in Changes : Commit(n, c) => P
  <2> SUFFICES ASSUME NEW n \in Topics, NEW c \in Changes, Commit(n, c) PROVE P
    OBVIOUS
  <2>1. local' \in [Topics -> Line] /\ \A x \in Topics : local'[x].there = local[x].there
    <3>1. /\ \A x \in Topics : local[x] \in Line
          /\ local' = [local EXCEPT ![n].work = @ \cup {c}]
      BY <1>0 DEF Commit
    <3> QED BY <1>0, <3>1 DEF Line
  <2>2. head' = head /\ trees' \in [Topics -> Trees] /\ CheckedOut(n)
        /\ \A x \in Topics : trees'[x] = "none" <=> trees[x] = "none"
    BY <1>0 DEF Commit, CheckedOut, Trees
  <2> QED BY <1>0, <2>1, <2>2 DEF CheckedOut
<1>6. (RemoveTree \/ Prune) => P
  BY <1>0, Sweeping DEF RemoveTree, Prune, CheckedOut, Trees, Doing, PTyped
<1>7. DeleteBranch => P
  <2> SUFFICES ASSUME DeleteBranch PROVE P
    OBVIOUS
  <2>1. PICK n \in Topics : n = purge.topic
    BY DEF DeleteBranch, Doing, PTyped
  <2>2. NoLine \in Line
    BY DEF NoLine, Line
  <2>3. UNCHANGED <<trees, head>>
        /\ local' = IF ~CheckedOut(n) THEN [local EXCEPT ![n] = NoLine] ELSE local
    BY <2>1 DEF DeleteBranch, Deletable
  <2>4. \A x \in Topics : CheckedOut(x) => local'[x] = local[x]
    BY <1>0, <2>3
  <2> QED BY <1>0, <2>2, <2>3, <2>4 DEF CheckedOut
<1>8. (PurgeStart \/ Fetched \/ BranchesDone \/ DeleteRemote \/ RemotesDone
         \/ UNCHANGED purgeVars) => P
  BY <1>1 DEF PurgeStart, Fetched, BranchesDone, DeleteRemote, RemotesDone, purgeVars
<1>9. /\ \A n \in Topics : TreeLook(n) => P
      /\ \A n \in Topics : BranchLook(n) => P
      /\ \A n \in Topics : RemoteLook(n) => P
      /\ \A n \in Topics : PushTopic(n) => P
      /\ \A n \in Topics : OpenRequest(n) => P
      /\ \A n \in Topics : \A c \in Changes : OtherPush(n, c) => P
      /\ \A n \in Topics : \A how \in {"merge", "squash", "closed"} : EndRequest(n, how) => P
  BY <1>1 DEF TreeLook, BranchLook, RemoteLook, PushTopic, OpenRequest, OtherPush, EndRequest
<1>10. P
  <2> HIDE DEF P
  <2> QED BY <1>2, <1>3, <1>4, <1>5, <1>6, <1>7, <1>8, <1>9, PurgeCases
<1> QED BY <1>10

\* GitHub, and what was fetched of it.  Nothing that main has ever leaves it, and no
\* request that was merged is forgotten.
LEMMA HubTyped ==
  ASSUME PTyped, Placed, [PurgeNext]_purgeVars
  PROVE  /\ main' \in Trunk /\ fetched' \in Trunk /\ purgeEvents' \in Nat
         /\ remote' \in [Topics -> Line] /\ tracking' \in [Topics -> Line]
         /\ prs' \in [Topics -> SUBSET Requests]
         /\ main'.hist \subseteq main'.content
         /\ fetched'.content \subseteq main'.content /\ fetched'.hist \subseteq main'.hist
         /\ main.content \subseteq main'.content
         /\ \A n \in Topics : "merged" \in prs[n] => "merged" \in prs'[n]
<1> DEFINE P == /\ main' \in Trunk /\ fetched' \in Trunk /\ purgeEvents' \in Nat
                /\ remote' \in [Topics -> Line] /\ tracking' \in [Topics -> Line]
                /\ prs' \in [Topics -> SUBSET Requests]
                /\ main'.hist \subseteq main'.content
                /\ fetched'.content \subseteq main'.content /\ fetched'.hist \subseteq main'.hist
                /\ main.content \subseteq main'.content
                /\ \A n \in Topics : "merged" \in prs[n] => "merged" \in prs'[n]
<1>0. /\ main \in Trunk /\ fetched \in Trunk /\ purgeEvents \in Nat /\ purgeEvents + 1 \in Nat
      /\ local \in [Topics -> Line] /\ remote \in [Topics -> Line] /\ tracking \in [Topics -> Line]
      /\ prs \in [Topics -> SUBSET Requests]
      /\ main.hist \subseteq main.content
      /\ fetched.content \subseteq main.content /\ fetched.hist \subseteq main.hist
  BY DEF PTyped, Placed
<1>1. ASSUME UNCHANGED <<hub, refs>>, UNCHANGED purgeEvents \/ Act PROVE P
  BY <1>0, <1>1 DEF hub, refs, Act
<1>2. Fetched => P
  <2>1. Fetched => \/ fetched' = main /\ tracking' = remote /\ UNCHANGED <<hub, purgeEvents>>
                   \/ Act /\ UNCHANGED <<hub, refs>>
    BY DEF Fetched
  <2> QED BY <1>0, <1>1, <2>1 DEF hub
<1>3. \A n \in Topics : PushTopic(n) => P
  BY <1>0 DEF PushTopic, Act
<1>4. \A n \in Topics : \A c \in Changes : OtherPush(n, c) => P
  <2> SUFFICES ASSUME NEW n \in Topics, NEW c \in Changes, OtherPush(n, c) PROVE P
    OBVIOUS
  <2>1. remote' \in [Topics -> Line]
    <3>1. /\ \A x \in Topics : remote[x] \in Line
          /\ remote' = [remote EXCEPT ![n].work = @ \cup {c}]
      BY <1>0 DEF OtherPush
    <3> QED BY <1>0, <3>1 DEF Line
  <2> QED BY <1>0, <2>1 DEF OtherPush, Act, refs
<1>5. \A n \in Topics : OpenRequest(n) => P
  BY <1>0 DEF OpenRequest, Act, refs, Requests
<1>6. \A n \in Topics : \A how \in {"merge", "squash", "closed"} : EndRequest(n, how) => P
  <2> SUFFICES ASSUME NEW n \in Topics, NEW how \in {"merge", "squash", "closed"},
                      EndRequest(n, how)
               PROVE  P
    OBVIOUS
  <2>1. prs' \in [Topics -> SUBSET Requests]
        /\ \A x \in Topics : "merged" \in prs[x] => "merged" \in prs'[x]
    BY <1>0 DEF EndRequest, Requests
  <2>2. main' \in Trunk /\ main'.hist \subseteq main'.content
        /\ main.content \subseteq main'.content /\ main.hist \subseteq main'.hist
    <3>1. remote[n].work \subseteq Changes
      BY <1>0 DEF Line
    <3> QED BY <1>0, <3>1 DEF EndRequest, Trunk
  <2> QED BY <1>0, <2>1, <2>2 DEF EndRequest, Act, refs
<1>7. DeleteRemote => P
  <2>1. NoLine \in Line
    BY DEF NoLine, Line
  <2> QED BY <1>0, <2>1 DEF DeleteRemote
<1>8. (PurgeStart \/ RemoveTree \/ Prune \/ DeleteBranch \/ BranchesDone \/ RemotesDone
         \/ UNCHANGED purgeVars) => P
  BY <1>1 DEF PurgeStart, RemoveTree, Prune, DeleteBranch, BranchesDone, RemotesDone, purgeVars,
     hub, refs
<1>9. /\ \A n \in Topics : TreeLook(n) => P
      /\ \A n \in Topics : BranchLook(n) => P
      /\ \A n \in Topics : RemoteLook(n) => P
      /\ \A n \in Topics : Branch(n) => P
      /\ \A n \in Topics : \A s \in {"old", "dirty", "locked", "gone"} : TreeChanges(n, s) => P
      /\ \A n \in Topics : \A c \in Changes : Commit(n, c) => P
      /\ \A n \in Topics \cup {"main"} : SwitchTo(n) => P
  BY <1>1 DEF TreeLook, BranchLook, RemoteLook, Branch, TreeChanges, Commit, SwitchTo
<1>10. P
  <2> HIDE DEF P
  <2> QED BY <1>2, <1>3, <1>4, <1>5, <1>6, <1>7, <1>8, <1>9, PurgeCases
<1> QED BY <1>10

\* The run itself: what it does next is about a branch there is.
LEMMA SweepTyped ==
  ASSUME PTyped, [PurgeNext]_purgeVars
  PROVE  /\ purge' = Asleep \/ purge' \in Sweeps
         /\ purge'.at \in {"remove", "delete", "push"} => purge'.topic \in Topics
<1> DEFINE P == /\ purge' = Asleep \/ purge' \in Sweeps
                /\ purge'.at \in {"remove", "delete", "push"} => purge'.topic \in Topics
<1>0. Asleep.at = "off"
  BY DEF Asleep
<1>1. ASSUME UNCHANGED purge PROVE P
  BY <1>1 DEF PTyped
<1>2. ASSUME purge' = Asleep PROVE P
  BY <1>0, <1>2
<1>3. ASSUME purge.at # "off",
             \E label \in {"remove", "delete"}, n \in Topics :
               purge' = [purge EXCEPT !.at = label, !.topic = n]
      PROVE  P
  <2>1. purge \in Sweeps
    BY <1>3, Sweeping
  <2> QED BY <1>3, <2>1 DEF Sweeps, SweepLabels
<1>4. ASSUME purge.at # "off" PROVE purge \in Sweeps
  BY <1>4, Sweeping
<1> DEFINE Plain == {"fetch", "trees", "branches", "remotes"}
\* The run goes on to a step that is about no one branch.
<1>5. ASSUME purge \in Sweeps, NEW label \in Plain, NEW x \in SUBSET Topics,
             NEW y \in SUBSET Topics,
             \/ purge' = [purge EXCEPT !.at = label, !.todo = x, !.inUse = y]
             \/ purge' = [purge EXCEPT !.at = label, !.todo = x, !.cleared = y]
             \/ purge' = [purge EXCEPT !.at = label, !.todo = x]
      PROVE  P
  <2>1. label \in SweepLabels /\ label \notin {"remove", "delete", "push"}
    BY DEF SweepLabels
  <2>2. CASE purge' = [purge EXCEPT !.at = label, !.todo = x, !.inUse = y]
    BY <1>5, <2>1, <2>2 DEF Sweeps
  <2>3. CASE purge' = [purge EXCEPT !.at = label, !.todo = x, !.cleared = y]
    BY <1>5, <2>1, <2>3 DEF Sweeps
  <2>4. CASE purge' = [purge EXCEPT !.at = label, !.todo = x]
    BY <1>5, <2>1, <2>4 DEF Sweeps
  <2> QED BY <1>5, <2>2, <2>3, <2>4
<1>6. PurgeStart => P
  <2> SUFFICES ASSUME PurgeStart PROVE P
    OBVIOUS
  <2>1. PICK e \in SUBSET Backups, r \in BOOLEAN :
          purge' = [at |-> "fetch", todo |-> Topics, topic |-> "main", inUse |-> {},
                    cleared |-> {}, expired |-> e, remotes |-> r, head |-> head, answer |-> {},
                    seen |-> {}]
    BY DEF PurgeStart
  <2>2. e \subseteq Topics /\ head \in Topics \cup {"main"}
    BY PurgeAssumption DEF PTyped
  <2> QED BY <2>1, <2>2 DEF Sweeps, SweepLabels
<1>7. (Fetched \/ RemoveTree \/ Prune \/ DeleteBranch \/ DeleteRemote) => P
  <2> SUFFICES ASSUME Fetched \/ RemoveTree \/ Prune \/ DeleteBranch \/ DeleteRemote PROVE P
    OBVIOUS
  <2>1. purge \in Sweeps /\ head \in Topics \cup {"main"}
    BY <1>4 DEF Fetched, RemoveTree, Prune, DeleteBranch, DeleteRemote, Doing, PTyped
  <2>2. CASE Fetched
    BY <2>1, <2>2 DEF Fetched, To, Sweeps, SweepLabels
  <2>3. CASE RemoveTree
    <3>1. purge.topic \in Topics
      BY <2>3 DEF RemoveTree, Doing, PTyped
    <3>2. \/ purge' = [purge EXCEPT !.at = "trees", !.todo = @ \ {purge.topic},
                                    !.inUse = @ \cup {purge.topic}]
          \/ purge' = [purge EXCEPT !.at = "trees", !.todo = @ \ {purge.topic},
                                    !.cleared = @ \cup {purge.topic}]
      BY <2>3 DEF RemoveTree
    <3>3. /\ purge.todo \ {purge.topic} \in SUBSET Topics
          /\ purge.inUse \cup {purge.topic} \in SUBSET Topics
          /\ purge.cleared \cup {purge.topic} \in SUBSET Topics
      BY <2>1, <3>1 DEF Sweeps
    <3>4. PICK x \in SUBSET Topics, y \in SUBSET Topics :
            \/ purge' = [purge EXCEPT !.at = "trees", !.todo = x, !.inUse = y]
            \/ purge' = [purge EXCEPT !.at = "trees", !.todo = x, !.cleared = y]
      BY <3>2, <3>3
    <3> QED BY <1>5, <2>1, <3>4
  <2>4. CASE Prune
    <3>1. PICK x \in SUBSET Topics :
            purge' = [purge EXCEPT !.at = "branches", !.head = head, !.todo = x]
      BY <2>4 DEF Prune
    <3> QED BY <2>1, <3>1 DEF Sweeps, SweepLabels
  <2>5. CASE DeleteBranch \/ DeleteRemote
    <3>1. purge.todo \ {purge.topic} \in SUBSET Topics
      BY <2>1 DEF Sweeps
    <3>2. PICK label \in Plain, x \in SUBSET Topics :
            purge' = [purge EXCEPT !.at = label, !.todo = x]
      BY <2>5, <3>1 DEF DeleteBranch, DeleteRemote
    <3> QED BY <1>5, <2>1, <3>2
  <2> QED BY <2>2, <2>3, <2>4, <2>5
<1>8. (BranchesDone \/ RemotesDone) => P
  <2>1. BranchesDone /\ purge' # Asleep => P
    <3> SUFFICES ASSUME BranchesDone, purge' # Asleep PROVE P
      OBVIOUS
    <3>1. purge \in Sweeps
      BY <1>4 DEF BranchesDone, Doing
    <3> QED BY <3>1 DEF BranchesDone, Sweeps, SweepLabels
  <2> QED BY <1>2, <2>1 DEF RemotesDone
<1>9. \A n \in Topics : TreeLook(n) => P
  <2> SUFFICES ASSUME NEW n \in Topics, TreeLook(n) PROVE P
    OBVIOUS
  <2>1. purge \in Sweeps /\ purge.at = "trees"
    BY <1>4 DEF TreeLook, Doing
  <2>2. \/ purge' = [purge EXCEPT !.todo = @ \ {n}]
        \/ purge' = [purge EXCEPT !.todo = @ \ {n}, !.inUse = @ \cup {n}]
        \/ purge' = [purge EXCEPT !.at = "remove", !.topic = n]
    <3>1. trees[n] \in Trees
      BY DEF PTyped
    <3> QED BY <3>1 DEF TreeLook, Trees
  <2>3. CASE purge' = [purge EXCEPT !.todo = @ \ {n}]
    BY <2>1, <2>3 DEF Sweeps
  <2>4. CASE purge' = [purge EXCEPT !.todo = @ \ {n}, !.inUse = @ \cup {n}]
    <3>1. purge.todo \ {n} \in SUBSET Topics /\ purge.inUse \cup {n} \in SUBSET Topics
      BY <2>1 DEF Sweeps
    <3>2. PICK x \in SUBSET Topics, y \in SUBSET Topics :
            purge' = [purge EXCEPT !.todo = x, !.inUse = y]
      BY <2>4, <3>1
    <3>3. purge' = [purge EXCEPT !.at = "trees", !.todo = x, !.inUse = y]
      BY <2>1, <3>2 DEF Sweeps
    <3> QED BY <1>5, <2>1, <3>3
  <2>5. CASE purge' = [purge EXCEPT !.at = "remove", !.topic = n]
    BY <1>3, <2>1, <2>5
  <2> QED BY <2>2, <2>3, <2>4, <2>5
<1>10. \A n \in Topics : BranchLook(n) => P
  <2> SUFFICES ASSUME NEW n \in Topics, BranchLook(n) PROVE P
    OBVIOUS
  <2>1. purge \in Sweeps /\ purge.at = "branches"
    BY <1>4 DEF BranchLook, Doing
  <2>2. \/ purge' = [purge EXCEPT !.todo = @ \ {n}]
        \/ purge' = [purge EXCEPT !.at = "delete", !.topic = n]
    BY DEF BranchLook
  <2> QED BY <1>3, <2>1, <2>2 DEF Sweeps
<1>11. \A n \in Topics : RemoteLook(n) => P
  <2> SUFFICES ASSUME NEW n \in Topics, RemoteLook(n) PROVE P
    OBVIOUS
  <2>1. purge \in Sweeps /\ purge.at = "remotes"
    BY <1>4 DEF RemoteLook, Doing
  <2>2. PICK a \in Answers(n) :
          \/ purge' = [purge EXCEPT !.todo = @ \ {n}]
          \/ purge' = [purge EXCEPT !.at = "push", !.topic = n, !.answer = a,
                                    !.seen = tracking[n].work]
    BY DEF RemoteLook
  <2>3. a \subseteq Requests /\ tracking[n].work \subseteq Changes
    BY DEF PTyped, Answers, Line
  <2> QED BY <2>1, <2>2, <2>3 DEF Sweeps, SweepLabels
<1>12. /\ UNCHANGED purgeVars => P
       /\ \A n \in Topics : Branch(n) => P
       /\ \A n \in Topics : PushTopic(n) => P
       /\ \A n \in Topics : OpenRequest(n) => P
       /\ \A n \in Topics : \A s \in {"old", "dirty", "locked", "gone"} : TreeChanges(n, s) => P
       /\ \A n \in Topics : \A c \in Changes : Commit(n, c) => P
       /\ \A n \in Topics : \A c \in Changes : OtherPush(n, c) => P
       /\ \A n \in Topics : \A how \in {"merge", "squash", "closed"} : EndRequest(n, how) => P
       /\ \A n \in Topics \cup {"main"} : SwitchTo(n) => P
  BY <1>1 DEF purgeVars, Branch, PushTopic, OpenRequest, TreeChanges, Commit, OtherPush,
     EndRequest, SwitchTo
<1>13. P
  <2> HIDE DEF P
  <2> QED BY <1>6, <1>7, <1>8, <1>9, <1>10, <1>11, <1>12, PurgeCases
<1> QED BY <1>13

\* Only a look at a branch leads to its deletion.
LEMMA NoDeletionNext ==
  ASSUME PTyped, \/ PurgeStart \/ Fetched \/ RemoveTree \/ Prune \/ DeleteBranch
                 \/ BranchesDone \/ DeleteRemote \/ RemotesDone
  PROVE  purge'.at \notin {"delete", "push"}
<1>1. CASE PurgeStart
  <2>1. purge'.at = "fetch"
    BY <1>1 DEF PurgeStart
  <2> QED BY <2>1
<1>2. ASSUME purge.at # "off" PROVE purge \in Sweeps
  BY <1>2, Sweeping
<1>3. CASE Fetched \/ RemoveTree
  <2>1. purge \in Sweeps
    BY <1>2, <1>3 DEF Fetched, RemoveTree, Doing
  <2>2. purge'.at = "trees"
    BY <1>3, <2>1 DEF Fetched, RemoveTree, To, Sweeps
  <2> QED BY <2>2
<1>4. CASE Prune \/ DeleteBranch
  <2>1. purge \in Sweeps
    BY <1>2, <1>4 DEF Prune, DeleteBranch, Doing
  <2>2. purge'.at = "branches"
    BY <1>4, <2>1 DEF Prune, DeleteBranch, Sweeps
  <2> QED BY <2>2
<1>5. CASE DeleteRemote
  <2>1. purge \in Sweeps
    BY <1>2, <1>5 DEF DeleteRemote, Doing
  <2>2. purge'.at = "remotes"
    BY <1>5, <2>1 DEF DeleteRemote, Sweeps
  <2> QED BY <2>2
<1>6. CASE BranchesDone \/ RemotesDone
  <2>1. purge \in Sweeps
    <3>1. purge.at \in {"branches", "remotes"}
      BY <1>6 DEF BranchesDone, RemotesDone, Doing
    <3> QED BY <1>2, <3>1
  <2>2. \/ purge' = Asleep
        \/ \E t : purge' = [purge EXCEPT !.at = "remotes", !.todo = t]
    BY <1>6 DEF BranchesDone, RemotesDone
  <2>3. Asleep.at = "off"
    BY DEF Asleep
  <2> QED BY <2>1, <2>2, <2>3 DEF Sweeps
<1> QED BY <1>1, <1>3, <1>4, <1>5, <1>6

LEMMA DeletingStep ==
  ASSUME PurgeInv, [PurgeNext]_purgeVars
  PROVE  Deleting'
<1> DEFINE P == Deleting'
<1>0. /\ PTyped /\ Placed /\ main.content \subseteq main'.content
      /\ \A n \in Topics : "merged" \in prs[n] => "merged" \in prs'[n]
      /\ purge.at = "delete" => purge.topic \in Topics /\ purge \in Sweeps
      /\ local \in [Topics -> Line]
  BY HubTyped, Sweeping DEF PurgeInv, PTyped
<1>1. ASSUME UNCHANGED <<purge, moved>> \/ (UNCHANGED purge /\ moved \subseteq moved'),
             \A n \in Topics : \/ local'[n] = local[n] \/ local'[n].work \subseteq main.content
                               \/ n \in moved'
      PROVE  P
  <2> SUFFICES ASSUME purge.at = "delete", NEW n, n = purge.topic
               PROVE  \/ local'[n].work \subseteq main'.content
                      \/ "merged" \in prs'[n] \/ n \in purge'.expired \/ n \in moved'
    BY <1>1 DEF Deleting
  <2> QED BY <1>0, <1>1 DEF PurgeInv, Deleting
<1>2. ASSUME purge'.at # "delete" PROVE P
  BY <1>2 DEF Deleting
<1>3. \A n \in Topics : BranchLook(n) => P
  <2> SUFFICES ASSUME NEW n \in Topics, BranchLook(n) PROVE P
    OBVIOUS
  <2>1. purge \in Sweeps /\ purge.at = "branches"
    BY <1>0, Sweeping DEF BranchLook, Doing
  <2>2. PICK a \in Answers(n) :
          \/ purge' = [purge EXCEPT !.todo = @ \ {n}]
          \/ /\ Again(n, a) \in Removable \/ n \in purge.expired
             /\ purge' = [purge EXCEPT !.at = "delete", !.topic = n]
    BY DEF BranchLook
  <2>3. CASE purge' = [purge EXCEPT !.todo = @ \ {n}]
    BY <1>2, <2>1, <2>3 DEF Sweeps
  <2>4. CASE /\ Again(n, a) \in Removable \/ n \in purge.expired
             /\ purge' = [purge EXCEPT !.at = "delete", !.topic = n]
    <3>1. purge'.topic = n /\ purge'.expired = purge.expired
      BY <2>1, <2>4 DEF Sweeps
    <3>2. UNCHANGED <<local, main, prs>>
      BY DEF BranchLook, hub
    <3>3. Category(n, a) \in Removable =>
            local[n].work \subseteq main.content \/ "merged" \in prs[n]
      <4>1. Category(n, a) \in Removable =>
              \/ local[n].work \subseteq fetched.hist \/ "merged" \in a
              \/ local[n].work \subseteq fetched.content
        BY DEF Category, Removable, Redundant
      <4>2. fetched.hist \subseteq main.content /\ fetched.content \subseteq main.content
        BY <1>0 DEF Placed
      <4>3. "merged" \in a => "merged" \in prs[n]
        BY DEF Answers
      <4> QED BY <4>1, <4>2, <4>3
    <3> QED BY <2>4, <3>1, <3>2, <3>3 DEF Deleting, Again
  <2> QED BY <2>2, <2>3, <2>4
<1>4. \A n \in Topics : Branch(n) => P
  <2> SUFFICES ASSUME NEW n \in Topics, Branch(n) PROVE P
    OBVIOUS
  <2>1. local' = [local EXCEPT ![n] = [there |-> TRUE, work |-> {}]]
        /\ UNCHANGED <<purge, moved>>
    BY DEF Branch
  <2>2. \A x \in Topics : local'[x] = local[x] \/ local'[x].work = {}
    BY <1>0, <2>1
  <2> QED BY <1>1, <2>1, <2>2
<1>5. \A n \in Topics : \A c \in Changes : Commit(n, c) => P
  BY <1>0, <1>1 DEF Commit
<1>6. /\ UNCHANGED purgeVars => P
      /\ \A n \in Topics : PushTopic(n) => P
      /\ \A n \in Topics : OpenRequest(n) => P
      /\ \A n \in Topics : \A s \in {"old", "dirty", "locked", "gone"} : TreeChanges(n, s) => P
      /\ \A n \in Topics : \A c \in Changes : OtherPush(n, c) => P
      /\ \A n \in Topics : \A how \in {"merge", "squash", "closed"} : EndRequest(n, how) => P
      /\ \A n \in Topics \cup {"main"} : SwitchTo(n) => P
  BY <1>1 DEF purgeVars, PushTopic, OpenRequest, TreeChanges, OtherPush, EndRequest, SwitchTo
<1>7. (PurgeStart \/ Fetched \/ RemoveTree \/ Prune \/ DeleteBranch \/ BranchesDone
         \/ DeleteRemote \/ RemotesDone) => P
  <2> SUFFICES ASSUME PurgeStart \/ Fetched \/ RemoveTree \/ Prune \/ DeleteBranch
                        \/ BranchesDone \/ DeleteRemote \/ RemotesDone
               PROVE  purge'.at # "delete"
    BY <1>2
  <2> QED BY <1>0, NoDeletionNext
<1>8. \A n \in Topics : TreeLook(n) \/ RemoteLook(n) => P
  <2> SUFFICES ASSUME NEW n \in Topics, TreeLook(n) \/ RemoteLook(n) PROVE purge'.at # "delete"
    BY <1>2
  <2>1. purge \in Sweeps /\ purge.at # "delete"
    BY <1>0, Sweeping DEF TreeLook, RemoteLook, Doing
  <2>2. CASE TreeLook(n)
    <3>1. \/ purge' = [purge EXCEPT !.todo = @ \ {n}]
          \/ purge' = [purge EXCEPT !.todo = @ \ {n}, !.inUse = @ \cup {n}]
          \/ purge' = [purge EXCEPT !.at = "remove", !.topic = n]
      <4>1. trees[n] \in Trees
        BY <1>0 DEF PTyped
      <4> QED BY <2>2, <4>1 DEF TreeLook, Trees
    <3> QED BY <2>1, <3>1 DEF Sweeps
  <2>3. CASE RemoteLook(n)
    <3>1. PICK a \in Answers(n) :
            \/ purge' = [purge EXCEPT !.todo = @ \ {n}]
            \/ purge' = [purge EXCEPT !.at = "push", !.topic = n, !.answer = a,
                                         !.seen = tracking[n].work]
      BY <2>3 DEF RemoteLook
    <3> QED BY <2>1, <3>1 DEF Sweeps
  <2> QED BY <2>2, <2>3
<1>9. P
  <2> HIDE DEF P
  <2> QED BY <1>3, <1>4, <1>5, <1>6, <1>7, <1>8, PurgeCases
<1> QED BY <1>9

LEMMA PushingStep ==
  ASSUME PurgeInv, [PurgeNext]_purgeVars
  PROVE  Pushing'
<1> DEFINE P == Pushing'
<1>0. /\ PTyped /\ Placed /\ main.content \subseteq main'.content
      /\ \A n \in Topics : "merged" \in prs[n] => "merged" \in prs'[n]
      /\ purge.at = "push" => purge.topic \in Topics /\ purge \in Sweeps
  BY HubTyped, Sweeping DEF PurgeInv, PTyped
<1>1. ASSUME UNCHANGED purge PROVE P
  BY <1>0, <1>1 DEF PurgeInv, Pushing
<1>2. ASSUME purge'.at # "push" PROVE P
  BY <1>2 DEF Pushing
<1>3. \A n \in Topics : RemoteLook(n) => P
  <2> SUFFICES ASSUME NEW n \in Topics, RemoteLook(n) PROVE P
    OBVIOUS
  <2>1. purge \in Sweeps /\ purge.at = "remotes" /\ UNCHANGED <<main, prs>>
    BY <1>0, Sweeping DEF RemoteLook, Doing, hub
  <2>2. PICK a \in Answers(n) :
          \/ purge' = [purge EXCEPT !.todo = @ \ {n}]
          \/ /\ ~KeepRemote(n, a)
             /\ purge' = [purge EXCEPT !.at = "push", !.topic = n, !.answer = a,
                                       !.seen = tracking[n].work]
    BY DEF RemoteLook
  <2>3. CASE purge' = [purge EXCEPT !.todo = @ \ {n}]
    BY <1>2, <2>1, <2>3 DEF Sweeps
  <2>4. CASE /\ ~KeepRemote(n, a)
             /\ purge' = [purge EXCEPT !.at = "push", !.topic = n, !.answer = a,
                                       !.seen = tracking[n].work]
    <3>1. purge'.topic = n /\ purge'.answer = a /\ purge'.seen = tracking[n].work
      BY <2>1, <2>4 DEF Sweeps
    <3>2. "open" \notin a /\ ("merged" \in a \/ tracking[n].work \subseteq fetched.hist)
      BY <2>4 DEF KeepRemote
    <3>3. fetched.hist \subseteq main.content
      BY <1>0 DEF Placed
    <3> QED BY <2>1, <3>1, <3>2, <3>3 DEF Pushing, Answers
  <2> QED BY <2>2, <2>3, <2>4
<1>4. (PurgeStart \/ Fetched \/ RemoveTree \/ Prune \/ DeleteBranch \/ BranchesDone
         \/ DeleteRemote \/ RemotesDone) => P
  <2> SUFFICES ASSUME PurgeStart \/ Fetched \/ RemoveTree \/ Prune \/ DeleteBranch
                        \/ BranchesDone \/ DeleteRemote \/ RemotesDone
               PROVE  purge'.at # "push"
    BY <1>2
  <2> QED BY <1>0, NoDeletionNext
<1>5. \A n \in Topics : TreeLook(n) \/ BranchLook(n) => P
  <2> SUFFICES ASSUME NEW n \in Topics, TreeLook(n) \/ BranchLook(n) PROVE purge'.at # "push"
    BY <1>2
  <2>1. purge \in Sweeps /\ purge.at # "push"
    BY <1>0, Sweeping DEF TreeLook, BranchLook, Doing
  <2>2. CASE TreeLook(n)
    <3>1. \/ purge' = [purge EXCEPT !.todo = @ \ {n}]
          \/ purge' = [purge EXCEPT !.todo = @ \ {n}, !.inUse = @ \cup {n}]
          \/ purge' = [purge EXCEPT !.at = "remove", !.topic = n]
      <4>1. trees[n] \in Trees
        BY <1>0 DEF PTyped
      <4> QED BY <2>2, <4>1 DEF TreeLook, Trees
    <3> QED BY <2>1, <3>1 DEF Sweeps
  <2>3. CASE BranchLook(n)
    <3>1. PICK a \in Answers(n) :
            \/ purge' = [purge EXCEPT !.todo = @ \ {n}]
            \/ purge' = [purge EXCEPT !.at = "delete", !.topic = n]
      BY <2>3 DEF BranchLook
    <3> QED BY <2>1, <3>1 DEF Sweeps
  <2> QED BY <2>2, <2>3
<1>6. /\ UNCHANGED purgeVars => P
      /\ \A n \in Topics : Branch(n) => P
      /\ \A n \in Topics : PushTopic(n) => P
      /\ \A n \in Topics : OpenRequest(n) => P
      /\ \A n \in Topics : \A s \in {"old", "dirty", "locked", "gone"} : TreeChanges(n, s) => P
      /\ \A n \in Topics : \A c \in Changes : Commit(n, c) => P
      /\ \A n \in Topics : \A c \in Changes : OtherPush(n, c) => P
      /\ \A n \in Topics : \A how \in {"merge", "squash", "closed"} : EndRequest(n, how) => P
      /\ \A n \in Topics \cup {"main"} : SwitchTo(n) => P
  BY <1>1 DEF purgeVars, Branch, PushTopic, OpenRequest, TreeChanges, Commit, OtherPush,
     EndRequest, SwitchTo
<1>7. P
  <2> HIDE DEF P
  <2> QED BY <1>3, <1>4, <1>5, <1>6, PurgeCases
<1> QED BY <1>7

LEMMA PurgeInvStart == PurgeInit => PurgeInv
<1> SUFFICES ASSUME PurgeInit PROVE PurgeInv
  OBVIOUS
<1>1. NoLine \in Line /\ ~NoLine.there /\ Asleep.at = "off"
  BY DEF NoLine, Line, Asleep
<1>2. main \in Trunk /\ main.hist = {} /\ main.content = {} /\ fetched = main
  BY DEF PurgeInit, Trunk
<1>3. PTyped
  BY <1>1, <1>2 DEF PurgeInit, PTyped, Trees
<1>4. \A n \in Topics : ~CheckedOut(n)
  BY PurgeAssumption DEF PurgeInit, CheckedOut
<1>5. Placed /\ Deleting /\ Pushing
  BY <1>1, <1>2, <1>4 DEF PurgeInit, Placed, Deleting, Pushing
<1> QED BY <1>3, <1>5 DEF PurgeInv

LEMMA PurgeAlways == PurgeSpec => []PurgeInv
<1>1. PurgeInv /\ [PurgeNext]_purgeVars => PurgeInv'
  BY CheckoutsTyped, HubTyped, SweepTyped, DeletingStep, PushingStep DEF PurgeInv, PTyped, Placed
<1> QED BY <1>1, PurgeInvStart, PTL DEF PurgeSpec

\* A branch that is checked out exists, in one place, whatever the run deletes, and what
\* was fetched has been on GitHub.
THEOREM PurgeTypeCorrect == PurgeSpec => []PurgeTypeOK
<1>1. PurgeInv => PurgeTypeOK
  BY DEF PurgeInv, PTyped, Placed, PurgeTypeOK
<1> QED BY <1>1, PurgeAlways, PTL

\* Whatever people do between a look and the removal, only what is finished is removed.
THEOREM OnlyFinishedWorkGoes == PurgeSpec => OnlyFinishedGoes
<1> DEFINE A == \A n \in Topics :
       /\ RemoveTree /\ trees'[n] # trees[n] => trees[n] \notin {"locked", "dirty"}
       /\ DeleteBranch /\ local'[n] # local[n] =>
            \/ local[n].work \subseteq main.content
            \/ "merged" \in prs[n] \/ n \in purge.expired \/ n \in moved
       /\ DeleteRemote /\ remote'[n] # remote[n] =>
            /\ \/ purge.seen # remote[n].work \/ remote[n].work \subseteq main.content
               \/ "merged" \in prs[n]
            /\ purge.answer = prs[n] => "open" \notin prs[n]
<1>1. PurgeInv /\ [PurgeNext]_purgeVars => [A]_purgeVars
  <2> SUFFICES ASSUME PurgeInv, NEW n \in Topics
               PROVE  /\ RemoveTree /\ trees'[n] # trees[n] => trees[n] \notin {"locked", "dirty"}
                      /\ DeleteBranch /\ local'[n] # local[n] =>
                           \/ local[n].work \subseteq main.content
                           \/ "merged" \in prs[n] \/ n \in purge.expired \/ n \in moved
                      /\ DeleteRemote /\ remote'[n] # remote[n] =>
                           /\ \/ purge.seen # remote[n].work
                              \/ remote[n].work \subseteq main.content
                              \/ "merged" \in prs[n]
                           /\ purge.answer = prs[n] => "open" \notin prs[n]
    OBVIOUS
  <2>1. /\ trees \in [Topics -> Trees] /\ local \in [Topics -> Line]
        /\ remote \in [Topics -> Line]
    BY DEF PurgeInv, PTyped
  <2>2. RemoveTree /\ trees'[n] # trees[n] => n = purge.topic /\ ~Refused(n)
    BY <2>1 DEF RemoveTree
  <2>3. DeleteBranch /\ local'[n] # local[n] => n = purge.topic /\ purge.at = "delete"
    BY <2>1 DEF DeleteBranch, Doing
  <2>4. DeleteRemote /\ remote'[n] # remote[n] => n = purge.topic /\ purge.at = "push"
    BY <2>1 DEF DeleteRemote, Doing
  <2> QED BY <2>2, <2>3, <2>4 DEF PurgeInv, Deleting, Pushing, Refused
<1>2. PurgeSpec => [][A]_purgeVars
  <2> HIDE DEF A
  <2> QED BY <1>1, PurgeAlways, PTL DEF PurgeSpec
<1> QED BY <1>2 DEF OnlyFinishedGoes

-----------------------------------------------------------------------------
(* The five together                                                       *)

LEMMA UpkeepParts ==
  ASSUME [UpkeepNext]_upkeepVars
  PROVE  /\ [Next]_vars /\ [MailNext]_mailVars /\ [DeployNext]_deployVars
         /\ [PurgeNext]_purgeVars /\ [BootstrapNext]_bootVars
BY DEF UpkeepNext, upkeepVars

\* A behaviour of the five is one of each of them, though not a fair one.
LEMMA UpkeepBehaviour ==
  UpkeepSpec =>
    /\ Spec /\ PurgeSpec /\ BootstrapSpec
    /\ MailInit /\ [][MailNext]_mailVars
    /\ DeployInit /\ [][DeployNext]_deployVars
<1>1. UpkeepInit => Init /\ MailInit /\ DeployInit /\ PurgeInit /\ BootstrapInit
  BY DEF UpkeepInit
<1>2. [UpkeepNext]_upkeepVars =>
        /\ [Next]_vars /\ [MailNext]_mailVars /\ [DeployNext]_deployVars
        /\ [PurgeNext]_purgeVars /\ [BootstrapNext]_bootVars
  BY UpkeepParts
<1> QED BY <1>1, <1>2, PTL DEF UpkeepSpec, Spec, PurgeSpec, BootstrapSpec

(***************************************************************************)
(* Whichever of the five programs runs, what it keeps is what it should    *)
(* be: the guard's counters, the monitor's file, the requests of the       *)
(* diagram job, the purge's branches, the documents of a bootstrap.        *)
(***************************************************************************)
THEOREM UpkeepTypeCorrect == UpkeepSpec => []UpkeepTypeOK
<1>1. UpkeepSpec => []TypeOK /\ []PurgeTypeOK /\ []BootstrapTypeOK
  BY UpkeepBehaviour, TypeCorrect, PurgeTypeCorrect, BootstrapTypeCorrect, PTL
<1>2. UpkeepSpec => []MailTypeOK
  BY UpkeepBehaviour, MailAlways, MailInvTyped, PTL
<1>3. UpkeepSpec => []DeployTypeOK
  BY UpkeepBehaviour, DeployAlways, DeployInvTyped, PTL
<1> QED BY <1>1, <1>2, <1>3, PTL DEF UpkeepTypeOK

(***************************************************************************)
(* Whichever of the five programs runs: a deferred unit has its retry, no  *)
(* mail is lost, no render is replaced and no second request opened, only  *)
(* finished work is deleted, the two documents of a bootstrap are there    *)
(* together, and an inventory is of governance that held.                  *)
(***************************************************************************)
THEOREM UpkeepIsSafe ==
  UpkeepSpec =>
    /\ []DeferralHasRetry /\ []MailKept /\ []OneRequest /\ []BothOrNeither
    /\ RendersKept /\ OnlyFinishedGoes /\ InventoryHonest
<1>1. UpkeepSpec => []DeferralHasRetry /\ []BothOrNeither
  BY UpkeepBehaviour, DeferralsAreFollowedUp, PairIsWhole, PTL
<1>2. UpkeepSpec => []MailKept
  BY UpkeepBehaviour, MailAlways, MailInvKept, PTL
<1>3. UpkeepSpec => []OneRequest
  BY UpkeepBehaviour, DeployAlways, DeployInvOne, PTL
<1>4. UpkeepSpec => RendersKept /\ OnlyFinishedGoes /\ InventoryHonest
  BY UpkeepBehaviour, RendersHold, OnlyFinishedWorkGoes, InventoryIsHonest
<1> QED BY <1>1, <1>2, <1>3, <1>4
=============================================================================
