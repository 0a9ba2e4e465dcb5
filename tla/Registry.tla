------------------------------ MODULE Registry ------------------------------
(***************************************************************************)
(* scripts/repository_visibility.py: two files, one of private and one of  *)
(* public repositories, that together are one registry.  They hold the     *)
(* same generation, and an id or a slug occurs in one of them at most.     *)
(*                                                                         *)
(* Writers (init, record-private, record-public-observed and               *)
(* reconcile-observed) hold a lock from before they read the pair until    *)
(* they have replaced both files, the private one first.  Readers (every   *)
(* other command, and every other program) take no lock: they read the     *)
(* private file, then the public one, and refuse a pair whose generations  *)
(* differ.  What GitHub shows is asked for before the lock is taken.       *)
(*                                                                         *)
(* A document is its generation and its set of <<id, slug>> entries; the   *)
(* checks of its owner, mode, schema and order are left out.  GitHub, and  *)
(* its owner's changes there, are external.                                *)
(***************************************************************************)
EXTENDS Integers, FiniteSets

CONSTANTS
    Procs,          \* processes, each running one command after another
    Ids,            \* immutable repository ids
    Slugs,          \* names, up to case
    NoOne,          \* holder of the free lock
    Missing,        \* a file that does not exist
    Unclassified,   \* what an id without an entry is
    MaxGeneration,  \* bound: generations
    MaxChanges      \* bound: changes on GitHub

ASSUME RegistryAssumption ==
    /\ NoOne \notin Procs
    /\ MaxGeneration \in Nat /\ MaxChanges \in Nat
    /\ Missing \notin [generation : Nat, entries : SUBSET (Ids \X Slugs)]
    /\ Unclassified \notin [slug : Slugs, visibility : {"private", "public"}]

Sides == {"private", "public"}
Other(side) == IF side = "private" THEN "public" ELSE "private"

VARIABLES
    file,     \* [Sides -> document, or Missing]
    lock,     \* the holder of .repository-visibility.lock
    pc,       \* where the command of each process is
    op,       \* the command and its arguments
    got,      \* the private document a reader has read
    new,      \* the pair a writer is going to write
    answer,   \* the pair that the latest command of each process accepted
    github,   \* [Ids -> what GitHub shows]
    changes,  \* changes on GitHub so far
    coherent, \* history: the latest coherent pair on disk
    past,     \* history: all of them
    shown     \* history: what GitHub has shown, <<id, slug, visibility>>

local   == <<pc, op, got, new, answer>>
world   == <<github, changes>>
history == <<coherent, past, shown>>
vars    == <<file, lock, local, world, history>>

Documents == [generation : Nat, entries : SUBSET (Ids \X Slugs)]
Pairs == [Sides -> Documents]
NoPair == [s \in Sides |-> Missing]
Empty == [generation |-> 0, entries |-> {}]

Changes == {"record-private", "record-public", "reconcile"}
NoOp == [kind |-> "none"]
Ops ==
    {NoOp} \cup [kind : {"init", "read"}]
    \cup [kind : {"record-private", "record-public"}, id : Ids, slug : Slugs]
    \cup [kind : {"reconcile"}, id : Ids, slug : Slugs, to : Sides]

ShownNow(hub) == {<<i, hub[i].slug, hub[i].visibility>> : i \in Ids}

TypeOK ==
    /\ file \in [Sides -> Documents \cup {Missing}]
    /\ lock \in Procs \cup {NoOne}
    /\ pc \in [Procs -> {"idle", "observe", "lock", "load", "replace private",
                         "replace public", "verify", "read private", "read public"}]
    /\ op \in [Procs -> Ops]
    /\ got \in [Procs -> Documents \cup {Missing}]
    /\ new \in [Procs -> Pairs \cup {NoPair}]
    /\ answer \in [Procs -> Pairs \cup {NoPair}]
    /\ github \in [Ids -> [slug : Slugs, visibility : Sides]]
    /\ changes \in 0 .. MaxChanges
    /\ coherent \in Pairs \cup {NoPair}
    /\ past \subseteq Pairs

Init ==
    /\ file = NoPair
    /\ lock = NoOne
    /\ pc = [p \in Procs |-> "idle"]
    /\ op = [p \in Procs |-> NoOp]
    /\ got = [p \in Procs |-> Missing]
    /\ new = [p \in Procs |-> NoPair]
    /\ answer = [p \in Procs |-> NoPair]
    /\ github \in [Ids -> [slug : Slugs, visibility : Sides]]
    /\ \A i, j \in Ids : github[i].slug = github[j].slug => i = j
    /\ changes = 0
    /\ coherent = NoPair /\ past = {}
    /\ shown = ShownNow(github)

----------------------------------------------------------------------------
(* Documents and pairs                                                     *)

IdsOf(document) == {e[1] : e \in document.entries}
SlugsOf(document) == {e[2] : e \in document.entries}

(* What _read_document and load_pair accept.                               *)
WellFormed(document) ==
    /\ document # Missing
    /\ \A e, f \in document.entries : e[1] = f[1] \/ e[2] = f[2] => e = f

(* Variant: the generations are not compared.                              *)
AcceptedByContent(private, public) ==
    /\ WellFormed(private) /\ WellFormed(public)
    /\ IdsOf(private) \cap IdsOf(public) = {}
    /\ SlugsOf(private) \cap SlugsOf(public) = {}

Accepted(private, public) ==
    /\ WellFormed(private) /\ WellFormed(public)
    /\ private.generation = public.generation
    /\ IdsOf(private) \cap IdsOf(public) = {}
    /\ SlugsOf(private) \cap SlugsOf(public) = {}

PairOnDisk == Accepted(file["private"], file["public"])

(* Both documents move to the next generation.                             *)
Advanced(pair, side, entries, others) ==
    [s \in Sides |-> [generation |-> pair[s].generation + 1,
                      entries |-> IF s = side THEN entries ELSE others]]

Without(document, i) == {e \in document.entries : e[1] # i}
Bound(pair, i) == \E s \in Sides : i \in IdsOf(pair[s])

(* The slug is held by another id.                                         *)
Collides(pair, i, slug) ==
    \E s \in Sides : \E e \in pair[s].entries : e[2] = slug /\ e[1] # i

(* The side on which the entry of a command is going to be.                *)
Target(o) ==
    CASE o.kind = "record-private" -> "private"
      [] o.kind = "record-public"  -> "public"
      [] OTHER                     -> o.to

(* record_private and record_public_observed append an entry that is new   *)
(* in every respect; reconcile_observed moves one that is there, and that  *)
(* the operator named as it is now.  What is as requested already is left, *)
(* and a conflict is refused.                                              *)
MayChange(pair, o) ==
    /\ ~Collides(pair, o.id, o.slug)
    /\ Bound(pair, o.id) <=> o.kind = "reconcile"
    /\ <<o.id, o.slug>> \notin pair[Target(o)].entries

Moved(pair, i, slug, to) ==
    Advanced(pair, to, Without(pair[to], i) \cup {<<i, slug>>},
             Without(pair[Other(to)], i))

----------------------------------------------------------------------------
(* Commands                                                                *)

Goto(p, next) == pc' = [pc EXCEPT ![p] = next]

(* A command has ended, well or not: its locals are gone, and the kernel   *)
(* drops its lock.                                                         *)
Release(p) == IF lock = p THEN NoOne ELSE lock
Ended(p) ==
    /\ Goto(p, "idle")
    /\ op' = [op EXCEPT ![p] = NoOp]
    /\ got' = [got EXCEPT ![p] = Missing]
    /\ new' = [new EXCEPT ![p] = NoPair]
    /\ lock' = Release(p)

Begin(p) ==
    /\ pc[p] = "idle"
    /\ \E o \in Ops \ {NoOp} :
          /\ op' = [op EXCEPT ![p] = o]
          /\ Goto(p, CASE o.kind = "read" -> "read private"
                       [] o.kind \in {"init", "record-private"} -> "lock"
                       [] OTHER -> "observe")
    /\ answer' = [answer EXCEPT ![p] = NoPair]
    /\ UNCHANGED <<file, lock, got, new, world, history>>

(* Variant: the visibility that gh reports is not compared.                *)
ObservedIdentity(o) == github[o.id].slug = o.slug

(* _observe_github_repository() and the comparisons with the request.      *)
Observed(o) == github[o.id] = [slug |-> o.slug, visibility |-> Target(o)]

Observe(p) ==
    /\ pc[p] = "observe"
    /\ Observed(op[p])
    /\ Goto(p, "lock")
    /\ UNCHANGED <<file, lock, op, got, new, answer, world, history>>

(* Variant: the command goes on without the lock.                          *)
NotLocked(p) == lock' = lock
Locked(p) == lock = NoOne /\ lock' = p

Lock(p) ==
    /\ pc[p] = "lock"
    /\ Locked(p)
    /\ Goto(p, "load")
    /\ UNCHANGED <<file, op, got, new, answer, world, history>>

(* Variant: a writer does not compare the generations that it finds.       *)
UsableByContent(pair) == AcceptedByContent(pair["private"], pair["public"])
Usable(pair) == Accepted(pair["private"], pair["public"])

(* The pair that a writer that finds this one is going to write.           *)
Planned(pair, o) ==
    CASE o.kind = "init" /\ pair = NoPair -> [s \in Sides |-> Empty]
      [] o.kind \in Changes /\ Usable(pair) /\ MayChange(pair, o) ->
           Moved(pair, o.id, o.slug, Target(o))
      [] OTHER -> NoPair

Room == file["private"] # Missing => file["private"].generation < MaxGeneration

(* load_pair() under the lock, and the checks of the command.              *)
Load(p) ==
    /\ pc[p] = "load"
    /\ Room
    /\ Planned(file, op[p]) # NoPair
    /\ new' = [new EXCEPT ![p] = Planned(file, op[p])]
    /\ Goto(p, "replace private")
    /\ UNCHANGED <<file, lock, op, got, answer, world, history>>

(* _replace_pair(): both files are written beside the old ones, then each  *)
(* takes the place of the old one.                                         *)
ReplacePrivate(p) ==
    /\ pc[p] = "replace private"
    /\ file' = [file EXCEPT !["private"] = new[p]["private"]]
    /\ Goto(p, "replace public")
    /\ UNCHANGED <<lock, op, got, new, answer, world, history>>

ReplacePublic(p) ==
    /\ pc[p] = "replace public"
    /\ file' = [file EXCEPT !["public"] = new[p]["public"]]
    \* init verifies the pair after it has let go of the lock
    /\ IF op[p].kind = "init" THEN Goto(p, "read private") /\ lock' = NoOne
                              ELSE Goto(p, "verify") /\ lock' = lock
    /\ coherent' = IF PairOnDisk' THEN file' ELSE coherent
    /\ past' = IF PairOnDisk' THEN past \cup {file'} ELSE past
    /\ UNCHANGED <<op, got, new, answer, world, shown>>

Verify(p) ==
    /\ pc[p] = "verify"
    /\ Ended(p)
    /\ UNCHANGED <<file, answer, world, history>>

(* A comparison failed, there is nothing to do, or the operation fails or  *)
(* is killed: what was replaced stays replaced.                            *)
GiveUp(p) ==
    /\ pc[p] \in {"observe", "lock", "load", "replace private", "replace public",
                  "read private", "read public"}
    /\ Ended(p)
    /\ UNCHANGED <<file, answer, world, history>>

(* load_pair() without the lock.                                           *)
ReadPrivate(p) ==
    /\ pc[p] = "read private"
    /\ file["private"] # Missing
    /\ got' = [got EXCEPT ![p] = file["private"]]
    /\ Goto(p, "read public")
    /\ UNCHANGED <<file, lock, op, new, answer, world, history>>

ReadPublic(p) ==
    /\ pc[p] = "read public"
    /\ Accepted(got[p], file["public"])
    /\ answer' = [answer EXCEPT ![p] =
           [s \in Sides |-> IF s = "private" THEN got[p] ELSE file["public"]]]
    /\ Ended(p)
    /\ UNCHANGED <<file, world, history>>

(* The owner renames a repository on GitHub, or changes its visibility.    *)
Change(i) ==
    /\ changes < MaxChanges
    /\ changes' = changes + 1
    /\ \E now \in [slug : Slugs, visibility : Sides] :
          /\ now # github[i]
          /\ \A j \in Ids \ {i} : github[j].slug # now.slug
          /\ github' = [github EXCEPT ![i] = now]
    /\ shown' = shown \cup ShownNow(github')
    /\ UNCHANGED <<file, lock, local, coherent, past>>

Continue(p) ==
    \/ Observe(p) \/ Lock(p) \/ Load(p) \/ ReplacePrivate(p) \/ ReplacePublic(p)
    \/ Verify(p) \/ ReadPrivate(p) \/ ReadPublic(p) \/ GiveUp(p)

Next ==
    \/ \E p \in Procs : Begin(p) \/ Continue(p)
    \/ \E i \in Ids : Change(i)

Spec == Init /\ [][Next]_vars

----------------------------------------------------------------------------
(* Properties                                                              *)

(* A reader accepts only a pair that was the registry at one moment, never *)
(* one file of an older and one of a newer generation.                     *)
ReadersSeeOneRegistry ==
    \A p \in Procs : answer[p] # NoPair => answer[p] \in past

(* "Until that authority exists ... these local files remain canonical and *)
(* fail closed when their state cannot be proven coherent": a pair that a  *)
(* failed writer has left apart is touched by nobody.                      *)
TornIsLeftAlone ==
    [][ /\ ~PairOnDisk /\ file # NoPair
        /\ \A p \in Procs : pc[p] # "replace public"
        => file' = file ]_vars

(* What an entry of the public file says was shown by GitHub.              *)
PublicWasShown ==
    file["public"] # Missing =>
        \A e \in file["public"].entries : <<e[1], e[2], "public">> \in shown

(* The registry is an implementation of Classification.                    *)
ClassOf(pair) ==
    [i \in Ids |->
        IF pair # NoPair /\ Bound(pair, i)
        THEN LET side == CHOOSE s \in Sides : i \in IdsOf(pair[s])
             IN  [slug |-> (CHOOSE e \in pair[side].entries : e[1] = i)[2],
                  visibility |-> side]
        ELSE Unclassified]

C == INSTANCE Classification WITH
        class <- ClassOf(coherent),
        generation <- IF coherent = NoPair THEN -1
                      ELSE coherent["private"].generation

ImplementsClassification == C!ClassSpec
=============================================================================
