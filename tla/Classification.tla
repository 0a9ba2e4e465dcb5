--------------------------- MODULE Classification ---------------------------
(***************************************************************************)
(* What the repository visibility registry promises, without files, locks  *)
(* or processes: every repository is unclassified or has one slug and one  *)
(* visibility, no slug is held twice, and the classification moves one     *)
(* repository and one generation at a time, with evidence for every move   *)
(* to public.                                                              *)
(***************************************************************************)
EXTENDS Integers

CONSTANTS Ids, Slugs, Unclassified

VARIABLES
    class,       \* [Ids -> [slug, visibility], or Unclassified]
    generation,  \* -1 before the registry is initialised
    shown        \* what GitHub has shown: <<id, slug, visibility>>

Entries == [slug : Slugs, visibility : {"private", "public"}]

ClassInit ==
    /\ class = [i \in Ids |-> Unclassified]
    /\ generation = -1

Initialise ==
    /\ generation = -1 /\ generation' = 0
    /\ UNCHANGED <<class, shown>>

SlugFree(i, slug) ==
    \A j \in Ids \ {i} : class[j] # Unclassified => class[j].slug # slug

Classify(i, entry) ==
    /\ generation >= 0
    /\ SlugFree(i, entry.slug)
    /\ entry.visibility = "public" => <<i, entry.slug, "public">> \in shown
    \* only what GitHub shows moves a repository that is classified already
    /\ class[i] # Unclassified => <<i, entry.slug, entry.visibility>> \in shown
    /\ class[i] # entry
    /\ class' = [class EXCEPT ![i] = entry]
    /\ generation' = generation + 1
    /\ UNCHANGED shown

Show ==
    /\ shown \subseteq shown'
    /\ UNCHANGED <<class, generation>>

ClassNext == Show \/ Initialise \/ \E i \in Ids, e \in Entries : Classify(i, e)

ClassSpec == ClassInit /\ [][ClassNext]_<<class, generation, shown>>
=============================================================================
