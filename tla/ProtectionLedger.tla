-------------------------- MODULE ProtectionLedger --------------------------
(***************************************************************************)
(* What the sidecar promises, without files, locks or processes: a ledger  *)
(* says for every dataset how often it was committed, the manifest last    *)
(* committed and the targets that acknowledged it.  The ledger advances    *)
(* one commit at a time, never claims a copy that was not made, and what   *)
(* a drill attests was copied too.                                         *)
(***************************************************************************)
EXTENDS Integers

CONSTANTS Datasets, Targets, NoLedger

VARIABLES
  ledger,    \* [quorums, entries : [Datasets -> [sequence, manifest, replicas]]]
  copies,    \* <<target, dataset, manifest>> that were made
  attested   \* <<target, dataset, manifest>> that evidence claims

ledgerVars == <<ledger, copies, attested>>

Claims(l) ==
  UNION {{<<t, d, l.entries[d].manifest>> : t \in l.entries[d].replicas}
           : d \in Datasets}

\* Every entry is empty, or acknowledged by a quorum; all its claims are true.
Backed(l) ==
  /\ Claims(l) \subseteq copies
  /\ \A d \in Datasets :
       l.entries[d].sequence > 0 => l.entries[d].replicas \in l.quorums

LedgerInit ==
  /\ copies = {} /\ attested = {}
  /\ ledger # NoLedger => Backed(ledger)

\* A copy is made; copies are never taken back.
Copy ==
  /\ copies \subseteq copies'
  /\ UNCHANGED <<ledger, attested>>

\* An epoch begins, or one that was set aside comes back.
Begin ==
  /\ ledger = NoLedger
  /\ ledger' # NoLedger /\ Backed(ledger')
  /\ UNCHANGED <<copies, attested>>

\* One commit: each dataset stands still or moves on by one.
Advance ==
  /\ ledger # NoLedger /\ ledger' # NoLedger
  /\ Backed(ledger') /\ ledger'.quorums = ledger.quorums
  /\ \A d \in Datasets :
       \/ ledger'.entries[d] = ledger.entries[d]
       \/ ledger'.entries[d].sequence = ledger.entries[d].sequence + 1
  /\ UNCHANGED <<copies, attested>>

Retire == ledger' = NoLedger /\ UNCHANGED <<copies, attested>>

Attest ==
  /\ attested \subseteq attested' /\ attested' \subseteq copies
  /\ UNCHANGED <<ledger, copies>>

LedgerNext == Copy \/ Begin \/ Advance \/ Retire \/ Attest

LedgerSpec == LedgerInit /\ [][LedgerNext]_ledgerVars
=============================================================================
