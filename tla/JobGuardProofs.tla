--------------------------- MODULE JobGuardProofs ---------------------------
(***************************************************************************)
(* What TLAPS proves of JobGuard for every set of units, every cap and     *)
(* every number of triggers.                                               *)
(***************************************************************************)
EXTENDS JobGuard, TLAPS, FiniteSetTheorems

(* An active unit works on a trigger; the counter is below the cap when it *)
(* is about to be written.                                                 *)
Working ==
    \A u \in Units :
        /\ Active(u) => current[u] \in Triggers
        /\ phase[u] = "noting" => deferrals[u] < MaxDeferrals

TypeInv == TypeOK /\ Working

(* Two active units are in the order of their start, and a heavy unit that *)
(* could look and has passed the check has no such unit before it.  Only   *)
(* a blind unit runs on without being active.                              *)
Ordered ==
    /\ \A u \in Units : \A v \in Units :
          Active(u) /\ Active(v) /\ u # v => u \in ahead[v] \/ v \in ahead[u]
    /\ \A u \in Units : \A v \in ahead[u] : phase[v] # "inactive"
    /\ \A u \in Heavy \ Blind : phase[u] \in {"admitted", "running"} =>
          ahead[u] \cap (Heavy \ Blind) = {}
    /\ \A u \in Units \ Blind : phase[u] # "stopping"

(* Between the retry and the write of the counter the retry is pending;    *)
(* whoever runs or is dropped has no counter.                              *)
Retried ==
    \A u \in Units \ Forgetful :
        /\ phase[u] = "noting" => pending[u] # {}
        /\ phase[u] = "inactive" /\ deferrals[u] > 0 => pending[u] # {}
        /\ phase[u] \in {"announcing", "running", "stopping"} => deferrals[u] = 0

(* Whoever is waited for was active before the waiter, and nobody is       *)
(* before himself, directly or around a circle.                            *)
Founded ==
    \A S \in (SUBSET Units) \ {{}} : \E u \in S : S \cap ahead[u] = {}

Waits ==
    /\ Founded
    /\ \A u \in Units : blockers[u] \subseteq ahead[u]
    /\ \A u \in Units : phase[u] = "inactive" => blockers[u] = {}

(* Every step is one of these.                                             *)
LEMMA Cases ==
    ASSUME NEW P, [Next]_vars,
           Weather => P, UNCHANGED vars => P,
           \A S \in (SUBSET Units) \ {{}} : TimersFire(S) => P,
           \A u \in Units :
               /\ Decide(u) => P
               /\ Admit(u) => P
               /\ Retry(u) => P
               /\ Note(u) => P
               /\ Drop(u) => P
               /\ Announce(u) => P
               /\ FailOpen(u) => P
               /\ Finish(u) => P
               /\ Overrun(u) => P
               /\ Killed(u) => P
               /\ TimersLost(u) => P
               /\ MergedStart(u) => P
               /\ \A i \in Triggers : RetryFires(u, i) => P
    PROVE  P
  BY DEF Next, Step, Check

(* What the two helpers of every activation step leave in the type.        *)
LEMMA GoneTyped ==
    ASSUME TypeOK, NEW u \in Units, Gone(u)
    PROVE  /\ phase' \in [Units -> Phases]
           /\ ahead' \in [Units -> SUBSET Units]
           /\ blockers' \in [Units -> SUBSET Units]
           /\ current' \in [Units -> Triggers \cup {0}]
  BY DEF TypeOK, Gone, Without, Phases

LEMMA TypeStep == ASSUME TypeInv, [Next]_vars PROVE TypeInv'
<1> USE UnitsAssumption, BoundsAssumption DEF TypeInv
<1>1. Weather => TypeInv'
  BY DEF Weather, TypeOK, Working, Active
<1>2. ASSUME NEW u \in Units, TimersLost(u) PROVE TypeInv'
  BY <1>2 DEF TimersLost, TypeOK, Working, Active
<1>3. UNCHANGED vars => TypeInv'
  BY DEF vars, TypeOK, Working, Active
<1>4. ASSUME NEW S \in (SUBSET Units) \ {{}}, TimersFire(S) PROVE TypeInv'
  <2>1. fired' \in [Units -> 0 .. MaxTriggers]
    BY <1>4 DEF TimersFire, OwnTimer, TypeOK
  <2>3. ASSUME NEW u \in S PROVE current'[u] \in Triggers
    <3>1. fired[u] < MaxTriggers /\ fired[u] \in Nat
      BY <1>4 DEF TimersFire, OwnTimer, TypeOK
    <3>2. current'[u] = fired[u] + 1
      BY <1>4 DEF TimersFire
    <3> QED BY <3>1, <3>2 DEF Triggers
  <2>2. current' \in [Units -> Triggers \cup {0}]
    BY <1>4, <2>3 DEF TimersFire, TypeOK
  <2>4. phase' \in [Units -> Phases] /\ ahead' \in [Units -> SUBSET Units]
    BY <1>4 DEF TimersFire, Activate, TypeOK, Phases
  <2>5. TypeOK'
    BY <1>4, <2>1, <2>2, <2>4 DEF TimersFire, TypeOK
  <2>6. Working'
    BY <1>4, <2>3 DEF TimersFire, Activate, TypeOK, Working, Active, Phases
  <2> QED BY <2>5, <2>6
<1>5. ASSUME NEW u \in Units, Decide(u) PROVE TypeInv'
  <2>1. WaitFor(u) \subseteq Units
    BY DEF WaitFor, Peers, TypeOK
  <2>2. blockers' \in [Units -> SUBSET Units]
    BY <1>5, <2>1 DEF Decide, TypeOK
  <2>3. phase' \in [Units -> Phases] /\ UNCHANGED <<ahead, current>>
    BY <1>5 DEF Decide, Goto, TypeOK, Phases
  <2>4. TypeOK'
    BY <1>5, <2>2, <2>3 DEF Decide, TypeOK
  <2>5. Working'
    BY <1>5 DEF Decide, Goto, Working, Active, TypeOK
  <2> QED BY <2>4, <2>5
<1>6. ASSUME NEW u \in Units, Admit(u) PROVE TypeInv'
  BY <1>6 DEF Admit, Goto, TypeOK, Working, Active, Phases
<1>7. ASSUME NEW u \in Units, Retry(u) PROVE TypeInv'
  <2>1. current[u] \in Triggers
    BY <1>7 DEF Retry, Working, Active
  <2>2. pending' \in [Units -> SUBSET Triggers]
    BY <1>7, <2>1 DEF Retry, TypeOK
  <2>3. tries' \in [Units -> [Triggers -> 0 .. MaxDeferrals + 1]]
    <3>1. tries[u] \in [Triggers -> 0 .. MaxDeferrals + 1]
      BY DEF TypeOK
    <3>2. OneMore(tries[u], current[u]) \in [Triggers -> 0 .. MaxDeferrals + 1]
      BY <3>1, <2>1 DEF OneMore
    <3>3. tries' = [tries EXCEPT ![u] = OneMore(tries[u], current[u])]
      BY <1>7 DEF Retry
    <3>4. tries \in [Units -> [Triggers -> 0 .. MaxDeferrals + 1]]
      BY DEF TypeOK
    <3> QED BY <3>2, <3>3, <3>4
  <2>4. phase' \in [Units -> Phases]
    BY <1>7 DEF Retry, Goto, TypeOK, Phases
  <2>5. TypeOK'
    BY <1>7, <2>2, <2>3, <2>4 DEF Retry, Goto, TypeOK
  <2>6. deferrals[u] < MaxDeferrals
    <3>1. deferrals[u] + 1 <= MaxDeferrals
      BY <1>7 DEF Retry, NextCount
    <3>2. deferrals[u] \in Int
      BY DEF TypeOK
    <3> QED BY <3>1, <3>2
  <2>7. Working'
    BY <1>7, <2>6 DEF Retry, Goto, Working, Active, TypeOK
  <2> QED BY <2>5, <2>7
<1>8. ASSUME NEW u \in Units, Note(u) PROVE TypeInv'
  <2>1. deferrals' \in [Units -> 0 .. MaxDeferrals]
    BY <1>8 DEF Note, NewCount, NextCount, Working, TypeOK
  <2>2. TypeOK'
    BY <1>8, <2>1, GoneTyped DEF Note, TypeOK
  <2>3. Working'
    BY <1>8 DEF Note, Gone, Working, Active, TypeOK
  <2> QED BY <2>2, <2>3
<1>9. ASSUME NEW u \in Units, Drop(u) PROVE TypeInv'
  BY <1>9 DEF Drop, CountAfterDrop, Goto, TypeOK, Working, Active, Phases
<1>10. ASSUME NEW u \in Units, Announce(u) PROVE TypeInv'
  <2>1. current[u] \in Triggers
    BY <1>10 DEF Announce, Working, Active
  <2>2. dropped' \subseteq Units \X Triggers
    BY <1>10, <2>1 DEF Announce, TypeOK
  <2>3. TypeOK'
    BY <1>10, <2>2, GoneTyped DEF Announce, TypeOK
  <2>4. Working'
    BY <1>10 DEF Announce, Gone, Working, Active, TypeOK
  <2> QED BY <2>3, <2>4
<1>11. ASSUME NEW u \in Units, FailOpen(u) PROVE TypeInv'
  BY <1>11 DEF FailOpen, MaybeTorn, Goto, TypeOK, Working, Active, Phases
<1>12. ASSUME NEW u \in Units, Finish(u) PROVE TypeInv'
  <2>1. TypeOK'
    BY <1>12, GoneTyped DEF Finish, TypeOK
  <2>2. Working'
    BY <1>12 DEF Finish, Gone, Working, Active, TypeOK
  <2> QED BY <2>1, <2>2
<1>13. ASSUME NEW u \in Units, Overrun(u) PROVE TypeInv'
  BY <1>13 DEF Overrun, Goto, TypeOK, Working, Active, Phases
<1>14. ASSUME NEW u \in Units, Killed(u) PROVE TypeInv'
  <2>1. TypeOK'
    BY <1>14, GoneTyped DEF Killed, MaybeTorn, TypeOK
  <2>2. Working'
    BY <1>14 DEF Killed, MaybeTorn, Gone, Working, Active, TypeOK
  <2> QED BY <2>1, <2>2
<1>15. ASSUME NEW u \in Units, MergedStart(u) PROVE TypeInv'
  BY <1>15 DEF MergedStart, OwnTimer, files, TypeOK, Working, Active
<1>16. ASSUME NEW u \in Units, NEW i \in Triggers, RetryFires(u, i)
       PROVE TypeInv'
  BY <1>16 DEF RetryFires, Activate, TypeOK, Working, Active, Phases
<1> QED
  BY <1>1, <1>2, <1>3, <1>4, <1>5, <1>6, <1>7, <1>8, <1>9, <1>10, <1>11,
     <1>12, <1>13, <1>14, <1>15, <1>16, Cases

(* The files, timers and activations keep their types under every fault,   *)
(* and the counter that is about to be written is below the cap.           *)
THEOREM Typed == Spec => []TypeInv
<1>1. Init => TypeInv
  BY UnitsAssumption, BoundsAssumption
  DEF Init, TypeInv, TypeOK, Working, Active, Phases, Triggers
<1> QED BY <1>1, TypeStep, PTL DEF Spec

(* The type invariant: no counter in a unit's file passes the cap.         *)
THEOREM TypeCorrect == Spec => []TypeOK
<1>1. TypeInv => TypeOK
  BY DEF TypeInv
<1> QED BY <1>1, Typed, PTL

----------------------------------------------------------------------------
(* Heavy jobs run one at a time, whoever is killed and whatever is lost.   *)

LEMMA OrderStep ==
    ASSUME TypeInv, Ordered, [Next]_vars
    PROVE  Ordered'
<1> USE UnitsAssumption DEF TypeInv, TypeOK
<1>1. Weather => Ordered'
  BY DEF Weather, Ordered, Active
<1>2. ASSUME NEW u \in Units, TimersLost(u) PROVE Ordered'
  BY <1>2 DEF TimersLost, Ordered, Active
<1>3. UNCHANGED vars => Ordered'
  BY DEF vars, Ordered, Active
<1>4. ASSUME NEW S \in (SUBSET Units) \ {{}}, Activate(S),
             \A u \in S : phase[u] = "inactive"
      PROVE  Ordered'
  <2>1. \A u \in Units : phase'[u] = IF u \in S THEN "checking" ELSE phase[u]
    BY <1>4 DEF Activate
  <2>2. \A u \in Units : ahead'[u] =
           IF u \in S THEN {v \in Units : Active(v) \/ (v \in S /\ v < u)}
                      ELSE ahead[u]
    BY <1>4 DEF Activate
  <2>3. \A u \in Units : u \in Int
    OBVIOUS
  <2>4. \A u \in Units : Active(u)' <=> Active(u) \/ u \in S
    BY <2>1, <1>4 DEF Active
  <2>5. \A u \in S : ~Active(u) /\ phase'[u] = "checking"
    BY <2>1, <1>4 DEF Active
  <2>6. ASSUME NEW u \in Units, NEW v \in Units,
               Active(u)', Active(v)', u # v
        PROVE  u \in ahead'[v] \/ v \in ahead'[u]
    <3>1. CASE u \in S /\ v \in S
      <4>1. u < v \/ v < u
        BY <2>3, <2>6
      <4>2. v \in ahead'[u] \/ ~(v < u)
        BY <3>1, <2>2
      <4>3. u \in ahead'[v] \/ ~(u < v)
        BY <3>1, <2>2
      <4> QED BY <4>1, <4>2, <4>3
    <3>2. CASE u \notin S /\ v \notin S
      BY <3>2, <2>2, <2>4, <2>6 DEF Ordered
    <3>3. CASE u \in S /\ v \notin S
      BY <3>3, <2>2, <2>4, <2>6
    <3>4. CASE u \notin S /\ v \in S
      BY <3>4, <2>2, <2>4, <2>6
    <3> QED BY <3>1, <3>2, <3>3, <3>4
  <2>7. \A u \in Units : \A v \in ahead'[u] : phase'[v] # "inactive"
    BY <2>1, <2>2 DEF Ordered, Active
  <2>8. \A u \in Heavy \ Blind : phase'[u] \in {"admitted", "running"} =>
           ahead'[u] \cap (Heavy \ Blind) = {}
    BY <2>1, <2>2 DEF Ordered
  <2>9. \A u \in Units \ Blind : phase'[u] # "stopping"
    BY <2>1 DEF Ordered
  <2> QED BY <2>6, <2>7, <2>8, <2>9 DEF Ordered
<1>5. ASSUME NEW S \in (SUBSET Units) \ {{}}, TimersFire(S) PROVE Ordered'
  BY <1>5, <1>4 DEF TimersFire
<1>6. ASSUME NEW u \in Units, Decide(u) PROVE Ordered'
  <2>1. \/ phase'[u] = "deferring"
        \/ phase'[u] = "admitted" /\ (WaitFor(u) = {} \/ u \in Blind)
    BY <1>6 DEF Decide, Goto
  <2>2. \A v \in Units \ {u} : phase'[v] = phase[v]
    BY <1>6 DEF Decide, Goto
  <2>3. ahead' = ahead /\ phase[u] = "checking"
    BY <1>6 DEF Decide, Goto
  <2>4. u \in Heavy /\ WaitFor(u) = {} => ahead[u] \cap (Heavy \ Blind) = {}
    BY DEF WaitFor, Peers, Ordered, Active
  <2> QED BY <2>1, <2>2, <2>3, <2>4 DEF Ordered, Active
<1>7. ASSUME NEW u \in Units, NEW next, Goto(u, next), Active(u),
             next \in Phases \ {"inactive", "stopping", "admitted"},
             next = "running" => phase[u] = "admitted" \/ u \in Blind
      PROVE  Ordered'
  <2>1. \A v \in Units : phase'[v] = IF v = u THEN next ELSE phase[v]
    BY <1>7 DEF Goto
  <2>2. ahead' = ahead
    BY <1>7 DEF Goto
  <2> QED BY <2>1, <2>2, <1>7 DEF Ordered, Active
<1>8. ASSUME NEW u \in Units, Gone(u) PROVE Ordered'
  <2>1. \A v \in Units : phase'[v] = IF v = u THEN "inactive" ELSE phase[v]
    BY <1>8 DEF Gone
  <2>2. \A v \in Units : ahead'[v] = IF v = u THEN {} ELSE ahead[v] \ {u}
    BY <1>8 DEF Gone, Without
  <2>3. \A v \in Units : Active(v)' <=> Active(v) /\ v # u
    BY <2>1 DEF Active
  <2>4. \A v \in Units : \A w \in Units :
           Active(v)' /\ Active(w)' /\ v # w => v \in ahead'[w] \/ w \in ahead'[v]
    BY <2>2, <2>3 DEF Ordered
  <2>5. ASSUME NEW v \in Units, NEW w \in ahead'[v] PROVE phase'[w] # "inactive"
    <3>1. w \in ahead[v] /\ w # u
      BY <2>2
    <3>2. w \in Units /\ phase[w] # "inactive"
      BY <3>1 DEF Ordered
    <3> QED BY <3>1, <3>2, <2>1
  <2>6. \A v \in Heavy \ Blind : phase'[v] \in {"admitted", "running"} =>
           ahead'[v] \cap (Heavy \ Blind) = {}
    BY <2>1, <2>2 DEF Ordered
  <2>7. \A v \in Units \ Blind : phase'[v] # "stopping"
    BY <2>1 DEF Ordered
  <2> QED BY <2>4, <2>5, <2>6, <2>7 DEF Ordered
<1>9. ASSUME NEW u \in Units PROVE
        /\ Admit(u) => Ordered'
        /\ Retry(u) => Ordered'
        /\ Drop(u) => Ordered'
        /\ FailOpen(u) => Ordered'
  BY <1>7 DEF Admit, Retry, Drop, FailOpen, Active, Phases
<1>10. ASSUME NEW u \in Units PROVE
        /\ Note(u) => Ordered'
        /\ Announce(u) => Ordered'
        /\ Finish(u) => Ordered'
        /\ Killed(u) => Ordered'
  BY <1>8 DEF Note, Announce, Finish, Killed
<1>11. ASSUME NEW u \in Units, Overrun(u) PROVE Ordered'
  <2>1. \A v \in Units : phase'[v] = IF v = u THEN "stopping" ELSE phase[v]
    BY <1>11 DEF Overrun, Goto
  <2>2. ahead' = ahead /\ u \in Blind
    BY <1>11 DEF Overrun, Goto
  <2> QED BY <2>1, <2>2 DEF Ordered, Active
<1>12. ASSUME NEW u \in Units, MergedStart(u) PROVE Ordered'
  BY <1>12 DEF MergedStart, Ordered, Active
<1>13. ASSUME NEW u \in Units, NEW i \in Triggers, RetryFires(u, i)
       PROVE Ordered'
  <2>1. {u} \in (SUBSET Units) \ {{}}
    OBVIOUS
  <2> QED BY <1>13, <1>4, <2>1 DEF RetryFires
<1> QED
  BY <1>1, <1>2, <1>3, <1>5, <1>6, <1>9, <1>10, <1>11, <1>12, <1>13, Cases

(* Two heavy jobs whose checks can look never run together: of two that    *)
(* passed the check, the later one had the earlier one before it, and the  *)
(* earlier was active all along.                                           *)
THEOREM HeavyJobsTakeTurns == Spec => []OneHeavyAtATime
<1>1. Init => Ordered
  BY UnitsAssumption DEF Init, Ordered, Active
<1>2. TypeInv /\ Ordered /\ [Next]_vars => Ordered'
  BY OrderStep
<1>3. Ordered => OneHeavyAtATime
  BY UnitsAssumption DEF Ordered, OneHeavyAtATime, Active
<1> QED BY <1>1, <1>2, <1>3, Typed, PTL DEF Spec

----------------------------------------------------------------------------
(* A deferral is always followed up.                                       *)

LEMMA RetryStep ==
    ASSUME TypeInv, Retried, [Next]_vars
    PROVE  Retried'
<1> USE DEF TypeInv, TypeOK
<1>1. Weather => Retried'
  BY DEF Weather, Retried
<1>2. ASSUME NEW u \in Units, TimersLost(u) PROVE Retried'
  BY <1>2 DEF TimersLost, Retried
<1>3. UNCHANGED vars => Retried'
  BY DEF vars, Retried
<1>4. ASSUME NEW S \in (SUBSET Units) \ {{}}, TimersFire(S) PROVE Retried'
  BY <1>4 DEF TimersFire, Activate, Retried
<1>5. ASSUME NEW u \in Units, Decide(u) PROVE Retried'
  BY <1>5 DEF Decide, Goto, Retried
<1>6. ASSUME NEW u \in Units, Admit(u) PROVE Retried'
  BY <1>6 DEF Admit, Goto, Retried
<1>7. ASSUME NEW u \in Units, Retry(u) PROVE Retried'
  <2>1. \/ pending' = [pending EXCEPT ![u] = @ \cup {current[u]}]
        \/ pending' = pending /\ u \in Forgetful
    BY <1>7 DEF Retry
  <2>2. deferrals' = deferrals /\ phase' = [phase EXCEPT ![u] = "noting"]
    BY <1>7 DEF Retry, Goto
  <2>3. \A v \in Units : pending[v] \subseteq pending'[v]
    BY <2>1
  <2>4. u \notin Forgetful => pending'[u] # {}
    BY <2>1
  <2> QED BY <2>2, <2>3, <2>4 DEF Retried
<1>8. ASSUME NEW u \in Units, Note(u) PROVE Retried'
  BY <1>8 DEF Note, Gone, Retried
<1>9. ASSUME NEW u \in Units, Drop(u) PROVE Retried'
  BY <1>9 DEF Drop, CountAfterDrop, Goto, Retried
<1>10. ASSUME NEW u \in Units, Announce(u) PROVE Retried'
  BY <1>10 DEF Announce, Gone, Retried
<1>11. ASSUME NEW u \in Units, Finish(u) PROVE Retried'
  BY <1>11 DEF Finish, Gone, Retried
<1>12. ASSUME NEW u \in Units, Overrun(u) PROVE Retried'
  BY <1>12 DEF Overrun, Goto, Retried
<1>13. ASSUME NEW u \in Units, FailOpen(u) \/ Killed(u) PROVE Retried'
  BY <1>13 DEF FailOpen, Killed, MaybeTorn, Goto, Gone, Retried
<1>14. ASSUME NEW u \in Units, MergedStart(u) PROVE Retried'
  BY <1>14 DEF MergedStart, Retried, Active, files
<1>15. ASSUME NEW u \in Units, NEW i \in Triggers, RetryFires(u, i)
       PROVE  Retried'
  BY <1>15 DEF RetryFires, Activate, Retried
<1> QED
  BY <1>1, <1>2, <1>3, <1>4, <1>5, <1>6, <1>7, <1>8, <1>9, <1>10, <1>11,
     <1>12, <1>13, <1>14, <1>15, Cases

(* A unit with a count in its file either is active or has a timer that    *)
(* will start it, unless timers, retries or counters of the unit get lost. *)
THEOREM DeferralsAreFollowedUp == Spec => []DeferralHasRetry
<1>1. Init => Retried
  BY DEF Init, Retried
<1>2. TypeInv /\ Retried /\ [Next]_vars => Retried'
  BY RetryStep
<1>3. Retried => DeferralHasRetry
  BY DEF Retried, DeferralHasRetry
<1> QED BY <1>1, <1>2, <1>3, Typed, PTL DEF Spec
----------------------------------------------------------------------------
(* Nobody waits in a circle.                                               *)

(* Units that start together are ordered by their names, and among any     *)
(* such units there is a first: the intervals 1 .. n grow with n, and the  *)
(* finite sets are well founded.                                           *)
LEMMA Foremost ==
    ASSUME NEW S \in (SUBSET Nat) \ {{}}
    PROVE  \E m \in S : \A n \in S : ~(n < m)
<1> DEFINE T == {1 .. n : n \in S}
           R == StrictSubsetOrdering(Nat)
<1>1. IsWellFoundedOn(R, FiniteSubsetsOf(Nat))
  BY FS_StrictSubsetOrderingWellFounded
<1>2. T \subseteq FiniteSubsetsOf(Nat) /\ T # {}
  <2>1. \A n \in Nat : 1 .. n \in SUBSET Nat /\ IsFiniteSet(1 .. n)
    BY FS_Interval
  <2> QED BY <2>1 DEF FiniteSubsetsOf
<1>3. PICK x \in T : \A y \in T : ~(<<y, x>> \in R)
  <2> HIDE DEF R, T
  <2> QED BY <1>1, <1>2, WFMin
<1>4. PICK m \in S : x = 1 .. m
  OBVIOUS
<1>5. ASSUME NEW n \in S, n < m PROVE FALSE
  <2>1. 1 .. n \subseteq 1 .. m /\ 1 .. n # 1 .. m
    BY <1>5
  <2>2. <<1 .. n, 1 .. m>> \in R
    BY <2>1 DEF StrictSubsetOrdering
  <2> QED BY <2>2, <1>3, <1>4
<1> QED BY <1>5

(* Nobody else is behind the units that start: they were inactive.         *)
LEMMA ActivateWaits ==
    ASSUME TypeInv, Ordered, Waits, NEW T \in SUBSET Units, Activate(T),
           \A u \in T : phase[u] = "inactive", blockers' = blockers
    PROVE  Waits'
<1> USE DEF TypeInv, TypeOK
<1>1. \A u \in Units : ahead'[u] =
         IF u \in T THEN {v \in Units : Active(v) \/ (v \in T /\ v < u)} ELSE ahead[u]
  BY DEF Activate
<1>2. \A u \in Units : phase'[u] = IF u \in T THEN "checking" ELSE phase[u]
  BY DEF Activate
<1>3. \A u \in Units : ahead[u] \cap T = {}
  BY DEF Ordered
<1>4. ASSUME NEW S \in (SUBSET Units) \ {{}} PROVE \E u \in S : S \cap ahead'[u] = {}
  <2>1. CASE S \subseteq T
    <3>1. PICK m \in S : \A n \in S : ~(n < m)
      <4>1. S \in (SUBSET Nat) \ {{}}
        BY UnitsAssumption
      <4> QED BY <4>1, Foremost
    <3>2. \A v \in S : v \in T /\ ~Active(v)
      BY <2>1 DEF Active
    <3> QED BY <3>1, <3>2, <1>1
  <2>2. CASE ~(S \subseteq T)
    <3> DEFINE Old == S \ T
    <3>1. Old \in (SUBSET Units) \ {{}}
      BY <2>2
    <3>2. PICK u \in Old : Old \cap ahead[u] = {}
      BY <3>1 DEF Waits, Founded
    <3>3. ahead'[u] = ahead[u] /\ S \cap ahead[u] = {}
      BY <3>2, <1>1, <1>3
    <3> QED BY <3>3
  <2> QED BY <2>1, <2>2
<1> QED BY <1>1, <1>2, <1>4 DEF Waits, Founded

LEMMA GoneWaits ==
    ASSUME TypeInv, Waits, NEW u \in Units, Gone(u)
    PROVE  Waits'
<1> USE DEF TypeInv, TypeOK
<1>1. \A v \in Units : /\ ahead'[v] = IF v = u THEN {} ELSE ahead[v] \ {u}
                       /\ blockers'[v] = IF v = u THEN {} ELSE blockers[v] \ {u}
                       /\ phase'[v] = IF v = u THEN "inactive" ELSE phase[v]
  BY DEF Gone, Without
<1>2. \A v \in Units : ahead'[v] \subseteq ahead[v] /\ blockers'[v] \subseteq ahead'[v]
  BY <1>1 DEF Waits
<1>3. ASSUME NEW S \in (SUBSET Units) \ {{}} PROVE \E v \in S : S \cap ahead'[v] = {}
  <2>1. PICK v \in S : S \cap ahead[v] = {}
    BY DEF Waits, Founded
  <2> QED BY <2>1, <1>2
<1>4. \A v \in Units : phase'[v] = "inactive" => blockers'[v] = {}
  BY <1>1 DEF Waits
<1> QED BY <1>2, <1>3, <1>4 DEF Waits, Founded

LEMMA WaitsStep ==
    ASSUME TypeInv, Ordered, Waits, [Next]_vars
    PROVE  Waits'
<1> USE DEF TypeInv, TypeOK
<1>1. ASSUME NEW u \in Units, NEW next, Goto(u, next), phase[u] # "inactive",
             next # "inactive", \A v \in Units : blockers'[v] \subseteq ahead[v],
             \A v \in Units \ {u} : blockers'[v] = blockers[v]
      PROVE  Waits'
  <2>1. ahead' = ahead /\ \A v \in Units : phase'[v] = IF v = u THEN next ELSE phase[v]
    BY <1>1 DEF Goto
  <2>2. Founded'
    BY <2>1 DEF Waits, Founded
  <2>3. \A v \in Units : phase'[v] = "inactive" => blockers'[v] = {}
    BY <1>1, <2>1 DEF Waits
  <2> QED BY <1>1, <2>1, <2>2, <2>3 DEF Waits
<1>2. \A u \in Units : Decide(u) => Waits'
  <2> SUFFICES ASSUME NEW u \in Units, Decide(u) PROVE Waits'
    OBVIOUS
  <2>1. PICK peers \in {WaitFor(u)} \cup {{} : b \in Blind \cap {u}} :
           /\ blockers' = [blockers EXCEPT ![u] = IF TooHot(u) THEN {} ELSE peers]
           /\ Goto(u, IF TooHot(u) \/ peers # {} THEN "deferring" ELSE "admitted")
    BY DEF Decide
  <2>2. peers \subseteq ahead[u]
    BY DEF WaitFor, Peers
  <2> QED BY <2>1, <2>2, <1>1 DEF Decide, Waits
<1>3. \A u \in Units :
        /\ Admit(u) => Waits'
        /\ Retry(u) => Waits'
        /\ Drop(u) => Waits'
        /\ FailOpen(u) => Waits'
        /\ Overrun(u) => Waits'
  BY <1>1 DEF Admit, Retry, Drop, FailOpen, Overrun, Waits
<1>4. \A u \in Units :
        /\ Note(u) => Waits'
        /\ Announce(u) => Waits'
        /\ Finish(u) => Waits'
        /\ Killed(u) => Waits'
  BY GoneWaits DEF Note, Announce, Finish, Killed
<1>5. \A S \in (SUBSET Units) \ {{}} : TimersFire(S) => Waits'
  BY ActivateWaits DEF TimersFire
<1>6. \A u \in Units, i \in Triggers : RetryFires(u, i) => Waits'
  BY ActivateWaits DEF RetryFires
<1>7. ASSUME UNCHANGED <<phase, ahead, blockers>> PROVE Waits'
  BY <1>7 DEF Waits, Founded
<1>8. /\ Weather => Waits'
      /\ UNCHANGED vars => Waits'
      /\ \A u \in Units : (TimersLost(u) \/ MergedStart(u)) => Waits'
  BY <1>7 DEF Weather, vars, TimersLost, MergedStart
<1> QED BY <1>2, <1>3, <1>4, <1>5, <1>6, <1>8, Cases

(* Jobs released together do not defer to each other, however many there   *)
(* are and whatever is killed or lost: the order in which peers_to_wait_for *)
(* looks at them has no circle.                                            *)
THEOREM NobodyWaitsInCircles == Spec => []NoCircularWait
<1>1. Init => Ordered /\ Waits
  <2> SUFFICES ASSUME Init PROVE Ordered /\ Waits
    OBVIOUS
  <2>1. Ordered
    BY UnitsAssumption DEF Init, Ordered, Active
  <2>2. \A u \in Units : ahead[u] = {} /\ blockers[u] = {}
    BY DEF Init
  <2> QED BY <2>1, <2>2 DEF Waits, Founded
<1>2. TypeInv /\ Ordered /\ Waits /\ [Next]_vars => Ordered' /\ Waits'
  BY OrderStep, WaitsStep
<1>3. Waits => NoCircularWait
  <2> SUFFICES ASSUME Waits, NEW S \in (SUBSET Units) \ {{}}
               PROVE  \E u \in S : ~ \E v \in S : v \in blockers[u]
    BY DEF NoCircularWait
  <2>1. PICK u \in S : S \cap ahead[u] = {}
    BY DEF Waits, Founded
  <2>2. blockers[u] \subseteq ahead[u]
    BY DEF Waits
  <2> QED BY <2>1, <2>2
<1> QED BY <1>1, <1>2, <1>3, Typed, PTL DEF Spec
=============================================================================
