--------------------------- MODULE MonitorProofs ---------------------------
(***************************************************************************)
(* Type correctness of Monitor and its latch invariants, what the panel of *)
(* Display offers and the presses of Approvals, for every set of actions,  *)
(* keys, scores and every bound.                                           *)
(***************************************************************************)
EXTENDS Approvals, TLAPS

\* Turning the pages stays within them, whatever their number.
LEMMA PageRange ==
  ASSUME NEW n \in Nat \ {0}, NEW p \in Int
  PROVE  p % n \in 0 .. n - 1
  OBVIOUS

\* Page 5 is a page.
LEMMA ActionPageIsAPage == ActionPage \in 0 .. Pages - 1
  BY PanelAssumption DEF ActionPage

\* A saturated counter stays within its limit.
LEMMA UpToRange ==
  ASSUME NEW limit \in Nat, NEW n \in Nat
  PROVE  UpTo(limit, n) \in 0 .. limit
  BY DEF UpTo

\* The debounce counter of the next cycle is in its range.
LEMMA StreakRange ==
  ASSUME alertStreak \in 0 .. AlertLimit
  PROVE  Streak \in 0 .. AlertLimit
<1>1. alertStreak + 1 \in Nat /\ AlertLimit \in Nat
  BY DEF AlertLimit
<1>2. UpTo(AlertLimit, alertStreak + 1) \in 0 .. AlertLimit
  BY <1>1, UpToRange
<1>3. 0 \in 0 .. AlertLimit
  BY <1>1
<1> QED
  BY <1>2, <1>3 DEF Streak

\* The BOOT button moves between its three states.
LEMMA BootRange == \A m \in BootMoves : m[2] \in {"up", "down", "fired"}
<1>1. \A m \in BootDown : m[2] \in {"up", "down", "fired"}
  BY DEF BootDown
<1>2. \A m \in BootUp : m[2] \in {"up", "down", "fired"}
  BY DEF BootUp
<1>3. \A m \in BootStays : m[2] \in {"up", "down", "fired"}
  BY DEF BootStays
<1> QED
  BY <1>1, <1>2, <1>3, PanelAssumption DEF BootMoves

LEMMA InitType == Init => TypeOK
<1> SUFFICES ASSUME Init PROVE TypeOK
  OBVIOUS
<1>1. FlagsTypeOK
  BY DEF Init, FlagsTypeOK
<1>2. NamesTypeOK
  BY DEF Init, NamesTypeOK
<1>3. CountsTypeOK
  BY PanelAssumption DEF Init, CountsTypeOK, FailLimit, AlertLimit
<1>4. PagesTypeOK
  BY PanelAssumption DEF Init, PagesTypeOK
<1> QED
  BY <1>1, <1>2, <1>3, <1>4 DEF TypeOK

-----------------------------------------------------------------------------
(* Type correctness, one lemma per group of variables *)

LEMMA FlagsStep == ASSUME FlagsTypeOK, Next PROVE FlagsTypeOK'
<1> USE DEF FlagsTypeOK, health, alarm, action, advice, hit, screenVs, longVs,
            keyVs, NoHit
<1>1. CASE CollectOk
  BY <1>1 DEF CollectOk, HealthResults
<1>2. CASE CollectFail
  BY <1>2 DEF CollectFail
<1>3. CASE AssessQuiet
  BY <1>3 DEF AssessQuiet
<1>4. CASE RaiseAlert
  BY <1>4 DEF RaiseAlert
<1>5. CASE Recover
  BY <1>5 DEF Recover
<1>6. CASE NoRecovery
  BY <1>6 DEF NoRecovery
<1>7. CASE Select
  BY <1>7 DEF Select, AiSelects, Latched
<1>8. CASE StartAdvice
  BY <1>8 DEF StartAdvice
<1>9. CASE NextCycle
  BY <1>9 DEF NextCycle
<1>10. CASE AdviceFails
  BY <1>10 DEF AdviceFails
<1>11. CASE AdviceArrives
  BY <1>11 DEF AdviceArrives
<1>12. CASE AskConfirm
  BY <1>12 DEF AskConfirm
<1>13. CASE DrawConfirm
  BY <1>13 DEF DrawConfirm
<1>14. CASE Approve
  BY <1>14 DEF Approve
<1>15. CASE Dismiss
  BY <1>15 DEF Dismiss
<1>16. CASE IgnorePress
  BY <1>16 DEF IgnorePress
<1>17. ASSUME NEW rc \in {0, -1, -2}, NEW fixed \in BOOLEAN, Verified(rc, fixed)
       PROVE  FlagsTypeOK'
  BY <1>17 DEF Verified
<1>18. CASE Unverified
  BY <1>18 DEF Unverified
<1>19. ASSUME NEW e \in BootEvents, Tick(e) PROVE FlagsTypeOK'
  BY <1>19 DEF Tick, BootDismisses
<1>20. CASE KeyBump
  BY <1>20 DEF KeyBump
<1>21. ASSUME NEW k \in Keys, KeyDown(k) PROVE FlagsTypeOK'
  BY <1>21 DEF KeyDown
<1>22. ASSUME NEW k \in Keys, KeyShort(k) PROVE FlagsTypeOK'
  BY <1>22 DEF KeyShort
<1>23. ASSUME NEW k \in Keys, KeyHold(k) PROVE FlagsTypeOK'
  BY <1>23 DEF KeyHold
<1>24. ASSUME NEW k \in Keys, KeyUp(k) PROVE FlagsTypeOK'
  BY <1>24 DEF KeyUp
<1> QED
  BY <1>1, <1>2, <1>3, <1>4, <1>5, <1>6, <1>7, <1>8, <1>9, <1>10, <1>11,
     <1>12, <1>13, <1>14, <1>15, <1>16, <1>17, <1>18, <1>19, <1>20, <1>21,
     <1>22, <1>23, <1>24 DEF Next, Main, Cycle, Decide, KeyThread

LEMMA NamesStep == ASSUME NamesTypeOK, Next PROVE NamesTypeOK'
<1> USE DEF NamesTypeOK, health, alarm, action, advice, hit, screenVs, longVs,
            keyVs, NoHit
<1>1. CASE CollectOk
  BY <1>1 DEF CollectOk, HealthResults
<1>2. CASE CollectFail
  BY <1>2 DEF CollectFail
<1>3. CASE AssessQuiet
  BY <1>3, ActsAssumption DEF AssessQuiet, RuleChoices, Acts
<1>4. CASE RaiseAlert
  BY <1>4, ActsAssumption DEF RaiseAlert, RuleChoices, Acts
<1>5. CASE Recover
  BY <1>5 DEF Recover
<1>6. CASE NoRecovery
  BY <1>6 DEF NoRecovery
<1>7. CASE Select
  BY <1>7 DEF Select, AiSelects, Latched
<1>8. CASE StartAdvice
  BY <1>8 DEF StartAdvice
<1>9. CASE NextCycle
  BY <1>9 DEF NextCycle
<1>10. CASE AdviceFails
  BY <1>10 DEF AdviceFails
<1>11. CASE AdviceArrives
  BY <1>11 DEF AdviceArrives
<1>12. CASE AskConfirm
  BY <1>12 DEF AskConfirm
<1>13. CASE DrawConfirm
  BY <1>13 DEF DrawConfirm
<1>14. CASE Approve
  BY <1>14 DEF Approve
<1>15. CASE Dismiss
  BY <1>15 DEF Dismiss
<1>16. CASE IgnorePress
  BY <1>16 DEF IgnorePress
<1>17. ASSUME NEW rc \in {0, -1, -2}, NEW fixed \in BOOLEAN, Verified(rc, fixed)
       PROVE  NamesTypeOK'
  BY <1>17 DEF Verified
<1>18. CASE Unverified
  BY <1>18 DEF Unverified
<1>19. ASSUME NEW e \in BootEvents, Tick(e) PROVE NamesTypeOK'
  BY <1>19, BootRange DEF Tick
<1>20. CASE KeyBump
  BY <1>20 DEF KeyBump
<1>21. ASSUME NEW k \in Keys, KeyDown(k) PROVE NamesTypeOK'
  BY <1>21 DEF KeyDown
<1>22. ASSUME NEW k \in Keys, KeyShort(k) PROVE NamesTypeOK'
  BY <1>22 DEF KeyShort
<1>23. ASSUME NEW k \in Keys, KeyHold(k) PROVE NamesTypeOK'
  BY <1>23 DEF KeyHold
<1>24. ASSUME NEW k \in Keys, KeyUp(k) PROVE NamesTypeOK'
  BY <1>24 DEF KeyUp
<1> QED
  BY <1>1, <1>2, <1>3, <1>4, <1>5, <1>6, <1>7, <1>8, <1>9, <1>10, <1>11,
     <1>12, <1>13, <1>14, <1>15, <1>16, <1>17, <1>18, <1>19, <1>20, <1>21,
     <1>22, <1>23, <1>24 DEF Next, Main, Cycle, Decide, KeyThread

LEMMA CountsStep == ASSUME CountsTypeOK, Next PROVE CountsTypeOK'
<1> USE PanelAssumption DEF CountsTypeOK, health, alarm, action, advice, hit, screenVs, longVs,
            keyVs, NoHit
<1>1. CASE CollectOk
  BY <1>1 DEF CollectOk, HealthResults, FailLimit
<1>2. CASE CollectFail
  <2>1. failStreak + 1 \in Nat /\ FailLimit \in Nat
    BY DEF FailLimit
  <2>2. failStreak' \in 0 .. FailLimit
    BY <1>2, <2>1, UpToRange DEF CollectFail
  <2> QED
    BY <1>2, <2>2 DEF CollectFail
<1>3. CASE AssessQuiet
  BY <1>3, StreakRange DEF AssessQuiet
<1>4. CASE RaiseAlert
  BY <1>4, StreakRange DEF RaiseAlert
<1>5. CASE Recover
  BY <1>5 DEF Recover
<1>6. CASE NoRecovery
  BY <1>6 DEF NoRecovery
<1>7. CASE Select
  BY <1>7 DEF Select, AiSelects, Latched
<1>8. CASE StartAdvice
  BY <1>8 DEF StartAdvice
<1>9. CASE NextCycle
  BY <1>9 DEF NextCycle, TickDown
<1>10. CASE AdviceFails
  BY <1>10 DEF AdviceFails, TickDown
<1>11. CASE AdviceArrives
  BY <1>11 DEF AdviceArrives, TickDown
<1>12. CASE AskConfirm
  BY <1>12 DEF AskConfirm
<1>13. CASE DrawConfirm
  BY <1>13 DEF DrawConfirm
<1>14. CASE Approve
  BY <1>14 DEF Approve
<1>15. CASE Dismiss
  BY <1>15 DEF Dismiss
<1>16. CASE IgnorePress
  BY <1>16 DEF IgnorePress
<1>17. ASSUME NEW rc \in {0, -1, -2}, NEW fixed \in BOOLEAN, Verified(rc, fixed)
       PROVE  CountsTypeOK'
  BY <1>17 DEF Verified, AlertLimit
<1>18. CASE Unverified
  BY <1>18 DEF Unverified
<1>19. ASSUME NEW e \in BootEvents, Tick(e) PROVE CountsTypeOK'
  BY <1>19 DEF Tick, Remaining
<1>20. CASE KeyBump
  BY <1>20 DEF KeyBump
<1>21. ASSUME NEW k \in Keys, KeyDown(k) PROVE CountsTypeOK'
  BY <1>21 DEF KeyDown
<1>22. ASSUME NEW k \in Keys, KeyShort(k) PROVE CountsTypeOK'
  BY <1>22 DEF KeyShort
<1>23. ASSUME NEW k \in Keys, KeyHold(k) PROVE CountsTypeOK'
  BY <1>23 DEF KeyHold
<1>24. ASSUME NEW k \in Keys, KeyUp(k) PROVE CountsTypeOK'
  BY <1>24 DEF KeyUp
<1> QED
  BY <1>1, <1>2, <1>3, <1>4, <1>5, <1>6, <1>7, <1>8, <1>9, <1>10, <1>11,
     <1>12, <1>13, <1>14, <1>15, <1>16, <1>17, <1>18, <1>19, <1>20, <1>21,
     <1>22, <1>23, <1>24 DEF Next, Main, Cycle, Decide, KeyThread

LEMMA PagesStep == ASSUME PagesTypeOK, Next PROVE PagesTypeOK'
<1> USE PanelAssumption DEF PagesTypeOK, health, alarm, action, advice, hit, screenVs, longVs,
            keyVs, NoHit
<1>1. CASE CollectOk
  BY <1>1 DEF CollectOk, HealthResults
<1>2. CASE CollectFail
  BY <1>2 DEF CollectFail
<1>3. CASE AssessQuiet
  BY <1>3 DEF AssessQuiet
<1>4. CASE RaiseAlert
  BY <1>4 DEF RaiseAlert
<1>5. CASE Recover
  BY <1>5 DEF Recover
<1>6. CASE NoRecovery
  BY <1>6 DEF NoRecovery
<1>7. CASE Select
  BY <1>7, ActionPageIsAPage DEF Select
<1>8. CASE StartAdvice
  BY <1>8 DEF StartAdvice
<1>9. CASE NextCycle
  BY <1>9 DEF NextCycle
<1>10. CASE AdviceFails
  BY <1>10 DEF AdviceFails
<1>11. CASE AdviceArrives
  BY <1>11 DEF AdviceArrives
<1>12. CASE AskConfirm
  BY <1>12 DEF AskConfirm
<1>13. CASE DrawConfirm
  BY <1>13 DEF DrawConfirm
<1>14. CASE Approve
  BY <1>14 DEF Approve
<1>15. CASE Dismiss
  BY <1>15 DEF Dismiss
<1>16. CASE IgnorePress
  BY <1>16 DEF IgnorePress
<1>17. ASSUME NEW rc \in {0, -1, -2}, NEW fixed \in BOOLEAN, Verified(rc, fixed)
       PROVE  PagesTypeOK'
  BY <1>17, ActionPageIsAPage DEF Verified
<1>18. CASE Unverified
  BY <1>18, ActionPageIsAPage DEF Unverified
<1>19. ASSUME NEW e \in BootEvents, Tick(e) PROVE PagesTypeOK'
  BY <1>19, PageRange DEF Tick
<1>20. CASE KeyBump
  BY <1>20 DEF KeyBump
<1>21. ASSUME NEW k \in Keys, KeyDown(k) PROVE PagesTypeOK'
  BY <1>21 DEF KeyDown
<1>22. ASSUME NEW k \in Keys, KeyShort(k) PROVE PagesTypeOK'
  BY <1>22, PageRange DEF KeyShort
<1>23. ASSUME NEW k \in Keys, KeyHold(k) PROVE PagesTypeOK'
  BY <1>23 DEF KeyHold
<1>24. ASSUME NEW k \in Keys, KeyUp(k) PROVE PagesTypeOK'
  BY <1>24 DEF KeyUp
<1> QED
  BY <1>1, <1>2, <1>3, <1>4, <1>5, <1>6, <1>7, <1>8, <1>9, <1>10, <1>11,
     <1>12, <1>13, <1>14, <1>15, <1>16, <1>17, <1>18, <1>19, <1>20, <1>21,
     <1>22, <1>23, <1>24 DEF Next, Main, Cycle, Decide, KeyThread

-----------------------------------------------------------------------------
(* The latch *)

LEMMA LatchStep == ASSUME FlagsTypeOK, LatchInv, Next PROVE LatchInv'
<1> USE ActsAssumption DEF FlagsTypeOK, LatchInv, ExecutesTheLatch,
            QuietMeansDisarmed, NoConfirmDuringAdvice, Origin, Acts, health,
            alarm, action, advice, hit, screenVs, longVs,
            keyVs, NoHit
<1>1. CASE CollectOk
  BY <1>1 DEF CollectOk, HealthResults
<1>2. CASE CollectFail
  BY <1>2 DEF CollectFail
<1>3. CASE AssessQuiet
  BY <1>3 DEF AssessQuiet, RuleChoices
<1>4. CASE RaiseAlert
  BY <1>4 DEF RaiseAlert, RuleChoices
<1>5. CASE Recover
  BY <1>5 DEF Recover
<1>6. CASE NoRecovery
  BY <1>6 DEF NoRecovery
<1>7. CASE Select
  BY <1>7 DEF Select, AiSelects, Latched
<1>8. CASE StartAdvice
  BY <1>8 DEF StartAdvice, CallsModel
<1>9. CASE NextCycle
  BY <1>9 DEF NextCycle
<1>10. CASE AdviceFails
  BY <1>10 DEF AdviceFails
<1>11. CASE AdviceArrives
  BY <1>11 DEF AdviceArrives
<1>12. CASE AskConfirm
  BY <1>12 DEF AskConfirm, CanAct
<1>13. CASE DrawConfirm
  BY <1>13 DEF DrawConfirm
<1>14. CASE Approve
  BY <1>14 DEF Approve, CanAct
<1>15. CASE Dismiss
  BY <1>15 DEF Dismiss
<1>16. CASE IgnorePress
  BY <1>16 DEF IgnorePress
<1>17. ASSUME NEW rc \in {0, -1, -2}, NEW fixed \in BOOLEAN, Verified(rc, fixed)
       PROVE  LatchInv'
  BY <1>17 DEF Verified, Ends
<1>18. CASE Unverified
  BY <1>18 DEF Unverified
<1>19. ASSUME NEW e \in BootEvents, Tick(e) PROVE LatchInv'
  BY <1>19 DEF Tick
<1>20. CASE KeyBump
  BY <1>20 DEF KeyBump
<1>21. ASSUME NEW k \in Keys, KeyDown(k) PROVE LatchInv'
  BY <1>21 DEF KeyDown
<1>22. ASSUME NEW k \in Keys, KeyShort(k) PROVE LatchInv'
  BY <1>22 DEF KeyShort
<1>23. ASSUME NEW k \in Keys, KeyHold(k) PROVE LatchInv'
  BY <1>23 DEF KeyHold
<1>24. ASSUME NEW k \in Keys, KeyUp(k) PROVE LatchInv'
  BY <1>24 DEF KeyUp
<1> QED
  BY <1>1, <1>2, <1>3, <1>4, <1>5, <1>6, <1>7, <1>8, <1>9, <1>10, <1>11,
     <1>12, <1>13, <1>14, <1>15, <1>16, <1>17, <1>18, <1>19, <1>20, <1>21,
     <1>22, <1>23, <1>24 DEF Next, Main, Cycle, Decide, KeyThread

LEMMA InitLatch == Init => LatchInv
  BY DEF Init, LatchInv, ExecutesTheLatch, QuietMeansDisarmed,
     NoConfirmDuringAdvice, Origin

\* A stuttering step leaves both invariants alone.
LEMMA Stutter ==
  ASSUME UNCHANGED vars
  PROVE  (TypeOK => TypeOK') /\ (LatchInv => LatchInv')
<1> USE DEF vars, health, alarm, action, advice, hit, screenVs, longVs, keyVs
<1>1. TypeOK => TypeOK'
  BY DEF TypeOK, FlagsTypeOK, NamesTypeOK, CountsTypeOK, PagesTypeOK
<1>2. LatchInv => LatchInv'
  BY DEF LatchInv, ExecutesTheLatch, QuietMeansDisarmed,
     NoConfirmDuringAdvice, Origin
<1> QED
  BY <1>1, <1>2

LEMMA TypeStep == TypeOK /\ [Next]_vars => TypeOK'
<1> SUFFICES ASSUME TypeOK, [Next]_vars PROVE TypeOK'
  OBVIOUS
<1>1. CASE Next
  BY <1>1, FlagsStep, NamesStep, CountsStep, PagesStep DEF TypeOK
<1>2. CASE UNCHANGED vars
  BY <1>2, Stutter
<1> QED
  BY <1>1, <1>2

LEMMA LatchNext == TypeOK /\ LatchInv /\ [Next]_vars => LatchInv'
<1> SUFFICES ASSUME TypeOK, LatchInv, [Next]_vars PROVE LatchInv'
  OBVIOUS
<1>1. CASE Next
  BY <1>1, LatchStep DEF TypeOK
<1>2. CASE UNCHANGED vars
  BY <1>2, Stutter
<1> QED
  BY <1>1, <1>2

\* LatchInv implies what it strengthens.
LEMMA LatchImplies ==
  LatchInv => /\ ExecutesTheLatch /\ QuietMeansDisarmed
              /\ NoConfirmDuringAdvice /\ RunsOnlyVetted
  BY DEF LatchInv, ExecutesTheLatch, RunsOnlyVetted, Origin

-----------------------------------------------------------------------------
(* Theorems *)

\* Every variable of the loop and of the key thread stays in its range, for
\* every number of pages, keys, scores and pending presses.
THEOREM TypeCorrect == Spec => []TypeOK
<1>1. Init => TypeOK
  BY InitType
<1>2. TypeOK /\ [Next]_vars => TypeOK'
  BY TypeStep
<1> QED
  BY <1>1, <1>2, PTL DEF Spec

\* The inductive invariant of the latch holds in every behaviour.
THEOREM LatchInvariant == Spec => []LatchInv
<1>1. Init => LatchInv
  BY InitLatch
<1>2. TypeOK /\ LatchInv /\ [Next]_vars => LatchInv'
  BY LatchNext
<1> QED
  BY <1>1, <1>2, TypeCorrect, PTL DEF Spec

\* An approved press executes the latched action, whatever the rule proposes
\* in the meantime (velaops_main.c, the latch of the run loop).
THEOREM LatchIsExecuted == Spec => []ExecutesTheLatch
  BY LatchInvariant, LatchImplies, PTL

\* Outside an alert no confirmation, overlay or latched action is left.
THEOREM NothingArmedWhenQuiet == Spec => []QuietMeansDisarmed
  BY LatchInvariant, LatchImplies, PTL

\* What is executed is the rule's proposal or advice that passed the whitelist
\* and blacklist checks.
THEOREM OnlyVettedRuns == Spec => []RunsOnlyVetted
  BY LatchInvariant, LatchImplies, PTL

\* No call of the model starts or lasts while a confirmation is armed.
THEOREM AdviceWaitsForConfirm == Spec => []NoConfirmDuringAdvice
  BY LatchInvariant, LatchImplies, PTL

\* While an alert waits, only vetted advice replaces the latched action.
THEOREM OnlyAdviceMovesLatch == Spec => LatchMovesByAdvice
<1> DEFINE A == alert /\ alert' /\ latch' # latch => latchAi' /\ latch' \in Allowed
<1>1. TypeOK /\ LatchInv /\ [Next]_vars => [A]_vars
  <2> SUFFICES ASSUME TypeOK, LatchInv, Next PROVE A
    OBVIOUS
  <2> USE DEF health, alarm, action, advice, hit, screenVs, longVs, keyVs
  <2>1. CASE CollectOk \/ CollectFail \/ AssessQuiet \/ NoRecovery
    BY <2>1 DEF CollectOk, CollectFail, AssessQuiet, NoRecovery
  <2>2. CASE RaiseAlert
    BY <2>2 DEF RaiseAlert, Raises
  <2>3. CASE Recover
    BY <2>3 DEF Recover
  <2>4. CASE Select
    BY <2>4 DEF Select, AiSelects, Latched
  <2>5. CASE StartAdvice \/ NextCycle \/ AdviceFails \/ AdviceArrives
    BY <2>5 DEF StartAdvice, NextCycle, AdviceFails, AdviceArrives
  <2>6. CASE AskConfirm \/ DrawConfirm \/ Approve \/ Dismiss \/ IgnorePress
    BY <2>6 DEF AskConfirm, DrawConfirm, Approve, Dismiss, IgnorePress
  <2>7. CASE Unverified \/ KeyBump
    BY <2>7 DEF Unverified, KeyBump
  <2>8. ASSUME NEW rc \in {0, -1, -2}, NEW fixed \in BOOLEAN, Verified(rc, fixed)
       PROVE  A
    BY <2>8 DEF Verified, Ends
  <2>9. ASSUME NEW e \in BootEvents, Tick(e) PROVE A
    BY <2>9 DEF Tick
  <2>10. ASSUME NEW k \in Keys, KeyDown(k) \/ KeyShort(k) \/ KeyHold(k) \/ KeyUp(k)
        PROVE  A
    BY <2>10 DEF KeyDown, KeyShort, KeyHold, KeyUp
  <2> QED
    BY <2>1, <2>2, <2>3, <2>4, <2>5, <2>6, <2>7, <2>8, <2>9, <2>10
       DEF Next, Main, Cycle, Decide, KeyThread
<1>2. LatchMovesByAdvice <=> [][A]_vars
  BY DEF LatchMovesByAdvice
<1> QED
  BY <1>1, <1>2, TypeCorrect, LatchInvariant, PTL DEF Spec

\* The alert ends with a healthy score or a verified kill or unit action.
THEOREM OnlyHealthEndsAlert == Spec => AlertEndsByHealth
<1> DEFINE A == alert /\ ~alert' =>
                  \/ score >= RecoverScore /\ ~critical
                  \/ pc = "running" /\ actionState' = "DONE" /\ cur \notin ExecActs
<1>1. TypeOK /\ LatchInv /\ [Next]_vars => [A]_vars
  <2> SUFFICES ASSUME TypeOK, LatchInv, Next PROVE A
    OBVIOUS
  <2> USE DEF health, alarm, action, advice, hit, screenVs, longVs, keyVs
  <2>1. CASE CollectOk \/ CollectFail \/ AssessQuiet \/ NoRecovery
    BY <2>1 DEF CollectOk, CollectFail, AssessQuiet, NoRecovery
  <2>2. CASE RaiseAlert
    BY <2>2 DEF RaiseAlert
  <2>3. CASE Recover
    BY <2>3 DEF Recover, Recovers
  <2>4. CASE Select
    BY <2>4 DEF Select
  <2>5. CASE StartAdvice \/ NextCycle \/ AdviceFails \/ AdviceArrives
    BY <2>5 DEF StartAdvice, NextCycle, AdviceFails, AdviceArrives
  <2>6. CASE AskConfirm \/ DrawConfirm \/ Approve \/ Dismiss \/ IgnorePress
    BY <2>6 DEF AskConfirm, DrawConfirm, Approve, Dismiss, IgnorePress
  <2>7. CASE Unverified \/ KeyBump
    BY <2>7 DEF Unverified, KeyBump
  <2>8. ASSUME NEW rc \in {0, -1, -2}, NEW fixed \in BOOLEAN, Verified(rc, fixed)
       PROVE  A
    BY <2>8 DEF Verified, Ends
  <2>9. ASSUME NEW e \in BootEvents, Tick(e) PROVE A
    BY <2>9 DEF Tick
  <2>10. ASSUME NEW k \in Keys, KeyDown(k) \/ KeyShort(k) \/ KeyHold(k) \/ KeyUp(k)
        PROVE  A
    BY <2>10 DEF KeyDown, KeyShort, KeyHold, KeyUp
  <2> QED
    BY <2>1, <2>2, <2>3, <2>4, <2>5, <2>6, <2>7, <2>8, <2>9, <2>10
       DEF Next, Main, Cycle, Decide, KeyThread
<1>2. AlertEndsByHealth <=> [][A]_vars
  BY DEF AlertEndsByHealth
<1> QED
  BY <1>1, <1>2, TypeCorrect, LatchInvariant, PTL DEF Spec

-----------------------------------------------------------------------------
(* The panel *)

\* What page 5 offers while an alert waits is the latch, also between the
\* question for a confirmation and its drawing.
PublishedIsLatch ==
  pc \in {"ticks", "act", "draw"} /\ alert /\ actionState = "WAITING" => published = latch

PanelInv == DisplayInv /\ PublishedIsLatch

LEMMA PageViewIs ==
  ASSUME NEW p, NEW a \in Acts \cup {NoAct}
  PROVE  /\ PageView(p, a) \in Screens /\ PageView(p, a)[1] # "alert"
         /\ PageView(p, a)[1] = "action" => PageView(p, a)[2] = a
BY DEF PageView, Screens, Views

LEMMA OverlayIs ==
  ASSUME NEW a \in Acts \cup {NoAct}
  PROVE  OverlayView(a) \in Screens /\ OverlayView(a)[1] = "alert"
BY DEF OverlayView, Screens, Views

LEMMA PanelInit == DInit => PanelInv
BY DEF DInit, Init, PanelInv, DisplayInv, DTypeOK, PanelOffersTheLatch, PublishedIsLatch, Screens, Views

LEMMA PanelStep ==
  ASSUME TypeOK, LatchInv, TypeOK', LatchInv', PanelInv, DNext
  PROVE  PanelInv'
<1> USE DEF PanelInv, DisplayInv, DTypeOK, PanelOffersTheLatch, PublishedIsLatch, Screens, Views,
            health, alarm, action, advice, hit, screenVs, longVs, keyVs, drawn
<1>1. CASE DSilent
  <2>1. CASE CollectOk \/ CollectFail \/ AssessQuiet \/ Recover \/ NoRecovery \/ AdviceFails
    BY <1>1, <2>1 DEF DSilent, CollectOk, CollectFail, AssessQuiet, Recover, NoRecovery, AdviceFails
  <2>2. CASE Dismiss \/ IgnorePress \/ StartAdvice \/ NextCycle
    BY <1>1, <2>2 DEF DSilent, Dismiss, IgnorePress, StartAdvice, NextCycle
  <2>3. QED
    BY <1>1, <2>1, <2>2 DEF DSilent
<1>2. CASE DRaise
  BY <1>2, OverlayIs DEF DRaise, RaiseAlert, TypeOK, NamesTypeOK
<1>3. CASE DSelect
  <2>1. cur' \in Acts \cup {NoAct} /\ published' \in Acts \cup {NoAct} /\ pc' = "ticks"
    BY <1>3 DEF DSelect, Select, TypeOK, NamesTypeOK
  <2>2. alert' /\ actionState' = "WAITING" => published' = latch' /\ cur' = latch'
    <3>1. alert' /\ actionState' = "WAITING" => cur' = latch'
      BY <2>1 DEF LatchInv, ExecutesTheLatch
    <3>2. alert' /\ actionState' = "WAITING" => Publishes
      BY <1>3 DEF DSelect, Select, Publishes
    <3>3. QED
      BY <1>3, <3>1, <3>2 DEF DSelect
  <2>3. \/ screen' = <<"confirm", confirmFor>>
        \/ alert /\ alert' /\ screen' = OverlayView(cur')
        \/ screen' = PageView(page', published')
    BY <1>3 DEF DSelect, Select
  <2>4. QED
    BY <1>3, <2>1, <2>2, <2>3, PageViewIs, OverlayIs DEF DSelect
<1>4. CASE Blink
  BY <1>4, OverlayIs DEF Blink, vars, TypeOK, NamesTypeOK, LatchInv, ExecutesTheLatch
<1>5. CASE DAskConfirm
  BY <1>5 DEF DAskConfirm, AskConfirm, TypeOK, NamesTypeOK
<1>6. CASE DDrawConfirm
  BY <1>6 DEF DDrawConfirm, DrawConfirm
<1>7. CASE DRun
  <2>1. actionState' # "WAITING"
    BY <1>7 DEF DRun, Approve, Unverified, Verified
  <2>2. QED
    BY <1>7, <2>1 DEF DRun
<1>8. CASE DAdvice
  BY <1>8 DEF DAdvice, AdviceArrives
<1>9. ASSUME NEW k \in Keys, DKeyShort(k)
      PROVE  PanelInv'
  <2>1. screen' = screen \/ screen' = PageView(page', published)
    BY <1>9 DEF DKeyShort
  <2>2. QED
    BY <1>9, <2>1, PageViewIs DEF DKeyShort, KeyShort
<1>10. CASE DKeySilent
  <2>1. CASE KeyBump
    BY <1>10, <2>1 DEF DKeySilent, KeyBump
  <2>2. ASSUME NEW k \in Keys, KeyDown(k) \/ KeyUp(k)
        PROVE  PanelInv'
    BY <1>10, <2>2 DEF DKeySilent, KeyDown, KeyUp
  <2>3. QED
    BY <1>10, <2>1, <2>2 DEF DKeySilent
<1>11. ASSUME NEW e \in BootEvents, DTick(e)
       PROVE  PanelInv'
  <2>1. screen' = screen \/ screen' = PageView(page', published)
    BY <1>11 DEF DTick
  <2>2. QED
    BY <1>11, <2>1, PageViewIs DEF DTick, Tick
<1>12. ASSUME NEW k \in Keys, DKeyHold(k)
       PROVE  PanelInv'
  BY <1>12 DEF DKeyHold, KeyHold
<1>13. QED
  BY <1>1, <1>2, <1>3, <1>4, <1>5, <1>6, <1>7, <1>8, <1>9, <1>10, <1>11, <1>12 DEF DNext, DOther

\* Every step of the panel is a step of the loop, or a redrawing.
LEMMA PanelIsMonitor == [DNext]_dvars => [Next]_vars
<1> SUFFICES ASSUME [DNext]_dvars
             PROVE  [Next]_vars
  OBVIOUS
<1>1. CASE UNCHANGED dvars
  BY <1>1 DEF dvars
<1>2. CASE DSilent \/ DRaise \/ DSelect \/ Blink
  BY <1>2 DEF DSilent, DRaise, DSelect, Blink, Next, Main, Cycle, Decide
<1>3. CASE DAskConfirm \/ DDrawConfirm \/ DRun \/ DAdvice
  BY <1>3 DEF DAskConfirm, DDrawConfirm, DRun, DAdvice, Next, Main, Cycle, Decide
<1>4. CASE DKeySilent
  BY <1>4 DEF DKeySilent, Next, KeyThread
<1>5. ASSUME NEW k \in Keys, DKeyShort(k) \/ DKeyHold(k)
      PROVE  Next
  BY <1>5 DEF DKeyShort, DKeyHold, Next, KeyThread
<1>6. ASSUME NEW e \in BootEvents, DTick(e)
      PROVE  Next
  BY <1>6 DEF DTick, Next, Main
<1>7. QED
  BY <1>1, <1>2, <1>3, <1>4, <1>5, <1>6 DEF DNext, DOther

LEMMA PanelHasSpec == DSpec => Spec
<1>1. DInit => Init
  BY DEF DInit
<1>2. QED
  BY <1>1, PanelIsMonitor, PTL DEF DSpec, Spec

\* Whichever thread drew it last, an overlay or a page 5 on the panel of a
\* waiting alert names the action a long press would execute.
THEOREM PanelOffersLatch == DSpec => []DisplayInv
<1>1. /\ TypeOK /\ LatchInv /\ TypeOK' /\ LatchInv' /\ PanelInv /\ [DNext]_dvars
      => PanelInv'
  <2>1. SUFFICES ASSUME TypeOK, LatchInv, TypeOK', LatchInv', PanelInv, [DNext]_dvars
                 PROVE  PanelInv'
    OBVIOUS
  <2>2. CASE UNCHANGED dvars
    BY <2>1, <2>2 DEF dvars, vars, drawn, PanelInv, DisplayInv, DTypeOK, PanelOffersTheLatch,
       PublishedIsLatch, OverlayView, action, screenVs
  <2>3. QED
    BY <2>1, <2>2, PanelStep
<1>2. DSpec => []TypeOK /\ []LatchInv
  BY PanelHasSpec, TypeCorrect, LatchInvariant, PTL
<1>3. DSpec => []PanelInv
  BY <1>1, <1>2, PanelInit, PTL DEF DSpec
<1>4. PanelInv => DisplayInv
  BY DEF PanelInv
<1>5. QED
  BY <1>3, <1>4, PTL

-----------------------------------------------------------------------------
(* The approval trail *)

\* The presses counted, or about to be, are the ones not acted on, and all of
\* them were made on a key; so was the press being acted on.  BOOT is down only
\* while the operator holds it.
TouchedInv ==
  /\ unspent = IF kpc = "bump" THEN pending + 1 ELSE pending
  /\ unspent > 0 => saw.key # Nobody
  /\ boot = "down" => bootHeld
  /\ pc \in {"act", "running"} => grant.key # Nobody

\* A BOOT event by the state of the button it leaves.
LEMMA BootEventCases ==
  ASSUME Boot # "unopened", NEW m \in BootMoves
  PROVE  /\ m[3] = "long"  => m[1] = "down" /\ m[2] = "fired"
         /\ m[3] = "press" => Boot = "used"
         /\ m[3] = "idle"  => m[2] = m[1]
         /\ m[3] \in {"short", "release"} => m[2] = "up"
<1>1. \A d \in BootDown : \/ d[3] = "press" /\ d[1] = "up" /\ d[2] = "down"
                          \/ d[3] = "long" /\ d[1] = "down" /\ d[2] = "fired"
  BY DEF BootDown
<1>2. \A u \in BootUp : u[3] \in {"short", "release"} /\ u[2] = "up"
  BY DEF BootUp
<1>3. \A b \in BootStays : b[3] = "idle" /\ b[2] = b[1]
  BY DEF BootStays
<1>4. CASE Boot = "used"
  BY <1>1, <1>2, <1>3, <1>4 DEF BootMoves
<1>5. CASE Boot = "unused"
  BY <1>3, <1>5 DEF BootMoves
<1> QED
  BY <1>4, <1>5, PanelAssumption

\* Steps that neither make nor act on a long press.
LEMMA OtherTouches ==
  ASSUME TouchedInv, AOther
  PROVE  TouchedInv'
<1> USE DEF TouchedInv, AOther, Lasts, health, alarm, action, advice, hit, screenVs, longVs, keyVs
<1>1. CASE DSilent
  BY <1>1 DEF DSilent, CollectOk, CollectFail, AssessQuiet, Recover, NoRecovery,
     Dismiss, IgnorePress, StartAdvice, NextCycle, AdviceFails
<1>2. CASE DRaise \/ DSelect \/ Blink
  BY <1>2 DEF DRaise, RaiseAlert, DSelect, Select, Blink, vars
<1>3. CASE DAskConfirm \/ DDrawConfirm \/ DAdvice
  BY <1>3 DEF DAskConfirm, AskConfirm, DDrawConfirm, DrawConfirm, DAdvice, AdviceArrives
<1>4. CASE DRun
  BY <1>4 DEF DRun, Approve, Unverified, Verified
<1>5. ASSUME NEW k \in Keys, DKeyShort(k)
      PROVE  TouchedInv'
  BY <1>5 DEF DKeyShort, KeyShort
<1>6. CASE DKeySilent
  <2>1. CASE KeyBump
    BY <2>1 DEF KeyBump
  <2>2. ASSUME NEW k \in Keys, KeyDown(k) \/ KeyUp(k)
        PROVE  TouchedInv'
    BY <2>2 DEF KeyDown, KeyUp
  <2>3. QED
    BY <1>6, <2>1, <2>2 DEF DKeySilent
<1>7. QED
  BY <1>1, <1>2, <1>3, <1>4, <1>5, <1>6 DEF DOther

LEMMA TickTouches ==
  ASSUME Boot # "unopened", TypeOK, TouchedInv, NEW e \in BootEvents, ATick(e)
  PROVE  TouchedInv'
<1> USE DEF TouchedInv
<1>1. Tick(e) /\ (unspent' > 0 => saw' = saw) /\ kpc' = kpc /\ pending' = Remaining
  <2>1. unspent' > 0 => unspent' # 0
    OBVIOUS
  <2> QED
    BY <2>1 DEF ATick, DTick, Tick, keyVs
<1>2. PICK m \in BootMoves : m[1] = boot /\ m[3] = e /\ boot' = m[2]
  BY <1>1 DEF Tick
<1>3. pending \in Nat
  BY DEF TypeOK, CountsTypeOK
<1>4. /\ unspent' = IF kpc' = "bump" THEN pending' + 1 ELSE pending'
      /\ unspent' > 0 => unspent > 0
  BY <1>1, <1>3 DEF ATick, Remaining
<1>5. boot' = "down" => bootHeld'
  <2>1. CASE e = "press"
    BY <1>2, <2>1, BootEventCases DEF ATick
  <2>2. CASE e = "idle"
    BY <1>2, <2>2, BootEventCases DEF ATick
  <2>3. CASE e \in {"long", "short", "release"}
    BY <1>2, <2>3, BootEventCases
  <2>4. QED
    BY <2>1, <2>2, <2>3 DEF BootEvents
<1>6. pc' = "act" => grant'.key # Nobody
  <2>1. SUFFICES ASSUME pending > 0 \/ e = "long"
                 PROVE  grant'.key # Nobody
    BY <1>1 DEF Tick, TakesPress
  <2>2. CASE e = "long"
    <3>1. bootHeld
      BY <1>2, <2>2, BootEventCases
    <3>2. grant' = Press(BootButton)
      BY <2>2, <3>1 DEF ATick
    <3>3. QED
      BY <3>2 DEF Press, BootButton, Nobody
  <2>3. CASE e # "long"
    <3>1. pending > 0 /\ unspent > 0
      BY <1>3, <2>1, <2>3
    <3>2. grant' = saw
      BY <2>3, <3>1 DEF ATick, TakesPress
    <3>3. QED
      BY <3>1, <3>2
  <2>4. QED
    BY <2>2, <2>3
<1>7. pc' # "running"
  BY <1>1 DEF Tick
<1>8. QED
  BY <1>1, <1>4, <1>5, <1>6, <1>7

LEMMA HoldTouches ==
  ASSUME TypeOK, TouchedInv, NEW k \in Keys, AKeyHold(k)
  PROVE  TouchedInv'
<1> USE DEF TouchedInv
<1>1. /\ KeyHold(k) /\ kpc = "scan" /\ UNCHANGED <<boot, bootHeld, pc, pending>>
      /\ (pc' \in {"act", "running"} => grant' = grant)
  BY DEF AKeyHold, DKeyHold, KeyHold, Lasts
<1>2. pending \in Nat
  BY DEF TypeOK, CountsTypeOK
<1>3. CASE k \in OkKeys
  <2>1. saw'.key = k /\ k # Nobody /\ unspent' = unspent + 1
    BY <1>3, PanelAssumption DEF AKeyHold, Press, OkKeys, Nobody
  <2>2. kpc' = "bump"
    BY <1>1, <1>3 DEF KeyHold
  <2>3. QED
    BY <1>1, <1>2, <2>1, <2>2
<1>4. CASE k \notin OkKeys
  BY <1>1, <1>4 DEF AKeyHold, KeyHold
<1>5. QED
  BY <1>3, <1>4

LEMMA TrailIsPanel == ASpec => DSpec
<1>1. AInit => DInit
  BY DEF AInit
<1>2. [ANext]_<<dvars, history>> => [DNext]_dvars
  BY DEF ANext, AOther, ATick, AKeyHold, DNext
<1>3. QED
  BY <1>1, <1>2, PTL DEF ASpec, DSpec

\* Every run was approved by a long press of its own, one that no earlier step
\* of the loop acted on, when the BOOT device is open.
THEOREM NothingRunsUnpressed ==
  ASSUME Boot # "unopened"
  PROVE  ASpec => []PressedBeforeRun
<1>1. AInit => TouchedInv
  BY DEF AInit, DInit, Init, TouchedInv
<1>2. TypeOK /\ TouchedInv /\ [ANext]_<<dvars, history>> => TouchedInv'
  <2>1. SUFFICES ASSUME TypeOK, TouchedInv, [ANext]_<<dvars, history>>
                 PROVE  TouchedInv'
    OBVIOUS
  <2>2. CASE UNCHANGED <<dvars, history>>
    BY <2>1, <2>2 DEF dvars, vars, history, longVs, keyVs, TouchedInv
  <2>3. QED
    BY <2>1, <2>2, OtherTouches, TickTouches, HoldTouches DEF ANext
<1>3. ASpec => []TypeOK
  BY TrailIsPanel, PanelHasSpec, TypeCorrect, PTL
<1>4. ASpec => []TouchedInv
  BY <1>1, <1>2, <1>3, PTL DEF ASpec
<1>5. TouchedInv => PressedBeforeRun
  BY DEF TouchedInv, PressedBeforeRun
<1>6. QED
  BY <1>4, <1>5, PTL

=============================================================================
