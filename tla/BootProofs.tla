----------------------------- MODULE BootProofs -----------------------------
(***************************************************************************)
(* Theorems about Boot, for every number of disturbances.                  *)
(***************************************************************************)
EXTENDS Boot, TLAPS

-----------------------------------------------------------------------------
(* Lemmas *)

\* No configuration is taken for another.
LEMMA ConfsDiffer ==
  /\ NoConf \notin Usable /\ NoConf # HwTest /\ NoConf # Hostless
  /\ HwTest \notin Usable /\ Hostless \notin Usable /\ HwTest # Hostless
BY BootAssumption DEF BootAssumption, Confs

\* A disturbance takes one unit of what is left.
LEMMA DisturbsBounded ==
  ASSUME left \in 0 .. Budget, Disturbs
  PROVE  left' \in 0 .. Budget
BY BootAssumption DEF BootAssumption, Disturbs

\* Every way a save or a clear ends keeps that shape.
LEMMA StoreKeepsShape ==
  ASSUME StoreOK,
         \/ \E c \in Confs : Stores(c)
         \/ StoresHalf \/ Erases \/ ErasesHalf
  PROVE  StoreOK'
<1> USE DEF StoreShape
<1>1. ASSUME NEW c \in Confs, Stores(c) PROVE StoreOK'
  BY <1>1, BootAssumption DEF BootAssumption, StoreOK, Stores
<1>2. CASE StoresHalf
  BY <1>2 DEF StoreOK, StoresHalf
<1>3. CASE Erases
  BY <1>3 DEF StoreOK, Erases
<1>4. CASE ErasesHalf
  <2>1. CASE conf' = prior /\ prior' = NoConf /\ young' = FALSE
    BY <2>1 DEF StoreOK
  <2>2. CASE prior' = NoConf /\ UNCHANGED <<conf, young>>
    BY <2>2 DEF StoreOK
  <2>3. QED BY <1>4, <2>1, <2>2 DEF ErasesHalf
<1>5. QED BY <1>1, <1>2, <1>3, <1>4

-----------------------------------------------------------------------------
(* Type correctness *)

LEMMA TypeInit == Init => TypeOK
<1> SUFFICES ASSUME Init PROVE TypeOK
  OBVIOUS
<1>1. left \in 0 .. Budget
  BY BootAssumption DEF BootAssumption, Init
<1>2. QED BY <1>1 DEF Init, TypeOK, StoreOK, StoreShape, Reasons, Resting, Tests

LEMMA TypeStep == TypeOK /\ [Next]_vars => TypeOK'
<1> SUFFICES ASSUME TypeOK, [Next]_vars PROVE TypeOK'
  OBVIOUS
<1> USE DEF Reasons, Resting, Tests, StoreOK, StoreShape
<1>s. StoreOK
  BY DEF TypeOK
<1>1. CASE UNCHANGED vars
  BY <1>1 DEF TypeOK, vars, flash, store
<1>2. CASE Decide
  <2>1. CASE HardwareTest
    BY <2>1 DEF HardwareTest, TypeOK, Goes, flash, store
  <2>2. CASE SetupByFlag
    BY <2>2 DEF SetupByFlag, TypeOK, OpenPage, Spent, store
  <2>3. CASE SetupWithoutConf
    BY <2>3 DEF SetupWithoutConf, TypeOK, OpenPage, flash, store
  <2>4. CASE NoHost
    BY <2>4 DEF NoHost, TypeOK, Goes, flash, store
  <2>5. CASE Join
    BY <2>5 DEF Join, TypeOK, Goes, flash, store
  <2>6. QED BY <1>2, <2>1, <2>2, <2>3, <2>4, <2>5 DEF Decide
<1>3. CASE Connect
  <2>1. CASE Lease
    BY <2>1 DEF Lease, GetsAddress, TypeOK, Goes, store
  <2>2. CASE NoAddress
    BY <2>2 DEF NoAddress, TypeOK, Goes, flash, store
  <2>3. CASE Fallback
    BY <2>3 DEF Fallback, TypeOK, Goes, flash, store
  <2>4. CASE StaticFails
    BY <2>4 DEF StaticFails, TypeOK, Goes, flash, store
  <2>5. CASE GiveUp
    BY <2>5 DEF GiveUp, TypeOK, Goes, FlagAfter, store
  <2>6. QED BY <1>3, <2>1, <2>2, <2>3, <2>4, <2>5 DEF Connect
<1>4. CASE Restart
  BY <1>4 DEF Restart, TypeOK, Goes, flash, store
<1>5. CASE Page
  <2>1. ASSUME NEW c \in Usable, Save(c) PROVE TypeOK'
    <3>1. StoreOK'
      BY <1>s, <2>1, StoreKeepsShape DEF Save, Confs
    <3>2. left' \in 0 .. Budget
      BY <2>1, DisturbsBounded DEF Save, TypeOK
    <3>3. QED BY <2>1, <3>1, <3>2 DEF Save, TypeOK, StoreOK
  <2>2. CASE SaveFails
    <3>1. StoreOK'
      BY <1>s, <2>2, StoreKeepsShape DEF SaveFails
    <3>2. left' \in 0 .. Budget
      BY <2>2, DisturbsBounded DEF SaveFails, TypeOK
    <3>3. QED BY <2>2, <3>1, <3>2 DEF SaveFails, TypeOK, StoreOK, Goes
  <2>3. CASE ClearConf
    <3>1. StoreOK'
      BY <1>s, <2>3, StoreKeepsShape DEF ClearConf
    <3>2. left' \in 0 .. Budget
      BY <2>3, DisturbsBounded DEF ClearConf, TypeOK
    <3>3. QED BY <2>3, <3>1, <3>2 DEF ClearConf, TypeOK, StoreOK, Goes
  <2>4. CASE AskRescan
    BY <2>4, DisturbsBounded DEF AskRescan, TypeOK, Goes, flash, store
  <2>5. QED BY <1>5, <2>1, <2>2, <2>3, <2>4 DEF Page
<1>6. CASE Faults
  <2>1. CASE FlagKept
    BY <2>1, DisturbsBounded DEF FlagKept, TypeOK, OpenPage, flash, store
  <2>2. CASE NoPanel
    BY <2>2, DisturbsBounded DEF NoPanel, TypeOK, Goes, flash, store
  <2>3. CASE LeaseNotKept
    BY <2>3, DisturbsBounded DEF LeaseNotKept, GetsAddress, TypeOK, Goes, store
  <2>4. CASE GiveUpUnmarked
    BY <2>4, DisturbsBounded DEF GiveUpUnmarked, TypeOK, Goes, store
  <2>5. CASE NoServer
    BY <2>5, DisturbsBounded DEF NoServer, TypeOK, Goes, flash, store
  <2>6. CASE TestFails
    BY <2>6, DisturbsBounded DEF TestFails, TypeOK, Goes, flash, store
  <2>7. QED BY <1>6, <2>1, <2>2, <2>3, <2>4, <2>5, <2>6 DEF Faults
<1>7. CASE Outside
  <2>1. CASE HoldButton
    BY <2>1, DisturbsBounded DEF HoldButton, TypeOK, OpenPage, flash, store
  <2>2. CASE Reset
    BY <2>2, DisturbsBounded DEF Reset, TypeOK, Goes, flash, store
  <2>3. CASE NetChanges
    BY <2>3, DisturbsBounded DEF NetChanges, TypeOK, flash, store
  <2>4. ASSUME NEW c \in Confs \cup {NoConf}, Console(c) PROVE TypeOK'
    <3>1. StoreOK'
      BY <1>s, <2>4, StoreKeepsShape DEF Console
    <3>2. left' \in 0 .. Budget
      BY <2>4, DisturbsBounded DEF Console, TypeOK
    <3>3. QED BY <2>4, <3>1, <3>2 DEF Console, TypeOK, StoreOK
  <2>5. CASE TestEnds
    BY <2>5, DisturbsBounded DEF TestEnds, TypeOK, Goes, flash, store
  <2>6. QED BY <1>7, <2>1, <2>2, <2>3, <2>4, <2>5 DEF Outside
<1>8. QED BY <1>1, <1>2, <1>3, <1>4, <1>5, <1>6, <1>7 DEF Next

\* Every variable stays in its range, whatever disturbs the board.
THEOREM TypeCorrect == Spec => []TypeOK
BY TypeInit, TypeStep, PTL DEF Spec

-----------------------------------------------------------------------------
(* The setup flag *)

LEMMA FlagInit == Init => FlagInv
BY DEF Init, FlagInv, OldFailureForgotten, Tests

\* The flag is set only when a join gives up, and by then the configuration
\* counts as tried; a page opened by the flag has spent it.
LEMMA FlagStep == TypeOK /\ FlagInv /\ [Next]_vars => FlagInv'
<1> SUFFICES ASSUME TypeOK, FlagInv, [Next]_vars PROVE FlagInv'
  OBVIOUS
<1> USE DEF FlagInv, OldFailureForgotten, Tests
<1>1. CASE UNCHANGED vars
  BY <1>1 DEF vars, flash
<1>2. CASE Decide
  <2>1. CASE HardwareTest
    BY <2>1 DEF HardwareTest, Goes, flash
  <2>2. CASE SetupByFlag
    BY <2>2 DEF SetupByFlag, OpenPage, Spent
  <2>3. CASE SetupWithoutConf
    BY <2>3 DEF SetupWithoutConf, OpenPage, flash
  <2>4. CASE NoHost
    BY <2>4 DEF NoHost, Goes, flash
  <2>5. CASE Join
    BY <2>5 DEF Join, Goes, flash
  <2>6. QED BY <1>2, <2>1, <2>2, <2>3, <2>4, <2>5 DEF Decide
<1>3. CASE Connect
  <2>1. CASE Lease
    BY <2>1 DEF Lease, GetsAddress, Goes
  <2>2. CASE NoAddress
    BY <2>2 DEF NoAddress, Goes, flash
  <2>3. CASE Fallback
    BY <2>3 DEF Fallback, Goes, flash
  <2>4. CASE StaticFails
    BY <2>4 DEF StaticFails, Goes, flash
  <2>5. CASE GiveUp
    BY <2>5 DEF GiveUp, Goes, FlagAfter
  <2>6. QED BY <1>3, <2>1, <2>2, <2>3, <2>4, <2>5 DEF Connect
<1>4. CASE Restart
  BY <1>4 DEF Restart, Goes, flash
<1>5. CASE Page
  <2>1. ASSUME NEW c \in Usable, Save(c) PROVE FlagInv'
    BY <2>1 DEF Save
  <2>2. CASE SaveFails
    BY <2>2 DEF SaveFails, Goes
  <2>3. CASE ClearConf
    BY <2>3 DEF ClearConf, Goes
  <2>4. CASE AskRescan
    BY <2>4 DEF AskRescan, Goes, flash
  <2>5. QED BY <1>5, <2>1, <2>2, <2>3, <2>4 DEF Page
<1>6. CASE Faults
  <2>1. CASE FlagKept
    BY <2>1 DEF FlagKept, OpenPage, flash
  <2>2. CASE NoPanel
    BY <2>2 DEF NoPanel, Goes, flash
  <2>3. CASE LeaseNotKept
    BY <2>3 DEF LeaseNotKept, GetsAddress, Goes
  <2>4. CASE GiveUpUnmarked
    BY <2>4 DEF GiveUpUnmarked, Goes
  <2>5. CASE NoServer
    BY <2>5 DEF NoServer, Goes, flash
  <2>6. CASE TestFails
    BY <2>6 DEF TestFails, Goes, flash
  <2>7. QED BY <1>6, <2>1, <2>2, <2>3, <2>4, <2>5, <2>6 DEF Faults
<1>7. CASE Outside
  <2>1. CASE HoldButton
    BY <2>1 DEF HoldButton, OpenPage, flash
  <2>2. CASE Reset
    BY <2>2 DEF Reset, Goes, flash
  <2>3. CASE NetChanges
    BY <2>3 DEF NetChanges, flash
  <2>4. ASSUME NEW c \in Confs \cup {NoConf}, Console(c) PROVE FlagInv'
    BY <2>4 DEF Console, TypeOK, Resting
  <2>5. CASE TestEnds
    BY <2>5 DEF TestEnds, Goes, flash
  <2>6. QED BY <1>7, <2>1, <2>2, <2>3, <2>4, <2>5 DEF Outside
<1>8. QED BY <1>1, <1>2, <1>3, <1>4, <1>5, <1>6, <1>7 DEF Next

\* The inductive invariant of the setup flag.
THEOREM FlagInvariant == Spec => []FlagInv
BY TypeCorrect, FlagInit, FlagStep, PTL DEF Spec

\* A configuration saved on a page the board opened by itself is tried before
\* an old failure can open the page again.
THEOREM OldFailuresAreForgotten == Spec => []OldFailureForgotten
<1>1. FlagInv => OldFailureForgotten
  BY DEF FlagInv
<1>2. QED BY <1>1, FlagInvariant, PTL
=============================================================================
