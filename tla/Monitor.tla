------------------------------ MODULE Monitor ------------------------------
(***************************************************************************)
(* The alert and approval loop of `velaops run` (velaops_main.c): the main *)
(* thread collects a snapshot over SSH, raises and clears the alert,       *)
(* latches one action, shows it for 250 ticks, executes it when a long     *)
(* press approves it, and asks the model for advice between two cycles.    *)
(* The key thread runs beside it and shares the flags of the screen.       *)
(*                                                                         *)
(* A step is the code between two points where the other thread can act on *)
(* a shared variable with a different result: a blocking call, a locked    *)
(* section, or an unlocked run of assignments of one thread.               *)
(*                                                                         *)
(* An operator X_Fault beside X is X with a fault the code could have: the *)
(* properties below are shown to notice it.                                *)
(***************************************************************************)
EXTENDS Integers

CONSTANTS
  UnitActs,     \* restart/start/stop of a systemd unit, as (unit, verb) pairs
  KillActs,     \* termination of a process by name
  ExecActs,     \* a shell command
  NoAct,        \* ACT_NONE
  RuleActs,     \* what pick_repair_target and kill_allowed can propose
  Allowed,      \* the advice that passes whitelist, charset and blacklist
  Scores,       \* the totals velaops_health_score can return online
  CritCap,      \* a critical result is capped at this total (40)
  AlertScore,   \* g_hcfg.alert_score
  RecoverScore, \* g_hcfg.recover_score
  Pages,        \* VELAOPS_UI_PAGES
  Keys,         \* the keys of the panel that the operator uses, in 0 .. 3
  LlmPeriod,    \* cycles from one call of the model to the next (6)
  MaxPending,   \* bound on long presses the main thread has not taken yet
  Boot          \* the BOOT button: "used", "unused", or "unopened" when
                \* open("/dev/gpio1") failed

Acts == UnitActs \cup KillActs \cup ExecActs

ASSUME ActsAssumption ==
  /\ NoAct \notin Acts
  /\ ExecActs \cap (UnitActs \cup KillActs) = {}
  /\ RuleActs \subseteq UnitActs \cup KillActs
  /\ Allowed \subseteq Acts

ASSUME HealthAssumption ==
  /\ Scores \subseteq Nat
  /\ CritCap \in Nat /\ AlertScore \in Nat /\ RecoverScore \in Nat

ASSUME PanelAssumption ==
  /\ Pages \in Nat \ {0}
  /\ Keys \subseteq 0 .. 3
  /\ LlmPeriod \in Nat \ {0}
  /\ MaxPending \in Nat
  /\ Boot \in {"used", "unused", "unopened"}

VARIABLES
  \* main thread
  pc,           \* where the main thread is
  online,       \* snap.online
  score,        \* g_hres.total, 0 once the cycle has read it last
  critical,     \* g_hres.critical, FALSE once the cycle has read it last
  failStreak,   \* fail_streak, kept up to FailLimit
  alertStreak,  \* alert_streak, kept up to AlertLimit
  justAlert,    \* just_alert
  cur,          \* action_kind with target, g_act_verb, g_act_command
  curAi,        \* ai_selected
  latch,        \* g_latch_kind with g_latch_target, _verb, _command
  latchAi,      \* g_latch_ai
  actionState,  \* state.action_state
  aiAct,        \* g_ai_action with g_ai_target, g_ai_command; NoAct when it
                \* is "none" or when g_ai_valid = 0
  llmTick,      \* llm_tick
  hitPage,      \* long_page, a local of the tick that acts
  hitShown,     \* long_shown, likewise
  boot,         \* the BOOT button: press_ms and long_fired
  \* shared with the key thread
  alert, showAlert, muted, page,
  confirm,      \* g_confirm
  longPage,     \* g_ok_long_page
  longShown,    \* g_ok_long_shown
  pending,      \* g_key_long_ok - key_long_seen
  \* key thread
  keys,         \* down[] and lng[] of each key
  kpc           \* "bump" between the snapshot and g_key_long_ok++

health   == <<online, score, critical, failStreak>>
alarm    == <<alertStreak, justAlert>>
action   == <<cur, curAi, latch, latchAi>>
advice   == <<aiAct, llmTick>>
screenVs == <<alert, showAlert, muted, page, confirm>>
longVs   == <<longPage, longShown, pending>>
keyVs    == <<keys, kpc>>
hit      == <<hitPage, hitShown>>
vars == <<pc, health, alarm, action, actionState, advice, hit, boot,
          screenVs, longVs, keyVs>>

FailLimit  == 3   \* only fail_streak >= 3 is ever tested
AlertLimit == 2   \* only alert_streak >= 2 is ever tested
ActionPage == Pages - 1    \* page 5 of 0 .. 5

UpTo(limit, n) == IF n > limit THEN limit ELSE n

NoHit == hitPage' = 0 /\ hitShown' = FALSE

HealthResults == {r \in Scores \X BOOLEAN : r[2] => r[1] <= CritCap}

Init ==
  /\ pc = "collect"
  /\ online = FALSE /\ score = 0 /\ critical = FALSE /\ failStreak = 0
  /\ alertStreak = 0 /\ justAlert = FALSE
  /\ cur = NoAct /\ curAi = FALSE /\ latch = NoAct /\ latchAi = FALSE
  /\ actionState = "WAITING"            \* demo_state
  /\ aiAct = NoAct /\ llmTick = 0
  /\ hitPage = 0 /\ hitShown = FALSE
  /\ boot = "up"
  /\ alert = FALSE /\ showAlert = FALSE /\ muted = FALSE /\ page = 0
  /\ confirm = FALSE
  /\ longPage = 0 /\ longShown = FALSE /\ pending = 0
  /\ keys = [k \in Keys |-> "up"] /\ kpc = "scan"

-----------------------------------------------------------------------------
(* Collection and the alert *)

CollectOk ==
  /\ pc = "collect"
  /\ \E r \in HealthResults : score' = r[1] /\ critical' = r[2]
  /\ online' = TRUE
  /\ failStreak' = 0
  /\ pc' = "assess"
  /\ UNCHANGED <<alarm, action, actionState, advice, hit, boot,
                 screenVs, longVs, keyVs>>

\* velaops_health_score of an offline snapshot is 0 and critical.
CollectFail ==
  /\ pc = "collect"
  /\ online' = FALSE /\ score' = 0 /\ critical' = TRUE
  /\ failStreak' = UpTo(FailLimit, failStreak + 1)
  /\ pc' = "assess"
  /\ UNCHANGED <<alarm, action, actionState, advice, hit, boot,
                 screenVs, longVs, keyVs>>

Crit == IF online THEN critical \/ score < AlertScore
                  ELSE failStreak >= FailLimit

Streak == IF Crit THEN UpTo(AlertLimit, alertStreak + 1) ELSE 0

Raises_CriticalOnly == ~alert /\ Crit /\ (~online \/ critical) /\ Streak >= AlertLimit
Raises == /\ ~alert
          /\ \/ Crit /\ (~online \/ critical)
             \/ Streak >= AlertLimit

RuleChoices == IF online THEN RuleActs \cup {NoAct} ELSE {NoAct}

\* No new alert: only the streak and the rule's proposal move.
AssessQuiet ==
  /\ pc = "assess" /\ ~Raises
  /\ alertStreak' = Streak /\ justAlert' = FALSE
  /\ cur' \in RuleChoices /\ curAi' = FALSE
  /\ pc' = "recover"
  /\ UNCHANGED <<health, latch, latchAi, actionState, advice, hit, boot,
                 screenVs, longVs, keyVs>>

\* The unlocked writes that start an alert, the latch among them.
RaiseAlert ==
  /\ pc = "assess" /\ Raises
  /\ alertStreak' = Streak /\ justAlert' = TRUE
  /\ cur' \in RuleChoices /\ curAi' = FALSE
  /\ latch' = cur' /\ latchAi' = FALSE
  /\ alert' = TRUE /\ showAlert' = TRUE /\ muted' = FALSE
  /\ confirm' = FALSE
  /\ aiAct' = NoAct
  /\ pc' = "recover"
  /\ UNCHANGED <<health, actionState, llmTick, hit, boot, page,
                 longVs, keyVs>>

Recovers_Above == alert /\ score > RecoverScore /\ ~critical
Recovers == alert /\ score >= RecoverScore /\ ~critical

Recover ==
  /\ pc = "recover" /\ Recovers
  /\ alert' = FALSE /\ showAlert' = FALSE /\ muted' = FALSE
  /\ confirm' = FALSE
  /\ latch' = NoAct /\ latchAi' = FALSE
  /\ actionState' = "IDLE"
  /\ pc' = "select"
  /\ UNCHANGED <<health, alarm, cur, curAi, advice, hit, boot, page,
                 longVs, keyVs>>

NoRecovery ==
  /\ pc = "recover" /\ ~Recovers
  /\ pc' = "select"
  /\ UNCHANGED <<health, alarm, action, actionState, advice, hit, boot,
                 screenVs, longVs, keyVs>>

-----------------------------------------------------------------------------
(* The action on offer *)

AiSelects_Unchecked == online /\ aiAct # NoAct
AiSelects == online /\ aiAct \in Allowed

Latched_FirstCycle == alert /\ justAlert
Latched == alert /\ actionState = "WAITING"

\* While an alert waits, the latch decides: advice replaces it, the rule's
\* newer proposal does not.
Select ==
  /\ pc = "select"
  /\ IF Latched
     THEN IF AiSelects
          THEN latch' = aiAct /\ latchAi' = TRUE /\ cur' = aiAct /\ curAi' = TRUE
          ELSE cur' = latch /\ curAi' = latchAi /\ UNCHANGED <<latch, latchAi>>
     ELSE /\ cur' = IF AiSelects THEN aiAct ELSE cur
          /\ curAi' = AiSelects
          /\ UNCHANGED <<latch, latchAi>>
  /\ page' = IF justAlert THEN ActionPage ELSE page
  /\ actionState' = IF alert /\ justAlert THEN "WAITING" ELSE actionState
  /\ score' = 0 /\ critical' = FALSE
  /\ pc' = "ticks"
  /\ UNCHANGED <<online, failStreak, alarm, advice, hit, boot, alert,
                 showAlert, muted, confirm, longVs, keyVs>>

-----------------------------------------------------------------------------
(* The interactive ticks *)

\* One tick takes at most one long press of the keys, samples BOOT, and acts
\* when either asks for it.  An unopened device leaves pressed = false, which
\* the loop reads as a button held down.
BootEvents == {"press", "long", "short", "release", "idle"}
BootDown   == {<<"up", "down", "press">>, <<"down", "fired", "long">>}
BootUp     == {<<"down", "up", "short">>, <<"down", "up", "release">>,
               <<"fired", "up", "release">>}
BootStays  == {<<b, b, "idle">> : b \in {"up", "down", "fired"}}
BootMoves  == CASE Boot = "used"     -> BootDown \cup BootUp \cup BootStays
                [] Boot = "unused"   -> BootStays
                [] Boot = "unopened" -> BootDown \cup (BootStays \ {<<"up", "up", "idle">>})

BootDismisses(e) == e = "short" /\ showAlert

\* key_long_seen++: the press acted on is no longer pending.
Remaining_Kept == pending
Remaining == IF pending > 0 THEN pending - 1 ELSE 0

TakesPress(e) == pending > 0 \/ e = "long"

Tick(e) ==
  /\ pc = "ticks"
  /\ \E m \in BootMoves : m[1] = boot /\ m[3] = e /\ boot' = m[2]
  /\ pending' = Remaining
  /\ pc' = IF TakesPress(e) THEN "act" ELSE "ticks"
  /\ CASE e = "long" -> hitPage' = page /\ hitShown' = showAlert
       [] e # "long" /\ pending > 0 -> hitPage' = longPage /\ hitShown' = longShown
       [] OTHER -> NoHit
  /\ showAlert' = (showAlert /\ e # "short")
  /\ muted' = (muted \/ BootDismisses(e))
  /\ page' = IF e = "short" /\ ~showAlert THEN (page + 1) % Pages ELSE page
  /\ UNCHANGED <<health, alarm, action, actionState, advice, alert, confirm,
                 longPage, longShown, keyVs>>

CanAct_NoAlert == cur # NoAct /\ actionState = "WAITING"
CanAct == alert /\ cur # NoAct /\ actionState = "WAITING"

NeedsConfirm == /\ ~confirm
                /\ \/ ~hitShown /\ hitPage # ActionPage
                   \/ cur \in ExecActs /\ hitShown

\* g_confirm and show_alert are written without the lock, the confirmation is
\* drawn under it.
AskConfirm ==
  /\ pc = "act" /\ CanAct /\ NeedsConfirm
  /\ confirm' = TRUE /\ showAlert' = FALSE
  /\ NoHit
  /\ pc' = "draw"
  /\ UNCHANGED <<health, alarm, action, actionState, advice, boot,
                 alert, muted, page, longVs, keyVs>>

DrawConfirm ==
  /\ pc = "draw"
  /\ pc' = "ticks"
  /\ UNCHANGED <<health, alarm, action, actionState, advice, hit, boot,
                 screenVs, longVs, keyVs>>

Approve ==
  /\ pc = "act" /\ CanAct /\ ~NeedsConfirm
  /\ confirm' = FALSE
  /\ actionState' = "RUNNING"
  /\ NoHit
  /\ pc' = "running"
  /\ UNCHANGED <<health, alarm, action, advice, boot, alert, showAlert,
                 muted, page, longVs, keyVs>>

Dismiss ==
  /\ pc = "act" /\ ~CanAct /\ alert
  /\ confirm' = FALSE /\ showAlert' = FALSE /\ muted' = TRUE
  /\ NoHit
  /\ pc' = "ticks"
  /\ UNCHANGED <<health, alarm, action, actionState, advice, boot, alert,
                 page, longVs, keyVs>>

IgnorePress ==
  /\ pc = "act" /\ ~alert
  /\ NoHit
  /\ pc' = "ticks"
  /\ UNCHANGED <<health, alarm, action, actionState, advice, boot,
                 screenVs, longVs, keyVs>>

\* The command returned rc; the host was collected again to verify the effect.
\* A verified kill or unit action ends the alert, a verified command does not.
Ends_AnyAction(rc, fixed) == rc = 0 /\ fixed
Ends(rc, fixed) == rc = 0 /\ fixed /\ cur \notin ExecActs

Verified(rc, fixed) ==
  /\ pc = "running"
  /\ cur \in ExecActs => fixed = (rc = 0)
  /\ online' = TRUE
  /\ actionState' = IF rc = 0 /\ fixed THEN "DONE" ELSE "FAILED"
  /\ IF Ends(rc, fixed)
     THEN /\ alert' = FALSE /\ showAlert' = FALSE /\ muted' = FALSE
          /\ confirm' = FALSE /\ alertStreak' = 0
          /\ latch' = NoAct /\ latchAi' = FALSE
     ELSE UNCHANGED <<alert, showAlert, muted, confirm, alertStreak, latch,
                      latchAi>>
  /\ page' = ActionPage
  /\ pc' = "ticks"
  /\ UNCHANGED <<score, critical, failStreak, justAlert, cur, curAi, advice, hit, boot,
                 longVs, keyVs>>

\* The second collection failed: g_hres keeps the old result.
Unverified ==
  /\ pc = "running"
  /\ online' = FALSE
  /\ actionState' = "FAILED"
  /\ page' = ActionPage
  /\ pc' = "ticks"
  /\ UNCHANGED <<score, critical, failStreak, alarm, action, advice, hit,
                 boot, alert, showAlert, muted, confirm, longVs, keyVs>>

-----------------------------------------------------------------------------
(* Advice *)

CallsModel == (justAlert \/ llmTick = 0) /\ online /\ ~confirm

TickDown == IF llmTick > 0 THEN llmTick - 1 ELSE llmTick

StartAdvice ==
  /\ pc = "ticks" /\ CallsModel
  /\ llmTick' = LlmPeriod
  /\ aiAct' = NoAct
  /\ pc' = "ai"
  /\ UNCHANGED <<health, alarm, action, actionState, hit, boot,
                 screenVs, longVs, keyVs>>

NextCycle ==
  /\ pc = "ticks" /\ ~CallsModel
  /\ llmTick' = TickDown
  /\ pc' = "collect"
  /\ UNCHANGED <<health, alarm, action, actionState, aiAct, hit,
                 boot, screenVs, longVs, keyVs>>

\* No key, no answer, or an error of the call.
AdviceFails ==
  /\ pc = "ai"
  /\ llmTick' = TickDown
  /\ pc' = "collect"
  /\ UNCHANGED <<health, alarm, action, actionState, aiAct, hit,
                 boot, screenVs, longVs, keyVs>>

\* parse_ai_action clears the globals first: an answer without an action, like
\* the action "none", leaves nothing to select.
AdviceArrives ==
  /\ pc = "ai"
  /\ aiAct' \in Acts \cup {NoAct}
  /\ llmTick' = TickDown
  /\ pc' = "collect"
  /\ UNCHANGED <<health, alarm, action, actionState, hit, boot, screenVs,
                 longVs, keyVs>>

-----------------------------------------------------------------------------
(* The key thread *)

OkKeys == {2, 3}     \* BACK and OK run the same code

KeyDown(k) ==
  /\ kpc = "scan" /\ keys[k] = "up"
  /\ keys' = [keys EXCEPT ![k] = "down"]
  /\ muted' = (muted \/ (k \in OkKeys /\ alert))
  /\ UNCHANGED <<pc, health, alarm, action, actionState, advice, hit, boot,
                 alert, showAlert, page, confirm, longVs, kpc>>

\* Released after less than 1 s.
Cancels(k)   == confirm /\ k \in OkKeys
Turns(k)     == ~confirm /\ k \notin OkKeys
Silences(k)  == ~confirm /\ k \in OkKeys /\ showAlert
GoesHome(k)  == ~confirm /\ k \in OkKeys /\ ~showAlert

KeyShort(k) ==
  /\ kpc = "scan" /\ keys[k] = "down"
  /\ keys' = [keys EXCEPT ![k] = "up"]
  /\ confirm' = (confirm /\ ~Cancels(k))
  /\ showAlert' = (showAlert /\ ~(Cancels(k) \/ Turns(k) \/ Silences(k)))
  /\ muted' = (muted \/ Silences(k))
  /\ page' = CASE Turns(k) /\ k = 0 -> (page + Pages - 1) % Pages
               [] Turns(k) /\ k = 1 -> (page + 1) % Pages
               [] GoesHome(k)       -> 0
               [] OTHER             -> page
  /\ UNCHANGED <<pc, health, alarm, action, actionState, advice, hit, boot,
                 alert, longVs, kpc>>

\* Held for 2 s: the snapshot under the lock, g_key_long_ok++ after it.
KeyHold(k) ==
  /\ kpc = "scan" /\ keys[k] = "down"
  /\ keys' = [keys EXCEPT ![k] = "held"]
  /\ IF k \in OkKeys
     THEN /\ pending < MaxPending
          /\ longPage' = page /\ longShown' = showAlert
          /\ kpc' = "bump"
     ELSE UNCHANGED <<longPage, longShown, kpc>>
  /\ UNCHANGED <<pc, health, alarm, action, actionState, advice, hit, boot,
                 screenVs, pending>>

KeyBump ==
  /\ kpc = "bump"
  /\ pending' = pending + 1
  /\ kpc' = "scan"
  /\ UNCHANGED <<pc, health, alarm, action, actionState, advice, hit, boot,
                 screenVs, longPage, longShown, keys>>

\* Released after 1 s or more: no handler runs.
KeyUp(k) ==
  /\ kpc = "scan" /\ keys[k] # "up"
  /\ keys' = [keys EXCEPT ![k] = "up"]
  /\ UNCHANGED <<pc, health, alarm, action, actionState, advice, hit, boot,
                 screenVs, longVs, kpc>>

-----------------------------------------------------------------------------
Cycle == \/ CollectOk \/ CollectFail \/ AssessQuiet \/ RaiseAlert
         \/ Recover \/ NoRecovery \/ Select
         \/ StartAdvice \/ NextCycle \/ AdviceFails \/ AdviceArrives

Decide == \/ AskConfirm \/ DrawConfirm \/ Approve \/ Dismiss \/ IgnorePress
          \/ (\E rc \in {0, -1, -2}, fixed \in BOOLEAN : Verified(rc, fixed))
          \/ Unverified

Main == Cycle \/ Decide \/ \E e \in BootEvents : Tick(e)

KeyThread == KeyBump \/ \E k \in Keys : KeyDown(k) \/ KeyShort(k) \/ KeyHold(k)
                                        \/ KeyUp(k)

Next == Main \/ KeyThread

\* The 250 ticks end however often a press is taken between them (SF), every
\* call of the cycle returns and the key thread finishes what it started (WF).
Fairness == /\ WF_vars(Cycle \/ Decide)
            /\ SF_vars(StartAdvice \/ NextCycle)
            /\ WF_vars(KeyBump)

Spec == Init /\ [][Next]_vars
FairSpec == Spec /\ Fairness

-----------------------------------------------------------------------------
(* Properties *)

FlagsTypeOK ==
  /\ online \in BOOLEAN /\ critical \in BOOLEAN /\ justAlert \in BOOLEAN
  /\ curAi \in BOOLEAN /\ latchAi \in BOOLEAN /\ hitShown \in BOOLEAN
  /\ alert \in BOOLEAN /\ showAlert \in BOOLEAN /\ muted \in BOOLEAN
  /\ confirm \in BOOLEAN /\ longShown \in BOOLEAN

NamesTypeOK ==
  /\ pc \in {"collect", "assess", "recover", "select", "ticks", "act", "draw",
             "running", "ai"}
  /\ actionState \in {"WAITING", "RUNNING", "DONE", "FAILED", "IDLE"}
  /\ boot \in {"up", "down", "fired"}
  /\ keys \in [Keys -> {"up", "down", "held"}] /\ kpc \in {"scan", "bump"}
  /\ cur \in Acts \cup {NoAct} /\ latch \in Acts \cup {NoAct}
  /\ aiAct \in Acts \cup {NoAct}

CountsTypeOK ==
  /\ score \in Scores \cup {0}
  /\ failStreak \in 0 .. FailLimit /\ alertStreak \in 0 .. AlertLimit
  /\ llmTick \in 0 .. LlmPeriod
  /\ pending \in 0 .. MaxPending /\ (kpc = "bump" => pending < MaxPending)

PagesTypeOK ==
  page \in 0 .. Pages - 1 /\ longPage \in 0 .. Pages - 1 /\ hitPage \in 0 .. Pages - 1

\* Every variable stays in the range the code gives it; the advice counter of
\* the loop never goes below zero.
TypeOK == FlagsTypeOK /\ NamesTypeOK /\ CountsTypeOK /\ PagesTypeOK

\* What a long press would execute is what the alert latched (pitfalls 11):
\* the rule's proposal of a later cycle never slips past the latch.
ExecutesTheLatch ==
  /\ pc \in {"ticks", "act", "draw"} /\ alert /\ actionState = "WAITING"
       => cur = latch /\ curAi = latchAi
  /\ pc = "running" => alert /\ cur = latch /\ cur # NoAct

\* Outside an alert no confirmation is armed, no overlay is up and nothing is
\* latched, whichever thread ended it: a later long press finds nothing.
QuietMeansDisarmed == ~alert => ~confirm /\ ~showAlert /\ latch = NoAct

\* Whatever is executed passed the local checks: it is the rule's own proposal
\* or advice inside the whitelists and outside the blacklist.
RunsOnlyVetted ==
  pc = "running" => cur \in IF curAi THEN Allowed ELSE RuleActs

\* A confirmation never waits behind a call of the model (pitfalls 12): the
\* call starts only with none armed, and none is armed while it lasts.
NoConfirmDuringAdvice == pc = "ai" => ~confirm

\* The inductive form of the four invariants above: an action keeps its
\* origin on its way into the latch, an alert starts without advice, and what
\* runs is still the latch of an alert.
Origin(a, ai) == a \in IF ai THEN Allowed ELSE RuleActs \cup {NoAct}

LatchInv ==
  /\ ExecutesTheLatch /\ QuietMeansDisarmed /\ NoConfirmDuringAdvice
  /\ Origin(cur, curAi) /\ Origin(latch, latchAi)
  /\ pc \in {"recover", "select"} => ~curAi
  /\ pc \in {"recover", "select"} /\ justAlert =>
       /\ aiAct = NoAct
       /\ alert => cur = latch /\ ~latchAi
  /\ pc = "running" => actionState = "RUNNING" /\ curAi = latchAi

\* While an alert waits, only vetted advice replaces the latched action.
LatchMovesByAdvice ==
  [][alert /\ alert' /\ latch' # latch => latchAi' /\ latch' \in Allowed]_vars

\* The alert ends with a healthy score or a verified kill or unit action,
\* never by the operator's mute, cancel or dismissal.
AlertEndsByHealth ==
  [][alert /\ ~alert' =>
       \/ score >= RecoverScore /\ ~critical
       \/ pc = "running" /\ actionState' = "DONE" /\ cur \notin ExecActs]_vars

\* A host that is critical in every cycle is in alert again and again,
\* however often the operator clears it.
CriticalRaises ==
  <>[](pc = "assess" => online /\ critical) => []<>alert

\* A host that stays below the alert score without a critical item is in
\* alert again and again: two cycles in a row are enough.
LowScoreRaises ==
  <>[](pc = "assess" => online /\ ~critical /\ score < AlertScore) => []<>alert

\* Both: no way of being sick goes unnoticed.
SickRaises == CriticalRaises /\ LowScoreRaises

\* A host that is back at the recovery score leaves the alert for good.
HealthyClears ==
  <>[](pc \in {"assess", "recover"} =>
         online /\ ~critical /\ score >= RecoverScore /\ score >= AlertScore)
    => <>[]~alert
=============================================================================
