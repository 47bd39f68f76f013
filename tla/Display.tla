------------------------------ MODULE Display ------------------------------
(***************************************************************************)
(* Monitor with the panel the operator reads: which view was drawn last,   *)
(* which action it names, and the text kept in g_confirm_head/detail.  The *)
(* LCD is drawn by both threads under g_ui_lock.  The fields of page 5     *)
(* point into buffers of the loop: a page drawn in the middle of a cycle   *)
(* may show the next proposal early, and the end of the cycle redraws it.  *)
(***************************************************************************)
EXTENDS Monitor

VARIABLES
  screen,       \* <<view, action it names>> of the last lcd_flush
  published,    \* state.action_service and state.ai_command of page 5
  confirmFor    \* the action named by g_confirm_head and g_confirm_detail

drawn   == <<screen, published, confirmFor>>
dvars   == <<vars, drawn>>

Views   == {"page", "action", "alert", "confirm"}
Screens == Views \X (Acts \cup {NoAct})

PageView(p, a) == IF p = ActionPage THEN <<"action", a>> ELSE <<"page", NoAct>>

DInit ==
  /\ Init
  /\ screen = <<"page", NoAct>>
  /\ published = NoAct /\ confirmFor = NoAct

-----------------------------------------------------------------------------
(* Main thread *)

DSilent ==
  /\ \/ CollectOk \/ CollectFail \/ AssessQuiet \/ Recover \/ NoRecovery
     \/ Dismiss \/ IgnorePress \/ StartAdvice \/ NextCycle \/ AdviceFails
  /\ UNCHANGED drawn

\* The overlay's text names a unit or a process; of a command it only says
\* that there is one.
OverlayView(a) == <<"alert", IF a \in ExecActs THEN NoAct ELSE a>>

DRaise ==
  /\ RaiseAlert
  /\ screen' = OverlayView(cur')
  /\ UNCHANGED <<published, confirmFor>>

\* The action is published for page 5 while the alert waits, then the cycle
\* draws the confirmation, the overlay or the page, in this order.
Publishes_FirstCycle == alert /\ justAlert
Publishes == alert /\ (justAlert \/ actionState = "WAITING")

DSelect ==
  /\ Select
  /\ published' = IF Publishes THEN cur' ELSE published
  /\ screen' = CASE confirm -> <<"confirm", confirmFor>>
                 [] ~confirm /\ alert /\ showAlert -> OverlayView(cur')
                 [] OTHER -> PageView(page', published')
  /\ UNCHANGED confirmFor

DTick(e) ==
  /\ Tick(e)
  /\ screen' = IF e = "short" THEN PageView(page', published) ELSE screen
  /\ UNCHANGED <<published, confirmFor>>

\* Every 25th tick redraws a confirmation or an overlay that is up.
Blink ==
  /\ pc = "ticks"
  /\ confirm \/ (alert /\ showAlert)
  /\ screen' = IF confirm THEN <<"confirm", confirmFor>> ELSE OverlayView(cur)
  /\ UNCHANGED <<vars, published, confirmFor>>

DAskConfirm ==
  /\ AskConfirm
  /\ confirmFor' = cur
  /\ UNCHANGED <<screen, published>>

DDrawConfirm ==
  /\ DrawConfirm
  /\ screen' = <<"confirm", confirmFor>>
  /\ UNCHANGED <<published, confirmFor>>

\* RUNNING, and later the result, are drawn as page 5.
DRun ==
  /\ \/ Approve \/ Unverified
     \/ \E rc \in {0, -1, -2}, fixed \in BOOLEAN : Verified(rc, fixed)
  /\ screen' = <<"action", published>>
  /\ UNCHANGED <<published, confirmFor>>

DAdvice ==
  /\ AdviceArrives
  /\ UNCHANGED drawn

-----------------------------------------------------------------------------
(* Key thread *)

\* With a confirmation up, UP and DOWN draw nothing.
KeyDraws(k) == Cancels(k) \/ ~confirm

DKeyShort(k) ==
  /\ KeyShort(k)
  /\ screen' = IF KeyDraws(k) THEN PageView(page', published) ELSE screen
  /\ UNCHANGED <<published, confirmFor>>

DKeyHold(k) == KeyHold(k) /\ UNCHANGED drawn

DKeySilent ==
  /\ KeyBump \/ \E k \in Keys : KeyDown(k) \/ KeyUp(k)
  /\ UNCHANGED drawn

\* Every step but the two that begin or take a long press.
DOther ==
  \/ DSilent \/ DRaise \/ DSelect \/ Blink
  \/ DAskConfirm \/ DDrawConfirm \/ DRun \/ DAdvice
  \/ (\E k \in Keys : DKeyShort(k)) \/ DKeySilent

DNext == \/ DOther
         \/ \E e \in BootEvents : DTick(e)
         \/ \E k \in Keys : DKeyHold(k)

DSpec == DInit /\ [][DNext]_dvars

-----------------------------------------------------------------------------
(* Properties *)

\* The panel's own variables stay in their ranges.
DTypeOK ==
  /\ screen \in Screens
  /\ published \in Acts \cup {NoAct} /\ confirmFor \in Acts \cup {NoAct}

\* During the interactive ticks of a waiting alert, an overlay or a page 5 on
\* the panel names the action a long press would execute, whichever thread
\* drew it last; only an overlay over a command names nothing.
PanelOffersTheLatch ==
  /\ pc \in {"ticks", "act"} /\ alert /\ actionState = "WAITING"
  => /\ screen[1] = "action" => screen[2] = latch
     /\ screen[1] = "alert"  => screen = OverlayView(latch)

\* The type invariant of the panel's variables with PanelOffersTheLatch.
DisplayInv == DTypeOK /\ PanelOffersTheLatch
=============================================================================
