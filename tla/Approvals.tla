----------------------------- MODULE Approvals -----------------------------
(***************************************************************************)
(* Display with history variables that record what the operator saw and    *)
(* touched: what the screen named at the last long press, the long presses *)
(* nothing has been done about yet, and the press the main thread is       *)
(* acting on.  They say what the panel named when an executed action was   *)
(* approved, by which key, and that a press approves once.                 *)
(***************************************************************************)
EXTENDS Display

VARIABLES
  saw,          \* the last unspent long press of an OK key, or NoPress
  unspent,      \* long presses of OK keys not acted on
  bootHeld,     \* the operator holds BOOT and it has not been acted on
  grant         \* the press being acted on, or NoPress

history == <<saw, unspent, bootHeld, grant>>

BootButton == -1
Nobody     == -2

\* A press: its key, and the action the screen named.
Press(key) == [on |-> screen[2], key |-> key]
NoPress    == [on |-> NoAct, key |-> Nobody]

AInit ==
  /\ DInit
  /\ saw = NoPress /\ grant = NoPress
  /\ unspent = 0 /\ bootHeld = FALSE

\* A press lasts until what it led to is over.
Lasts == grant' = IF pc' \in {"act", "running"} THEN grant ELSE NoPress

AOther == DOther /\ Lasts /\ UNCHANGED <<saw, unspent, bootHeld>>

\* A key thread that notes the panel with the snapshot of page and overlay.
AKeyHold(k) ==
  /\ DKeyHold(k)
  /\ IF k \in OkKeys THEN saw' = Press(k) /\ unspent' = unspent + 1
                     ELSE UNCHANGED <<saw, unspent>>
  /\ Lasts
  /\ UNCHANGED bootHeld

\* The tick acts on a long press of BOOT if BOOT is held, on one of an OK key
\* if one is unspent, and spends what it acts on.
ATick(e) ==
  /\ DTick(e)
  /\ grant' = CASE e = "long" /\ bootHeld                     -> Press(BootButton)
                [] e # "long" /\ TakesPress(e) /\ unspent > 0 -> saw
                [] OTHER                                      -> NoPress
  /\ unspent' = IF pending > 0 /\ unspent > 0 THEN unspent - 1 ELSE unspent
  /\ bootHeld' = CASE e = "press" -> Boot = "used"
                   [] e = "idle"  -> bootHeld
                   [] OTHER       -> FALSE
  /\ saw' = IF unspent' = 0 THEN NoPress ELSE saw

ANext == \/ AOther
         \/ \E e \in BootEvents : ATick(e)
         \/ \E k \in Keys : AKeyHold(k)

ASpec == AInit /\ [][ANext]_<<dvars, history>>

-----------------------------------------------------------------------------
(* Properties *)

\* network-ssh-ai.md: a command must be shown before it is confirmed.  The
\* panel the operator pressed on would then name the command that runs.
ExecWasShown == pc = "running" /\ cur \in ExecActs => grant.on = cur

\* README.md: every action needs a long press.  Each run has one of its own:
\* a press made before it that no earlier step of the loop has acted on.
PressedBeforeRun == pc = "running" => grant.key # Nobody
=============================================================================
