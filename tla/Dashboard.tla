----------------------------- MODULE Dashboard -----------------------------
(***************************************************************************)
(* The dashboard of the archived proxy application (`velaops monitor`,     *)
(* archive/2026-09-20/app/hello_app): the loop that reads the server and   *)
(* raises incidents, the thread of the BOOT key, the guarded repairs of    *)
(* the agent and of the console, the questions to the agent and its hooks. *)
(* They speak through flag files under /tmp, which nobody locks: a look at *)
(* a file and each change of one are steps of their own, except the popup  *)
(* file, which only a screen reads.                                        *)
(*                                                                         *)
(* Durations are left out: a wait ends at any time after it began, and so  *)
(* does a hold of the key.  What the proxy answers is an input: no answer, *)
(* or the set of troubles the server shows.  Drawing is left out, with the *)
(* page, the LED and the state of the link that only choose what is drawn, *)
(* and so is a file that cannot be created, except the ask file, whose     *)
(* failure the code handles.  The questions one reading may lead to, the   *)
(* incident's and the one /tmp/velaops-diagnose asks for, are one.         *)
(***************************************************************************)
EXTENDS Naturals, Sequences, SequencesExt

CONSTANTS
  Conditions,    \* sets of troubles a reading of the server may show
  AgentReplies,  \* what the agent may say on the cli channel
  FailureThreshold, RecoveryThreshold,  \* readings that open and close an incident (2, 2)
  VerifyTries,   \* readings after a restart (5)
  Message,       \* the text of a message from the agent
  Repairers,     \* who may start a repair: the tool of the agent, the console
  Askers, Loop,  \* who asks the agent: `velaops diagnose-llm`, and the monitor
  Off, NoAnswer

ASSUME DashboardAssumption ==
  /\ FailureThreshold \in Nat \ {0} /\ RecoveryThreshold \in Nat \ {0}
  /\ VerifyTries \in Nat \ {0}
  /\ NoAnswer \notin Conditions /\ Loop \notin Askers

VARIABLES
  loop,      \* where the monitor is
  pause,     \* g_llm_pause_until is ahead
  tracker,   \* velaops_incident_tracker_t
  alarm,     \* the text of the box on the screen, Off without one
  repairing, \* was_repair
  popup,     \* /tmp/velaops-popup.txt
  done, busy, repairBusy, approve,  \* the flag files
  key,       \* the key thread: "up", "down", "approved"
  repair,    \* velaops_repair_demo_service, for each who runs it
  asking,    \* velaops_queue_llm_diagnosis, likewise
  hold,      \* history: the repairs since whose prompt a hold has ended
  past       \* history: the last two readings, whether the agent owes an
             \* answer, whether the monitor was about to remove the busy
             \* file when it was last made

screen == <<alarm, repairing, popup>>
files == <<done, busy, repairBusy, approve>>
vars == <<loop, pause, tracker, screen, files, key, repair, asking, hold, past>>

-----------------------------------------------------------------------------
(* Reading the server *)

Troubles == <<"service", "port", "disk", "memory", "cpu">>  \* in the order of the summary

Verdict(o) == CASE {"service", "port"} \cap o # {} -> "critical"
                [] o # {} /\ {"service", "port"} \cap o = {} -> "warning"
                [] OTHER -> "normal"

Summary(o) == LET shown == SelectSeq(Troubles, LAMBDA t : t \in o)
              IN  IF shown = <<>> THEN "resource" ELSE Head(shown)

\* A request fails when the configuration, the time, the random source or the
\* tunnel does, when the proxy refuses, and when its evidence does not parse.
PostRequest == Conditions \cup {NoAnswer}

Opened(t) == [t EXCEPT !.state = "open", !.successes = 0]

StartFailure(t) ==
  LET s == [t EXCEPT !.failures = 1, !.successes = 0]
  IN  IF FailureThreshold = 1 THEN Opened(s) ELSE [s EXCEPT !.state = "suspected"]

StillBad_KeepsCount(t) == t

StillBad(t) == [t EXCEPT !.successes = 0]

\* velaops_incident_tracker_apply for a reading that is unhealthy, and for one that is not.
Worse(t) ==
  CASE t.state \in {"healthy", "recovered"} -> StartFailure(t)
    [] t.state = "suspected" ->
         LET s == [t EXCEPT !.failures = @ + 1]
         IN  IF s.failures >= FailureThreshold THEN Opened(s) ELSE s
    [] t.state = "open" -> StillBad(t)

Enough(successes) == successes >= RecoveryThreshold

Better(t) ==
  CASE t.state = "healthy" -> t
    [] t.state = "suspected" -> [t EXCEPT !.state = "healthy", !.failures = 0]
    [] t.state = "recovered" -> [t EXCEPT !.state = "healthy", !.successes = 0]
    [] t.state = "open" ->
         LET s == [t EXCEPT !.successes = @ + 1]
         IN  IF Enough(s.successes)
             THEN [s EXCEPT !.state = "recovered", !.failures = 0] ELSE s

Apply(o) == IF Verdict(o) = "normal" THEN Better(tracker) ELSE Worse(tracker)

\* OPENED or RECOVERED; a diagnosis that cannot be encoded drops the event.
Event(t, encoded) ==
  IF encoded /\ t.state # tracker.state /\ t.state \in {"open", "recovered"}
  THEN t.state ELSE "none"

-----------------------------------------------------------------------------
(* Asking the agent: velaops_queue_llm_diagnosis *)

\* The question is written; from here on the agent may answer it.
Asks(a) ==
  /\ asking' = [asking EXCEPT ![a] = "asked"]
  /\ past' = [past EXCEPT !.owed = TRUE]

ForgetReply_Not(a) ==
  /\ asking[a] = "asked" /\ asking' = [asking EXCEPT ![a] = "cleared"]
  /\ UNCHANGED <<loop, pause, tracker, screen, files, key, repair, hold, past>>

\* unlink(VELAOPS_LLM_DONE_PATH)
ForgetReply(a) ==
  /\ asking[a] = "asked" /\ asking' = [asking EXCEPT ![a] = "cleared"]
  /\ done' = FALSE
  /\ UNCHANGED <<loop, pause, tracker, screen, busy, repairBusy, approve, key, repair, hold, past>>

\* The monitor has made up its mind to remove the busy file.
Removing == loop \in {"looked", "answered", "ending"}

MarkBusy(a) ==
  /\ asking[a] = "cleared" /\ asking' = [asking EXCEPT ![a] = "marked"]
  /\ busy' = TRUE
  /\ past' = [past EXCEPT !.raced = Removing]
  /\ UNCHANGED <<loop, pause, tracker, screen, done, repairBusy, approve, key, repair, hold>>

SetPause(a) ==
  /\ asking[a] = "marked" /\ asking' = [asking EXCEPT ![a] = "no"]
  /\ pause' = TRUE
  /\ UNCHANGED <<loop, tracker, screen, files, key, repair, hold, past>>

Queue(a) == ForgetReply(a) \/ MarkBusy(a) \/ SetPause(a)

\* `velaops diagnose-llm`, after a reading of its own.
DiagnoseLlm(a) ==
  /\ asking[a] = "no" /\ \E o \in PostRequest : o # NoAnswer
  /\ Asks(a)
  /\ UNCHANGED <<loop, pause, tracker, screen, files, key, repair, hold>>

PauseOver ==
  /\ pause /\ pause' = FALSE
  /\ UNCHANGED <<loop, tracker, screen, files, key, repair, asking, hold, past>>

-----------------------------------------------------------------------------
(* The monitor loop *)

\* The end of a pass: the popup file is consumed, then the end of a repair
\* takes the box off the screen.
Finish(box) ==
  /\ popup' = Off
  /\ alarm' = IF repairing /\ ~repairBusy THEN Off ELSE IF popup # Off THEN popup ELSE box
  /\ repairing' = repairBusy

PassEnds == loop' = "free" /\ Finish(alarm)

Goes(to) ==
  /\ loop' = to
  /\ UNCHANGED <<pause, tracker, screen, files, key, repair, asking, hold, past>>

\* A pass before the next reading is due.
Pass ==
  /\ loop = "free" /\ PassEnds
  /\ UNCHANGED <<pause, tracker, files, key, repair, asking, hold, past>>

\* The reading is due: is there a question, or a repair?
LookForQuestion == loop = "free" /\ Goes(IF pause \/ busy THEN "paused" ELSE "looked")
LookForRepair   == loop = "looked" /\ repairBusy /\ Goes("paused")

Ask ==
  /\ loop = "looked" /\ ~repairBusy
  /\ busy' = FALSE /\ loop' = "request"
  /\ UNCHANGED <<pause, tracker, screen, done, repairBusy, approve, key, repair, asking, hold, past>>

\* Nothing ends the pause yet.
StayPaused ==
  /\ loop = "paused" /\ ~done /\ PassEnds
  /\ UNCHANGED <<pause, tracker, files, key, repair, asking, hold, past>>

\* The reply hook has marked the diagnosis as done.
SeeReply == loop = "paused" /\ done /\ Goes("answered")

RemoveDone ==
  /\ loop = "answered" /\ loop' = "ending"
  /\ done' = FALSE
  /\ UNCHANGED <<pause, tracker, screen, busy, repairBusy, approve, key, repair, asking, hold, past>>

RemoveBusy_Not == loop = "ending" /\ Goes("resuming")

RemoveBusy ==
  /\ loop = "ending" /\ loop' = "resuming"
  /\ busy' = FALSE
  /\ UNCHANGED <<pause, tracker, screen, done, repairBusy, approve, key, repair, asking, hold, past>>

Resume ==
  /\ loop = "resuming" /\ PassEnds
  /\ pause' = FALSE
  /\ UNCHANGED <<tracker, files, key, repair, asking, hold, past>>

Lost ==
  /\ loop = "request" /\ PassEnds
  /\ UNCHANGED <<pause, tracker, files, key, repair, asking, hold, past>>

Lately(run, bad) == IF Len(run) < 2 THEN Append(run, bad) ELSE <<run[2], bad>>

\* "late": the clock was set back and the tracker refuses the reading.  An
\* incident that opened, or /tmp/velaops-diagnose, asks the agent ("asks"),
\* unless the ask file cannot be opened; the pass ends when it has.
Reading(o, late, encoded, asks) ==
  LET t    == IF late THEN tracker ELSE Apply(o)
      e    == Event(t, encoded)
      box  == CASE e = "open" -> Summary(o) [] e = "recovered" -> Off [] OTHER -> alarm
      runs == [past EXCEPT !.run = IF late THEN @ ELSE Lately(@, o # {})]
  IN  /\ loop = "request" /\ tracker' = t
      /\ IF asks THEN /\ loop' = "asks" /\ alarm' = box
                      /\ asking' = [asking EXCEPT ![Loop] = "asked"]
                      /\ past' = [runs EXCEPT !.owed = TRUE]
                      /\ UNCHANGED <<repairing, popup>>
                 ELSE loop' = "free" /\ Finish(box) /\ past' = runs /\ UNCHANGED asking
      /\ UNCHANGED <<pause, files, key, repair, hold>>

Asked ==
  /\ loop = "asks" /\ asking[Loop] = "no" /\ PassEnds
  /\ UNCHANGED <<pause, tracker, files, key, repair, asking, hold, past>>

Answer ==
  \E o \in PostRequest :
    \/ o = NoAnswer /\ Lost
    \/ o # NoAnswer /\ \E late, encoded, asks \in BOOLEAN : Reading(o, late, encoded, asks)

-----------------------------------------------------------------------------
(* The key thread *)

\* What a press does to the box: nothing while a repair or a diagnosis runs.
Dismissed == IF repairBusy \/ busy THEN alarm ELSE Off

Press ==
  /\ key = "up" /\ key' = "down"
  /\ alarm' = Dismissed
  /\ UNCHANGED <<loop, pause, tracker, repairing, popup, files, repair, asking, hold, past>>

Repairing == {r \in Repairers : repair[r].at # "idle"}

\* Held for two seconds, from before the prompt or since: the approval is left
\* for the repairs, once per press.
Held ==
  /\ key = "down" /\ key' = "approved"
  /\ repairBusy
  /\ approve' = TRUE /\ alarm' = Off
  /\ hold' = Repairing
  /\ UNCHANGED <<loop, pause, tracker, repairing, popup, done, busy, repairBusy, repair, asking, past>>

Release ==
  /\ key # "up" /\ key' = "up"
  /\ UNCHANGED <<loop, pause, tracker, screen, files, repair, asking, hold, past>>

-----------------------------------------------------------------------------
(* The guarded repair *)

Idle(state, status, ran) == [at |-> "idle", tries |-> 0, sent |-> FALSE, ran |-> ran,
                             state |-> state, status |-> status]

Moves(r, at) == repair' = [repair EXCEPT ![r] = [repair[r] EXCEPT !.at = at]]

Return_KeepsBusy(r, state, status) ==
  /\ repair' = [repair EXCEPT ![r] = Idle(state, status, repair[r].ran)]
  /\ repairBusy' = repairBusy
  /\ hold' = hold \ {r}

\* repair-busy goes before the result is returned, whoever made the file.
Return(r, state, status) ==
  /\ repair' = [repair EXCEPT ![r] = Idle(state, status, repair[r].ran)]
  /\ repairBusy' = FALSE
  /\ hold' = hold \ {r}

\* The tool of the agent, or `velaops repair-demo`; neither asks for the other.
Prompt(r) ==
  /\ repair[r].at = "idle"
  /\ popup' = "prompt" /\ repairBusy' = TRUE
  /\ repair' = [repair EXCEPT ![r] = [at |-> "prompted", tries |-> 0, sent |-> FALSE, ran |-> FALSE,
                                      state |-> "none", status |-> "none"]]
  /\ UNCHANGED <<loop, pause, tracker, alarm, repairing, done, busy, approve, key, asking, hold, past>>

\* The time cannot be set: nothing is shown.
NoTime(r) ==
  /\ repair[r].at = "idle"
  /\ repair' = [repair EXCEPT ![r] = Idle("not_started", "approval_unavailable", FALSE)]
  /\ UNCHANGED <<loop, pause, tracker, screen, files, key, asking, hold, past>>

Emptied_Not == approve

\* An approval left by an earlier repair is removed.
Emptied == FALSE

Wait(r) ==
  /\ repair[r].at = "prompted"
  /\ approve' = Emptied /\ Moves(r, "waiting")
  /\ UNCHANGED <<loop, pause, tracker, screen, done, busy, repairBusy, key, asking, hold, past>>

\* The last look at the flag: a key held from now on comes too late.
Expire(r) ==
  /\ repair[r].at = "waiting" /\ ~approve /\ Moves(r, "expired")
  /\ UNCHANGED <<loop, pause, tracker, screen, files, key, asking, hold, past>>

GiveUp(r) ==
  /\ repair[r].at = "expired"
  /\ Return(r, "not_started", "approval_timeout")
  /\ UNCHANGED <<loop, pause, tracker, screen, done, busy, approve, key, asking, past>>

SeeApproval(r) ==
  /\ repair[r].at = "waiting" /\ approve /\ Moves(r, "approved")
  /\ UNCHANGED <<loop, pause, tracker, screen, files, key, asking, hold, past>>

\* "random": an approval id can be drawn.
Approve(r, random) ==
  /\ repair[r].at = "approved" /\ approve' = FALSE
  /\ IF random THEN Moves(r, "settling") /\ UNCHANGED <<repairBusy, hold>>
               ELSE Return(r, "not_started", "approval_unavailable")
  /\ UNCHANGED <<loop, pause, tracker, screen, done, busy, key, asking, past>>

\* The restart is asked for: it runs or not, and the answer arrives or not.
Send(r, ran, answered) ==
  /\ repair[r].at = "settling" /\ (answered => ran)
  /\ repair' = [repair EXCEPT ![r] = [at |-> "verifying", tries |-> 0, sent |-> answered, ran |-> ran,
                                      state |-> "none", status |-> "none"]]
  /\ UNCHANGED <<loop, pause, tracker, screen, files, key, asking, hold, past>>

Unverified_NotSent(r) == [state |-> "not_started", status |-> "execution_failed"]

\* What is returned when no reading showed the service up.
Unverified(r) ==
  IF repair[r].sent THEN [state |-> "completed", status |-> "verification_failed"]
                    ELSE [state |-> "unknown", status |-> "execution_failed"]

Recovered(o) == o # NoAnswer /\ {"service", "port"} \cap o = {}

Verify(r, o) ==
  /\ repair[r].at = "verifying"
  /\ IF Recovered(o) THEN Return(r, "completed", "recovered")
     ELSE IF repair[r].tries + 1 < VerifyTries
          THEN /\ repair' = [repair EXCEPT ![r] = [repair[r] EXCEPT !.tries = repair[r].tries + 1]]
               /\ UNCHANGED <<repairBusy, hold>>
          ELSE Return(r, Unverified(r).state, Unverified(r).status)
  /\ UNCHANGED <<loop, pause, tracker, screen, done, busy, approve, key, asking, past>>

Repair(r) == \/ Wait(r) \/ Expire(r) \/ GiveUp(r) \/ SeeApproval(r)
             \/ \E random \in BOOLEAN : Approve(r, random)
             \/ \E ran, answered \in BOOLEAN : Send(r, ran, answered)
             \/ \E o \in PostRequest : Verify(r, o)

-----------------------------------------------------------------------------
(* The agent *)

Alarming(r) == r.status \in {"warning", "critical"}
Acting(r) == r.action # "none"

\* The text of the box a diagnosis asks for, Off without one.
Label(r) ==
  LET known == SelectSeq(r.metrics, LAMBDA m : m \in ToSet(Troubles))
  IN  CASE (Alarming(r) \/ Acting(r)) /\ r.display # Off -> r.display
        [] Acting(r) /\ r.display = Off -> r.action
        [] Alarming(r) /\ ~Acting(r) /\ r.display = Off -> IF known = <<>> THEN r.status ELSE Head(known)
        [] OTHER -> Off

\* velaops_notify_agent_reply, for every reply on the cli channel, asked for or not.
Reply(r) ==
  /\ done' = TRUE
  /\ popup' = IF r.structured /\ Label(r) # Off THEN Label(r) ELSE popup
  /\ past' = [past EXCEPT !.owed = FALSE]
  /\ UNCHANGED <<loop, pause, tracker, alarm, repairing, busy, repairBusy, approve, key, repair, asking, hold>>

\* velaops_show_message and the test text of ask-inject.
ShowMessage ==
  /\ popup' = Message
  /\ UNCHANGED <<loop, pause, tracker, alarm, repairing, files, key, repair, asking, hold, past>>

-----------------------------------------------------------------------------
Init ==
  /\ loop = "free" /\ pause = FALSE
  /\ tracker = [state |-> "healthy", failures |-> 0, successes |-> 0]
  /\ alarm = Off /\ repairing = FALSE /\ popup = Off
  /\ done = FALSE /\ busy = FALSE /\ repairBusy = FALSE /\ approve = FALSE
  /\ key = "up"
  /\ repair = [r \in Repairers |-> Idle("none", "none", FALSE)]
  /\ asking = [a \in Askers \cup {Loop} |-> "no"]
  /\ hold = {}
  /\ past = [run |-> <<>>, owed |-> FALSE, raced |-> FALSE]

Round == \/ LookForQuestion \/ LookForRepair \/ Ask \/ StayPaused \/ SeeReply
         \/ RemoveDone \/ RemoveBusy \/ Resume \/ Answer \/ Asked

Next ==
  \/ Pass \/ Round \/ PauseOver
  \/ (\E a \in Askers \cup {Loop} : Queue(a)) \/ (\E a \in Askers : DiagnoseLlm(a))
  \/ Press \/ Held \/ Release
  \/ \E r \in Repairers : Prompt(r) \/ NoTime(r) \/ Repair(r)
  \/ (\E r \in AgentReplies : Reply(r)) \/ ShowMessage

Spec == Init /\ [][Next]_vars

\* The threads run on and every wait of theirs ends.  Neither the agent, the
\* user nor the proxy is assumed to do anything.
FairSpec == /\ Spec
            /\ WF_vars(Round) /\ WF_vars(PauseOver)
            /\ \A a \in Askers \cup {Loop} : WF_vars(Queue(a))
            /\ \A r \in Repairers : WF_vars(Repair(r))

-----------------------------------------------------------------------------
(* Properties *)

TypeOK ==
  /\ loop \in {"free", "looked", "paused", "answered", "ending", "resuming", "request", "asks"}
  /\ key \in {"up", "down", "approved"}
  /\ tracker \in [state : {"healthy", "suspected", "open", "recovered"},
                  failures : 0 .. FailureThreshold, successes : 0 .. RecoveryThreshold]
  /\ {pause, repairing, done, busy, repairBusy, approve} \subseteq BOOLEAN
  /\ \A r \in Repairers :
       /\ repair[r].at \in {"idle", "prompted", "waiting", "expired", "approved", "settling", "verifying"}
       /\ repair[r].tries \in 0 .. VerifyTries - 1
  /\ \A a \in Askers \cup {Loop} : asking[a] \in {"no", "asked", "cleared", "marked"}
  /\ hold \subseteq Repairers

Queueing == \E a \in Askers \cup {Loop} : asking[a] # "no"

\* A question the agent has not answered keeps the readings away, whoever asked
\* it and whatever replies came before it, unless its busy file was made while
\* the monitor, which had looked before, was about to remove one.
QuestionKeepsBusy == past.owed /\ ~Queueing => busy \/ past.raced

\* No repair-busy file stays when no repair is left to remove it.
BusyHasRepair == repairBusy => Repairing # {}

\* The flag files neither let the readings go while the agent works on a
\* question that was asked in time, nor hold them up for a repair that is over.
DashboardInv == TypeOK /\ QuestionKeepsBusy /\ BusyHasRepair

\* Two unhealthy readings in a row leave an incident open and two healthy ones
\* leave none, however they follow each other: one reading alone, or a healthy
\* one between unhealthy ones, opens and closes nothing (velaops_incident.c,
\* with the thresholds of two).
Debounced ==
  LET bad == past.run = <<TRUE, TRUE>>
      good == past.run = <<FALSE, FALSE>>
  IN  /\ bad => tracker.state = "open"
      /\ good => tracker.state \in {"healthy", "recovered"}
      /\ tracker.state = "recovered" => good

\* A repair asks for its restart only after a hold of the key that ended since
\* its own prompt, however many repairs share the approve file: no approval
\* that came too late for an earlier one starts the next.  (The hold may have
\* begun before the prompt: the key thread counts from the press.)
HoldApproves ==
  [][\A r \in Repairers : repair'[r].at = "verifying" /\ repair[r].at # "verifying"
                          => r \in hold]_vars

\* The agent is not told "not_started" of a restart that ran, nor of an
\* execution that "completed" without a reading that shows the service up or an
\* answer to the restart.
ResultIsHonest ==
  \A r \in Repairers :
    repair[r].at = "idle" => /\ repair[r].state = "not_started" => ~repair[r].ran
                             /\ repair[r].status = "verification_failed" => repair[r].ran

\* Once the agent has replied the pause ends, unless another question is asked.
ReplyEndsPause == done ~> ((~busy /\ ~pause) \/ past.owed \/ Queueing)
=============================================================================
