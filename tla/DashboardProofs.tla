--------------------------- MODULE DashboardProofs ---------------------------
(***************************************************************************)
(* The invariants of Dashboard for every set of troubles, of replies, of   *)
(* repairs and of questions and every number of verifying readings; the    *)
(* debouncing of the incident for the thresholds of two that               *)
(* velaops_incident.c is started with.                                     *)
(***************************************************************************)
EXTENDS Dashboard, SequenceTheorems, TLAPS

Runs == {<<>>, <<TRUE>>, <<FALSE>>, <<TRUE, TRUE>>, <<TRUE, FALSE>>, <<FALSE, TRUE>>, <<FALSE, FALSE>>}

PastRecords == [run : Runs, owed : BOOLEAN, raced : BOOLEAN]

\* A repair of any outcome.
RepairRecords ==
  [at : {"idle", "prompted", "waiting", "expired", "approved", "settling", "verifying"},
   tries : 0 .. VerifyTries - 1, sent : BOOLEAN, ran : BOOLEAN,
   state : {"none", "not_started", "completed", "unknown"},
   status : {"none", "approval_unavailable", "approval_timeout", "recovered",
             "verification_failed", "execution_failed"}]

TrackerOK(t) ==
  /\ t \in [state : {"healthy", "suspected", "open", "recovered"},
            failures : 0 .. FailureThreshold, successes : 0 .. RecoveryThreshold]
  /\ t.state = "suspected" => t.failures < FailureThreshold
  /\ t.state = "open" => t.successes < RecoveryThreshold

\* Who has written a question and not yet removed the reply of an earlier one,
\* and who has not yet made the busy file.
Unforgotten == \E a \in Askers \cup {Loop} : asking[a] = "asked"
Unmarked    == \E a \in Askers \cup {Loop} : asking[a] \in {"asked", "cleared"}

\* While the agent owes an answer no reply is left that could end the pause, and
\* its busy file stands out of reach of the monitor, unless it was made too late.
OwedInv ==
  /\ past.owed /\ ~Unforgotten => ~done
  /\ past.owed /\ ~Unmarked => past.raced \/ (busy /\ ~Removing)

\* What the monitor, the questions and the agent write.
LoopInv ==
  /\ loop \in {"free", "looked", "paused", "answered", "ending", "resuming", "request", "asks"}
  /\ key \in {"up", "down", "approved"}
  /\ TrackerOK(tracker)
  /\ {pause, repairing, done, busy} \subseteq BOOLEAN
  /\ past \in PastRecords
  /\ asking \in [Askers \cup {Loop} -> {"no", "asked", "cleared", "marked"}]
  /\ OwedInv

\* A repair, what the key did since its prompt, and the approve file: an approval
\* and whatever follows it go back to a hold since the prompt, nothing ran before
\* the restart was asked for, and an answer means it ran.
RepairOK(r, p, h, approval) ==
  /\ p.at = "waiting" /\ approval => r \in h
  /\ p.at \in {"approved", "settling", "verifying"} => r \in h
  /\ p.at \in {"prompted", "waiting", "expired", "approved", "settling"} => ~p.ran
  /\ p.at = "verifying" /\ p.sent => p.ran
  /\ p.at = "idle" => /\ p.state = "not_started" => ~p.ran
                      /\ p.status = "verification_failed" => p.ran

\* What the repairs and the key write.
RepairInv ==
  /\ approve \in BOOLEAN /\ repairBusy \in BOOLEAN
  /\ repair \in [Repairers -> RepairRecords]
  /\ hold \subseteq Repairers
  /\ \A r \in Repairers : RepairOK(r, repair[r], hold, approve)
  /\ BusyHasRepair

BoardInv == LoopInv /\ RepairInv

\* With thresholds of two, the state of the tracker tells the last readings:
\* one unhealthy reading is suspected, one healthy one in an open incident is
\* counted, and a recovery follows two.
Trail ==
  CASE tracker.state = "healthy"   -> past.run \in {<<>>, <<FALSE>>, <<TRUE, FALSE>>, <<FALSE, FALSE>>}
    [] tracker.state = "suspected" -> tracker.failures = 1 /\ past.run \in {<<TRUE>>, <<FALSE, TRUE>>}
    [] tracker.state = "open"      -> \/ tracker.successes = 0 /\ past.run \in {<<TRUE, TRUE>>, <<FALSE, TRUE>>}
                                      \/ tracker.successes = 1 /\ past.run = <<TRUE, FALSE>>
    [] tracker.state = "recovered" -> past.run = <<FALSE, FALSE>>

-----------------------------------------------------------------------------
(* Readings *)

\* A reading is healthy exactly when it shows no trouble.
LEMMA NormalIsNoTrouble == \A o : Verdict(o) = "normal" <=> o = {}
BY DEF Verdict

\* Two readings are told by their values.
LEMMA PairIs ==
  ASSUME NEW S, NEW a \in S, NEW b \in S, NEW s \in Seq(S), Len(s) = 2, s[1] = a, s[2] = b
  PROVE  s = <<a, b>>
<1> DEFINE t == <<a, b>>
<1>1. t \in Seq(S) /\ Len(t) = 2 /\ t[1] = a /\ t[2] = b
  OBVIOUS
<1> HIDE DEF t
<1>2. \A i \in 1 .. 2 : s[i] = t[i]
  <2> TAKE i \in 1 .. 2
  <2>1. i = 1 \/ i = 2
    OBVIOUS
  <2> QED
    BY <1>1, <2>1
<1>3. s = t
  BY <1>1, <1>2, SeqEqual
<1> QED
  BY <1>3 DEF t

\* A reading joins the last one.
LEMMA LatelyIs ==
  ASSUME NEW a, NEW bad
  PROVE  /\ Lately(<<>>, bad) = <<bad>>
         /\ Lately(<<a>>, bad) = <<a, bad>>
<1>1. Len(<<>>) < 2 /\ Len(<<a>>) < 2
  OBVIOUS
<1>2. Append(<<>>, bad) = <<bad>>
  OBVIOUS
<1>3. Append(<<a>>, bad) = <<a, bad>>
  <2> DEFINE s == Append(<<a>>, bad)
  <2>1. s \in Seq({a, bad}) /\ Len(s) = 2 /\ s[1] = a /\ s[2] = bad
    OBVIOUS
  <2> HIDE DEF s
  <2>2. s = <<a, bad>>
    BY <2>1, PairIs
  <2> QED
    BY <2>2 DEF s
<1> QED
  BY <1>1, <1>2, <1>3 DEF Lately

\* Every history with every next reading.
LEMMA LatelyTable ==
  /\ Lately(<<>>, FALSE) = <<FALSE>> /\ Lately(<<>>, TRUE) = <<TRUE>>
  /\ Lately(<<FALSE>>, FALSE) = <<FALSE, FALSE>> /\ Lately(<<FALSE>>, TRUE) = <<FALSE, TRUE>>
  /\ Lately(<<TRUE>>, FALSE) = <<TRUE, FALSE>> /\ Lately(<<TRUE>>, TRUE) = <<TRUE, TRUE>>
  /\ Lately(<<FALSE, FALSE>>, FALSE) = <<FALSE, FALSE>> /\ Lately(<<FALSE, FALSE>>, TRUE) = <<FALSE, TRUE>>
  /\ Lately(<<TRUE, FALSE>>, FALSE) = <<FALSE, FALSE>> /\ Lately(<<TRUE, FALSE>>, TRUE) = <<FALSE, TRUE>>
  /\ Lately(<<FALSE, TRUE>>, FALSE) = <<TRUE, FALSE>> /\ Lately(<<FALSE, TRUE>>, TRUE) = <<TRUE, TRUE>>
  /\ Lately(<<TRUE, TRUE>>, FALSE) = <<TRUE, FALSE>> /\ Lately(<<TRUE, TRUE>>, TRUE) = <<TRUE, TRUE>>
<1>1. Lately(<<FALSE, FALSE>>, FALSE) = <<FALSE, FALSE>> /\ Lately(<<FALSE, FALSE>>, TRUE) = <<FALSE, TRUE>>
  <2>1. ~(Len(<<FALSE, FALSE>>) < 2) /\ <<FALSE, FALSE>>[2] = FALSE
    OBVIOUS
  <2> QED
    BY <2>1 DEF Lately
<1>2. Lately(<<FALSE, TRUE>>, FALSE) = <<TRUE, FALSE>> /\ Lately(<<FALSE, TRUE>>, TRUE) = <<TRUE, TRUE>>
  <2>1. ~(Len(<<FALSE, TRUE>>) < 2) /\ <<FALSE, TRUE>>[2] = TRUE
    OBVIOUS
  <2> QED
    BY <2>1 DEF Lately
<1>3. Lately(<<TRUE, FALSE>>, FALSE) = <<FALSE, FALSE>> /\ Lately(<<TRUE, FALSE>>, TRUE) = <<FALSE, TRUE>>
  <2>1. ~(Len(<<TRUE, FALSE>>) < 2) /\ <<TRUE, FALSE>>[2] = FALSE
    OBVIOUS
  <2> QED
    BY <2>1 DEF Lately
<1>4. Lately(<<TRUE, TRUE>>, FALSE) = <<TRUE, FALSE>> /\ Lately(<<TRUE, TRUE>>, TRUE) = <<TRUE, TRUE>>
  <2>1. ~(Len(<<TRUE, TRUE>>) < 2) /\ <<TRUE, TRUE>>[2] = TRUE
    OBVIOUS
  <2> QED
    BY <2>1 DEF Lately
<1>5. Lately(<<>>, FALSE) = <<FALSE>> /\ Lately(<<>>, TRUE) = <<TRUE>>
  BY LatelyIs, Zenon
<1>6. Lately(<<FALSE>>, FALSE) = <<FALSE, FALSE>> /\ Lately(<<FALSE>>, TRUE) = <<FALSE, TRUE>>
  BY LatelyIs, Zenon
<1>7. Lately(<<TRUE>>, FALSE) = <<TRUE, FALSE>> /\ Lately(<<TRUE>>, TRUE) = <<TRUE, TRUE>>
  BY LatelyIs, Zenon
<1> QED
  BY <1>1, <1>2, <1>3, <1>4, <1>5, <1>6, <1>7, Zenon

LEMMA PairsAreRuns == ASSUME NEW a \in BOOLEAN, NEW b \in BOOLEAN PROVE <<a, b>> \in Runs
<1>1. (a = TRUE \/ a = FALSE) /\ (b = TRUE \/ b = FALSE)
  OBVIOUS
<1> QED
  BY <1>1, Zenon DEF Runs

LEMMA RunsKept == ASSUME NEW r \in Runs, NEW bad \in BOOLEAN PROVE Lately(r, bad) \in Runs
<1>1. \/ r = <<>>
      \/ \E a \in BOOLEAN : r = <<a>>
      \/ \E a, b \in BOOLEAN : r = <<a, b>>
  BY Zenon DEF Runs
<1>2. CASE r = <<>>
  <2>1. Lately(r, bad) = <<bad>>
    BY <1>2, LatelyIs, Zenon
  <2> QED
    BY <2>1, Zenon DEF Runs
<1>3. ASSUME NEW a \in BOOLEAN, r = <<a>> PROVE Lately(r, bad) \in Runs
  <2>1. Lately(r, bad) = <<a, bad>>
    BY <1>3, LatelyIs, Zenon
  <2> QED
    BY <2>1, PairsAreRuns
<1>4. ASSUME NEW a \in BOOLEAN, NEW b \in BOOLEAN, r = <<a, b>> PROVE Lately(r, bad) \in Runs
  <2>1. ~(Len(<<a, b>>) < 2) /\ <<a, b>>[2] = b
    OBVIOUS
  <2>2. Lately(<<a, b>>, bad) = <<b, bad>>
    BY <2>1 DEF Lately
  <2> QED
    BY <1>4, <2>2, PairsAreRuns, Zenon
<1> QED
  BY <1>1, <1>2, <1>3, <1>4

-----------------------------------------------------------------------------
(* The tracker *)

Tracker(state, failures, successes) ==
  [state |-> state, failures |-> failures, successes |-> successes]

\* A record is told by its fields.
LEMMA TrackerIs ==
  ASSUME NEW s, NEW f, NEW c, NEW t \in [state : {s}, failures : {f}, successes : {c}]
  PROVE  t = Tracker(s, f, c)
BY DEF Tracker

LEMMA OpenedIs ==
  ASSUME NEW s, NEW f, NEW c
  PROVE  Opened(Tracker(s, f, c)) = Tracker("open", f, 0)
<1>1. Opened(Tracker(s, f, c)) \in [state : {"open"}, failures : {f}, successes : {0}]
  BY DEF Opened, Tracker
<1> QED
  BY <1>1, TrackerIs

\* What each reading makes of the tracker, as the record it becomes.
LEMMA BetterIs ==
  ASSUME NEW f, NEW c
  PROVE  /\ Better(Tracker("healthy", f, c)) = Tracker("healthy", f, c)
         /\ Better(Tracker("suspected", f, c)) = Tracker("healthy", 0, c)
         /\ Better(Tracker("recovered", f, c)) = Tracker("healthy", f, 0)
         /\ Better(Tracker("open", f, c)) =
              IF Enough(c + 1) THEN Tracker("recovered", 0, c + 1) ELSE Tracker("open", f, c + 1)
<1>1. Better(Tracker("healthy", f, c)) = Tracker("healthy", f, c)
  BY DEF Better, Tracker
<1>2. Better(Tracker("suspected", f, c)) \in [state : {"healthy"}, failures : {0}, successes : {c}]
  BY DEF Better, Tracker
<1>3. Better(Tracker("recovered", f, c)) \in [state : {"healthy"}, failures : {f}, successes : {0}]
  BY DEF Better, Tracker
<1>0. [Tracker("open", f, c) EXCEPT !.successes = @ + 1] = Tracker("open", f, c + 1)
  BY DEF Tracker
<1>4. Better(Tracker("open", f, c)) =
        IF Enough(c + 1) THEN [Tracker("open", f, c + 1) EXCEPT !.state = "recovered", !.failures = 0]
                         ELSE Tracker("open", f, c + 1)
  <2>1. Tracker("open", f, c).state = "open" /\ Tracker("open", f, c + 1).successes = c + 1
    BY DEF Tracker
  <2> QED
    BY <1>0, <2>1 DEF Better
<1>5. [Tracker("open", f, c + 1) EXCEPT !.state = "recovered", !.failures = 0]
        \in [state : {"recovered"}, failures : {0}, successes : {c + 1}]
  BY DEF Tracker
<1>6. [Tracker("open", f, c + 1) EXCEPT !.state = "recovered", !.failures = 0]
        = Tracker("recovered", 0, c + 1)
  BY <1>5, TrackerIs
<1> QED
  BY <1>1, <1>2, <1>3, <1>4, <1>6, TrackerIs

LEMMA StartFailureIs ==
  ASSUME NEW s, NEW f, NEW c
  PROVE  StartFailure(Tracker(s, f, c)) =
           Tracker(IF FailureThreshold = 1 THEN "open" ELSE "suspected", 1, 0)
<1>1. [Tracker(s, f, c) EXCEPT !.failures = 1, !.successes = 0]
        \in [state : {s}, failures : {1}, successes : {0}]
  BY DEF Tracker
<1>2. [Tracker(s, f, c) EXCEPT !.failures = 1, !.successes = 0] = Tracker(s, 1, 0)
  BY <1>1, TrackerIs
<1>3. [Tracker(s, 1, 0) EXCEPT !.state = "suspected"] = Tracker("suspected", 1, 0)
  BY DEF Tracker
<1>4. StartFailure(Tracker(s, f, c)) =
        IF FailureThreshold = 1 THEN Opened(Tracker(s, 1, 0))
                                ELSE [Tracker(s, 1, 0) EXCEPT !.state = "suspected"]
  BY <1>2 DEF StartFailure
<1> QED
  BY <1>3, <1>4, OpenedIs

LEMMA WorseIs ==
  ASSUME NEW f, NEW c
  PROVE  /\ Worse(Tracker("healthy", f, c)) = StartFailure(Tracker("healthy", f, c))
         /\ Worse(Tracker("recovered", f, c)) = StartFailure(Tracker("recovered", f, c))
         /\ Worse(Tracker("suspected", f, c)) =
              IF f + 1 >= FailureThreshold THEN Tracker("open", f + 1, 0)
                                           ELSE Tracker("suspected", f + 1, c)
         /\ Worse(Tracker("open", f, c)) = Tracker("open", f, 0)
<1>1. Worse(Tracker("suspected", f, c)) =
        IF f + 1 >= FailureThreshold THEN Opened(Tracker("suspected", f + 1, c))
                                     ELSE Tracker("suspected", f + 1, c)
  BY DEF Worse, Tracker
<1>2. Worse(Tracker("open", f, c)) = Tracker("open", f, 0)
  BY DEF Worse, Tracker, StillBad
<1>3. /\ Worse(Tracker("healthy", f, c)) = StartFailure(Tracker("healthy", f, c))
      /\ Worse(Tracker("recovered", f, c)) = StartFailure(Tracker("recovered", f, c))
  BY DEF Worse, Tracker
<1> QED
  BY <1>1, <1>2, <1>3, OpenedIs

\* The tracker's counters stay below their thresholds, for every reading.
LEMMA TrackerStep == ASSUME TrackerOK(tracker), NEW o PROVE TrackerOK(Apply(o))
<1> DEFINE f == tracker.failures
           c == tracker.successes
<1>1. /\ f \in 0 .. FailureThreshold /\ c \in 0 .. RecoveryThreshold
      /\ tracker.state \in {"healthy", "suspected", "open", "recovered"}
      /\ tracker.state = "suspected" => f < FailureThreshold
      /\ tracker.state = "open" => c < RecoveryThreshold
  BY DEF TrackerOK
<1>2. tracker = Tracker(tracker.state, f, c)
  BY DEF TrackerOK, Tracker
<1> HIDE DEF f, c
<1>3. \A s \in {"healthy", "suspected", "open", "recovered"}, x \in 0 .. FailureThreshold,
         y \in 0 .. RecoveryThreshold :
        /\ s = "suspected" => x < FailureThreshold
        /\ s = "open" => y < RecoveryThreshold
        => TrackerOK(Tracker(s, x, y))
  BY DEF TrackerOK, Tracker
<1>4. TrackerOK(Better(tracker))
  <2>1. CASE tracker.state = "healthy"
    BY <1>1, <1>2, <1>3, <2>1, BetterIs, DashboardAssumption
  <2>2. CASE tracker.state = "suspected"
    BY <1>1, <1>2, <1>3, <2>2, BetterIs, DashboardAssumption
  <2>3. CASE tracker.state = "recovered"
    BY <1>1, <1>2, <1>3, <2>3, BetterIs, DashboardAssumption
  <2>4. CASE tracker.state = "open"
    BY <1>1, <1>2, <1>3, <2>4, BetterIs, DashboardAssumption DEF Enough
  <2> QED
    BY <1>1, <2>1, <2>2, <2>3, <2>4
<1>5. TrackerOK(Worse(tracker))
  <2>1. CASE tracker.state \in {"healthy", "recovered"}
    BY <1>1, <1>2, <1>3, <2>1, WorseIs, StartFailureIs, DashboardAssumption
  <2>2. CASE tracker.state = "suspected"
    BY <1>1, <1>2, <1>3, <2>2, WorseIs, DashboardAssumption
  <2>3. CASE tracker.state = "open"
    BY <1>1, <1>2, <1>3, <2>3, WorseIs, DashboardAssumption
  <2> QED
    BY <1>1, <2>1, <2>2, <2>3
<1> QED
  BY <1>4, <1>5 DEF Apply

-----------------------------------------------------------------------------
(* The flag files, the questions and the monitor *)

LEMMA BoardInit == Init => BoardInv
<1> SUFFICES ASSUME Init PROVE BoardInv
  OBVIOUS
<1> USE DashboardAssumption DEF Init
<1>1. TrackerOK(tracker)
  BY DEF TrackerOK
<1>2. past \in PastRecords
  BY DEF PastRecords, Runs
<1>3. OwedInv
  BY DEF OwedInv
<1>4. LoopInv
  BY <1>1, <1>2, <1>3 DEF LoopInv
<1>5. Idle("none", "none", FALSE) \in RepairRecords
  BY DEF Idle, RepairRecords
<1>6. \A r \in Repairers : RepairOK(r, Idle("none", "none", FALSE), {}, FALSE)
  BY DEF Idle, RepairOK
<1>7. RepairInv
  BY <1>5, <1>6 DEF RepairInv, BusyHasRepair
<1> QED
  BY <1>4, <1>7 DEF BoardInv

\* A step of a question: the reply of an earlier one is forgotten before the
\* busy file is made.
LEMMA QueueStep ==
  ASSUME LoopInv, NEW a \in Askers \cup {Loop}, Queue(a)
  PROVE  LoopInv'
<1> USE DEF LoopInv, OwedInv, Unforgotten, Unmarked, PastRecords
<1>1. CASE ForgetReply(a)
  BY <1>1 DEF ForgetReply, Removing, screen
<1>2. CASE MarkBusy(a)
  <2>1. /\ past' = [past EXCEPT !.raced = Removing] /\ busy' = TRUE
        /\ asking' = [asking EXCEPT ![a] = "marked"] /\ asking[a] = "cleared"
        /\ UNCHANGED <<loop, pause, tracker, repairing, done, key>>
    BY <1>2 DEF MarkBusy, screen
  <2>2. Removing \in BOOLEAN /\ Removing' = Removing
    BY <2>1 DEF Removing
  <2> HIDE DEF Removing
  <2>3. past' \in PastRecords /\ past'.owed = past.owed /\ past'.raced = Removing
    BY <2>1, <2>2
  <2>4. asking' \in [Askers \cup {Loop} -> {"no", "asked", "cleared", "marked"}]
        /\ (Unforgotten => Unforgotten')
    BY <2>1
  <2>5. OwedInv'
    BY <2>1, <2>2, <2>3, <2>4
  <2> QED
    BY <2>1, <2>3, <2>4, <2>5
<1>3. CASE SetPause(a)
  BY <1>3 DEF SetPause, Removing, screen, files
<1> QED
  BY <1>1, <1>2, <1>3 DEF Queue

\* A step that asks nothing, answers nothing and moves no reading keeps the
\* history; what it does to the flag files decides.
LEMMA PassStep ==
  ASSUME LoopInv, RepairInv, Pass \/ StayPaused \/ Resume \/ Lost \/ Asked
  PROVE  LoopInv'
<1>1. /\ UNCHANGED <<tracker, files, key, asking, past>> /\ loop' = "free"
      /\ pause' \in {pause, FALSE} /\ repairing' = repairBusy
  BY DEF Pass, StayPaused, Resume, Lost, Asked, PassEnds, Finish
<1> QED
  BY <1>1 DEF LoopInv, RepairInv, OwedInv, Unforgotten, Unmarked, Removing, files

\* The looks at the files: the monitor makes up its mind to remove the busy file
\* only where no answer is owed that has one.
LEMMA LookStep ==
  ASSUME LoopInv, LookForQuestion \/ LookForRepair \/ SeeReply
  PROVE  LoopInv'
<1> USE DEF LoopInv, OwedInv, Unforgotten, Unmarked, Removing, screen, files
<1>1. CASE LookForQuestion
  BY <1>1 DEF LookForQuestion, Goes
<1>2. CASE LookForRepair
  BY <1>2 DEF LookForRepair, Goes
<1>3. CASE SeeReply
  BY <1>3 DEF SeeReply, Goes
<1> QED
  BY <1>1, <1>2, <1>3

LEMMA RemoveStep ==
  ASSUME LoopInv, Ask \/ RemoveDone \/ RemoveBusy
  PROVE  LoopInv'
<1> USE DEF LoopInv, OwedInv, Unforgotten, Unmarked, Removing, screen
<1>1. CASE Ask
  BY <1>1 DEF Ask
<1>2. CASE RemoveDone
  BY <1>2 DEF RemoveDone
<1>3. CASE RemoveBusy
  BY <1>3 DEF RemoveBusy
<1> QED
  BY <1>1, <1>2, <1>3

LEMMA ReadingStep ==
  ASSUME LoopInv, RepairInv, NEW o, NEW late \in BOOLEAN, NEW encoded \in BOOLEAN,
         NEW asks \in BOOLEAN, Reading(o, late, encoded, asks)
  PROVE  LoopInv'
<1> DEFINE runs == [past EXCEPT !.run = IF late THEN @ ELSE Lately(@, o # {})]
<1>1. TrackerOK(tracker')
  BY TrackerStep DEF Reading, LoopInv
<1>2. runs \in PastRecords /\ runs.owed = past.owed /\ runs.raced = past.raced
  <2>1. past.run \in Runs /\ (o # {}) \in BOOLEAN
    BY DEF LoopInv, PastRecords
  <2>2. (IF late THEN past.run ELSE Lately(past.run, o # {})) \in Runs
    BY <2>1, RunsKept
  <2>3. runs = [past EXCEPT !.run = IF late THEN past.run ELSE Lately(past.run, o # {})]
    BY DEF LoopInv, PastRecords
  <2> QED
    BY <2>2, <2>3 DEF LoopInv, PastRecords
<1>3. CASE asks
  <2>1. /\ loop' = "asks" /\ asking' = [asking EXCEPT ![Loop] = "asked"]
        /\ past' = [runs EXCEPT !.owed = TRUE]
        /\ UNCHANGED <<pause, repairing, done, busy, key>>
    BY <1>3 DEF Reading, files
  <2> HIDE DEF runs
  <2>2. past' \in PastRecords
    BY <1>2, <2>1 DEF PastRecords
  <2>3. asking'[Loop] = "asked"
    BY <2>1 DEF LoopInv
  <2> QED
    BY <1>1, <2>1, <2>2, <2>3 DEF LoopInv, OwedInv, Unforgotten, Unmarked
<1>4. CASE ~asks
  <2>1. /\ loop' = "free" /\ past' = runs /\ repairing' = repairBusy
        /\ UNCHANGED <<pause, done, busy, key, asking>>
    BY <1>4 DEF Reading, Finish, files
  <2> HIDE DEF runs
  <2> QED
    BY <1>1, <1>2, <2>1 DEF LoopInv, RepairInv, OwedInv, Unforgotten, Unmarked, Removing
<1> QED
  BY <1>3, <1>4

\* The key, the screen and the repairs leave all of it alone.
LEMMA OthersStep ==
  ASSUME LoopInv, \/ UNCHANGED <<loop, tracker, pause, repairing, done, busy, past, asking>> /\ key' \in {"up", "down", "approved"}
  PROVE  LoopInv'
BY DEF LoopInv, OwedInv, Unforgotten, Unmarked, Removing

LEMMA LoopStep == ASSUME LoopInv, RepairInv, Next PROVE LoopInv'
<1>1. CASE Pass \/ StayPaused \/ Resume \/ Lost \/ Asked
  BY <1>1, PassStep
<1>2. CASE LookForQuestion \/ LookForRepair \/ SeeReply
  BY <1>2, LookStep
<1>3. CASE Ask \/ RemoveDone \/ RemoveBusy
  BY <1>3, RemoveStep
<1>4. ASSUME NEW o \in PostRequest, NEW late \in BOOLEAN, NEW encoded \in BOOLEAN,
             NEW asks \in BOOLEAN, Reading(o, late, encoded, asks)
      PROVE  LoopInv'
  BY <1>4, ReadingStep
<1>5. CASE PauseOver
  BY <1>5 DEF PauseOver, LoopInv, OwedInv, Unforgotten, Unmarked, Removing, screen, files
<1>6. ASSUME NEW a \in Askers \cup {Loop}, Queue(a) PROVE LoopInv'
  BY <1>6, QueueStep
<1>7. ASSUME NEW a \in Askers, DiagnoseLlm(a) PROVE LoopInv'
  <2>1. /\ asking' = [asking EXCEPT ![a] = "asked"] /\ past' = [past EXCEPT !.owed = TRUE]
        /\ UNCHANGED <<loop, pause, tracker, repairing, done, busy, key>>
    BY <1>7 DEF DiagnoseLlm, Asks, screen, files
  <2>2. past' \in PastRecords /\ asking'[a] = "asked"
    BY <2>1 DEF LoopInv, PastRecords
  <2> QED
    BY <2>1, <2>2 DEF LoopInv, OwedInv, Unforgotten, Unmarked
<1>8. ASSUME NEW r \in AgentReplies, Reply(r) PROVE LoopInv'
  BY <1>8 DEF Reply, LoopInv, OwedInv, PastRecords
<1>9. CASE Press \/ Held \/ Release \/ ShowMessage
  BY <1>9, OthersStep DEF Press, Held, Release, ShowMessage, screen, files, LoopInv
<1>10. ASSUME NEW r \in Repairers, Prompt(r) \/ NoTime(r) PROVE LoopInv'
  BY <1>10, OthersStep DEF Prompt, NoTime, screen, files, LoopInv
<1>11. ASSUME NEW r \in Repairers, Repair(r) PROVE LoopInv'
  <2>1. UNCHANGED <<loop, tracker, pause, repairing, done, busy, past, asking, key>>
    BY <1>11 DEF Repair, Wait, Expire, GiveUp, SeeApproval, Approve, Send, Verify, screen, files
  <2> QED
    BY <2>1, OthersStep DEF LoopInv
<1> QED
  BY <1>1, <1>2, <1>3, <1>4, <1>5, <1>6, <1>7, <1>8, <1>9, <1>10, <1>11 DEF Next, Round, Answer

-----------------------------------------------------------------------------
(* The repairs *)

\* One repair moves, the approve file is not made, and repair-busy stands only
\* for a repair that is under way.
LEMMA MoveStep ==
  ASSUME RepairInv, NEW r \in Repairers, NEW p \in RepairRecords,
         NEW h \in SUBSET Repairers, h \ {r} = hold \ {r},
         repair' = [repair EXCEPT ![r] = p], hold' = h,
         approve' \in BOOLEAN, approve' => approve, repairBusy' \in BOOLEAN,
         RepairOK(r, p, h, approve'),
         repairBusy' => p.at # "idle" \/ (repairBusy /\ repair[r].at = "idle")
  PROVE  RepairInv'
<1>1. repair'[r] = p
  BY DEF RepairInv
<1>2. \A s \in Repairers \ {r} : repair'[s] = repair[s] /\ (s \in hold' <=> s \in hold)
  BY DEF RepairInv
<1>3. \A s \in Repairers : RepairOK(s, repair'[s], hold', approve')
  <2> TAKE s \in Repairers
  <2>1. CASE s = r
    BY <1>1, <2>1
  <2>2. CASE s # r
    BY <1>2, <2>2 DEF RepairInv, RepairOK
  <2> QED
    BY <2>1, <2>2
<1>4. BusyHasRepair'
  <2> SUFFICES ASSUME repairBusy' PROVE \E s \in Repairers : repair'[s].at # "idle"
    BY DEF BusyHasRepair, Repairing
  <2>1. CASE p.at # "idle"
    BY <1>1, <2>1
  <2>2. CASE repairBusy /\ repair[r].at = "idle"
    <3>1. PICK s \in Repairers : repair[s].at # "idle"
      BY <2>2 DEF RepairInv, BusyHasRepair, Repairing
    <3> QED
      BY <1>2, <2>2, <3>1
  <2> QED
    BY <2>1, <2>2
<1>5. repair' \in [Repairers -> RepairRecords] /\ hold' \subseteq Repairers
  BY DEF RepairInv
<1> QED
  BY <1>3, <1>4, <1>5 DEF RepairInv

\* A move that leaves the history of the key alone.
LEMMA HoldSame == RepairInv => hold \in SUBSET Repairers
BY DEF RepairInv

\* A repair that returns tells the truth when its caller does.
LEMMA ReturnStep ==
  ASSUME RepairInv, NEW r \in Repairers, approve' \in BOOLEAN, approve' => approve,
         NEW state \in {"not_started", "completed", "unknown"},
         NEW status \in {"approval_unavailable", "approval_timeout", "recovered",
                         "verification_failed", "execution_failed"},
         Return(r, state, status),
         state = "not_started" => ~repair[r].ran,
         status = "verification_failed" => repair[r].ran
  PROVE  RepairInv'
<1> DEFINE p == Idle(state, status, repair[r].ran)
<1>1. repair[r].ran \in BOOLEAN
  BY DEF RepairInv, RepairRecords
<1>2. p \in RepairRecords
  BY <1>1, DashboardAssumption DEF Idle, RepairRecords
<1>3. RepairOK(r, p, hold \ {r}, approve')
  BY DEF RepairOK, Idle
<1>4. p.at = "idle" /\ hold \ {r} \in SUBSET Repairers
  BY DEF Idle, RepairInv
<1>5. repair' = [repair EXCEPT ![r] = p] /\ repairBusy' = FALSE /\ hold' = hold \ {r}
  BY DEF Return
<1> HIDE DEF p
<1> QED
  BY <1>2, <1>3, <1>4, <1>5, MoveStep

\* The key: a hold approves every repair that waits.
LEMMA KeyStep == ASSUME RepairInv, Press \/ Held PROVE RepairInv'
<1>1. UNCHANGED <<repair, repairBusy>>
  BY DEF Press, Held, files
<1>2. CASE Press
  <2>1. UNCHANGED <<hold, approve>>
    BY <1>2 DEF Press, files
  <2> QED
    BY <1>1, <2>1 DEF RepairInv, BusyHasRepair, Repairing
<1>3. CASE Held
  <2>1. hold' = Repairing /\ approve' = TRUE
    BY <1>3 DEF Held
  <2>2. hold' \subseteq Repairers
    BY <2>1 DEF Repairing
  <2>3. \A r \in Repairers : r \in hold' <=> repair[r].at # "idle"
    BY <2>1 DEF Repairing
  <2>4. \A r \in Repairers : RepairOK(r, repair'[r], hold', approve')
    BY <1>1, <2>3 DEF RepairInv, RepairOK
  <2> QED
    BY <1>1, <2>1, <2>2, <2>4 DEF RepairInv, BusyHasRepair, Repairing
<1> QED
  BY <1>2, <1>3

LEMMA SendStep ==
  ASSUME RepairInv, NEW r \in Repairers, NEW ran \in BOOLEAN, NEW answered \in BOOLEAN,
         Send(r, ran, answered)
  PROVE  RepairInv'
<1> DEFINE p == [at |-> "verifying", tries |-> 0, sent |-> answered, ran |-> ran,
                 state |-> "none", status |-> "none"]
<1>1. p \in RepairRecords
  BY DashboardAssumption DEF RepairRecords
<1>2. UNCHANGED <<hold, approve, repairBusy>> /\ repair' = [repair EXCEPT ![r] = p]
      /\ repair[r].at = "settling" /\ (answered => ran)
  BY DEF Send, files
<1>3. RepairOK(r, p, hold, approve')
  BY <1>2 DEF RepairOK, RepairInv
<1>4. p.at # "idle" /\ approve' \in BOOLEAN /\ (approve' => approve) /\ repairBusy' \in BOOLEAN
  BY <1>2 DEF RepairInv
<1> HIDE DEF p
<1> QED
  BY <1>1, <1>2, <1>3, <1>4, HoldSame, MoveStep

LEMMA VerifyStep ==
  ASSUME RepairInv, NEW r \in Repairers, NEW o \in PostRequest, Verify(r, o)
  PROVE  RepairInv'
<1>1. approve' \in BOOLEAN /\ (approve' => approve) /\ repair[r].at = "verifying"
  BY DEF Verify, RepairInv
<1>2. repair[r] \in RepairRecords /\ RepairOK(r, repair[r], hold, approve)
  BY DEF RepairInv
<1>3. CASE Recovered(o)
  BY <1>1, <1>3, ReturnStep DEF Verify
<1>4. CASE ~Recovered(o) /\ repair[r].tries + 1 < VerifyTries
  <2> DEFINE p == [repair[r] EXCEPT !.tries = repair[r].tries + 1]
  <2>1. p \in RepairRecords
    BY <1>2, <1>4, DashboardAssumption DEF RepairRecords
  <2>2. /\ p.at = repair[r].at /\ p.sent = repair[r].sent /\ p.ran = repair[r].ran
        /\ p.state = repair[r].state /\ p.status = repair[r].status
    BY <1>2 DEF RepairRecords
  <2>3. repair' = [repair EXCEPT ![r] = p] /\ UNCHANGED <<hold, repairBusy, approve>>
    BY <1>4 DEF Verify
  <2> HIDE DEF p
  <2>4. RepairOK(r, p, hold, approve')
    BY <1>1, <1>2, <2>2, <2>3 DEF RepairOK
  <2>5. p.at # "idle" /\ repairBusy' \in BOOLEAN
    BY <1>1, <2>2, <2>3 DEF RepairInv
  <2> QED
    BY <1>1, <2>1, <2>3, <2>4, <2>5, HoldSame, MoveStep
<1>5. CASE ~Recovered(o) /\ ~(repair[r].tries + 1 < VerifyTries)
  <2>1. Return(r, Unverified(r).state, Unverified(r).status)
    BY <1>5 DEF Verify
  <2>2. CASE repair[r].sent
    <3>1. Return(r, "completed", "verification_failed") /\ repair[r].ran
      BY <1>1, <1>2, <2>1, <2>2 DEF Unverified, RepairOK
    <3> QED
      BY <1>1, <3>1, ReturnStep
  <2>3. CASE ~repair[r].sent
    <3>1. Return(r, "unknown", "execution_failed")
      BY <2>1, <2>3 DEF Unverified
    <3> QED
      BY <1>1, <3>1, ReturnStep
  <2> QED
    BY <2>2, <2>3
<1> QED
  BY <1>3, <1>4, <1>5

\* A move that opens no approval and leaves the files of the repairs alone, but
\* for the approve file, which may be removed.
LEMMA WalkStep ==
  ASSUME RepairInv, NEW r \in Repairers, repair[r].at # "idle", ~repair[r].ran,
         NEW at \in {"waiting", "expired", "approved", "settling"}, Moves(r, at),
         UNCHANGED <<repairBusy, hold>>, approve' \in BOOLEAN, approve' => approve,
         at = "waiting" => ~approve',
         at \in {"approved", "settling"} => r \in hold
  PROVE  RepairInv'
<1> DEFINE p == [repair[r] EXCEPT !.at = at]
<1>1. repair[r] \in RepairRecords
  BY DEF RepairInv
<1>2. p \in RepairRecords /\ p.at = at /\ p.ran = repair[r].ran
  BY <1>1 DEF RepairRecords
<1>3. repair' = [repair EXCEPT ![r] = p]
  BY DEF Moves
<1> HIDE DEF p
<1>4. RepairOK(r, p, hold, approve')
  BY <1>2 DEF RepairOK
<1>5. repairBusy' \in BOOLEAN /\ p.at # "idle"
  BY <1>2 DEF RepairInv
<1> QED
  BY <1>2, <1>3, <1>4, <1>5, HoldSame, MoveStep

LEMMA PromptStep ==
  ASSUME RepairInv, NEW r \in Repairers, Prompt(r) \/ NoTime(r)
  PROVE  RepairInv'
<1>0. UNCHANGED <<hold, approve>>
  BY DEF Prompt, NoTime, files
<1>1. CASE Prompt(r)
  <2> DEFINE p == [at |-> "prompted", tries |-> 0, sent |-> FALSE, ran |-> FALSE,
                   state |-> "none", status |-> "none"]
  <2>1. p \in RepairRecords
    BY DashboardAssumption DEF RepairRecords
  <2>2. p.at = "prompted" /\ p.ran = FALSE
    OBVIOUS
  <2>3. repair' = [repair EXCEPT ![r] = p] /\ repairBusy' = TRUE
    BY <1>1 DEF Prompt
  <2> HIDE DEF p
  <2>4. RepairOK(r, p, hold, approve') /\ approve' \in BOOLEAN
    BY <1>0, <2>2 DEF RepairOK, RepairInv
  <2> QED
    BY <1>0, <2>1, <2>2, <2>3, <2>4, HoldSame, MoveStep
<1>2. CASE NoTime(r)
  <2> DEFINE p == Idle("not_started", "approval_unavailable", FALSE)
  <2>1. p \in RepairRecords
    BY DashboardAssumption DEF Idle, RepairRecords
  <2>2. RepairOK(r, p, hold, approve')
    BY DEF RepairOK, Idle
  <2>3. repair' = [repair EXCEPT ![r] = p] /\ UNCHANGED repairBusy /\ repair[r].at = "idle"
    BY <1>2 DEF NoTime, files
  <2> HIDE DEF p
  <2>4. approve' \in BOOLEAN /\ repairBusy' \in BOOLEAN
    BY <1>0, <2>3 DEF RepairInv
  <2> QED
    BY <1>0, <2>1, <2>2, <2>3, <2>4, HoldSame, MoveStep
<1> QED
  BY <1>1, <1>2

LEMMA OneRepairStep ==
  ASSUME RepairInv, NEW r \in Repairers, Repair(r)
  PROVE  RepairInv'
<1> USE DEF files
<1>0. RepairOK(r, repair[r], hold, approve) /\ approve \in BOOLEAN
  BY DEF RepairInv
<1>1. CASE Wait(r)
  BY <1>0, <1>1, WalkStep DEF Wait, Emptied, RepairOK
<1>2. CASE Expire(r)
  BY <1>0, <1>2, WalkStep DEF Expire, RepairOK
<1>3. CASE GiveUp(r)
  BY <1>0, <1>3, ReturnStep DEF GiveUp, RepairOK
<1>4. CASE SeeApproval(r)
  BY <1>0, <1>4, WalkStep DEF SeeApproval, RepairOK
<1>5. ASSUME NEW random \in BOOLEAN, Approve(r, random) PROVE RepairInv'
  <2>1. CASE random
    BY <1>0, <1>5, <2>1, WalkStep DEF Approve, RepairOK
  <2>2. CASE ~random
    BY <1>0, <1>5, <2>2, ReturnStep DEF Approve, RepairOK
  <2> QED
    BY <2>1, <2>2
<1> QED
  BY <1>1, <1>2, <1>3, <1>4, <1>5, SendStep, VerifyStep DEF Repair

\* What the other actions leave alone.
LEMMA RepairsSame ==
  ASSUME Next
  PROVE  \/ UNCHANGED <<repairBusy, approve, repair, hold>>
         \/ Press \/ Held
         \/ \E r \in Repairers : Prompt(r) \/ NoTime(r) \/ Repair(r)
<1> USE DEF files
<1>1. Pass \/ Resume \/ StayPaused \/ Lost \/ Asked => UNCHANGED <<repairBusy, approve, repair, hold>>
  BY DEF Pass, Resume, StayPaused, Lost, Asked
<1>2. LookForQuestion \/ LookForRepair \/ SeeReply => UNCHANGED <<repairBusy, approve, repair, hold>>
  BY DEF LookForQuestion, LookForRepair, SeeReply, Goes
<1>3. Ask \/ RemoveDone \/ RemoveBusy \/ PauseOver \/ Release \/ ShowMessage
        => UNCHANGED <<repairBusy, approve, repair, hold>>
  BY DEF Ask, RemoveDone, RemoveBusy, PauseOver, Release, ShowMessage
<1>4. ASSUME NEW o, NEW late, NEW encoded, NEW asks, Reading(o, late, encoded, asks)
      PROVE  UNCHANGED <<repairBusy, approve, repair, hold>>
  BY <1>4 DEF Reading
<1>5. ASSUME NEW a, Queue(a) \/ DiagnoseLlm(a) PROVE UNCHANGED <<repairBusy, approve, repair, hold>>
  BY <1>5 DEF Queue, ForgetReply, MarkBusy, SetPause, DiagnoseLlm
<1>6. ASSUME NEW r, Reply(r) PROVE UNCHANGED <<repairBusy, approve, repair, hold>>
  BY <1>6 DEF Reply
<1> QED
  BY <1>1, <1>2, <1>3, <1>4, <1>5, <1>6 DEF Next, Round, Answer

LEMMA RepairStep == ASSUME RepairInv, Next PROVE RepairInv'
<1>1. CASE UNCHANGED <<repairBusy, approve, repair, hold>>
  BY <1>1 DEF RepairInv, BusyHasRepair, Repairing
<1> QED
  BY <1>1, RepairsSame, KeyStep, PromptStep, OneRepairStep

-----------------------------------------------------------------------------
(* The last readings *)

\* With thresholds of two, a reading that is not late moves the tracker and the
\* history of readings together.
LEMMA TrailReading ==
  ASSUME FailureThreshold = 2, RecoveryThreshold = 2, TrackerOK(tracker), Trail, NEW o,
         tracker' = Apply(o), past'.run = Lately(past.run, o # {})
  PROVE  Trail'
<1> DEFINE f == tracker.failures
           c == tracker.successes
<1>1. tracker.state \in {"healthy", "suspected", "open", "recovered"}
  BY DEF TrackerOK
<1>2. tracker = Tracker(tracker.state, f, c)
  BY DEF TrackerOK, Tracker
<1>3. \A s, x, y : /\ Tracker(s, x, y).state = s /\ Tracker(s, x, y).failures = x
                   /\ Tracker(s, x, y).successes = y
  BY DEF Tracker
<1> HIDE DEF f, c
<1>4. CASE o = {}
  <2>1. tracker' = Better(tracker) /\ past'.run = Lately(past.run, FALSE)
    BY <1>4, NormalIsNoTrouble DEF Apply
  <2>2. CASE tracker.state = "healthy"
    <3>1. past'.run \in {<<FALSE>>, <<FALSE, FALSE>>}
      BY <2>1, <2>2, LatelyTable DEF Trail
    <3>2. tracker'.state = "healthy"
      BY <1>2, <1>3, <2>1, <2>2, BetterIs
    <3> QED
      BY <3>1, <3>2 DEF Trail
  <2>3. CASE tracker.state = "suspected"
    <3>1. past'.run \in {<<TRUE, FALSE>>}
      BY <2>1, <2>3, LatelyTable DEF Trail
    <3>2. tracker'.state = "healthy"
      BY <1>2, <1>3, <2>1, <2>3, BetterIs
    <3> QED
      BY <3>1, <3>2 DEF Trail
  <2>4. CASE tracker.state = "recovered"
    <3>1. past'.run = <<FALSE, FALSE>>
      BY <2>1, <2>4, LatelyTable DEF Trail
    <3>2. tracker'.state = "healthy"
      BY <1>2, <1>3, <2>1, <2>4, BetterIs
    <3> QED
      BY <3>1, <3>2 DEF Trail
  <2>5. CASE tracker.state = "open" /\ c = 0
    <3>0. past.run \in {<<TRUE, TRUE>>, <<FALSE, TRUE>>}
      <4>1. \/ c = 0 /\ past.run \in {<<TRUE, TRUE>>, <<FALSE, TRUE>>}
            \/ c = 1 /\ past.run = <<TRUE, FALSE>>
        BY <2>5, Zenon DEF Trail, c
      <4>2. ~(c = 0 /\ c = 1)
        OBVIOUS
      <4> QED
        BY <2>5, <4>1, <4>2, Zenon
    <3>1. past'.run = <<TRUE, FALSE>>
      BY <2>1, <3>0, LatelyTable
    <3>2. tracker'.state = "open" /\ tracker'.successes = 1
      BY <1>2, <1>3, <2>1, <2>5, BetterIs DEF Enough
    <3> QED
      BY <3>1, <3>2 DEF Trail
  <2>6. CASE tracker.state = "open" /\ c = 1
    <3>0. past.run = <<TRUE, FALSE>>
      <4>1. \/ c = 0 /\ past.run \in {<<TRUE, TRUE>>, <<FALSE, TRUE>>}
            \/ c = 1 /\ past.run = <<TRUE, FALSE>>
        BY <2>6, Zenon DEF Trail, c
      <4>2. ~(c = 0 /\ c = 1)
        OBVIOUS
      <4> QED
        BY <2>6, <4>1, <4>2, Zenon
    <3>1. past'.run = <<FALSE, FALSE>>
      BY <2>1, <3>0, LatelyTable
    <3>2. tracker'.state = "recovered"
      BY <1>2, <1>3, <2>1, <2>6, BetterIs DEF Enough
    <3> QED
      BY <3>1, <3>2 DEF Trail
  <2> QED
    BY <1>1, <2>2, <2>3, <2>4, <2>5, <2>6 DEF Trail, c
<1>5. CASE o # {}
  <2>1. tracker' = Worse(tracker) /\ past'.run = Lately(past.run, TRUE)
    BY <1>5, NormalIsNoTrouble DEF Apply
  <2>2. CASE tracker.state \in {"healthy", "recovered"}
    <3>1. past'.run \in {<<TRUE>>, <<FALSE, TRUE>>}
      BY <2>1, <2>2, LatelyTable DEF Trail
    <3>2. tracker'.state = "suspected" /\ tracker'.failures = 1
      BY <1>2, <1>3, <2>1, <2>2, WorseIs, StartFailureIs
    <3> QED
      BY <3>1, <3>2 DEF Trail
  <2>3. CASE tracker.state = "suspected"
    <3>1. past'.run = <<TRUE, TRUE>>
      BY <2>1, <2>3, LatelyTable DEF Trail
    <3>2. tracker'.state = "open" /\ tracker'.successes = 0
      BY <1>2, <1>3, <2>1, <2>3, WorseIs DEF Trail, f
    <3> QED
      BY <3>1, <3>2 DEF Trail
  <2>4. CASE tracker.state = "open"
    <3>1. past'.run \in {<<TRUE, TRUE>>, <<FALSE, TRUE>>}
      BY <2>1, <2>4, LatelyTable DEF Trail
    <3>2. tracker'.state = "open" /\ tracker'.successes = 0
      BY <1>2, <1>3, <2>1, <2>4, WorseIs
    <3> QED
      BY <3>1, <3>2 DEF Trail
  <2> QED
    BY <1>1, <2>2, <2>3, <2>4
<1> QED
  BY <1>4, <1>5
\* Only a reading moves the tracker or the history of the readings.
LEMMA OnlyReadings ==
  ASSUME BoardInv, Next, tracker' # tracker \/ past'.run # past.run
  PROVE  \E o, late, encoded, asks : Reading(o, late, encoded, asks)
<1> USE DEF files
<1>1. past \in PastRecords
  BY DEF BoardInv, LoopInv
<1>2. Pass \/ Resume \/ StayPaused \/ Lost \/ Asked => UNCHANGED <<tracker, past>>
  BY DEF Pass, Resume, StayPaused, Lost, Asked
<1>3. LookForQuestion \/ LookForRepair \/ SeeReply => UNCHANGED <<tracker, past>>
  BY DEF LookForQuestion, LookForRepair, SeeReply, Goes
<1>4. Ask \/ RemoveDone \/ RemoveBusy \/ PauseOver \/ Press \/ Held \/ Release \/ ShowMessage
        => UNCHANGED <<tracker, past>>
  BY DEF Ask, RemoveDone, RemoveBusy, PauseOver, Press, Held, Release, ShowMessage
<1>5. ASSUME NEW a, Queue(a) \/ DiagnoseLlm(a) PROVE tracker' = tracker /\ past'.run = past.run
  BY <1>1, <1>5 DEF Queue, ForgetReply, MarkBusy, SetPause, DiagnoseLlm, Asks, PastRecords
<1>6. ASSUME NEW r, Prompt(r) \/ NoTime(r) \/ Repair(r) PROVE UNCHANGED <<tracker, past>>
  BY <1>6 DEF Prompt, NoTime, Repair, Wait, Expire, GiveUp, SeeApproval, Approve, Send, Verify
<1>7. ASSUME NEW r, Reply(r) PROVE tracker' = tracker /\ past'.run = past.run
  BY <1>1, <1>7 DEF Reply, PastRecords
<1> QED
  BY <1>2, <1>3, <1>4, <1>5, <1>6, <1>7 DEF Next, Round, Answer

LEMMA TrailStep ==
  ASSUME FailureThreshold = 2, RecoveryThreshold = 2, BoardInv, Trail, [Next]_vars
  PROVE  Trail'
<1>1. CASE tracker' = tracker /\ past'.run = past.run
  BY <1>1 DEF Trail
<1>2. ASSUME NEW o, NEW late, NEW encoded, NEW asks, Reading(o, late, encoded, asks)
      PROVE  Trail'
  <2>1. past \in PastRecords /\ TrackerOK(tracker)
    BY DEF BoardInv, LoopInv
  <2>2. CASE late
    <3>1. tracker' = tracker /\ past'.run = past.run
      BY <1>2, <2>1, <2>2 DEF Reading, PastRecords
    <3> QED
      BY <3>1 DEF Trail
  <2>3. CASE ~late
    <3>1. tracker' = Apply(o) /\ past'.run = Lately(past.run, o # {})
      BY <1>2, <2>1, <2>3 DEF Reading, PastRecords
    <3> QED
      BY <2>1, <3>1, TrailReading
  <2> QED
    BY <2>2, <2>3
<1>3. UNCHANGED vars => tracker' = tracker /\ past'.run = past.run
  BY DEF vars
<1> QED
  BY <1>1, <1>2, <1>3, OnlyReadings

LEMMA TrailTells == Trail /\ TrackerOK(tracker) => Debounced
<1> SUFFICES ASSUME Trail, TrackerOK(tracker) PROVE Debounced
  OBVIOUS
<1>1. tracker.state \in {"healthy", "suspected", "open", "recovered"}
  BY DEF TrackerOK
<1>2. /\ <<TRUE, TRUE>> \notin {<<>>, <<FALSE>>, <<TRUE, FALSE>>, <<FALSE, FALSE>>, <<TRUE>>, <<FALSE, TRUE>>}
      /\ <<FALSE, FALSE>> \notin {<<TRUE>>, <<FALSE, TRUE>>, <<TRUE, TRUE>>, <<TRUE, FALSE>>}
  OBVIOUS
<1>3. CASE tracker.state = "healthy"
  BY <1>2, <1>3 DEF Trail, Debounced
<1>4. CASE tracker.state = "suspected"
  BY <1>2, <1>4 DEF Trail, Debounced
<1>5. CASE tracker.state = "open"
  BY <1>2, <1>5 DEF Trail, Debounced
<1>6. CASE tracker.state = "recovered"
  BY <1>2, <1>6 DEF Trail, Debounced
<1> QED
  BY <1>1, <1>3, <1>4, <1>5, <1>6

-----------------------------------------------------------------------------
(* Theorems *)

LEMMA BoardStep == BoardInv /\ [Next]_vars => BoardInv'
<1> SUFFICES ASSUME BoardInv, [Next]_vars PROVE BoardInv'
  OBVIOUS
<1>1. CASE Next
  BY <1>1, LoopStep, RepairStep DEF BoardInv
<1>2. CASE UNCHANGED vars
  <2>1. LoopInv'
    BY <1>2 DEF vars, screen, files, BoardInv, LoopInv, OwedInv, Unforgotten, Unmarked, Removing
  <2>2. RepairInv'
    BY <1>2 DEF vars, files, BoardInv, RepairInv, BusyHasRepair, Repairing
  <2> QED
    BY <2>1, <2>2 DEF BoardInv
<1> QED
  BY <1>1, <1>2

LEMMA BoardAlways == Spec => []BoardInv
  BY BoardInit, BoardStep, PTL DEF Spec

\* A question the agent still works on keeps its busy file, whoever asked it and
\* whatever replies, readings and repairs came in between, if the file was made
\* while the monitor was not about to remove one; and no repair-busy file
\* outlives the last repair, however many run at once.
THEOREM FlagsAgree == Spec => []DashboardInv
<1>1. BoardInv => DashboardInv
  <2> SUFFICES ASSUME BoardInv PROVE DashboardInv
    OBVIOUS
  <2>1. TypeOK
    BY DEF BoardInv, LoopInv, RepairInv, TrackerOK, RepairRecords, TypeOK
  <2>2. QuestionKeepsBusy
    BY DEF BoardInv, LoopInv, OwedInv, Unmarked, QuestionKeepsBusy, Queueing
  <2> QED
    BY <2>1, <2>2 DEF BoardInv, RepairInv, DashboardInv
<1> QED
  BY <1>1, BoardAlways, PTL

\* The agent never hears of a restart what did not happen: "not_started" of one
\* that ran, or a failed verification of one that did not.
THEOREM ResultsAreHonest == Spec => []ResultIsHonest
<1>1. BoardInv => ResultIsHonest
  BY DEF BoardInv, RepairInv, RepairOK, ResultIsHonest
<1> QED
  BY <1>1, BoardAlways, PTL

\* One reading alone opens and closes no incident, with the thresholds of two
\* of the monitor (velaops_incident_tracker_init).
THEOREM IncidentsAreDebounced ==
  ASSUME FailureThreshold = 2, RecoveryThreshold = 2 PROVE Spec => []Debounced
<1>1. Init => Trail
  BY DEF Init, Trail
<1>2. BoardInv /\ Trail /\ [Next]_vars => Trail'
  BY TrailStep
<1>3. BoardInv /\ Trail => Debounced
  BY TrailTells DEF BoardInv, LoopInv
<1> QED
  BY <1>1, <1>2, <1>3, BoardAlways, PTL DEF Spec

\* Only a repair that settles asks for its restart.
LEMMA OnlySend ==
  ASSUME BoardInv, Next, NEW r \in Repairers, repair'[r].at = "verifying"
  PROVE  repair[r].at \in {"settling", "verifying"}
<1>1. repair \in [Repairers -> RepairRecords]
  BY DEF BoardInv, RepairInv
<1>2. CASE repair' = repair
  BY <1>2
<1>3. ASSUME NEW s \in Repairers, Prompt(s) \/ NoTime(s) \/ Repair(s)
      PROVE  repair[r].at \in {"settling", "verifying"}
  <2>1. CASE r # s
    <3>1. PICK p : repair' = [repair EXCEPT ![s] = p]
      BY <1>3 DEF Prompt, NoTime, Repair, Wait, Expire, GiveUp, SeeApproval, Approve, Send, Verify,
                  Moves, Return
    <3>2. repair'[r] = repair[r]
      BY <1>1, <2>1, <3>1
    <3> QED
      BY <3>2
  <2>2. CASE r = s
    <3>1. \A state, status, ran : Idle(state, status, ran).at = "idle"
      BY DEF Idle
    <3>2. ~(\E state, status : Return(r, state, status))
      BY <1>1, <3>1 DEF Return
    <3>3. \A at : Moves(r, at) => at = "verifying"
      BY <1>1 DEF Moves, RepairRecords
    <3>4. ~Prompt(r)
      BY <1>1 DEF Prompt
    <3>5. ~NoTime(r)
      <4> SUFFICES ASSUME NoTime(r) PROVE FALSE
        OBVIOUS
      <4>1. repair'[r] = Idle("not_started", "approval_unavailable", FALSE)
        BY <1>1 DEF NoTime
      <4> QED
        BY <3>1, <4>1
    <3> QED
      BY <1>3, <2>2, <3>2, <3>3, <3>4, <3>5
      DEF Repair, Wait, Expire, GiveUp, SeeApproval, Approve, Send, Verify
  <2> QED
    BY <2>1, <2>2
<1> QED
  BY <1>2, <1>3, RepairsSame DEF Press, Held

\* A restart is asked for only after a hold of the key that ended since the
\* prompt of its own repair, whatever other repairs did to the approve file.
THEOREM HoldsApprove == Spec => HoldApproves
<1> DEFINE R == \A r \in Repairers : repair'[r].at = "verifying" /\ repair[r].at # "verifying"
                                     => r \in hold
<1>1. BoardInv /\ [Next]_vars => [R]_vars
  <2> SUFFICES ASSUME BoardInv, Next PROVE R
    OBVIOUS
  <2> SUFFICES ASSUME NEW r \in Repairers, repair'[r].at = "verifying", repair[r].at # "verifying"
               PROVE  r \in hold
    OBVIOUS
  <2>1. repair[r].at = "settling"
    BY OnlySend
  <2> QED
    BY <2>1 DEF BoardInv, RepairInv, RepairOK
<1>2. HoldApproves <=> [][R]_vars
  BY DEF HoldApproves
<1> QED
  BY <1>1, <1>2, BoardAlways, PTL DEF Spec
=============================================================================
