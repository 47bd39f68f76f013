---------------------------- MODULE TunnelProofs ----------------------------
(***************************************************************************)
(* The invariants of Tunnel for any number of tasks, requests, rounds,     *)
(* chunks and lost lines: the lock and the request on its way, and that a  *)
(* result a task takes is the answer to its own, executed request.         *)
(***************************************************************************)
EXTENDS Tunnel, FiniteSetTheorems, SequenceTheorems, WellFoundedInduction, TLAPS

Entries  == [known : BOOLEAN, chunks : SUBSET Pieces]
Deliveries == [req : Requests, whole : BOOLEAN]
Says     == {"done", "refused", "unnamed"}
Halves   == [half : {1, 2}, req : Requests, says : Says]

TasksOK ==
  tasks \in [Tasks -> [at : {"idle", "locking", "waiting"}, req : 0 .. MaxRequests,
                       got : {"nothing", "answer", "result", "error"}]]

\* Every request that is made has its number within the bound: who waits for
\* the lock has one in reserve.
Locking  == {d \in Tasks : tasks[d].at = "locking"}
MadeInv  == made \in Nat /\ made + Cardinality(Locking) <= MaxRequests
BacklogInv == backlog \in Seq([by : Tasks, req : Requests])

\* The lock belongs to who has a request on its way; only the model's task
\* may have one without it.
LockInv ==
  /\ holder \in Tasks \cup {Nobody}
  /\ \A c \in Callers : tasks[c].at = "waiting" => holder = c
  /\ \A c \in Callers : tasks[c].at # "idle" => tasks[c].got = "nothing"
  /\ HolderIsAtWork

TunnelOK ==
  /\ tunnel \in [at : {"accept", "reading", "sending", "listening", "awaiting"},
                 by : Tasks \cup {Nobody}, req : 0 .. MaxRequests, round : 0 .. MaxRounds - 1,
                 missing : SUBSET Pieces]
  /\ tunnel.at # "accept" => tunnel.by \in Tasks /\ tunnel.req \in Requests

FilesOK == nack \subseteq 0 .. Chunks /\ ack \in BOOLEAN /\ ready \in BOOLEAN

PendingInv ==
  /\ pending \in [Requests -> Entries] /\ latest \in 0 .. MaxRequests
  /\ owed \in Seq(Deliveries)

\* Whatever the relay holds or has written as a result was executed.
ResultInv ==
  /\ queue \in Seq(Deliveries) /\ run \subseteq Requests
  /\ worker \in [at : {"idle", "checking", "first", "second", "flag"}, req : 0 .. MaxRequests, says : Says]
  /\ worker.at # "idle" => worker.req \in Requests
  /\ worker.says = "done" => worker.req \in run
  /\ b64 \in Seq(Halves)
  /\ \A i \in DOMAIN b64 : b64[i].says = "done" => b64[i].req \in run

WireInv == /\ TasksOK /\ MadeInv /\ BacklogInv /\ LockInv /\ TunnelOK /\ FilesOK
           /\ PendingInv /\ ResultInv /\ lost \in 0 .. MaxLost

-----------------------------------------------------------------------------
(* Least and greatest numbers *)

\* A set of numbers that is not empty has a least one.
LEMMA LeastExists ==
  ASSUME NEW S, S \subseteq Nat, S # {}
  PROVE  \E m \in S : \A k \in S : m <= k
<1> DEFINE R == {ss \in Nat \X Nat : ss[1] < ss[2]}
<1>1. IsWellFoundedOn(R, Nat)
  BY NatLessThanWellFounded, Zenon DEF OpToRel
<1> HIDE DEF R
<1>2. PICK m \in S : \A y \in S : ~(<<y, m>> \in R)
  BY <1>1, WFMin
<1>3. ASSUME NEW k \in S
      PROVE  m <= k
  <2>1. k < m => <<k, m>> \in R
    BY DEF R
  <2>2. ~(k < m) /\ k \in Nat /\ m \in Nat
    BY <1>2, <2>1
  <2> QED
    BY <2>2
<1> QED
  BY <1>3

\* The greatest chunk a request has is one of its pieces.
LEMMA MaxOfPieces ==
  ASSUME NEW S, S \subseteq Pieces, S # {}
  PROVE  Max(S) \in S /\ \A k \in S : k <= Max(S)
<1> USE TunnelAssumption DEF Pieces
<1> DEFINE Above == {Chunks - k : k \in S}
<1>1. Above \subseteq Nat /\ Above # {}
  <2>1. \A k \in S : Chunks - k \in Nat
    OBVIOUS
  <2>2. PICK k \in S : TRUE
    OBVIOUS
  <2>3. Chunks - k \in Above
    OBVIOUS
  <2> QED
    BY <2>1, <2>3
<1>2. PICK m \in Above : \A k \in Above : m <= k
  <2> HIDE DEF Above
  <2> QED
    BY <1>1, LeastExists
<1>3. Chunks - m \in S /\ \A k \in S : Chunks - m >= k
  BY <1>2
<1>4. Max(S) \in S /\ \A k \in S : Max(S) >= k
  BY <1>3, Zenon DEF Max
<1> QED
  BY <1>4

\* The parts that are expected are pieces of the request.
LEMMA ExpectedPieces ==
  ASSUME NEW entry \in Entries
  PROVE  Expected(entry) \subseteq Pieces
<1>1. CASE entry.known \/ entry.chunks = {}
  BY <1>1 DEF Expected, Entries
<1>2. CASE ~entry.known /\ entry.chunks # {}
  <2>1. Max(entry.chunks) \in Pieces
    BY <1>2, MaxOfPieces DEF Entries
  <2> QED
    BY <1>2, <2>1, TunnelAssumption DEF Expected, Entries, Pieces
<1> QED
  BY <1>1, <1>2

-----------------------------------------------------------------------------
(* What the relay makes of a round *)

Known == [pending : [Requests -> Entries], latest : 0 .. MaxRequests, owed : Seq(Deliveries)]

\* A line that is heard leaves the relay with entries of requests.
LEMMA HeardOK ==
  ASSUME NEW state \in Known, NEW xid \in Requests, NEW line \in 0 .. Chunks
  PROVE  Heard(state, xid, line) \in Known
<1> USE TunnelAssumption DEF Requests
<1> DEFINE now == IF line = Header
                  THEN [x \in Requests |-> IF x = xid THEN [None EXCEPT !.known = TRUE] ELSE None]
                  ELSE [state.pending EXCEPT ![xid].chunks = @ \cup {line}]
           entry == now[xid]
           top   == IF line = Header THEN Max({state.latest, xid}) ELSE state.latest
           due   == IF Whole(entry)
                    THEN Append(state.owed, [req |-> xid, whole |-> Expected(entry) = Pieces])
                    ELSE state.owed
           left  == IF Whole(entry) THEN [now EXCEPT ![xid] = None] ELSE now
<1>1. now \in [Requests -> Entries]
  <2>1. CASE line = Header
    BY <2>1 DEF Entries, None
  <2>2. CASE line # Header
    <3>1. line \in Pieces
      BY <2>2 DEF Header, Pieces
    <3>2. state.pending \in [Requests -> Entries]
      BY DEF Known
    <3>3. state.pending[xid] \in Entries
      BY <3>2
    <3>4. [state.pending[xid] EXCEPT !.chunks = @ \cup {line}] \in Entries
      BY <3>1, <3>3 DEF Entries
    <3>5. now = [state.pending EXCEPT ![xid] = [state.pending[xid] EXCEPT !.chunks = @ \cup {line}]]
      BY <2>2, <3>2, <3>3
    <3> QED
      BY <3>2, <3>4, <3>5
  <2> QED
    BY <2>1, <2>2
<1> HIDE DEF now
<1>2. top \in 0 .. MaxRequests
  <2>1. state.latest \in 0 .. MaxRequests
    BY DEF Known
  <2>2. Max({state.latest, xid}) \in {state.latest, xid}
    <3>1. \E x \in {state.latest, xid} : \A y \in {state.latest, xid} : x >= y
      BY <2>1
    <3> QED
      BY <3>1, Zenon DEF Max
  <2> QED
    BY <2>1, <2>2
<1>3. due \in Seq(Deliveries)
  <2>1. state.owed \in Seq(Deliveries)
    BY DEF Known
  <2>2. [req |-> xid, whole |-> Expected(entry) = Pieces] \in Deliveries
    BY DEF Deliveries
  <2> QED
    BY <2>1, <2>2, AppendProperties
<1>4. left \in [Requests -> Entries]
  BY <1>1 DEF None, Entries
<1> HIDE DEF top, due, left
<1>5. Heard(state, xid, line) = [latest |-> top, pending |-> left, owed |-> due]
  BY Zenon DEF Heard, top, due, left, now
<1> QED
  BY <1>2, <1>3, <1>4, <1>5 DEF Known

\* What is known after a round is told of the requests: the lines are heard one
\* after the other, as many as there are.
LEMMA ToldOK ==
  ASSUME PendingInv, NEW xid \in Requests, NEW lines
  PROVE  Told(xid, lines) \in Known
<1> USE TunnelAssumption
<1> DEFINE start == [pending |-> pending, latest |-> latest, owed |-> owed]
           First == IF Header \in lines THEN Heard(start, xid, Header) ELSE start
           Then(s, n) == IF n - 1 \in lines THEN Heard(s, xid, n - 1) ELSE s
           Body(f, n) == IF n = 0 THEN IF Header \in lines THEN Heard(start, xid, Header) ELSE start
                         ELSE IF n - 1 \in lines THEN Heard(f[n - 1], xid, n - 1) ELSE f[n - 1]
           told[n \in 0 .. Chunks] ==
             IF n = 0 THEN IF Header \in lines THEN Heard(start, xid, Header) ELSE start
             ELSE IF n - 1 \in lines THEN Heard(told[n - 1], xid, n - 1) ELSE told[n - 1]
<1>1. Told(xid, lines) = told[Chunks]
  BY DEF Told
<1>2. First \in Known
  <2>1. start \in Known
    BY DEF Known, PendingInv
  <2> QED
    BY <2>1, HeardOK DEF Header
<1>3. \A s \in Known, n \in 1 .. Chunks : Then(s, n) \in Known
  BY HeardOK
<1> HIDE DEF start
\* A function that hears the first k lines exists, and what it hears is known.
<1> DEFINE Hears(g, k) == \A n \in 0 .. k : g[n] = Body(g, n)
           Fails == {k \in 0 .. Chunks : ~\E g : Hears(g, k)}
<1>4. Fails = {}
  <2> SUFFICES ASSUME Fails # {}
               PROVE  FALSE
    OBVIOUS
  <2>1. PICK m \in Fails : \A k \in Fails : m <= k
    <3>1. Fails \subseteq Nat
      OBVIOUS
    <3> HIDE DEF Fails
    <3> QED
      BY <3>1, LeastExists
  <2>2. CASE m = 0
    <3>1. Hears([n \in {0} |-> First], 0)
      OBVIOUS
    <3> QED
      BY <2>2, <3>1
  <2>3. CASE m # 0
    <3>1. m - 1 \in 0 .. Chunks /\ m - 1 \notin Fails
      BY <2>1, <2>3
    <3>2. PICK g : Hears(g, m - 1)
      BY <3>1
    <3> DEFINE h == [n \in 0 .. m |-> IF n = m THEN Then(g[m - 1], m) ELSE g[n]]
    <3>3. Hears(h, m)
      <4> TAKE n \in 0 .. m
      <4>1. CASE n = m
        BY <2>3, <4>1
      <4>2. CASE n # m
        BY <2>3, <3>2, <4>2
      <4> QED
        BY <4>1, <4>2
    <3> QED
      BY <3>3
  <2> QED
    BY <2>2, <2>3
<1>5. told = [n \in 0 .. Chunks |-> Body(told, n)]
  <2>1. PICK g : Hears(g, Chunks)
    BY <1>4
  <2> DEFINE h == [n \in 0 .. Chunks |-> g[n]]
  <2>2. h = [n \in 0 .. Chunks |-> Body(h, n)]
    BY <2>1
  <2> QED
    BY <2>2, Zenon DEF told
<1> HIDE DEF told
<1> DEFINE Bad == {n \in 0 .. Chunks : told[n] \notin Known}
<1>6. Bad = {}
  <2> SUFFICES ASSUME Bad # {}
               PROVE  FALSE
    OBVIOUS
  <2>1. PICK m \in Bad : \A k \in Bad : m <= k
    <3>1. Bad \subseteq Nat
      OBVIOUS
    <3> HIDE DEF Bad
    <3> QED
      BY <3>1, LeastExists
  <2>2. CASE m = 0
    BY <1>2, <1>5, <2>2
  <2>3. CASE m # 0
    <3>1. told[m - 1] \in Known
      BY <2>1, <2>3
    <3>2. told[m] = Then(told[m - 1], m)
      BY <1>5, <2>3
    <3> QED
      BY <1>3, <2>3, <3>1, <3>2
  <2> QED
    BY <2>2, <2>3
<1> QED
  BY <1>1, <1>6

-----------------------------------------------------------------------------
(* The tasks and their lock *)

BoardInv == TasksOK /\ MadeInv /\ LockInv

LEMMA TasksFinite == IsFiniteSet(Tasks) /\ Nobody \notin Tasks
  BY TunnelAssumption, FS_AddElement DEF Tasks

\* Those who wait for the lock are finitely many.
LEMMA LockingFinite == IsFiniteSet(Locking) /\ Cardinality(Locking) \in Nat
<1>1. Locking \subseteq Tasks
  BY DEF Locking
<1> QED
  BY <1>1, TasksFinite, FS_Subset, FS_CardinalityType

\* A task that is done with its request leaves no lock behind.
LEMMA FinishStep ==
  ASSUME BoardInv, NEW c \in Tasks, NEW got \in {"nothing", "answer", "result", "error"},
         Finish(c, got), made' = made
  PROVE  BoardInv'
<1> USE TunnelAssumption, TasksFinite
<1>1. TasksOK'
  BY DEF BoardInv, TasksOK, Finish
<1>2. MadeInv'
  <2>1. Locking' \subseteq Locking
    BY DEF BoardInv, TasksOK, Finish, Locking
  <2>2. Cardinality(Locking') <= Cardinality(Locking) /\ Cardinality(Locking') \in Nat
    BY <2>1, LockingFinite, FS_Subset, FS_CardinalityType
  <2> QED
    BY <2>2, LockingFinite DEF BoardInv, MadeInv
<1>3. LockInv'
  BY DEF BoardInv, TasksOK, LockInv, Finish, Unlocked, HolderIsAtWork, Tasks
<1> QED
  BY <1>1, <1>2, <1>3 DEF BoardInv

\* What a caller makes of an answer is one of its four results.
LEMMA ParsedOK ==
  ASSUME NEW c, NEW content
  PROVE  Parsed(c, content) \in {"nothing", "answer", "result", "error"}
  BY DEF Parsed

\* The tunnel's answer ends the request of a task, or nobody's.
LEMMA RespondStep ==
  ASSUME BoardInv, TunnelOK, tunnel.at # "accept", NEW content, Respond(content), made' = made
  PROVE  BoardInv'
<1>1. CASE tasks[tunnel.by].at = "waiting" /\ tasks[tunnel.by].req = tunnel.req
  <2> DEFINE got == IF content = <<>> THEN "nothing" ELSE Parsed(tunnel.by, content)
  <2>1. tunnel.by \in Tasks /\ got \in {"nothing", "answer", "result", "error"}
    BY ParsedOK DEF TunnelOK
  <2>2. Finish(tunnel.by, got)
    BY <1>1 DEF Respond
  <2> HIDE DEF got
  <2> QED
    BY <2>1, <2>2, FinishStep
<1>2. CASE ~(tasks[tunnel.by].at = "waiting" /\ tasks[tunnel.by].req = tunnel.req)
  BY <1>2 DEF Respond, BoardInv, TasksOK, MadeInv, Locking, LockInv, HolderIsAtWork
<1> QED
  BY <1>1, <1>2

\* A request that is made is one of those its task had in reserve.
LEMMA ConnectStep ==
  ASSUME BoardInv, BacklogInv, NEW c \in Tasks, tasks[c].at = "locking", NEW lock, Connect(c, lock)
  PROVE  TasksOK' /\ MadeInv' /\ BacklogInv'
<1> USE TunnelAssumption
<1>1. c \in Locking
  BY DEF Locking
<1>2. Locking' = Locking \ {c}
  BY DEF BoardInv, TasksOK, Connect, Locking
<1>3. Cardinality(Locking') = Cardinality(Locking) - 1 /\ Cardinality(Locking') \in Nat
  BY <1>1, <1>2, LockingFinite, FS_RemoveElement, FS_CardinalityType
<1>4. made + 1 \in Requests /\ MadeInv'
  BY <1>3, LockingFinite DEF BoardInv, MadeInv, Connect, Requests
<1>5. TasksOK'
  <2>1. tasks' = [tasks EXCEPT ![c] = [at |-> "waiting", req |-> made + 1, got |-> tasks[c].got]]
    BY DEF Connect
  <2>2. made + 1 \in 0 .. MaxRequests
    BY <1>4 DEF Requests
  <2> QED
    BY <2>1, <2>2 DEF BoardInv, TasksOK
<1>6. BacklogInv'
  BY <1>4, AppendProperties DEF BacklogInv, Connect
<1> QED
  BY <1>4, <1>5, <1>6

\* No step loses the lock, makes more requests than there may be, or spoils
\* the backlog.
LEMMA BoardStep ==
  BoardInv /\ BacklogInv /\ TunnelOK /\ [Next]_vars => BoardInv' /\ BacklogInv'
<1> SUFFICES ASSUME BoardInv, BacklogInv, TunnelOK, [Next]_vars
             PROVE  BoardInv' /\ BacklogInv'
  OBVIOUS
<1> USE TunnelAssumption, TasksFinite
<1>1. ASSUME NEW c \in Tasks, Begin(c)
      PROVE  BoardInv' /\ BacklogInv'
  <2>1. TasksOK' /\ BacklogInv'
    BY <1>1 DEF Begin, BoardInv, TasksOK, BacklogInv
  <2>2. MadeInv'
    <3>1. c \notin Locking /\ Locking' = Locking \cup {c}
      BY <1>1 DEF Begin, BoardInv, TasksOK, Locking
    <3>2. Cardinality(Locking') = Cardinality(Locking) + 1
      BY <3>1, LockingFinite, FS_AddElement
    <3>3. made' = made /\ made + Cardinality(Locking) < MaxRequests
      BY <1>1 DEF Begin, Locking
    <3> QED
      BY <3>2, <3>3, LockingFinite DEF BoardInv, MadeInv
  <2>3. LockInv'
    BY <1>1 DEF Begin, BoardInv, TasksOK, LockInv, HolderIsAtWork, Tasks
  <2> QED
    BY <2>1, <2>2, <2>3 DEF BoardInv
<1>2. ASSUME NEW c \in Tasks, Lock(c)
      PROVE  BoardInv' /\ BacklogInv'
  <2>1. TasksOK' /\ MadeInv' /\ BacklogInv'
    BY <1>2, ConnectStep DEF Lock
  <2>2. LockInv'
    BY <1>2 DEF Lock, Connect, BoardInv, TasksOK, LockInv, HolderIsAtWork, Tasks
  <2> QED
    BY <2>1, <2>2 DEF BoardInv
<1>3. ASSUME NEW c \in Tasks, LockTimeout(c)
      PROVE  BoardInv' /\ BacklogInv'
  <2>1. CASE c = Llm
    <3>1. TasksOK' /\ MadeInv' /\ BacklogInv'
      BY <1>3, <2>1, ConnectStep DEF LockTimeout
    <3>2. holder # Llm /\ holder' = holder /\ \A d \in Tasks \ {Llm} : tasks'[d] = tasks[d]
      BY <1>3, <2>1 DEF LockTimeout, Connect, BoardInv, TasksOK, LockInv, HolderIsAtWork
    <3>3. LockInv'
      BY <3>2 DEF BoardInv, TasksOK, LockInv, HolderIsAtWork, Tasks
    <3> QED
      BY <3>1, <3>3 DEF BoardInv
  <2>2. CASE c # Llm
    BY <1>3, <2>2, FinishStep DEF LockTimeout, BacklogInv
  <2> QED
    BY <2>1, <2>2
<1>4. ASSUME NEW c \in Tasks, GiveUp(c)
      PROVE  BoardInv' /\ BacklogInv'
  BY <1>4, FinishStep DEF GiveUp, BacklogInv
<1>5. CASE Accept
  <2>1. backlog' \in Seq([by : Tasks, req : Requests])
    BY <1>5, HeadTailProperties DEF Accept, BacklogInv
  <2> QED
    BY <1>5, <2>1 DEF Accept, BacklogInv, BoardInv, TasksOK, MadeInv, Locking, LockInv, HolderIsAtWork
<1>6. CASE Read
  <2>1. CASE Respond(<<>>)
    BY <1>6, <2>1, RespondStep DEF Read, BacklogInv
  <2>2. CASE ~Respond(<<>>)
    BY <1>6, <2>2 DEF Read, BacklogInv, BoardInv, TasksOK, MadeInv, Locking, LockInv, HolderIsAtWork
  <2> QED
    BY <2>1, <2>2
<1>7. CASE Again
  <2>1. CASE tunnel.round + 1 < MaxRounds
    BY <1>7, <2>1 DEF Again, BacklogInv, BoardInv, TasksOK, MadeInv, Locking, LockInv, HolderIsAtWork
  <2>2. CASE ~(tunnel.round + 1 < MaxRounds)
    BY <1>7, <2>2, RespondStep DEF Again, BacklogInv
  <2> QED
    BY <2>1, <2>2
<1>8. CASE Answer
  BY <1>8, RespondStep DEF Answer, BacklogInv
<1>9. CASE NoAnswer
  BY <1>9, RespondStep DEF NoAnswer, BacklogInv
<1>10. CASE UNCHANGED board
  BY <1>10 DEF board, BacklogInv, BoardInv, TasksOK, MadeInv, Locking, LockInv, HolderIsAtWork
<1>11. Send \/ Acked \/ RelaySteps \/ UNCHANGED vars => UNCHANGED board
  BY DEF Send, Acked, RelaySteps, Acknowledge, Nack, Forward, Check, PushFirst, PushSecond,
         Flag, Restart, vars
<1> QED
  BY <1>1, <1>2, <1>3, <1>4, <1>5, <1>6, <1>7, <1>8, <1>9, <1>10, <1>11
     DEF Next, TaskSteps, TunnelSteps

-----------------------------------------------------------------------------
(* The tunnel and its files *)

\* The tunnel works at a request that a task has made.
LEMMA TunnelStep ==
  TunnelOK /\ FilesOK /\ BacklogInv /\ [Next]_vars => TunnelOK'
<1> SUFFICES ASSUME TunnelOK, FilesOK, BacklogInv, [Next]_vars
             PROVE  TunnelOK'
  OBVIOUS
<1> USE TunnelAssumption DEF TunnelOK
<1>1. tunnel' = Free => TunnelOK'
  BY DEF Free
<1>2. CASE Accept
  <2>1. Head(backlog) \in [by : Tasks, req : Requests]
    BY <1>2, HeadTailProperties DEF Accept, BacklogInv
  <2>2. tunnel' = [at |-> "reading", by |-> Head(backlog).by, req |-> Head(backlog).req,
                   round |-> 0, missing |-> {}]
    BY <1>2 DEF Accept, Free
  <2> QED
    BY <2>1, <2>2 DEF Requests
<1>3. CASE Read
  BY <1>1, <1>3 DEF Read, Respond
<1>4. CASE Send \/ Acked
  BY <1>4 DEF Send, Acked
<1>5. CASE Again
  <2>1. Asked \subseteq Pieces
    BY DEF Asked
  <2>2. CASE tunnel.round + 1 < MaxRounds
    <3>1. PICK missing \in SUBSET Pieces :
            tunnel' = [tunnel EXCEPT !.at = "sending", !.round = tunnel.round + 1, !.missing = missing]
      BY <1>5, <2>1, <2>2 DEF Again
    <3>2. tunnel.round + 1 \in 0 .. MaxRounds - 1
      BY <2>2
    <3>3. tunnel' = [at |-> "sending", by |-> tunnel.by, req |-> tunnel.req,
                     round |-> tunnel.round + 1, missing |-> missing]
      BY <3>1
    <3> QED
      BY <1>5, <3>2, <3>3 DEF Again
  <2>3. CASE ~(tunnel.round + 1 < MaxRounds)
    BY <1>1, <1>5, <2>3 DEF Again, Respond
  <2> QED
    BY <2>2, <2>3
<1>6. CASE Answer \/ NoAnswer
  BY <1>1, <1>6 DEF Answer, NoAnswer, Respond
<1>7. CASE UNCHANGED tunnel
  BY <1>7
<1>8. (\E c \in Tasks : TaskSteps(c)) \/ RelaySteps \/ UNCHANGED vars => UNCHANGED tunnel
  BY DEF TaskSteps, Begin, Lock, LockTimeout, GiveUp, RelaySteps, Acknowledge, Nack, Forward,
         Check, PushFirst, PushSecond, Flag, Restart, vars
<1> QED
  BY <1>2, <1>3, <1>4, <1>5, <1>6, <1>7, <1>8 DEF Next, TunnelSteps

\* What the files hold is what the tunnel or the relay writes.
LEMMA FilesStep ==
  FilesOK /\ PendingInv /\ [Next]_vars => FilesOK'
<1> SUFFICES ASSUME FilesOK, PendingInv, [Next]_vars
             PROVE  FilesOK'
  OBVIOUS
<1> USE TunnelAssumption DEF FilesOK
<1>1. CASE Accept \/ Read \/ Send \/ Again \/ Answer
  <2>1. ack' \in {FALSE, ack} /\ ready' \in {FALSE, ready} /\ nack' \in {NoNack, nack}
    BY <1>1 DEF Accept, Read, Send, Again, Answer
  <2>2. ack' \in BOOLEAN /\ ready' \in BOOLEAN
    BY <2>1, Zenon
  <2>3. nack' \subseteq 0 .. Chunks
    BY <2>1 DEF NoNack
  <2> QED
    BY <2>2, <2>3
<1>2. CASE Nack
  <2>1. PICK x \in Requests : nack' \in {nack, Expected(pending[x]) \ pending[x].chunks}
    BY <1>2 DEF Nack
  <2>2. Expected(pending[x]) \subseteq Pieces
    BY ExpectedPieces DEF PendingInv
  <2> QED
    BY <1>2, <2>1, <2>2 DEF Nack, Pieces
<1>3. CASE Acknowledge \/ Flag
  BY <1>3 DEF Acknowledge, Flag
<1>4. CASE UNCHANGED <<ack, nack, ready>>
  BY <1>4
<1>5. (\E c \in Tasks : TaskSteps(c)) \/ Acked \/ NoAnswer \/ Forward \/ Check \/ PushFirst
      \/ PushSecond \/ Restart \/ UNCHANGED vars => UNCHANGED <<ack, nack, ready>>
  BY DEF TaskSteps, Begin, Lock, LockTimeout, GiveUp, Acked, NoAnswer, Forward, Check, PushFirst,
         PushSecond, Restart, vars, files
<1> QED
  BY <1>1, <1>2, <1>3, <1>4, <1>5 DEF Next, TunnelSteps, RelaySteps

\* Lines are lost one by one, up to the bound.
LEMMA LostStep ==
  TunnelOK /\ lost \in 0 .. MaxLost /\ [Next]_vars => lost' \in 0 .. MaxLost
<1> SUFFICES ASSUME TunnelOK, lost \in 0 .. MaxLost, [Next]_vars
             PROVE  lost' \in 0 .. MaxLost
  OBVIOUS
<1> USE TunnelAssumption
<1>1. CASE Send
  <2>1. PICK gone \in SUBSET Lines : lost + Cardinality(gone) <= MaxLost
                                      /\ lost' = lost + Cardinality(gone)
    BY <1>1 DEF Send
  <2>2. gone \subseteq 0 .. Chunks
    BY DEF Lines, TunnelOK, Header, Pieces
  <2>3. Cardinality(gone) \in Nat
    <3>1. IsFiniteSet(0 .. Chunks)
      BY FS_Interval
    <3> QED
      BY <2>2, <3>1, FS_Subset, FS_CardinalityType
  <2> QED
    BY <2>1, <2>3
<1>2. CASE PushFirst
  <2>1. PICK removed \in BOOLEAN, arrives \in BOOLEAN :
          LET gone == Cardinality({i \in 1 .. 2 : ~<<removed, arrives>>[i]})
          IN  lost + gone <= MaxLost /\ lost' = lost + gone
    BY <1>2 DEF PushFirst
  <2> DEFINE Gone == {i \in 1 .. 2 : ~<<removed, arrives>>[i]}
  <2>2. Gone \subseteq 1 .. 2
    OBVIOUS
  <2>3. lost + Cardinality(Gone) <= MaxLost /\ lost' = lost + Cardinality(Gone)
    BY <2>1
  <2> HIDE DEF Gone
  <2>4. Cardinality(Gone) \in Nat
    <3>1. Gone \in SUBSET Nat /\ \A k \in Gone : k <= 2
      BY <2>2
    <3> QED
      BY <3>1, FS_BoundedSetOfNaturals, FS_CardinalityType
  <2> QED
    BY <2>3, <2>4
<1>3. CASE Acknowledge \/ Nack \/ PushSecond \/ Flag \/ Restart
  BY <1>3 DEF Acknowledge, Nack, PushSecond, Flag, Restart, Line
<1>4. (\E c \in Tasks : TaskSteps(c)) \/ (TunnelSteps /\ ~Send) \/ Forward \/ Check \/ UNCHANGED vars
      => UNCHANGED lost
  BY DEF TaskSteps, Begin, Lock, LockTimeout, GiveUp, TunnelSteps, Accept, Read, Acked, Again,
         Answer, NoAnswer, Forward, Check, vars
<1> QED
  BY <1>1, <1>2, <1>3, <1>4 DEF Next, TunnelSteps, RelaySteps

-----------------------------------------------------------------------------
(* The relay *)

\* What the relay puts together are requests.
LEMMA PendingStep ==
  PendingInv /\ TunnelOK /\ [Next]_vars => PendingInv'
<1> SUFFICES ASSUME PendingInv, TunnelOK, [Next]_vars
             PROVE  PendingInv'
  OBVIOUS
<1> USE TunnelAssumption
<1>1. CASE Send
  <2>1. PICK gone \in SUBSET Lines :
          \E told \in {Told(tunnel.req, Lines \ gone)} :
            pending' = told.pending /\ latest' = told.latest /\ owed' = told.owed
    BY <1>1 DEF Send
  <2>2. Told(tunnel.req, Lines \ gone) \in Known
    BY <1>1, ToldOK DEF Send, TunnelOK
  <2> QED
    BY <2>1, <2>2 DEF PendingInv, Known
<1>2. CASE Acknowledge
  BY <1>2, HeadTailProperties DEF Acknowledge, PendingInv
<1>3. CASE Nack
  <2>1. None \in Entries
    BY DEF None, Entries
  <2> QED
    BY <1>3, <2>1 DEF Nack, PendingInv
<1>4. CASE Restart
  BY <1>4 DEF Restart, PendingInv, None, Entries
<1>5. (\E c \in Tasks : TaskSteps(c)) \/ (TunnelSteps /\ ~Send) \/ Forward \/ Check \/ PushFirst
      \/ PushSecond \/ Flag \/ UNCHANGED vars => UNCHANGED <<pending, latest, owed>>
  BY DEF TaskSteps, Begin, Lock, LockTimeout, GiveUp, TunnelSteps, Accept, Read, Acked, Again,
         Answer, NoAnswer, Forward, Check, PushFirst, PushSecond, Flag, relay, vars
<1>6. CASE UNCHANGED <<pending, latest, owed>>
  BY <1>6 DEF PendingInv
<1> QED
  BY <1>1, <1>2, <1>3, <1>4, <1>5, <1>6 DEF Next, TunnelSteps, RelaySteps

\* Nothing is forwarded or written as a result before it was executed.
LEMMA ResultStep ==
  ResultInv /\ PendingInv /\ [Next]_vars => ResultInv'
<1> SUFFICES ASSUME ResultInv, PendingInv, [Next]_vars
             PROVE  ResultInv'
  OBVIOUS
<1>1. CASE Acknowledge
  <2>1. Head(owed) \in Deliveries
    BY <1>1, HeadTailProperties DEF Acknowledge, PendingInv
  <2>2. queue' \in Seq(Deliveries)
    BY <1>1, <2>1, AppendProperties DEF Acknowledge, ResultInv
  <2> QED
    BY <1>1, <2>2 DEF Acknowledge, ResultInv
<1>2. CASE Forward
  <2>1. Head(queue) \in Deliveries /\ queue' \in Seq(Deliveries)
    BY <1>2, HeadTailProperties DEF Forward, ResultInv
  <2>2. Head(queue).req \in Requests
    BY <2>1 DEF Deliveries
  <2>3. PICK says \in Says, executed \in BOOLEAN :
          /\ says = "done" => executed
          /\ run' = IF executed THEN run \cup {Head(queue).req} ELSE run
          /\ worker' = [at |-> "checking", req |-> Head(queue).req, says |-> says]
    BY <1>2 DEF Forward, Says
  <2>4. b64' = b64 /\ run \subseteq run' /\ run' \subseteq Requests
    BY <1>2, <2>2, <2>3 DEF Forward, files, ResultInv
  <2>5. worker' \in [at : {"idle", "checking", "first", "second", "flag"},
                     req : 0 .. MaxRequests, says : Says]
    BY <2>2, <2>3 DEF Requests
  <2>6. worker'.req \in Requests /\ (worker'.says = "done" => worker'.req \in run')
    BY <2>2, <2>3
  <2> QED
    BY <2>1, <2>4, <2>5, <2>6 DEF ResultInv
<1>3. CASE Check
  BY <1>3, TunnelAssumption DEF Check, ResultInv, Idle, Says, files
<1>4. CASE PushFirst \/ PushSecond
  <2>1. worker.req \in Requests /\ worker.says \in Says
    BY <1>4 DEF PushFirst, PushSecond, ResultInv
  <2>2. Half(1) \in Halves /\ Half(2) \in Halves
    BY <2>1 DEF Half, Halves
  <2>3. \A n \in {1, 2} : Half(n).says = "done" => Half(n).req \in run
    BY DEF Half, ResultInv
  <2>4. b64' \in Seq(Halves) /\ \A i \in DOMAIN b64' : b64'[i].says = "done" => b64'[i].req \in run
    <3>1. CASE PushFirst
      <4>1. PICK s \in {<<>>, b64}, add \in {<<>>, <<Half(1)>>} : b64' = s \o add
        BY <3>1 DEF PushFirst
      <4>2. s \in Seq(Halves) /\ add \in Seq(Halves)
        <5>1. <<>> \in Seq(Halves) /\ b64 \in Seq(Halves) /\ <<Half(1)>> \in Seq(Halves)
          BY <2>2 DEF ResultInv
        <5> QED
          BY <4>1, <5>1
      <4>3. /\ \A i \in 1 .. Len(s) : s[i].says = "done" => s[i].req \in run
            /\ \A i \in 1 .. Len(add) : add[i].says = "done" => add[i].req \in run
        BY <2>3 DEF ResultInv
      <4>4. /\ b64' \in Seq(Halves) /\ Len(b64') = Len(s) + Len(add)
            /\ \A i \in 1 .. Len(s) + Len(add) :
                 b64'[i] = IF i <= Len(s) THEN s[i] ELSE add[i - Len(s)]
        BY <4>1, <4>2, ConcatProperties
      <4>5. ASSUME NEW i \in 1 .. Len(b64'), b64'[i].says = "done"
            PROVE  b64'[i].req \in run
        <5>1. Len(s) \in Nat /\ Len(add) \in Nat
          BY <4>2
        <5>2. CASE i <= Len(s)
          BY <4>3, <4>4, <4>5, <5>1, <5>2
        <5>3. CASE i > Len(s)
          <6>1. i - Len(s) \in 1 .. Len(add) /\ b64'[i] = add[i - Len(s)]
            BY <4>4, <5>1, <5>3
          <6> QED
            BY <4>3, <4>5, <6>1
        <5> QED
          BY <5>1, <5>2, <5>3
      <4>6. DOMAIN b64' = 1 .. Len(b64')
        BY <4>4
      <4> QED
        BY <4>4, <4>5, <4>6
    <3>2. CASE PushSecond
      <4>1. b64' \in {b64, Append(b64, Half(2))}
        BY <3>2 DEF PushSecond
      <4>2. b64 \in Seq(Halves)
        BY DEF ResultInv
      <4>3. DOMAIN b64 = 1 .. Len(b64) /\ Len(b64) \in Nat
        BY <4>2
      <4>4. \A i \in 1 .. Len(b64) : b64[i].says = "done" => b64[i].req \in run
        BY <4>3 DEF ResultInv
      <4>5. CASE b64' = b64
        BY <4>2, <4>3, <4>4, <4>5
      <4>6. CASE b64' = Append(b64, Half(2))
        <5>1. /\ b64' \in Seq(Halves) /\ Len(b64') = Len(b64) + 1
              /\ \A i \in 1 .. Len(b64) : b64'[i] = b64[i]
              /\ b64'[Len(b64) + 1] = Half(2)
          BY <2>2, <4>2, <4>6, AppendProperties
        <5>2. DOMAIN b64' = 1 .. Len(b64')
          BY <5>1
        <5>3. ASSUME NEW i \in 1 .. Len(b64) + 1, b64'[i].says = "done"
              PROVE  b64'[i].req \in run
          <6>1. CASE i \in 1 .. Len(b64)
            BY <4>4, <5>1, <5>3, <6>1
          <6>2. CASE i = Len(b64) + 1
            BY <2>3, <5>1, <5>3, <6>2
          <6> QED
            BY <4>3, <6>1, <6>2
        <5> QED
          BY <5>1, <5>2, <5>3
      <4> QED
        BY <4>1, <4>5, <4>6
    <3> QED
      BY <1>4, <3>1, <3>2
  <2> QED
    BY <1>4, <2>4 DEF PushFirst, PushSecond, ResultInv
<1>5. CASE Flag \/ Restart
  <2>1. queue' \in {<<>>, queue} /\ worker' = Idle /\ run' = run /\ b64' = b64
    BY <1>5 DEF Flag, Restart, files
  <2>2. queue' \in Seq(Deliveries)
    <3>1. <<>> \in Seq(Deliveries) /\ queue \in Seq(Deliveries)
      BY DEF ResultInv
    <3> QED
      BY <2>1, <3>1
  <2>3. Idle \in [at : {"idle", "checking", "first", "second", "flag"}, req : 0 .. MaxRequests,
                  says : Says]
    BY TunnelAssumption DEF Idle, Says
  <2> QED
    BY <2>1, <2>2, <2>3 DEF ResultInv, Idle
<1>6. CASE (Accept \/ Read \/ Answer) /\ b64' = <<>>
  BY <1>6 DEF Accept, Read, Answer, relay, ResultInv
<1>7. (\E c \in Tasks : TaskSteps(c)) \/ (TunnelSteps /\ b64' # <<>>) \/ Nack \/ UNCHANGED vars
      => UNCHANGED <<queue, worker, run, b64>>
  BY DEF TaskSteps, Begin, Lock, LockTimeout, GiveUp, TunnelSteps, Accept, Read, Send, Acked, Again,
         Answer, NoAnswer, Nack, relay, files, vars
<1>8. CASE UNCHANGED <<queue, worker, run, b64>>
  BY <1>8 DEF ResultInv
<1>9. Send \/ Acked \/ Again \/ NoAnswer => UNCHANGED <<queue, worker, run, b64>>
  BY DEF Send, Acked, Again, NoAnswer, relay, files
<1> QED
  BY <1>1, <1>2, <1>3, <1>4, <1>5, <1>6, <1>7, <1>8, <1>9 DEF Next, TunnelSteps, RelaySteps

-----------------------------------------------------------------------------
(* The invariants *)

LEMMA WireInit == Init => WireInv
<1> SUFFICES ASSUME Init
             PROVE  WireInv
  OBVIOUS
<1> USE TunnelAssumption, TasksFinite DEF Init
<1>1. TasksOK
  BY DEF TasksOK
<1>6. BacklogInv /\ LockInv
  BY DEF BacklogInv, LockInv, HolderIsAtWork, Tasks
<1>7. FilesOK /\ lost \in 0 .. MaxLost
  <2>1. ack \in BOOLEAN /\ ready \in BOOLEAN
    BY Zenon
  <2>2. nack \subseteq 0 .. Chunks /\ lost \in 0 .. MaxLost
    BY DEF NoNack
  <2> QED
    BY <2>1, <2>2 DEF FilesOK
<1>2. MadeInv
  <2>1. Locking = {}
    BY DEF Locking
  <2> QED
    BY <2>1, FS_EmptySet DEF MadeInv
<1>3. TunnelOK
  BY DEF TunnelOK, Free
<1>4. PendingInv
  BY DEF PendingInv, None, Entries
<1>5. ResultInv
  BY DEF ResultInv, Idle, Says
<1> QED
  BY <1>1, <1>2, <1>3, <1>4, <1>5, <1>6, <1>7 DEF WireInv

LEMMA WireStep == WireInv /\ [Next]_vars => WireInv'
  BY BoardStep, TunnelStep, FilesStep, LostStep, PendingStep, ResultStep DEF WireInv, BoardInv

\* The lock, the requests and the answers stay as WireInv says, however many
\* tasks, requests, chunks and lost lines there are.
THEOREM WireInvariant == Spec => []WireInv
  BY WireInit, WireStep, PTL DEF Spec

\* Two tasks never have a request on its way, and the lock is never left
\* behind (velaops_tunnel_lock, velaops_tunnel_unlock).
THEOREM TunnelIsSafe == Spec => []TunnelInv
<1>1. WireInv => TunnelInv
  <2> SUFFICES ASSUME WireInv
               PROVE  TunnelInv
    OBVIOUS
  <2> USE TunnelAssumption
  <2>1. TypeOK
    <3>1. made \in 0 .. MaxRequests
      BY LockingFinite DEF WireInv, MadeInv
    <3>2. \A i \in DOMAIN backlog : backlog[i] \in [by : Tasks, req : Requests]
      <4>1. backlog \in Seq([by : Tasks, req : Requests])
        BY DEF WireInv, BacklogInv
      <4>2. DOMAIN backlog = 1 .. Len(backlog)
        BY <4>1
      <4> QED
        BY <4>1, <4>2, ElementOfSeq
    <3>3. tunnel.round < MaxRounds
      BY DEF WireInv, TunnelOK
    <3> QED
      BY <3>1, <3>2, <3>3
         DEF WireInv, TypeOK, TasksOK, LockInv, TunnelOK, FilesOK, PendingInv, ResultInv, Entries
  <2>2. OneInTheTunnel
    BY DEF WireInv, LockInv, OneInTheTunnel
  <2> QED
    BY <2>1, <2>2 DEF TunnelInv, WireInv, LockInv
<1> QED
  BY <1>1, WireInvariant, PTL

\* What a task takes for the result of its request is the answer to that
\* request, which the proxy has executed (parse_success, parse_response).
THEOREM AcceptedAreOwn == Spec => AcceptedIsOwn
<1> DEFINE Own(c) == tasks[c].at = "waiting" /\ tasks'[c].got = "result"
                     => Last(b64).req = tasks[c].req /\ tasks[c].req \in run
<1>1. ASSUME WireInv, [Next]_vars, NEW c \in Callers, tasks[c].at = "waiting",
             tasks'[c].got = "result"
      PROVE  Last(b64).req = tasks[c].req /\ tasks[c].req \in run
  <2> USE TunnelAssumption
  <2>1. c \in Tasks /\ tasks[c].got = "nothing" /\ TasksOK /\ TunnelOK /\ ResultInv
    BY <1>1 DEF Tasks, WireInv, LockInv
  <2>2. tasks'[c] # tasks[c]
    BY <1>1, <2>1
  <2>3. ASSUME NEW d \in Tasks, TaskSteps(d)
        PROVE  FALSE
    <3>1. CASE Begin(d) \/ GiveUp(d) \/ (LockTimeout(d) /\ d # Llm)
      <4>1. PICK a \in {"idle", "locking"} :
              tasks' = [tasks EXCEPT ![d] = [at |-> a, req |-> 0, got |-> "nothing"]]
        BY <3>1 DEF Begin, GiveUp, LockTimeout, Finish
      <4> QED
        BY <1>1, <2>1, <4>1 DEF TasksOK
    <3>2. CASE Lock(d) \/ (LockTimeout(d) /\ d = Llm)
      <4>1. tasks' = [tasks EXCEPT ![d] = [at |-> "waiting", req |-> made + 1, got |-> tasks[d].got]]
            /\ tasks[d].at = "locking"
        BY <3>2 DEF Lock, LockTimeout, Connect
      <4> QED
        BY <1>1, <2>1, <4>1 DEF TasksOK
    <3> QED
      BY <2>3, <3>1, <3>2 DEF TaskSteps
  <2>4. ~Respond(<<>>)
    BY <1>1, <2>1, <2>2 DEF Respond, Finish, TasksOK, TunnelOK
  <2>5. Answer
    BY <1>1, <2>2, <2>3, <2>4
       DEF Next, TunnelSteps, Accept, Read, Send, Acked, Again, NoAnswer, RelaySteps, Acknowledge,
           Nack, Forward, Check, PushFirst, PushSecond, Flag, Restart, board, vars
  <2>6. tunnel.by = c /\ tasks'[c].got = Parsed(c, b64)
    BY <1>1, <2>1, <2>2, <2>5 DEF Answer, Respond, Finish, TasksOK, TunnelOK
  <2>7. Complete(b64) /\ SameId(Last(b64), tasks[c].req) /\ Last(b64).says = "done"
    BY <1>1, <2>6 DEF Parsed
  <2>8. Last(b64) = b64[2] /\ 2 \in DOMAIN b64
    BY <2>1, <2>7 DEF Complete, Last, ResultInv
  <2> QED
    BY <2>1, <2>7, <2>8 DEF SameId, ResultInv
<1>2. WireInv /\ [Next]_vars => [\A c \in Callers : Own(c)]_vars
  BY <1>1
<1> QED
  BY <1>2, WireInvariant, PTL DEF Spec, AcceptedIsOwn
=============================================================================
