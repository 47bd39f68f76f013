------------------------------ MODULE Tunnel -------------------------------
(***************************************************************************)
(* The serial tunnel of the archived application: tasks of the board send  *)
(* HTTP requests to 127.0.0.1:18080 one at a time under a mutex            *)
(* (velaops_proxy_http_transport.c), the tunnel (velaops_serial_tunnel.c)  *)
(* cuts each into chunks on the console, and the relay of the host         *)
(* (docs/tools/serial_llm_relay.py) puts them together, forwards them and  *)
(* writes flags and the answer into files of the board through its shell.  *)
(*                                                                         *)
(* A line on the console may be lost in either direction: a chunk whose    *)
(* checksum is wrong is a lost one.  Timeouts may pass at any time.  The   *)
(* number of a request stands for its request id, its nonce and the number *)
(* the tunnel gives it, which grow together.  An answer is written in two  *)
(* lines, the first of which holds its length and the second its body.     *)
(***************************************************************************)
EXTENDS Naturals, Sequences, SequencesExt, FiniteSets, FiniteSetsExt

CONSTANTS
  Callers,      \* tasks that call velaops_proxy_http_transport
  Llm,          \* the task of the agent that asks the model
  Nobody,
  MaxRequests,  \* bound: requests made
  MaxRounds,    \* VELAOPS_TUNNEL_MAX_ROUNDS (10)
  Chunks,       \* chunks of a request
  MaxLost       \* bound: lines lost

ASSUME TunnelAssumption ==
  /\ IsFiniteSet(Callers) /\ Llm \notin Callers /\ Nobody \notin Callers \cup {Llm}
  /\ MaxRequests \in Nat /\ MaxRounds \in Nat \ {0} /\ Chunks \in Nat \ {0} /\ MaxLost \in Nat

VARIABLES
  tasks,    \* where each task is, its request and what it got
  holder,   \* who holds g_http_transport_lock
  backlog,  \* connections the tunnel has not accepted
  made,     \* requests made
  tunnel,   \* velaops_serial_tunnel_run
  ack, nack, ready, b64,  \* the files of the board; nack is the set of chunks it asks for
  pending,  \* the requests the relay is putting together
  latest,   \* _latest_xid
  owed,     \* requests the relay has whole and has not acknowledged
  queue, worker,  \* what the relay has to forward, and forwards
  run,      \* the requests the proxy has executed
  lost      \* lines lost

board == <<tasks, holder, backlog, made>>
files == <<ack, nack, ready, b64>>
relay == <<pending, latest, owed, queue, worker, run>>
vars == <<board, tunnel, files, relay, lost>>

Tasks    == Callers \cup {Llm}
Requests == 1 .. MaxRequests
Pieces   == 0 .. Chunks - 1
None     == [known |-> FALSE, chunks |-> {}]
NoNack   == {Chunks}  \* no NACK file

\* A line is lost, or arrives.
Line(arrives) == IF arrives THEN UNCHANGED lost ELSE lost < MaxLost /\ lost' = lost + 1

-----------------------------------------------------------------------------
(* The tasks *)

Unlocked_Never(c) == IF c = Llm THEN holder ELSE IF holder = c THEN Nobody ELSE holder

\* velaops_tunnel_unlock looks whether the lock was taken; the transport holds it.
Unlocked(c) == IF holder = c THEN Nobody ELSE holder

Finish(c, got) ==
  /\ tasks' = [tasks EXCEPT ![c] = [at |-> "idle", req |-> 0, got |-> got]]
  /\ holder' = Unlocked(c)

Begin(c) ==
  /\ tasks[c].at = "idle" /\ made + Cardinality({d \in Tasks : tasks[d].at = "locking"}) < MaxRequests
  /\ tasks' = [tasks EXCEPT ![c] = [at |-> "locking", req |-> 0, got |-> "nothing"]]
  /\ UNCHANGED <<holder, backlog, made, tunnel, files, relay, lost>>

\* The request is made and sent, with the lock or after waiting for it in vain.
Connect(c, lock) ==
  /\ made' = made + 1
  /\ tasks' = [tasks EXCEPT ![c] = [at |-> "waiting", req |-> made + 1, got |-> @.got]]
  /\ backlog' = Append(backlog, [by |-> c, req |-> made + 1])
  /\ holder' = lock

Lock(c) ==
  /\ tasks[c].at = "locking" /\ holder = Nobody
  /\ Connect(c, c)
  /\ UNCHANGED <<tunnel, files, relay, lost>>

\* 240 s have passed: a request is given up, the model is called without the lock.
LockTimeout(c) ==
  /\ tasks[c].at = "locking" /\ holder # Nobody
  /\ IF c = Llm THEN Connect(c, holder) ELSE Finish(c, "nothing") /\ UNCHANGED <<backlog, made>>
  /\ UNCHANGED <<tunnel, files, relay, lost>>

\* No connection, or no answer in time (15 s, 240 s): what was sent is left to the tunnel.
GiveUp(c) ==
  /\ tasks[c].at = "waiting"
  /\ Finish(c, "nothing")
  /\ UNCHANGED <<backlog, made, tunnel, files, relay, lost>>

\* An answer has the length its head says.
Complete(content) == Len(content) = 2 /\ content[1].half = 1 /\ content[2].half = 2

SameId_Any(body, req) == TRUE

\* The request id of an answer; an answer without one passes for the request's own.
SameId(body, req) == body.says = "unnamed" \/ body.req = req

\* What the caller of velaops_proxy_client_post_json learns; an answer without a
\* body is an error like one of the proxy.
Parsed(c, content) ==
  LET last == Last(content)
  IN  IF ~Complete(content) THEN "nothing"
      ELSE IF c = Llm THEN "answer"
      ELSE IF ~SameId(last, tasks[c].req) THEN "nothing"
      ELSE IF last.says = "done" THEN "result" ELSE "error"

-----------------------------------------------------------------------------
(* What the relay makes of the lines that arrive *)

\* The parts of a request as far as they are known: a header tells how many
\* there are, without one the last seen is taken for the last.
Expected(entry) ==
  IF entry.known THEN Pieces
  ELSE IF entry.chunks = {} THEN {} ELSE 0 .. Max(entry.chunks)

Whole(entry) == Expected(entry) # {} /\ Expected(entry) \subseteq entry.chunks

\* A line is a piece of a request, or Header.  A header starts its request and
\* drops the others; a request that is whole leaves pending.
Header == Chunks
Heard(state, xid, line) ==
  LET now == IF line = Header
             THEN [x \in Requests |-> IF x = xid THEN [None EXCEPT !.known = TRUE] ELSE None]
             ELSE [state.pending EXCEPT ![xid].chunks = @ \cup {line}]
      entry == now[xid]
  IN  [latest  |-> IF line = Header THEN Max({state.latest, xid}) ELSE state.latest,
       pending |-> IF Whole(entry) THEN [now EXCEPT ![xid] = None] ELSE now,
       owed    |-> IF Whole(entry)
                   THEN Append(state.owed, [req |-> xid, whole |-> Expected(entry) = Pieces])
                   ELSE state.owed]

\* The lines that arrive are heard in their order: the header, and the first
\* n pieces.
Told(xid, lines) ==
  LET start == [pending |-> pending, latest |-> latest, owed |-> owed]
      told[n \in 0 .. Chunks] ==
        IF n = 0 THEN IF Header \in lines THEN Heard(start, xid, Header) ELSE start
        ELSE IF n - 1 \in lines THEN Heard(told[n - 1], xid, n - 1) ELSE told[n - 1]
  IN  told[Chunks]

-----------------------------------------------------------------------------
(* The tunnel *)

Free == [at |-> "accept", by |-> Nobody, req |-> 0, round |-> 0, missing |-> {}]

\* The answer, or an error, goes to the task if it is still there.
Respond(content) ==
  /\ tunnel' = Free
  /\ IF tasks[tunnel.by].at = "waiting" /\ tasks[tunnel.by].req = tunnel.req
     THEN Finish(tunnel.by, IF content = <<>> THEN "nothing" ELSE Parsed(tunnel.by, content))
     ELSE UNCHANGED <<tasks, holder>>

\* What an earlier request left is removed.
Accept ==
  /\ tunnel.at = "accept" /\ backlog # <<>>
  /\ tunnel' = [Free EXCEPT !.at = "reading", !.by = Head(backlog).by, !.req = Head(backlog).req]
  /\ backlog' = Tail(backlog)
  /\ ack' = FALSE /\ nack' = NoNack /\ ready' = FALSE /\ b64' = <<>>
  /\ UNCHANGED <<tasks, holder, made, relay, lost>>

\* The request is read whole, or the connection is closed.
Read ==
  /\ tunnel.at = "reading"
  /\ \/ /\ tunnel' = [tunnel EXCEPT !.at = "sending", !.missing = Pieces]
        /\ ready' = FALSE /\ b64' = <<>>
        /\ UNCHANGED <<tasks, holder>>
     \/ Respond(<<>>) /\ UNCHANGED <<ready, b64>>
  /\ UNCHANGED <<backlog, made, ack, nack, relay, lost>>

\* The header with the first round, and the chunks that are missing.
Lines == tunnel.missing \cup (IF tunnel.round = 0 THEN {Header} ELSE {})

Send ==
  /\ tunnel.at = "sending"
  /\ ack' = FALSE /\ nack' = NoNack
  /\ \E gone \in SUBSET Lines :
       /\ lost + Cardinality(gone) <= MaxLost /\ lost' = lost + Cardinality(gone)
       /\ \E told \in {Told(tunnel.req, Lines \ gone)} :
            pending' = told.pending /\ latest' = told.latest /\ owed' = told.owed
  /\ tunnel' = [tunnel EXCEPT !.at = "listening"]
  /\ UNCHANGED <<board, ready, b64, queue, worker, run>>

\* The relay has the request, or its answer is there already.
Acked ==
  /\ tunnel.at = "listening" /\ (ack \/ ready)
  /\ tunnel' = [tunnel EXCEPT !.at = "awaiting"]
  /\ UNCHANGED <<board, files, relay, lost>>

\* The chunks a NACK names.
Asked == nack \cap Pieces

\* What the NACK names is sent again; a round without one sends everything.
Again ==
  /\ tunnel.at = "listening" /\ ~ack /\ ~ready
  /\ IF tunnel.round + 1 < MaxRounds
     THEN /\ tunnel' = [tunnel EXCEPT !.at = "sending", !.round = tunnel.round + 1,
                                      !.missing = IF Asked # {} THEN Asked ELSE Pieces]
          /\ UNCHANGED <<tasks, holder>>
     ELSE Respond(<<>>)
  /\ nack' = NoNack
  /\ UNCHANGED <<backlog, made, ack, ready, b64, relay, lost>>

Answer ==
  /\ tunnel.at = "awaiting" /\ ready
  /\ Respond(b64)
  /\ ready' = FALSE /\ b64' = <<>>
  /\ UNCHANGED <<backlog, made, ack, nack, relay, lost>>

\* 12 s, or 300 s for the model: what comes later stays in the files.
NoAnswer ==
  /\ tunnel.at = "awaiting"
  /\ Respond(<<>>)
  /\ UNCHANGED <<backlog, made, files, relay, lost>>

-----------------------------------------------------------------------------
(* The relay *)

\* A request that has become whole is acknowledged and handed over.
Acknowledge ==
  /\ owed # <<>>
  /\ \E arrives \in BOOLEAN : Line(arrives) /\ ack' = (arrives \/ ack)
  /\ queue' = Append(queue, Head(owed)) /\ owed' = Tail(owed)
  /\ UNCHANGED <<board, tunnel, nack, ready, b64, pending, latest, worker, run>>

\* ROUND_SECONDS after its last round a request that is not whole is asked for
\* again, or forgotten after MAX_ROUNDS.
Nack ==
  \E x \in Requests :
    LET entry   == pending[x]
        missing == Expected(entry) \ entry.chunks
    IN  /\ missing # {}
        /\ \/ /\ \E arrives \in BOOLEAN : Line(arrives) /\ nack' = IF arrives THEN missing ELSE nack
              /\ UNCHANGED pending
           \/ pending' = [pending EXCEPT ![x] = None] /\ UNCHANGED <<nack, lost>>
        /\ UNCHANGED <<board, tunnel, ack, ready, b64, latest, owed, queue, worker, run>>

Idle == [at |-> "idle", req |-> 0, says |-> "unnamed"]

\* The proxy executes a request once; part of one, or one it has seen, it refuses.
\* An answer that does not come in time is a 504, no connection a 502.
Forward ==
  /\ worker.at = "idle" /\ queue # <<>>
  /\ LET r == Head(queue)
     IN  \E says \in {"done", "refused", "unnamed"}, executed \in BOOLEAN :
           /\ executed => r.whole /\ r.req \notin run
           /\ says = "done" => executed
           /\ says = "refused" => ~executed /\ r.whole
           /\ run' = IF executed THEN run \cup {r.req} ELSE run
           /\ worker' = [at |-> "checking", req |-> r.req, says |-> says]
  /\ queue' = Tail(queue)
  /\ UNCHANGED <<board, tunnel, files, pending, latest, owed, lost>>

\* The answer to a request the board has left is dropped.
Check ==
  /\ worker.at = "checking"
  /\ worker' = IF latest = worker.req THEN [worker EXCEPT !.at = "first"] ELSE Idle
  /\ UNCHANGED <<board, tunnel, files, pending, latest, owed, queue, run, lost>>

Half(n) == [half |-> n, req |-> worker.req, says |-> worker.says]

\* The shell removes the file and appends the first line to it.
PushFirst ==
  /\ worker.at = "first"
  /\ \E removed, arrives \in BOOLEAN :
       LET gone == Cardinality({i \in 1 .. 2 : ~<<removed, arrives>>[i]})
       IN  /\ lost + gone <= MaxLost /\ lost' = lost + gone
           /\ b64' = (IF removed THEN <<>> ELSE b64) \o (IF arrives THEN <<Half(1)>> ELSE <<>>)
  /\ worker' = [worker EXCEPT !.at = "second"]
  /\ UNCHANGED <<board, tunnel, ack, nack, ready, pending, latest, owed, queue, run>>

PushSecond ==
  /\ worker.at = "second"
  /\ \E arrives \in BOOLEAN : Line(arrives) /\ b64' = IF arrives THEN Append(b64, Half(2)) ELSE b64
  /\ worker' = [worker EXCEPT !.at = "flag"]
  /\ UNCHANGED <<board, tunnel, ack, nack, ready, pending, latest, owed, queue, run>>

Flag ==
  /\ worker.at = "flag"
  /\ \E arrives \in BOOLEAN : Line(arrives) /\ ready' = (arrives \/ ready)
  /\ worker' = Idle
  /\ UNCHANGED <<board, tunnel, ack, nack, b64, pending, latest, owed, queue, run>>

\* The console is gone: the relay exits and is started again.
Restart ==
  /\ lost < MaxLost /\ lost' = lost + 1
  /\ pending' = [x \in Requests |-> None]
  /\ latest' = 0 /\ owed' = <<>> /\ queue' = <<>> /\ worker' = Idle
  /\ UNCHANGED <<board, tunnel, files, run>>

-----------------------------------------------------------------------------
Init ==
  /\ tasks = [c \in Tasks |-> [at |-> "idle", req |-> 0, got |-> "nothing"]]
  /\ holder = Nobody /\ backlog = <<>> /\ made = 0 /\ tunnel = Free
  /\ ack = FALSE /\ nack = NoNack /\ ready = FALSE /\ b64 = <<>>
  /\ pending = [x \in Requests |-> None]
  /\ latest = 0 /\ owed = <<>> /\ queue = <<>> /\ worker = Idle /\ run = {} /\ lost = 0

TaskSteps(c) == Begin(c) \/ Lock(c) \/ LockTimeout(c) \/ GiveUp(c)
TunnelSteps  == Accept \/ Read \/ Send \/ Acked \/ Again \/ Answer \/ NoAnswer
RelaySteps   == Acknowledge \/ Nack \/ Forward \/ Check
                \/ PushFirst \/ PushSecond \/ Flag \/ Restart

Next == (\E c \in Tasks : TaskSteps(c)) \/ TunnelSteps \/ RelaySteps

Spec == Init /\ [][Next]_vars

-----------------------------------------------------------------------------
TypeOK ==
  /\ tasks \in [Tasks -> [at : {"idle", "locking", "waiting"}, req : 0 .. MaxRequests,
                          got : {"nothing", "answer", "result", "error"}]]
  /\ holder \in Tasks \cup {Nobody} /\ made \in 0 .. MaxRequests
  /\ \A i \in DOMAIN backlog : backlog[i] \in [by : Tasks, req : Requests]
  /\ tunnel.at \in {"accept", "reading", "sending", "listening", "awaiting"}
  /\ tunnel.round < MaxRounds /\ tunnel.missing \subseteq Pieces
  /\ nack \subseteq 0 .. Chunks /\ ack \in BOOLEAN /\ ready \in BOOLEAN
  /\ pending \in [Requests -> [known : BOOLEAN, chunks : SUBSET Pieces]]
  /\ latest \in 0 .. MaxRequests /\ run \subseteq Requests /\ lost \in 0 .. MaxLost

\* What a task takes for the result of its request is the proxy's answer to
\* that request and not to one before it, and the proxy has executed it
\* (parse_success, parse_response of velaops_proxy_client.c): not after lost
\* lines, resent chunks, answers that come late or a relay that restarts.
AcceptedIsOwn ==
  [][\A c \in Callers : tasks[c].at = "waiting" /\ tasks'[c].got = "result"
       => Last(b64).req = tasks[c].req /\ tasks[c].req \in run]_vars

\* Two tasks never have a request of the proxy on its way at once, however
\* the mutex, its timeout and the failures of a request interleave
\* (velaops_tunnel_lock, velaops_tunnel_unlock).
OneInTheTunnel ==
  \A c, d \in Callers : tasks[c].at = "waiting" /\ tasks[d].at = "waiting" => c = d

\* The lock is never left behind: who holds it has a request on its way, after
\* an answer, a timeout, a failure or a wait in vain of the model's task (the
\* cleanup of velaops_proxy_http_transport, velaops_tunnel_unlock).
HolderIsAtWork == holder # Nobody => tasks[holder].at = "waiting"

\* Both: the lock and the requests on their way belong together.
TunnelInv == TypeOK /\ OneInTheTunnel /\ HolderIsAtWork
=============================================================================
