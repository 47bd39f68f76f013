------------------------------ MODULE Session ------------------------------
(***************************************************************************)
(* The network side of the main thread of `velaops run` and the watchdog   *)
(* beside it: one cycle collects the host over SSH (velaops_ssh.c), waits  *)
(* for the operator, may run one action and collect again to verify it,    *)
(* and may ask the model over HTTPS (velaops_llm.c).  All of it happens    *)
(* between two beats, which the watchdog of velaops_main.c counts.         *)
(* `velaops approve` and `velaops exec` at the console use the same        *)
(* sessions, before `velaops run` is started.                              *)
(*                                                                         *)
(* Time passes in units, the period of the watchdog.  `left` is what       *)
(* remains of the limit of the blocking call; a call may return earlier.   *)
(* The host, the link and the server of the model act at any moment.       *)
(* libssh2, mbedTLS and the resolver are external: a call of theirs        *)
(* returns or fails within its limit, and the exit status of a channel is  *)
(* 0 until the host has sent one.  tcp_connect tries one address.          *)
(***************************************************************************)
EXTENDS Health

CONSTANTS
  Tries,        \* handshakes per session (3)
  ConnectLimit, \* bound on connect() and on the resolver
  SshLimit,     \* libssh2_session_set_timeout, 30 s
  LlmLimit,     \* SO_RCVTIMEO and SO_SNDTIMEO, 8 s
  StallLimit,   \* the watchdog resets after 45 s
  MaxChunks,    \* bound on the parts an output or an answer arrives in
  Hosts,        \* the states the host can be in
  Cuts,         \* after how many lines an output may end, Whole among them
  Config        \* the thresholds

ASSUME LimitsAssumption ==
  {Tries, SshLimit, LlmLimit, StallLimit, ConnectLimit, MaxChunks} \subseteq Nat \ {0}
\* A warning may be configured to any number.
ASSUME ConfigAssumption ==
  /\ Config \in [Metrics -> [warn : Int, crit : Int]]
  /\ \A m \in Metrics : Config[m].crit = Config[m].warn + Margin[m]
\* What a host can answer: numbers, finite sets of ports and a list of units.
ASSUME HostsAssumption ==
  \A h \in Hosts :
    /\ h.metric \in [Metrics -> Int] /\ h.cut \in [Metrics -> Int]
    /\ {h.uptime, h.topCpu, h.ntp, h.oom, h.zombies} \subseteq Int
    /\ IsFiniteSet(h.ports) /\ h.ports \subseteq Nat
    /\ IsFiniteSet(h.tornPorts) /\ h.tornPorts \subseteq Nat
    /\ h.failed \in Seq(ToSet(h.failed))
ASSUME CutsAssumption == Cuts \subseteq 0 .. Whole

VARIABLES
  pc,      \* where the main thread is
  left,    \* what remains of the limit of the blocking call
  job,     \* what the session is for: "collect", "act", "verify", and "order"
           \* and "check" for the sessions of the console
  try,     \* attempt of open_authed_session
  rc,      \* result of the session: 0, -1, or -2 for a blocked command
  held,    \* what the thread has acquired: descriptors, contexts, buffers
  chunks,  \* parts of an output or an answer received
  snap,    \* the snapshot, only its `online` once the cycle has read it last
  from,    \* what the snapshot was read from, likewise
  base,    \* g_base_ports
  act,     \* the approved action, NoName once it is verified
  effect,  \* what became of the action on the host
  state,   \* action_state of the cycle
  up,      \* FALSE after the reset by the watchdog
  beaten,  \* g_main_beat changed since the watchdog looked
  idle,    \* the watchdog's idle, in units
  since    \* units since the last beat

link  == <<job, try, rc, held, chunks>>
known == <<snap, from, base>>
deed  == <<act, effect, state>>
watch == <<up, beaten, idle, since>>
vars  == <<pc, left, link, known, deed, watch>>

Acts == {"unit", "kill", "exec"}
Ordering == {"act", "order"}      \* sessions that change something
Ordered  == job \in {"order", "check"}
Blocking == {"connect", "handshake", "backoff", "auth", "open", "start", "read",
             "release", "wait", "dns", "dial", "tls", "write", "answer"}
Unread == [host |-> NoName, got |-> 0, torn |-> FALSE]

Goto(p, limit) == pc' = p /\ left' = limit
\* The locals of the call are gone with it.
Return == Goto("return", 0) /\ try' = 1 /\ chunks' = 0
Take(rs) == held' = held \cup rs
Drop(rs) == held' = held \ rs

Init ==
  /\ pc \in {"beat", "shell"} /\ left = 0
  /\ job = "collect" /\ try = 1 /\ rc = 0 /\ held = {} /\ chunks = 0
  /\ snap = Blank /\ from = Unread /\ base = {}
  /\ act = NoName /\ effect = "none" /\ state = "WAITING"
  /\ up = TRUE /\ beaten = FALSE /\ idle = 0 /\ since = 0

-----------------------------------------------------------------------------
(* A session: velaops_ssh_collect, _unit, _kill, _exec *)

Beat ==
  /\ pc = "beat"
  /\ beaten' = TRUE /\ since' = 0
  /\ job' = "collect" /\ Goto("call", 0)
  /\ state' = "WAITING" /\ effect' = "none"
  /\ UNCHANGED <<try, rc, held, chunks, known, act, up, idle>>

\* -2 tells of a command on the blacklist.
Refusals == IF job \in Ordering /\ act = "exec" THEN {-1, -2} ELSE {-1}

\* Invalid lists, names and commands are refused before anything is opened.
Refuse ==
  /\ pc = "call"
  /\ rc' \in Refusals
  /\ Return
  /\ UNCHANGED <<job, held, known, deed, watch>>

Open ==
  /\ pc = "call"
  /\ rc' = -1 /\ chunks' = 0 /\ try' = 1
  /\ Goto("connect", ConnectLimit)
  /\ UNCHANGED <<job, held, known, deed, watch>>

Connected ==
  /\ pc = "connect"
  /\ Take({"fd", "session"})
  /\ Goto("handshake", SshLimit)
  /\ UNCHANGED <<job, try, rc, chunks, known, deed, watch>>

\* No address, no connection, or no memory for the session: no second attempt.
ConnectFails ==
  /\ pc = "connect"
  /\ Return
  /\ UNCHANGED <<job, rc, held, known, deed, watch>>

HandshakeDrops == {"session", "fd"}

HandshakeFails ==
  /\ pc = "handshake"
  /\ Drop(HandshakeDrops)
  /\ Goto("backoff", 1)
  /\ UNCHANGED <<job, try, rc, chunks, known, deed, watch>>

Again == try < Tries

Retry ==
  /\ pc = "backoff"
  /\ IF Again
     THEN try' = try + 1 /\ Goto("connect", ConnectLimit) /\ UNCHANGED chunks
     ELSE Return
  /\ UNCHANGED <<job, rc, held, known, deed, watch>>

Steps == [handshake |-> "auth", auth |-> "open", open |-> "start"]

\* A call that succeeds leads to the next one.
Proceed ==
  /\ pc \in DOMAIN Steps
  /\ Goto(Steps[pc], SshLimit)
  /\ Take(IF pc = "open" THEN {"channel"} ELSE {})
  /\ UNCHANGED <<job, try, rc, chunks, known, deed, watch>>

AuthFails ==
  /\ pc = "auth"
  /\ Drop({"session", "fd"})
  /\ Return
  /\ UNCHANGED <<job, rc, known, deed, watch>>

StartsFrom == {"start"}

\* The request to start the command may reach the host although the call fails.
ChannelFails ==
  /\ pc \in {"open", "start"}
  /\ effect' \in IF pc \in StartsFrom /\ job \in Ordering THEN {effect, "running"} ELSE {effect}
  /\ Goto("release", SshLimit)
  /\ UNCHANGED <<link, known, act, state, watch>>

Started ==
  /\ pc = "start"
  /\ effect' = IF job \in Ordering THEN "running" ELSE effect
  /\ Goto("read", SshLimit)
  /\ UNCHANGED <<link, known, act, state, watch>>

ReadMore ==
  /\ pc = "read" /\ chunks < MaxChunks
  /\ chunks' = chunks + 1
  /\ Goto("read", SshLimit)
  /\ UNCHANGED <<job, try, rc, held, known, deed, watch>>

\* The action's result: the exit status, or for a kill whether no process is
\* left; 0 of either when the link was lost before it came.
Says(e) == IF e = "done" THEN 0 ELSE -1
ActResults == {0} \cup {Says(e) : e \in {effect} \ {"running"}}

\* velaops_ssh_restart runs its own loop, drops the output and keeps the exit
\* status; velaops_ssh_kill serves both programs.
Restarted == {0} \cup {Says(e) : e \in {effect} \ {"running"}}
OrderResults == IF act = "unit" THEN Restarted ELSE ActResults

\* The read loop ends on any result but data and EAGAIN: the end of the output
\* and the loss of the link look alike.
ReadEnds ==
  /\ pc = "read"
  /\ rc' \in CASE job = "act" -> ActResults [] job = "order" -> OrderResults [] OTHER -> {0}
  /\ Goto("release", SshLimit)
  /\ UNCHANGED <<job, try, held, chunks, known, deed, watch>>

Releases_OnSuccess == IF rc = 0 THEN held ELSE {}
Releases == held

Release ==
  /\ pc = "release"
  /\ Drop(Releases)
  /\ Return
  /\ UNCHANGED <<job, rc, known, deed, watch>>

-----------------------------------------------------------------------------
(* What the main thread makes of the result *)

Sources == {f \in [host : Hosts, got : Cuts, torn : BOOLEAN] :
              f.got = Whole => ~f.torn}

\* snap_init clears the snapshot first; a session that failed leaves it so.
Parsed(f) == IF rc = 0 THEN Snapshot(f.host, f.got, f.torn) ELSE Blank

\* The store may refuse the baseline.
Bases(s) == IF Learns(s, base) THEN {base, Learned(s)} ELSE {base}

ApplySnapshot ==
  /\ from' \in IF rc = 0 THEN Sources ELSE {Unread}
  /\ snap' = Parsed(from')
  /\ base' \in Bases(snap')
  /\ Goto("assess", 0)

Collected ==
  /\ pc = "return" /\ job = "collect"
  /\ ApplySnapshot
  /\ UNCHANGED <<link, deed, watch>>

\* The verifying collection follows whatever the action returned.
ActReturned ==
  /\ pc = "return" /\ job \in Ordering /\ ~(Ordered /\ act = "exec")
  /\ state' = IF rc = 0 THEN "RC0" ELSE "RC"
  /\ job' = (IF Ordered THEN "check" ELSE "verify") /\ Goto("call", 0)
  /\ UNCHANGED <<try, rc, held, chunks, known, act, effect, watch>>

\* A unit has to show the wanted state, and a process to be off the top of the
\* list, which either may do whatever the action did; a command has nothing to
\* show.
Fixed == IF act = "exec" THEN {TRUE} ELSE BOOLEAN

Done_AnyStatus(s, fixed) == s.online /\ fixed
Done(s, fixed) == s.online /\ state = "RC0" /\ fixed

ShowsResult ==
  /\ ApplySnapshot
  /\ \E fixed \in Fixed : state' = IF Done(snap', fixed) THEN "DONE" ELSE "FAILED"
  /\ UNCHANGED <<link, act, effect, watch>>

Verified == pc = "return" /\ job = "verify" /\ ShowsResult

\* `velaops approve` judges its action by the same two tests.
OrderVerified == pc = "return" /\ job = "check" /\ ShowsResult

\* The score is read, the alert decided and the pages drawn; `velaops approve`
\* draws one page and ends.
Assess ==
  /\ pc = "assess"
  /\ snap' = [Blank EXCEPT !.online = snap.online] /\ from' = Unread
  /\ act' = NoName /\ rc' = 0 /\ job' = "collect"
  /\ IF Ordered THEN Goto("shell", 0) ELSE Goto("wait", 1)
  /\ UNCHANGED <<try, held, chunks, base, effect, state, watch>>

-----------------------------------------------------------------------------
(* The console, while `velaops run` is not started *)

\* `velaops approve <target>`; an unwatched unit is refused before any session.
Order ==
  /\ pc = "shell"
  /\ act' \in {"unit", "kill"} /\ job' = "order"
  /\ state' = "WAITING" /\ effect' = "none"
  /\ Goto("call", 0)
  /\ UNCHANGED <<try, rc, held, chunks, known, watch>>

\* `velaops exec <command>`: one session, whose result is printed.
OrderExec ==
  /\ pc = "shell"
  /\ act' = "exec" /\ job' = "order"
  /\ state' = "WAITING" /\ effect' = "none"
  /\ Goto("call", 0)
  /\ UNCHANGED <<try, rc, held, chunks, known, watch>>

ExecReturned ==
  /\ pc = "return" /\ job = "order" /\ act = "exec"
  /\ act' = NoName /\ rc' = 0 /\ job' = "collect"
  /\ Goto("shell", 0)
  /\ UNCHANGED <<try, held, chunks, known, effect, state, watch>>

StartRun ==
  /\ pc = "shell"
  /\ Goto("beat", 0)
  /\ UNCHANGED <<link, known, deed, watch>>

-----------------------------------------------------------------------------
(* The 250 ticks, and the call of the model *)

Approve ==
  /\ pc = "wait" /\ state = "WAITING"
  /\ act' \in Acts
  /\ job' = "act" /\ Goto("call", 0)
  /\ UNCHANGED <<try, rc, held, chunks, known, effect, state, watch>>

NextCycle ==
  /\ pc = "wait" /\ left = 0
  /\ Goto("beat", 0)
  /\ UNCHANGED <<link, known, deed, watch>>

\* With a remembered address the resolver is not asked.
AskModel ==
  /\ pc = "wait" /\ left = 0 /\ snap.online
  /\ chunks' = 0
  /\ \E p \in {"dns", "dial"} : Goto(p, ConnectLimit)
  /\ UNCHANGED <<job, try, rc, held, known, deed, watch>>

Resolved ==
  /\ pc = "dns"
  /\ Take({"addresses"})
  /\ Goto("dial", ConnectLimit)
  /\ UNCHANGED <<job, try, rc, chunks, known, deed, watch>>

Dialled ==
  /\ pc = "dial"
  /\ Take({"socket", "buffers", "tls"})
  /\ Goto("tls", LlmLimit)
  /\ UNCHANGED <<job, try, rc, chunks, known, deed, watch>>

Exchanged ==
  /\ pc \in {"tls", "write"}
  /\ Goto(IF pc = "tls" THEN "write" ELSE "answer", LlmLimit)
  /\ UNCHANGED <<link, known, deed, watch>>

AnswerPart ==
  /\ pc = "answer" /\ chunks < MaxChunks
  /\ chunks' = chunks + 1
  /\ Goto("answer", LlmLimit)
  /\ UNCHANGED <<job, try, rc, held, known, deed, watch>>

\* llm_bio_recv turns a timeout into WANT_READ, and the loop reads on.
AnswerSilent ==
  /\ pc = "answer" /\ left = 0
  /\ Goto("answer", LlmLimit)
  /\ UNCHANGED <<link, known, deed, watch>>

HangUpDrops == held

\* The end of the answer, or the failure of any call before it.
HangUp ==
  /\ pc \in {"dns", "dial", "tls", "write", "answer"}
  /\ Drop(HangUpDrops) /\ chunks' = 0
  /\ Goto("beat", 0)
  /\ UNCHANGED <<job, try, rc, known, deed, watch>>

-----------------------------------------------------------------------------
(* The command on the host, time and the watchdog *)

HostEnds ==
  /\ up /\ effect = "running"
  /\ effect' \in {"done", "failed"}
  /\ UNCHANGED <<pc, left, link, known, act, state, watch>>

\* What watchdog_thread does after its sleep of 5 s.
Idle_NeverBeaten == idle + 1
Idle_AlwaysBeaten == 0
Idle == IF beaten THEN 0 ELSE idle + 1

\* Only `velaops run` starts the watchdog.
Tick ==
  /\ up /\ pc \in Blocking /\ left > 0 /\ ~Ordered
  /\ left' = left - 1
  /\ since' = Min({since + 1, StallLimit + 2})   \* kept up to what is told apart
  /\ beaten' = FALSE /\ idle' = Idle /\ up' = (idle' < StallLimit)
  /\ UNCHANGED <<pc, link, known, deed>>

\* The board starts again with empty memory; the baseline is in the store.
Restart ==
  /\ ~up
  /\ Goto("beat", 0)
  /\ job' = "collect" /\ try' = 1 /\ rc' = 0 /\ held' = {} /\ chunks' = 0
  /\ snap' = Blank /\ from' = Unread
  /\ act' = NoName /\ effect' = "none" /\ state' = "WAITING"
  /\ up' = TRUE /\ beaten' = FALSE /\ idle' = 0 /\ since' = 0
  /\ UNCHANGED base

Ssh == \/ Beat \/ Refuse \/ Open \/ Connected \/ ConnectFails \/ HandshakeFails
       \/ Retry \/ Proceed \/ AuthFails \/ ChannelFails \/ Started \/ ReadMore
       \/ ReadEnds \/ Release
Loop == Collected \/ ActReturned \/ Verified \/ OrderVerified \/ ExecReturned \/ Assess \/ Approve \/ NextCycle
Chat == \/ AskModel \/ Resolved \/ Dialled \/ Exchanged \/ AnswerPart
        \/ AnswerSilent \/ HangUp
Main == up /\ (Ssh \/ Loop \/ Chat)

Next == Main \/ Order \/ OrderExec \/ StartRun \/ HostEnds \/ Tick \/ Restart

Spec == Init /\ [][Next]_vars
\* The threads run and time passes.
FairSpec == Spec /\ WF_vars(Main) /\ WF_vars(Tick) /\ WF_vars(Restart)

-----------------------------------------------------------------------------
(* Properties *)

TypeOK ==
  /\ pc \in Blocking \cup {"shell", "beat", "call", "return", "assess"}
  /\ left \in 0 .. Max({ConnectLimit, SshLimit, LlmLimit})
  /\ job \in {"collect", "act", "verify", "order", "check"} /\ try \in 1 .. Tries /\ rc \in -2 .. 0
  /\ held \subseteq {"fd", "session", "channel", "addresses", "socket", "buffers", "tls"}
  /\ chunks \in 0 .. MaxChunks /\ base \subseteq Nat
  /\ act \in Acts \cup {NoName} /\ effect \in {"none", "running", "done", "failed"}
  /\ state \in {"WAITING", "RC0", "RC", "DONE", "FAILED"}
  /\ up \in BOOLEAN /\ beaten \in BOOLEAN /\ idle \in 0 .. StallLimit

\* Whatever fails and wherever, nothing is left open between two sessions and
\* a channel never outlives its session, nor a session its socket.
NothingLeftOpen ==
  /\ pc \in {"shell", "beat", "call", "connect", "return", "assess", "wait", "dns"} => held = {}
  /\ "channel" \in held => "session" \in held
  /\ "session" \in held => "fd" \in held

\* A session that failed leaves no value of the cycle before.
FailureIsBlank == pc = "assess" /\ rc # 0 => snap = Blank

\* Whatever fails and wherever, the thread holds what its place in the code
\* says and nothing more, and what it shows next is not of an earlier cycle.
SessionInv == TypeOK /\ NothingLeftOpen /\ FailureIsBlank

\* An action shown as DONE was at least started on the host.
DoneWasStarted == state = "DONE" => effect # "none"

\* The watchdog resets the board after 45 to 50 s without a beat: neither a
\* slow cycle before that, nor a stalled one much later.
ResetsOnlyStalls == since <= StallLimit + 1 /\ (~up => since > StallLimit)

\* Every cycle ends: with the next beat, or by the watchdog; and so does a
\* command of the console, whose limits are those of its calls.
CycleEnds == pc = "call" ~> (pc \in {"beat", "shell"} \/ ~up)

Result(s) == Score(s, Config, base)
Complete  == pc = "assess" /\ snap.online /\ from.got = Whole

Alarming(r) == r.critical \/ r.total < AlertBelow
Unnamed == Metrics \ {"cpu", "mem"}

\* An alert that says all is well is of no critical finding: it takes a metric
\* above its warning that the text does not name before it is critical, or at
\* all (swap, load), and a host just booted, with zombies or a wrong clock.
AlertIsExplained ==
  pc = "assess" /\ Alarming(Result(snap)) /\ Result(snap).reason = "normal" =>
    /\ ~Result(snap).critical
    /\ \E m \in Unnamed : snap.metric[m] > Config[m].warn
    /\ snap.uptime < 300 \/ snap.zombies > 10 \/ snap.ntp = 0

\* A metric that rises neither raises the score nor ends a critical result,
\* and one that is no longer reported does not lower the score.
Levels == {60, 91, 96, 400}
WorseIsNoBetter ==
  pc = "assess" /\ snap.online =>
    LET is == Result(snap)
        With(m, v) == Result([snap EXCEPT !.metric[m] = v])
    IN \A m \in Metrics :
         /\ \A v \in {l \in Levels : snap.metric[m] # Unknown /\ l >= snap.metric[m]} :
              With(m, v).total <= is.total /\ (is.critical => With(m, v).critical)
         /\ With(m, Unknown).total >= is.total

\* A host with nothing to complain of scores above the recovery score, so that
\* an alert can end: also just booted, with zombies and with a new port.
SoundHost(h) ==
  /\ \A m \in Metrics : h.metric[m] <= Config[m].warn
  /\ ToSet(h.failed) \subseteq IgnoreUnits /\ h.oom = 0
  /\ base \subseteq h.ports \cup IgnorePorts
  /\ Cardinality(h.ports) <= MaxPorts
SoundRecovers ==
  Complete /\ SoundHost(from.host) =>
    ~Result(snap).critical /\ Result(snap).total >= RecoverFrom

\* A port reported as lost is closed, as long as the list of the open ports
\* fits the snapshot.
LossIsReal ==
  Complete /\ Cardinality(from.host.ports) <= MaxPorts /\ Result(snap).reason = "lost" =>
    \E p \in base \ IgnorePorts : p \notin from.host.ports

\* The rule proposes a unit that is down on the host or a process it may kill,
\* however early the output ended, unless the list of units was torn or has an
\* empty item before that unit, for which it looks at another unit's answer.
Shifted(unit) == \E i \in DOMAIN Services : i < IndexOf(unit) /\ Services[i] = NoName
ProposalIsDown ==
  pc = "assess" /\ snap.online /\ ~from.torn =>
    LET proposed == Proposal(snap, Result(snap))
    IN Shifted(proposed) \/ proposed \in {NoName} \cup KillAllow \cup (ToSet(Services) \ from.host.active)
=============================================================================
