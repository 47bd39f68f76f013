# VelaOps Sentinel: TLA+ models and proofs

VelaOps (`src/app/velaops/`) runs on an ESP32-S3 under openvela. It logs into one
server over SSH, scores its health, raises an alert on a 320x240 panel, proposes one
repair action, and executes it when the operator holds a key for two seconds. These
modules model the parts of it where threads, failures and long histories of calls
matter, check them with TLC on small instances, and prove the main safety properties
with TLAPS for every instance.

Contents: [inventory](#1-inventory), [modules](#2-modules-and-how-they-correspond-to-the-code),
[runs](#3-runs-bounds-and-what-they-show), [fairness](#4-fairness),
[proofs](#5-proofs), [divergences found](#6-divergences-found),
[not modelled](#7-what-is-not-modelled), [plan](#8-plan).

## 1. Inventory

| Part | Code | State it keeps | Operations | Hard because |
|---|---|---|---|---|
| main loop | `velaops_main.c` 2088-2868, `ai_refresh`, `apply_snapshot` | streaks, alert, latch (`g_latch_*`), action state, advice (`g_ai_*`), `llm_tick` | collect, assess, recover, select, 250 ticks of 20 ms, ask/confirm/run/verify, call the model | every blocking call lets the key thread act; the press and its use are far apart |
| key thread | `velaops_main.c` 181-304 | per key: down, long; `g_ok_long_page/shown`, `g_key_long_ok` | debounced press, release < 1 s, hold of 2 s | shares alert, overlay, page, mute and confirmation with the main loop; its hand-over of a hold takes two steps |
| panel | `velaops_ui.c`, the drawing in `velaops_main.c` | frame buffer, `velaops_ui_state_t`, confirmation text | render page, overlay, confirmation | both threads draw under `g_ui_lock`, the flags they draw from are written outside it |
| watchdog | `velaops_main.c` 306-337 | `g_main_beat`, idle seconds | every 5 s; reset after 45 s without a beat | one beat per cycle, while a cycle holds several blocking calls |
| configuration store | `velaops_conf.c` 1-535 | two flash blocks with sequence number and CRC | load, save, get, set, del, clear | power loss inside a save, failing flash |
| flags block, boot flow | `velaops_conf.c` 537-619, `velaops_main.c` 1794-1960 | setup and rescan bits | hardware test, rescan, setup or run; fall back to static or remembered address | a reset between any two steps; one unprotected block |
| Wi-Fi and addresses | `velaops_main.c` 1118-1535 | association, lease, cached lease | associate, DHCP with retries, reachability test | timeouts, stale cached lease |
| provisioning | `velaops_prov.c` | PIN, scan list, rescan flag, DHCP leases, form session | soft AP, DHCP replies, HTTP form, save | scan thread and its watchdog beside the server; partial requests |
| SSH session, collection parser | `velaops_ssh.c` | session, socket, output buffer, snapshot | connect with three attempts, exec, parse, unit/kill/exec actions, blacklist | retries times timeouts; lost channel after the command ran |
| model client | `velaops_llm.c` | TLS session, request and response buffers | chat: connect, write, read, extract the answer | read loop on a silent server |
| health scoring | `velaops_health.c` | baseline of ports, configuration | score a snapshot | caps and weights at their boundaries, misconfigured thresholds |
| memory pool | `velaops_pool.c` | chain of blocks in one 256 KiB area | init, alloc, calloc, realloc, free | fragmentation after long histories |
| board and library patches | `src/patches/` | driver state | keys, BOOT pin, LCD; libssh2 on mbedTLS | driver and third-party code |
| fonts, drawing | `velaops_cn_font.h`, `velaops_ui.c` | none | draw | pure |
| archived dashboard | `src/archive/2026-09-20/app/hello_app/` (`velaops_main.c`, `velaops_incident.c`, `velaops_agent_*.c`, `velaops_guarded_repair.c`) | incident tracker, alarm box, pause, flag files under `/tmp` | read the server, open and close incidents, one guarded repair, the key, the hooks of the agent | four threads and programs speak through files nobody locks |
| archived tunnel | `velaops_serial_tunnel.c`, `velaops_proxy_*.c`, `docs/tools/serial_llm_relay.py` | mutex, one request in chunks, ACK/NACK/answer files, the relay's queues | send, acknowledge, resend, forward, push the answer back | a lossy console, timeouts on both sides, answers that come late |
| archived rest | proxy, autoconfig, screens | | | superseded; no decision another part depends on |

How they interact. `velaops boot` reads the store and the flags, brings Wi-Fi up and
turns into `velaops run`, which starts the key thread and the watchdog and then runs
the main loop. The loop calls the SSH session (which allocates from the pool), health
scoring, the panel and the model client (which allocates from the same pool). The key
thread and the main loop share the flags of the screen as plain variables; only
drawing is locked. The watchdog only reads the beat. The store is read by the loop and
written by the console commands and by provisioning.

What makes each part correct: the loop executes exactly the vetted action it latched,
only when asked to, raises alerts for sick hosts and clears them for healthy ones; the
panel names the action a press would execute; the store never loses the configuration
to a power failure; the pool never hands out memory twice and does not fragment; the
watchdog resets a stalled loop and only that; the boot flow always ends in a running
monitor or in setup; a session releases what it took on every path. `PROJECT.json`
lists the single hazards with their source lines and the properties that cover them.

## 2. Modules and how they correspond to the code

| Module | Models | Composes |
|---|---|---|
| `Monitor` | main loop and key thread | |
| `Display` | the panel: which view was drawn last and which action it names | extends `Monitor` |
| `Approvals` | history variables: what the operator saw and which key was held | extends `Display` |
| `ConfRegister` | what the store promises a caller that may lose power | |
| `ConfStore` | the A/B store on two flash blocks | implements `ConfRegister` |
| `Heap` | what the pool promises its callers | |
| `Pool` | the chain of blocks | implements `Heap` |
| `ConfEffects` | what a save or a clear leaves in flash, as one step and in the terms of `ConfRegister` | |
| `Boot` | from a reset to the monitor loop or the setup page | extends `ConfEffects` |
| `Health` | thresholds, the parser of a collection, score, reason, learned ports, the rule's proposal: operators only | |
| `Session` | one cycle's SSH sessions and call of the model, the watchdog, `velaops approve` and `velaops exec` | extends `Health`: what a session read is scored |
| `Provision` | the thread of the setup page: DHCP, connections, the form, the diagnosis | extends `ConfEffects` |
| `Dashboard` | the archived monitor, key thread, agent hooks, and the questions and guarded repairs of several callers | |
| `Tunnel` | the archived transport, serial tunnel and relay | |
| `MonitorProofs` | theorems on `Monitor`, `Display` and `Approvals` | extends `Approvals` |
| `ConfStoreProofs`, `PoolProofs`, `BootProofs`, `SessionProofs`, `ProvisionProofs`, `DashboardProofs`, `TunnelProofs` | theorems | extend their modules |
| `MCMonitor`, `MCApprovals`, `MCConfStore`, `MCPool`, `MCSession`, `MCProvision`, `MCDashboard`, `MCTunnel` | constants for TLC (`Boot` needs none) | extend their modules |

An operator `X_Fault` next to `X` is `X` with a fault the code could plausibly have
(a dropped guard, a block counted wrongly). No specification uses it; replacing `X`
by it must violate the property it is listed with in `PROJECT.json`.

### Monitor

A step is the code between two points where the other thread can act with a different
result: a blocking call, a locked section, or an unlocked run of assignments of one
thread. `pc` is the main thread's position, `kpc` the key thread's.

* `CollectOk`, `CollectFail`: the SSH collection. Its result is abstracted to the pair
  (total, critical) that `velaops_health_score` can return: any score of `Scores`,
  critical only at or below `CritCap`; offline is 0 and critical.
* `AssessQuiet`, `RaiseAlert`: `crit`, `alert_streak`, `just_alert`, the rule's
  proposal, and the block at 2284-2327 that latches it. The streaks are kept up to the
  largest value the code compares them with (`FailLimit`, `AlertLimit`).
* `Recover`, `NoRecovery`: 2329-2345.
* `Select`: advice against rule, the latch, page 5, `WAITING`.
* `Tick(e)`: one 20 ms tick that takes a pending hold and samples the BOOT button
  (`e` is what the button did). `AskConfirm`/`DrawConfirm`, `Approve`, `Dismiss`,
  `IgnorePress` are the branches of 2596-2776; `Verified` and `Unverified` the action's
  return code and the second collection.
* `StartAdvice`, `AdviceFails`, `AdviceArrives`, `NextCycle`: the end of a cycle.
* `KeyDown`, `KeyShort`, `KeyHold`/`KeyBump`, `KeyUp`: the key thread. `BACK` (2) and
  `OK` (3) run the same code, as in the source.

Actions are members of `UnitActs`, `KillActs`, `ExecActs`: what a name looks like does
not matter, only whether the local rules can propose it (`RuleActs`) and whether advice
naming it passes whitelist, character check and blacklist (`Allowed`). The number of
ticks and every duration are left out. Counters the two threads share as a difference
(`g_key_long_ok - key_long_seen`) are that difference (`pending`). The score and the
critical flag are reset once a cycle has read them for the last time, which merges
states that the code cannot tell apart any more.

### Display and Approvals

`screen` is the view and the action of the last `lcd_flush`; `published` the action
that page 5 shows; `confirmFor` the action named by the confirmation's text. Each action of `Monitor` is taken
together with what it draws or publishes; `Blink` is the redraw of every 25th tick.
An overlay over a command names no action (2420-2424), so it is the view `OverlayView(latch)`
of every command alike. `Approvals` adds `saw` (panel and key at the snapshot of a hold),
`unspent` and `bootHeld` (long presses nothing has been done about yet) and `grant` (the
press being acted on, until what it led to is over); it changes nothing else. A tick spends
the press it acts on, so two runs on one press would show.

### ConfStore and ConfRegister

`slot` holds the two blocks: a record or `Bad` (whatever `conf_slot_parse` rejects). A
text is a function from keys to values; `Capacity` stands for `CONF_MAX_PAYLOAD`. A
save is `Erase`, `Write`, `Verify`; a clear is `ClearBlock` twice and `ClearReturns`.
`PowerLoss` may happen in any state, `FlashFails` is a failing erase or write, `Write`
may leave a bad block although it reports success, and with `ReadFaults` any read may
fail. `Rewrite` is set and del: load, edit, then save, or clear when the text becomes
empty. The abstract register has the text a load returns, the older text behind it,
and one bit (`young`) for the single save that is not atomic in this code.

### Pool and Heap

The unit is `POOL_ALIGN`, 8 bytes, which is also the size of a header. `size` maps the
offset of each header to its payload size, `used` is the set of blocks whose magic says
used. `Carved` is the split of `pool_alloc`, `Merged` the walk of `pool_free` over the
whole chain. `asked` and `answer` record the last request. The magic and size checks of
the code guard against foreign and stale pointers; clients here free and grow only what
they hold, so those branches never fire. `Heap` knows only which pointers are held with
how much room: a grant is any vacant stretch, a refusal is allowed only if no vacant
stretch has room for the request.

### Boot

`pc` is where `velaops boot` stands: `start` after a reset, `join`, `fallback`, `setup`
(the page), `saved` (the two seconds before the reset), and the places where the board
rests: `run`, `setup`, `exit` (the command ended; nothing starts it again) and `hwtest`.
`conf`, `prior`, `young` are the store of `ConfEffects`; `flag` is
`VELAOPS_FLAG_SETUP`, `lease` the file `/data/velaops.net`, `net` the addresses that work
in the network the board is in. A text is abstracted to what the boot asks of it: is
there an `ssh_host`, is it the hardware test, do ssid and password let the board join,
has it a `static_ip`.

* `HardwareTest`, `HoldButton`, `SetupByFlag`/`FlagKept`, `SetupWithoutConf`, `NoHost`,
  `NoPanel`, `Join`: the branches of 1794-1910 in their order. `FlagKept` is a
  `flags_clear` that fails, which the code does not look at.
* `Lease`/`LeaseNotKept`, `NoAddress`, `Fallback`, `StaticFails`, `GiveUp`/`GiveUpUnmarked`:
  the waits for an address, the test of the static address, then that of the remembered one
  (the network may change between them), and `flags_set` followed by the reset. Three waits
  of 12 s are one step.
* `Save`, `SaveFails`, `Restart`, `ClearConf`, `AskRescan`, `NoServer`: the requests of
  the page that change state. Refused requests change nothing.
* `TestFails`, `TestEnds`: the hardware test cannot open its devices, or is left by a hold
  of OK or BOOT or by a signal; the command ends either way.
* `Reset`, `Console`, `NetChanges`: power loss or watchdog, `velaops store`, the network.

`why` (the reason the page is up) and `fresh` (the reason of the page that saved the
configuration, until a join was tried) are history variables for the properties. The
rescan flag is left out: no code sets it. Failing reads of the flash are left out too.

### Health and Session

`Health` has no state. `Snapshot(h, got, torn)` is what `parse_kv` makes of the first
`got` lines of the output of host `h`, the last of them torn or not; `Score` is
`velaops_health_score`, `Learned` the port baseline, `Proposal` the unit or process the
rule would act on. Percentages are integers, the load is per core. A torn line may still be
a number, a wrong one: `cut` of a host says which (`CORES=1` of 16 makes the load many times
too high). The host answers for the items of `services` that name a unit (`Filled`), while
the rule counts the empty ones too, as the two sides of the code do.

`Session` runs those operators on what its sessions could read. `pc` names the blocking
call the thread is in, `left` what remains of its limit in units of the watchdog (about
7.5 s in the instance), `held` what the thread has acquired. `Open`, `Connected`,
`HandshakeFails`, `Retry`, `AuthFails`, `ChannelFails`, `Started`, `ReadEnds`, `Release` are
the paths of `open_authed_session`, `velaops_ssh_collect` and `exec_command`; `AskModel` to
`HangUp` those of `velaops_llm_chat`. `effect` is what became of the command on the host,
which nobody but the host knows: a lost link reads as exit status 0. `Tick` is a check of
the watchdog, `Restart` the reset. `Order`, `OrderExec`, `OrderVerified`, `ExecReturned`
are the console commands, which start no watchdog.

### Provision

`pc` is where the one thread of `velaops_prov_run` stands, `backlog` the connections that
wait, `buf` and `total` the request buffer and what has been received of it, `addr` the
state of each phone's address, `dsock` whether the DHCP socket could be opened; without it
the page runs on and nobody gets an address. A form is a function from fields to four
values: absent, the page's default, a value, and a value wider than the page's own buffer.
A stored text has the fields of the form and the keys the page does not have (`Others`:
`base_ports`, `thr_inode`, `thr_temp`, `boot_mode`), which the rest of the program sets
between two visits (`Set`, while the page is down). `FormText` is what `save_config` writes.

`Silence`, `HeadEnds`, `BodyEnds` are the receive timeouts; a part may end inside an entry
("cut"). `Save` stores the text, or fails and leaves the store as it was or half done;
`ClearConf` asks for no PIN and may erase both blocks, one of them (`ErasesHalf`: the older
text may come back) or none. `Diag` calls the model, and `DiagEnds` need not come: no
watchdog runs on the page. `Listed` is the scan list. What a phone saw (`seen`) is history.

### Dashboard

`loop` is where the monitor is: each look at a flag file and each change of one is a step of
its own (`looked`, `paused`, `answered`, `ending`, `resuming`), and so are the three steps of
`velaops_queue_llm_diagnosis` (`asking`: remove the old reply, make the busy file, set the
pause), for the monitor and for each `velaops diagnose-llm`. `repair` is
`velaops_repair_demo_service` for each who runs it: the tool of the agent and the console's
`repair-demo` do not ask for each other and share the files. `tracker` is the incident,
`alarm` the box on the screen, `key` the key thread; `popup`, `done`, `busy`, `repairBusy`,
`approve` are the files. A reading is no answer or the set of troubles the server shows.

History: `hold` is the set of repairs since whose prompt a hold has ended; `past` has the
last two readings, whether the agent owes an answer, and whether the busy file was last made
while the monitor was about to remove it (`raced`).

### Tunnel

`tasks` and `holder` are the callers and the mutex, `tunnel` the thread that cuts a request
into chunks, `ack`, `nack`, `ready`, `b64` the files the relay writes through the shell,
`pending` to `worker` the relay, `run` what the proxy executed. Every line may be lost
(`Line`), every timeout may pass, the relay may restart.

## 3. Runs, bounds and what they show

| Run | Configuration | Shows |
|---|---|---|
| `monitor` | `Monitor.cfg` | only vetted actions run and only vetted advice moves the latch; a sick host is alerted again and again, a healthy one leaves the alert for good |
| `approvals` | `Approvals.cfg` | over all interleavings of main thread, OK and BOOT with what both draw: what runs is the latched action, the action page names it and so does the overlay unless it is a command, every run has a long press of its own, nothing stays armed outside an alert, no key ends one |
| `conf_store` | `ConfStore.cfg` | no step of a save loses the configuration but the erase of the second one; refinement of `ConfRegister` |
| `pool` | `Pool.cfg` | tiling, coalescing, refinement of `Heap` |
| `boot` | `Boot.cfg` | whatever disturbs it, the board comes to rest; on the setup page when its host is out of reach, in the monitor loop when one way to it lasts; an old failure does not open the page twice |
| `session` | `Session.cfg` | nothing stays open on any path; a stall is reset after 45 to 50 s and nothing else is; DONE means the command was started; what is scored, learned and proposed is what the host showed, however early an output ends; an alert that says `normal` is of no critical finding |
| `provision` | `Provision.cfg` | the page's state stays sound and its list has each network once; only the form of the served phone is stored; sending the page back untouched keeps its fields; every phone that connects is served or dropped unless a diagnosis never ends |
| `dashboard` | `Dashboard.cfg` | incidents are debounced, a question asked in time keeps its busy file until it is answered, a reply ends the pause |
| `dashboard_repairs` | `DashboardRepairs.cfg` | two repairs at once: no restart without a hold since its own prompt, an honest result, no busy file that outlives both |
| `tunnel` | `Tunnel.cfg` | a caller takes only the answer to its own, executed request for its result; the lock is neither shared nor left behind |
| `approvals_unseen_exec`, `conf_store_first_rewrite` | | one counterexample each, see section 6 |

A property that is a conjunction (`DisplayInv`, `SessionInv`, `DashboardInv`, ...) names its
parts, each with a comment of its own. The type and inductive invariants of the modules
that have proofs (`TypeOK` of `Monitor`, `Pool` and `Boot`, `LatchInv`, `StoreInv`, `FlagInv`,
`SlotParity`, `EmptyIsWhole`, `HeldStays`, `NoConfirmDuringAdvice`, `CycleInv`, `WireInv`,
`PortalInv`) are proved for every instance (section 5) and not repeated in a run.

Bounds:

* `monitor`: one unit, one process that advice may not kill, one command: one
  action per way an action is treated. Scores 40, 70, 80: the cap of a critical result,
  the alert threshold, the recovery threshold, so both thresholds are met exactly.
  `Pages` = 2 instead of 6: the code distinguishes the action page from the others and
  the first from the others. One key, OK. `LlmPeriod` = 1
  instead of 6: the counter runs to 0 and is reset in both.
  `MaxPending` = 1: a second hold before the first is taken is the same event once more
  (the snapshot is a single pair).
  There is no BOOT button (`Boot` = "unused"), for the size of the liveness graph.
* `approvals`: a unit the rule may restart and a command advice may name (advice naming the
  unit is refused), OK and the BOOT button, scores 40 and 80, the rest as in `monitor`.
  Runs follow one another without end, so a press used twice would show.
* `conf_store`: three keys of one value, two of which fit, so a text can be full, and
  `MaxSeq` = 5, so each block is rewritten twice after the start-up cases 1 and 2.
* `pool`: 11 units and requests of 0, 1, 2 and 4 units: up to five blocks, exact fits,
  remainders of one unit that are not split off, runs of three free blocks.
* `boot`: `Budget` = 6 disturbances. A page opened by the button over an old flag takes
  three (two saves and a held button); six leave room for a change of the network, a fault
  and a power loss in the same history.
* `session`: four hosts (calm, busy, just after a reboot, with more ports than fit), two of
  the three handshakes, `MaxPorts` = 2, outputs that end at seven places, one further part
  of an output. 30 s of an SSH call are four units and the 45 s of the watchdog six, so one
  slow call fits before the reset and two do not, as on the board.
  There is an empty item among the units, so the two sides count differently.
* `provision`: two phones, one of which fills in the form, two fields and one key the page
  does not have. One field is required, has a default and is left as the page shows it; the
  other is optional, typed into, and has less room on the page than in the form. `Backlog` = 1
  instead of 8 and `ScanMax` = 2, so two phones fill the one and a file of four lines the other.
* `dashboard`: the thresholds are the code's (2 and 2), a server that is well, critical or
  short of something, replies of each kind, the monitor and two others who ask; no repair.
* `dashboard_repairs`: two repairs (the agent's tool and the console), two readings after a
  restart instead of five, a first one and a last one; no questions. The repairs differ in
  their names only and are symmetric; no liveness is checked there.
* `tunnel`: two requests (an old one and the next), two chunks, two rounds and two lost
  lines: a lost ACK and a lost chunk, or an answer that loses a line and comes late. The
  bound on requests is what ends a behaviour.

Deadlock is checked in every run but two: in `boot` a board at rest that nothing disturbs
any more is a state without successor, and meant to be; in `tunnel` the bounded number of
requests is used up in the end.

## 4. Fairness

The runs with a liveness property assume some. In `monitor`, `WF_vars(Cycle \/ Decide)`:
each blocking call of the cycle returns (libssh2 has a 30 s timeout, the model client a socket timeout) and the
loop goes on. `SF_vars(StartAdvice \/ NextCycle)`: the loop counts 250 ticks whatever
the operator does between them, so a stream of presses cannot keep it there; weak
fairness would allow that, because each press disables the end of the cycle for a
moment. `WF_vars(KeyBump)`: the key thread finishes the hand-over it began. Nothing is
assumed about the operator, the host or the model. The premises of the properties
are on the host alone: it stays critical, stays below the alert score, or stays healthy.
A server that keeps the model's read loop alive for ever is excluded by the first
assumption here; `Session` has it, and there the watchdog ends the cycle.

In `boot`, `WF_vars(Decide \/ Connect \/ Restart)`: every wait of the boot has a time
limit and nobody has to do anything for it to go on. Nothing is assumed about the
operator, the page, the network or faults; that disturbances end is the bound `Budget`.

In `session`, `WF_vars(Main)`, `WF_vars(Tick)` and `WF_vars(Restart)`: the threads run, a
call returns within its limit, time passes, a reset board starts again. A silent server is
not excluded: `AnswerSilent` keeps the main thread busy for ever and only `Tick` ends it.

In `provision`, `WF_vars(Dhcp \/ Serve)` and `WF_vars(Restart)`: each receive of the server
has a timeout, and a board that went down comes up. Nothing is assumed about the phones, nor
about the model a diagnosis asks: `Served` says what holds when every diagnosis ends.

In `dashboard`, `WF_vars(Round)`, `WF_vars(PauseOver)` and weak fairness of each question's
own steps: every thread runs on and every wait of its own ends. Nothing is assumed about the
agent, the operator or the proxy.
`tunnel` states no fairness: its properties are safety properties, since a
console that loses every line owes nobody an answer.

## 5. Proofs

All theorems hold for every value of the constants that satisfies the named
assumptions, and the proofs use no others.

**MonitorProofs** (from `ActsAssumption`, `HealthAssumption`, `PanelAssumption`).
`TypeCorrect` is inductive by itself. `LatchInvariant` proves `LatchInv`, the inductive
strengthening of the approval invariants. Those alone are not inductive: that only
vetted actions run needs the origin of the action on offer and of the latched one at
every point before (`Origin`), and that the latch is what runs needs that a fresh alert
starts without advice and that nothing selects advice between raising the alert and
`Select`. `LatchIsExecuted`, `NothingArmedWhenQuiet`, `OnlyVettedRuns` and
`AdviceWaitsForConfirm` follow from it; `OnlyAdviceMovesLatch` and `OnlyHealthEndsAlert`
are action properties proved from it, one step per action.

`PanelOffersLatch` and `NothingRunsUnpressed` are about the panel and the trail of
presses, whose specifications take each step of `Monitor` together with more variables, so
that `TypeOK` and `LatchInv` hold of them too. `DisplayInv` alone is not inductive: the step
that draws page 5 needs that what is published is the latch while an alert waits
(`PublishedIsLatch`). `NothingRunsUnpressed` says that every run has a press of its own: a
tick that acts on a press takes it out of `unspent` and forgets who made it once none is left,
and `grant` ends with the branch the press led to. The invariant is `TouchedInv`: what the
threads count as `pending`, with the hold whose hand-over is half done, are exactly the
presses nothing has been done about, all of them made on a key, and so was the one being acted
on. It assumes `Boot # "unopened"`; a BOOT pin that cannot be opened reads as held (section
6), and then a command can run that nobody asked for.

**ConfStoreProofs** (from `StoreAssumption`). `TypeCorrect` holds with any fault.
`SlotsAlternate`, `SavesAreAtomic` and `StoreIsRegister` assume `ReadFaults = FALSE`: with
failing reads they need not hold, because a save can take the wrong block for the newest.
`SavesAreAtomic` covers every step of every save, the second one too, and excepts one step: the
erase of the second save while block 0 holds the only record. `OnlyRecordIsFirst` shows that
no other erase can meet a block that is the only record.
`SlotParity` is strengthened to `StoreInv`, which also says, while a save is under way, which
block it writes and which number the other block holds; without it the write could produce
two records of one parity. `StoreIsRegister` is the refinement of `ConfRegister`: `Stored`,
`Prior`, `Young` and `Busy` are what the two blocks and the place in the code show of the
register. `ViewsNow` computes them from the blocks, and there is one lemma per action:
beginning and refusing a call, `EraseMakesRoom`, `WriteStores` (or a stutter, when the
written block is bad), `VerifyAnswers`, `ClearErases`, `ClearAnswers`, the failures and the
power loss. It needs `StoreInv` (that the erased block is the older one, unless the stored
text is young, is its parity) and `ReturnInv`: what a save has written and what a clear
without a failure has erased is still so when it returns.

**PoolProofs** (from `PoolAssumption`). The invariant is `Chain` (blocks in range,
tiling, and every unit covered by a block) with `Tidy` (a free block ends at a used one
or at the pool's end). `CarvedChain` and `MergedChain` show that split and walk keep it;
the second rests on `RunHasEnd`: freeing one block of a tidy chain makes a run of at most
three free blocks. From it follow the four invariants, `HeldBlocksStay`, and
`PoolIsHeap`, the refinement of `Heap`, where `Covers` is what makes a refusal mean that
no stretch is vacant.

**BootProofs** (from `BootAssumption`). `TypeCorrect` includes the shape of the store
(`StoreOK`), kept by every way a save or a clear can end. `OldFailureForgotten` is not
inductive: that a page opened for the flag has spent it, that no flag is set on the way to
the monitor loop, and that a join which gives up is one the configuration was tried in,
make it so (`FlagInv`).

**SessionProofs** (from `HealthLimits`, `UnitLists`, `LimitsAssumption`, `ConfigAssumption`,
`HostsAssumption`, `CutsAssumption`). `CycleInvariant` is `CycleInv`: what is held as a
function of the place (`Holds`), no good result of a changing session before its command is
started (`Acted`), the watchdog's count against the time since the beat (`Watched`), and
that what is scored is a snapshot of the host or blank (`Scored`). `NothingLeaks`,
`DoneMeansStarted` and `ResetsAreStalls` read off it. The five theorems on the score take
`Scored` and compute with the operators of `Health`, for every host and every set of
thresholds: `AlertsAreExplained` follows the findings in their order and computes, for a
reason that is `normal`, what the parts of the sum can still be, `LossesAreReal` and
`ProposalsAreDown` go back from the result to the output it was parsed from,
`SoundHostRecovers` bounds the parts of the weighted sum from below, and `WorseScoresNoBetter` shows each part monotonic.
`WorseScoresNoBetter` assumes that no critical threshold is below 0; a configuration can set
one, and then a missing value (-1) reads as critical. `ConfigAssumption` says what loading
does: any warning threshold, and the critical one at its fixed distance.

**ProvisionProofs** (from `ProvisionAssumption`, which takes the form's fields to be
distinct, as the page's names are, and the scan file to be a list). `PortalInv`: who has a
connection has an address and waits nowhere else; what the buffer holds below `total` is the
start of the body the served phone is sending; a form that was not edited is the page the
phone has. Nothing is said of the buffer above `total`, where leavings of older requests
are; that no reader looks there is the point of `StoresOwnForm`. `WhoStores` lists the steps
that give the store a new text: a save, which writes the start of the served phone's form
(`SavesItsStart`), a clear that stops between its two erases and brings the older text back,
and the rest of the program while the page is down, which leaves the form's fields alone.
`PageSentBackKeepsConf`
follows the value of a field from the store to the page and back. `PortalIsSafe` adds that
the list of networks names each usable one once.

**DashboardProofs** (from `DashboardAssumption`). `BoardInv` is `LoopInv` and `RepairInv`.
`LoopInv` holds what the monitor and the questions write; its core is `OwedInv`: while the agent
owes an answer no old reply is left once the question has removed it, and the busy file, once
made, is there and out of the monitor's reach, or it was made while the monitor was about to
remove one (`raced`). `RepairInv` holds what the repairs and the key write, for any number of
repairs at once: an approval that a waiting repair can see, and everything after it, goes back
to a hold since that repair's prompt, and nothing ran before the restart was asked for
(`RepairOK`). `RepairsSame` separates the two: only the key and the repairs write the latter.
From them `FlagsAgree`, `ResultsAreHonest` and `HoldsApprove`. `IncidentsAreDebounced` assumes
both thresholds to be 2, the values the tracker is started with: the property speaks of two
readings. Its invariant `Trail` gives the last readings for each state of the tracker.

**TunnelProofs** (from `TunnelAssumption`: finitely many callers). `WireInv`: the lock belongs
to the task with a request on its way, the tasks waiting for it have a number in reserve
(this keeps the request numbers in their range), and whatever the relay holds or has written
as done was executed. `TunnelIsSafe` reads off it; `AcceptedAreOwn` is an action property that
compares the answer with the request of the task that takes it.

Some operators need a least number: `Min` of a set of indexes, and the recursive functions
`Told` and `Listed`, whose types and results are shown from a minimal counterexample.
`LeastExists` gets it from `WFMin` and `NatLessThanWellFounded`, which no operator parameter
stands in the way of.

Only model-checked: all liveness properties (`SickRaises`, `HealthyClears`, `Settles`,
`UnreachableGetsSetup`, `ReachableGetsMonitor`, `CycleEnds`, `Served`, `ReplyEndsPause`),
since liveness and `ENABLED` are out of the prover's reach. Every invariant and
every action property of a passing run is proved. No module declares a `RECURSIVE` operator.
Statements by induction over data are out of reach of the installed provers; none is claimed.

## 6. Divergences found

Each run checks one sentence of the repository and finds it violated.

| Run | Sentence | What the code does |
|---|---|---|
| `approvals_unseen_exec` | `network-ssh-ai.md`: a command is shown before it is confirmed | a hold during a blocking call is applied, with its old page and overlay, to a command latched since |
| `conf_store_first_rewrite` | comment in `velaops_conf.c`: the next record goes into the slot that is not the newest | with sequence number 1 in block 0 the target is block 0 |

Met while modelling and not given a run:

* `pitfalls.md`:118 says an armed confirmation has priority; advice that came before it
  re-latches the action under it at the next cycle (`velaops_main.c`:2398), and its text stays.
* `network-ssh-ai.md`:68 promises no old conclusion after a recovery; `g_ai_reason` survives
  into the next alert (2289).
* `README.md`:38 says every action needs a long press; when `/dev/gpio1` cannot be opened
  the pin reads as held, and a long press is reported (2544).
* The page says that after a save the board restarts into the dashboard
  (`velaops_prov.c`:512); the page opened by the button leaves the flag of an earlier failed
  join set, so the next start opens the page again (1816).
* An action is called DONE on exit status 0, which libssh2 also reports for a channel whose
  link was lost before the host sent one (`velaops_ssh.c`:910); the second collection is
  what makes it true in most cases. `DoneWasStarted` is what does hold.
* A silent server of the model ends in a reset by the watchdog instead of the local rules
  (`velaops_llm.c`:562).
* The archived tunnel (`velaops_serial_tunnel.c`:31-33) says the relay acknowledges a whole
  request; without the header it acknowledges the chunks up to the highest it has
  (`serial_llm_relay.py`:411). The partial request is not executed.
* The rule proposes "the first monitored service that is down" (`velaops_main.c`:1079); with an
  empty item in `services` (`,web,db`, which `csv_safe` accepts) `csv_find_index` counts it
  (1067) and the loop on the host skips it (`velaops_ssh.c`:276), so a unit is judged by the
  state of its neighbour. `ProposalIsDown` excepts the units behind an empty item.
* `save_config` writes a new text from the form (`velaops_prov.c`:447-478): `base_ports`,
  `thr_inode`, `thr_temp` and `boot_mode` are lost with every save. `PageKeepsConf` is about
  the fields of the page.
* "single lease 192.168.4.2" (`velaops_prov.c`:177): the server keeps no record of a lease and
  offers the one address to every phone that asks (204).
* Without its DHCP socket the page stays up for nobody (`velaops_prov.c`:1333); a diagnosis over
  a silent server never returns (1198) and nothing resets the board there.
* The result of `velaops_conf_flags_clear` is ignored (`velaops_main.c`:1835): a flag that
  cannot be cleared opens the page after every reset.
* The archived dashboard's comment (`velaops_main.c`:656-658) says a pause ends at its limit
  without a reply; the condition at 1334 keeps it as long as the busy file is there.
* A question that makes its busy file between the monitor's `access` (1334, 1338) and its
  `unlink` (1368, 1341) loses it, and the readings go on beside the agent.
* The busy file of the repairs is to stand "while waiting and executing" (505); of two repairs
  at once the first to end removes it (578).
* The key thread counts the two seconds from the press (884), so a key held since before the
  prompt approves it, and every repair that waits.
* The agent's evidence may be as old as a diagnosis lasts: its cache is used although it
  has expired (archived `velaops_main.c`:459).
* `README.md` says BACK mutes and cancels and OK approves, while the 2 s hold treats both
  keys alike; `conf_rewrite` takes a failed load for an empty text and drops every other
  line; a board with `boot_mode=hwtest` does not reach the setup page even with the button
  held; the page has no timeout, so a board whose router came up later than itself stays
  on it; `pitfalls.md` says a hold on the action page raises a confirmation; the code asks
  only off that page, which looks intended.

## 7. What is not modelled

* Durations outside `Session`; the number of ticks in a cycle.
* The rescan phase (dead code: nothing sets its flag), the layout of the page, console
  commands while the board is joining, `velaops diag`, `page`, `demo` and `alert`.
* Building the request of the model and taking the answer apart: `Monitor` takes any
  advice. `AskModel` begins behind the check of the URL.
* Two tasks at once in the store or in the pool (a console command beside `run`): both
  use unlocked statics; the modules have one caller.
* Failing reads of the flash (`ReadFaults` = TRUE exists and is what the code does).
* Drawing and fonts (no decisions, no state but the frame buffer), the board driver and the
  patched libraries (external code). The font table alone is 7466 lines.
* Of the archive: the proxy (an external party of `Tunnel` that executes a request once),
  the HTTP text, signatures and codecs, autoconfig, screens, card utilities, the agent's
  own monitor thread and the cache of its evidence.

## 8. Plan

1. Proofs: which of the theorems on `ConfStore` survive failing reads (a weaker register, with
   the stored text lost); that `Boot` uses its store as `ConfRegister` allows.
2. Two callers of one `ConfStore`, and two of one `Pool`, whose steps interleave.
3. The agent's monitor thread of the archive, with its pending event and a full bus, beside
   `Dashboard`.
4. `Monitor` over thresholds that contradict each other.
