-------------------------------- MODULE Boot --------------------------------
(***************************************************************************)
(* What the board does from one reset to the next (`velaops boot`): read   *)
(* the configuration and the setup flag from flash, join the network, fall *)
(* back to a static or a remembered address, and end in the monitor loop   *)
(* or on the setup page, which saves a configuration and resets the board. *)
(*                                                                         *)
(* Everything that disturbs the board (power loss, flash faults, the       *)
(* operator, changes of the network, the watchdog) takes one unit of       *)
(* Budget: there are finitely many disturbances, in any order.             *)
(*                                                                         *)
(* The rescan flag of velaops_conf.h is left out: nothing sets it.         *)
(*                                                                         *)
(* X_Fault beside X is X with a fault the code could have.                 *)
(***************************************************************************)
EXTENDS Integers, ConfEffects

CONSTANTS
  HwTest,     \* a configuration with boot_mode=hwtest
  Hostless,   \* a configuration without ssh_host
  Budget      \* bound on the disturbances

\* A configuration with a host: do its ssid and password let the board join,
\* and has it a static_ip.
Usable == [joins : BOOLEAN, static : BOOLEAN]
Confs  == Usable \cup {HwTest, Hostless}

ASSUME BootAssumption ==
  /\ NoConf \notin Confs
  /\ HwTest \notin Usable \cup {Hostless}
  /\ Hostless \notin Usable
  /\ Budget \in Nat

VARIABLES
  pc,
  flag,     \* VELAOPS_FLAG_SETUP is set
  lease,    \* /data/velaops.net holds an address
  net,      \* the addresses that work in the network the board is in
  why,      \* why the setup page is up, "none" when it is not
  fresh,    \* why the page was up that saved conf, "none" once a join was tried
  left      \* disturbances left

flash == <<store, flag, lease>>
vars == <<pc, flash, net, why, fresh, left>>

Nets    == SUBSET {"dhcp", "static", "lease"}
Reasons == {"none", "button", "flag", "kept", "noconf"}

Init ==
  /\ pc = "start"
  /\ conf = NoConf /\ prior = NoConf /\ young = FALSE
  /\ flag = FALSE /\ lease = FALSE
  /\ net \in Nets
  /\ why = "none" /\ fresh = "none" /\ left = Budget

Disturbs == left > 0 /\ left' = left - 1
Goes(to) == pc' = to /\ why' = "none"

-----------------------------------------------------------------------------
(* The decisions of `velaops boot` *)

OpenPage(reason) == pc' = "setup" /\ why' = reason

HardwareTest ==
  /\ pc = "start" /\ conf = HwTest
  /\ Goes("hwtest")
  /\ UNCHANGED <<flash, net, fresh, left>>

\* BOOT or OK held at startup: the flag is not looked at.
HoldButton ==
  /\ pc = "start" /\ conf # HwTest /\ Disturbs
  /\ OpenPage("button")
  /\ UNCHANGED <<flash, net, fresh>>

\* flags_clear; its result is ignored.
Spent_Never == TRUE
Spent == FALSE

SetupByFlag ==
  /\ pc = "start" /\ conf # HwTest /\ flag
  /\ flag' = Spent /\ OpenPage("flag")
  /\ UNCHANGED <<store, lease, net, fresh, left>>

FlagKept ==
  /\ pc = "start" /\ conf # HwTest /\ flag /\ Disturbs
  /\ OpenPage("kept")
  /\ UNCHANGED <<flash, net, fresh>>

SetupWithoutConf ==
  /\ pc = "start" /\ ~flag /\ conf = NoConf
  /\ OpenPage("noconf")
  /\ UNCHANGED <<flash, net, fresh, left>>

\* "config has no ssh_host": the command ends and nothing starts it again.
NoHost ==
  /\ pc = "start" /\ ~flag /\ conf = Hostless
  /\ Goes("exit")
  /\ UNCHANGED <<flash, net, fresh, left>>

\* The panel or its frame buffer is missing: the command ends too.
NoPanel ==
  /\ pc = "start" /\ ~flag /\ conf \in Usable /\ Disturbs
  /\ Goes("exit")
  /\ UNCHANGED <<flash, net, fresh>>

Join ==
  /\ pc = "start" /\ ~flag /\ conf \in Usable
  /\ Goes("join") /\ fresh' = "none"
  /\ UNCHANGED <<flash, net, left>>

-----------------------------------------------------------------------------
(* The network *)

Answers(address) == conf.joins /\ address \in net

\* One of the three waits ends with an address; it is remembered, or the file
\* could not be written, or power fails while it is empty.
GetsAddress == pc = "join" /\ Answers("dhcp")

Lease ==
  /\ GetsAddress
  /\ lease' = TRUE /\ Goes("run")
  /\ UNCHANGED <<store, flag, net, fresh, left>>

LeaseNotKept ==
  /\ GetsAddress /\ Disturbs
  /\ \/ Goes("run") /\ UNCHANGED lease
     \/ Goes("start") /\ lease' = FALSE
  /\ UNCHANGED <<store, flag, net, fresh>>

NoAddress ==
  /\ pc = "join" /\ ~Answers("dhcp")
  /\ Goes("static")
  /\ UNCHANGED <<flash, net, fresh, left>>

\* The static address if there is one, then the remembered one if there is
\* one: set, and kept if the host answers there within four seconds.
StaticWorks_Untested == conf.static
StaticWorks == conf.static /\ Answers("static")

LeaseWorks_BesideStatic == conf.static /\ lease /\ Answers("lease")
LeaseWorks == lease /\ Answers("lease")

Fallback ==
  /\ \/ pc = "static" /\ StaticWorks
     \/ pc = "remembered" /\ LeaseWorks
  /\ Goes("run")
  /\ UNCHANGED <<flash, net, fresh, left>>

StaticFails ==
  /\ pc = "static" /\ ~StaticWorks
  /\ Goes("remembered")
  /\ UNCHANGED <<flash, net, fresh, left>>

FlagAfter_Same == flag
FlagAfter == TRUE

\* flags_set erases and writes the block; its result is ignored, and the
\* board is reset whatever it is.
GiveUp ==
  /\ pc = "remembered" /\ ~LeaseWorks
  /\ flag' = FlagAfter /\ Goes("start")
  /\ UNCHANGED <<store, lease, net, fresh, left>>

GiveUpUnmarked ==
  /\ pc = "remembered" /\ ~LeaseWorks /\ Disturbs
  /\ flag' = FALSE /\ Goes("start")
  /\ UNCHANGED <<store, lease, net, fresh>>

-----------------------------------------------------------------------------
(* The setup page *)

\* A form with the PIN, an ssid, a host and a port is saved.
Save(c) ==
  /\ pc = "setup" /\ Disturbs
  /\ Stores(c)
  /\ fresh' = why /\ pc' = "saved"
  /\ UNCHANGED <<flag, lease, net, why>>

\* The save fails and the page says so, or power fails.
SaveFails ==
  /\ pc = "setup" /\ Disturbs
  /\ StoresHalf
  /\ fresh' = IF conf' = conf THEN fresh ELSE "none"
  /\ Goes("start") \/ UNCHANGED <<pc, why>>
  /\ UNCHANGED <<flag, lease, net>>

Restart ==
  /\ pc = "saved"
  /\ Goes("start")
  /\ UNCHANGED <<flash, net, fresh, left>>

\* GET /reset-config; the result of the clear is ignored.
ClearConf ==
  /\ pc = "setup" /\ Disturbs
  /\ Erases \/ ErasesHalf
  /\ fresh' = IF conf' = conf THEN fresh ELSE "none"
  /\ Goes("start") \/ UNCHANGED <<pc, why>>
  /\ UNCHANGED <<flag, lease, net>>

\* GET /__disabled writes two files nobody reads and resets the board.
AskRescan ==
  /\ pc = "setup" /\ Disturbs
  /\ Goes("start")
  /\ UNCHANGED <<flash, net, fresh>>

\* The port of the page cannot be bound.
NoServer ==
  /\ pc = "setup" /\ Disturbs
  /\ Goes("exit")
  /\ UNCHANGED <<flash, net, fresh>>

\* The panel, its frame buffer or the pins cannot be opened: no test.
TestFails ==
  /\ pc = "hwtest" /\ Disturbs
  /\ Goes("exit")
  /\ UNCHANGED <<flash, net, fresh>>

-----------------------------------------------------------------------------
(* From outside *)

\* The loop of the test counts keys until OK or BOOT has been held for two
\* seconds, or a signal asks it to stop.
TestEnds ==
  /\ pc = "hwtest" /\ Disturbs
  /\ Goes("exit")
  /\ UNCHANGED <<flash, net, fresh>>

\* Power loss or a reset by the watchdog.
Reset ==
  /\ Disturbs
  /\ Goes("start")
  /\ UNCHANGED <<flash, net, fresh>>

\* `velaops store` on the console of a board at rest.
Resting == {"run", "setup", "exit", "hwtest"}

Console(c) ==
  /\ pc \in Resting /\ Disturbs
  /\ IF c = NoConf THEN Erases ELSE Stores(c)
  /\ fresh' = "none"
  /\ UNCHANGED <<pc, flag, lease, net, why>>

NetChanges ==
  /\ Disturbs
  /\ net' \in Nets \ {net}
  /\ UNCHANGED <<pc, flash, why, fresh>>

-----------------------------------------------------------------------------
Decide == HardwareTest \/ SetupByFlag \/ SetupWithoutConf \/ NoHost \/ Join

Connect == Lease \/ NoAddress \/ Fallback \/ StaticFails \/ GiveUp

Page == \/ \E c \in Usable : Save(c)
        \/ SaveFails \/ ClearConf \/ AskRescan

Faults == FlagKept \/ NoPanel \/ LeaseNotKept \/ GiveUpUnmarked \/ NoServer \/ TestFails

Outside == \/ TestEnds \/ HoldButton \/ Reset \/ NetChanges
           \/ \E c \in Confs \cup {NoConf} : Console(c)

Next == Decide \/ Connect \/ Restart \/ Page \/ Faults \/ Outside

\* Every wait of the boot is bounded, and it goes on by itself.
Fairness == WF_vars(Decide \/ Connect \/ Restart)

Spec == Init /\ [][Next]_vars
FairSpec == Spec /\ Fairness

-----------------------------------------------------------------------------
(* Properties *)

\* The two tests of an address when nobody offers one.
Tests == {"static", "remembered"}

\* The store holds configurations and keeps its shape.
StoreOK ==
  /\ conf \in Confs \cup {NoConf} /\ prior \in Confs \cup {NoConf}
  /\ StoreShape

\* Every variable stays in its range, the page has a reason, and the store
\* keeps its shape.
TypeOK ==
  /\ pc \in {"start", "join", "setup", "saved"} \cup Tests \cup Resting
  /\ StoreOK
  /\ flag \in BOOLEAN /\ lease \in BOOLEAN
  /\ net \in Nets /\ why \in Reasons /\ fresh \in Reasons
  /\ (why = "none" <=> pc \notin {"setup", "saved"})
  /\ (pc \in {"join"} \cup Tests => conf \in Usable)
  /\ left \in 0 .. Budget

\* A configuration saved on a page the board opened by itself is tried at the
\* next start, through any resets before it: the failure that opened the page
\* does not open it again.  (main 1832-1836: the flag is spent first.)
OldFailureForgotten == fresh \in {"flag", "noconf"} => ~flag

\* The inductive form: a page opened for the flag or for want of a
\* configuration, and a board on its way to the monitor loop, have no flag,
\* and a failing join is always that of a configuration it has tried.
FlagInv ==
  /\ OldFailureForgotten
  /\ why \in {"flag", "noconf"} => ~flag
  /\ pc \in {"join", "run"} \cup Tests => ~flag
  /\ pc \in {"join"} \cup Tests => fresh = "none"

\* Once nothing disturbs it any more the board comes to rest: it does not
\* reset itself for ever.
Settles == <>[](pc \in Resting)

Joinable == conf \in Usable /\ conf.joins
ByDhcp   == Joinable /\ "dhcp" \in net
ByStatic == Joinable /\ conf.static /\ "static" \in net
ByLease  == Joinable /\ lease /\ "lease" \in net

\* A board that tries to join and cannot reach its host from then on gets to
\* the setup page, whatever resets and faults come in between, unless the
\* panel fails.
UnreachableGetsSetup ==
  (pc = "join" /\ [](~ByDhcp /\ ~ByStatic /\ ~ByLease)) ~> (pc \in {"setup", "exit"})

\* A board that tries to join and from then on can reach its host in one of
\* the three ways, the same all the time, gets to the monitor loop, unless the
\* panel fails or somebody holds the button.  (It is not enough that some way
\* is open at every moment: an offer that begins after the third wait comes too
\* late, and the static address is not tried again once the remembered one is
\* tested.)
Monitors == pc \in {"run", "exit"} \/ why = "button"

ReachableGetsMonitor ==
  /\ (pc = "join" /\ []ByDhcp) ~> Monitors
  /\ (pc = "join" /\ []ByStatic) ~> Monitors
  /\ (pc = "join" /\ []ByLease) ~> Monitors
=============================================================================
