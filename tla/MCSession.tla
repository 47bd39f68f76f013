----------------------------- MODULE MCSession -----------------------------
(***************************************************************************)
(* A small instance of Session: four states of the host, at most two       *)
(* ports in a snapshot, two handshakes per session.  The unit of time is   *)
(* about 7.5 s: 4 of them for the 30 s of an SSH call, 6 for the 45 s of   *)
(* the watchdog.                                                           *)
(***************************************************************************)
EXTENDS Session

CONSTANTS web, db, cache, burner, noise

MCServices == <<web, NoName, db, cache>>
MCRepair   == <<web, db, NoName>>
MCIgnorePorts == {631}
MCIgnoreUnits == {noise}
MCKillAllow   == {burner}

\* thr_cpu = 92
MCConfig == Thresholds([cpu |-> 92])

Idling == [m \in Metrics |-> 20]
\* 8 cores read as one, the second sample of the CPU below the first
Cut == [[m \in Metrics |-> 2] EXCEPT !["mem"] = 100, !["swap"] = 100,
          !["load"] = 160, !["cpu"] = 9999]
Calm == [metric |-> Idling, uptime |-> 100, ports |-> {22, 631}, tornPorts |-> {22, 6}, cut |-> Cut,
         failed |-> <<noise>>, top |-> NoName, topCpu |-> 3, ntp |-> 1, oom |-> 0,
         zombies |-> 11, active |-> {web, db, cache}]
\* the ignored port is closed, a new one is open, a unit has failed
Busy == [Calm EXCEPT !.metric = [Idling EXCEPT !["cpu"] = 96, !["mem"] = 93, !["load"] = 310],
           !.ports = {22, 80}, !.tornPorts = {22}, !.failed = <<db, noise>>,
           !.top = burner, !.topCpu = 90, !.active = {db, cache}]
Quiet == [Calm EXCEPT !.uptime = 4000, !.ports = {22, 40000}, !.tornPorts = {22}, !.ntp = 0]
\* more ports than the snapshot holds
Crowded == [Calm EXCEPT !.metric = [Idling EXCEPT !["disk"] = 90, !["swap"] = 85],
              !.ports = {22, 80, 631}, !.tornPorts = {22}, !.oom = 1, !.active = {web, cache}]
\* also inside LOAD, MEM, SWAP, CORES, S2, PORTS and WATCHSVC
MCCuts  == {0, 1, 2, 5, 7, 12, 22, Whole}
MCHosts == {Calm, Busy, Quiet, Crowded}
=============================================================================
