------------------------------- MODULE Health -------------------------------
(***************************************************************************)
(* What a collection tells and what it is worth: the parser of the         *)
(* KEY=VALUE lines of the collection command (velaops_ssh.c), the          *)
(* configured thresholds, the learned port baseline and the rule's         *)
(* proposal (velaops_main.c), and the score of velaops_health.c.           *)
(*                                                                         *)
(* Abstractions: a percentage is an integer (the code computes in float    *)
(* and truncates the score of a metric, as \div does here); the load is    *)
(* given per core in percent; a name is a model value.  An output that     *)
(* ends early is a number of whole lines and possibly a torn one, and what  *)
(* the torn number of a metric reads as is given with the host: 100 for a   *)
(* missing second number of MEM, a multiple of the load for CORES, and      *)
(* anything for the second sample of the CPU.                               *)
(*                                                                         *)
(* An operator X_Fault beside X is X with a fault the code could have.     *)
(***************************************************************************)
EXTENDS Integers, Sequences, FiniteSetsExt, SequencesExt

CONSTANTS
  MaxPorts,    \* VELAOPS_MAX_PORTS
  MaxFailed,   \* VELAOPS_MAX_FAILED
  MaxWatched,  \* the length of watch_active (8)
  Ephemeral,   \* the first port that is not learned (32768)
  IgnorePorts, IgnoreUnits, KillAllow,  \* the lists of the configuration
  Services,    \* the monitored units, in the order of the configuration
  Repair,      \* the units the board may restart, likewise
  NoName       \* no process, no unit, an empty item of a list

ASSUME HealthLimits == {MaxPorts, MaxFailed, MaxWatched, Ephemeral} \subseteq Nat
ASSUME UnitLists ==
  Services \in Seq(ToSet(Services)) /\ Repair \in Seq(ToSet(Repair))

-----------------------------------------------------------------------------
(* Thresholds *)

Metrics == {"cpu", "mem", "swap", "disk", "inode", "temp", "load"}
Unknown == -1

Defaults == [cpu |-> 85, mem |-> 85, swap |-> 50, disk |-> 85, inode |-> 85,
             temp |-> 75, load |-> 150]
Margin   == [cpu |-> 10, mem |-> 7, swap |-> 30, disk |-> 7, inode |-> 7,
             temp |-> 10, load |-> 150]
Settable == Metrics \ {"swap", "load"}

\* The critical threshold follows the configured warning.
Thresholds(set) ==
  [m \in Metrics |->
     LET w == IF m \in DOMAIN set THEN set[m] ELSE Defaults[m]
     IN [warn |-> w, crit |-> w + Margin[m]]]

AlertBelow  == 70     \* alert_score, unless configured
RecoverFrom == 80     \* recover_score, unless configured

-----------------------------------------------------------------------------
(* Parsing *)

Output == <<"LOAD", "MEM", "SWAP", "DISK", "INODE", "CORES", "S1", "S2",
            "UPTIME", "BOOTID", "FAILED", "ACTIVE", "PORTS", "ESTAB", "TW",
            "NIC", "TEMP", "TOP", "NTP", "OOM", "ZOMBIE", "CLK", "WATCHSVC">>
Whole == Len(Output)
LineOf(k) == SelectInSeq(Output, LAMBDA x : x = k)

LinesOf == [cpu |-> {"S1", "S2"}, mem |-> {"MEM"}, swap |-> {"SWAP"},
            disk |-> {"DISK"}, inode |-> {"INODE"}, temp |-> {"TEMP"},
            load |-> {"LOAD", "CORES"}]

Blank == [online |-> FALSE, uptime |-> 0, metric |-> [m \in Metrics |-> Unknown],
          failed |-> <<>>, ports |-> {}, top |-> NoName, topCpu |-> 0,
          ntp |-> Unknown, oom |-> 0, zombies |-> 0, active |-> <<>>]

\* `ss | sort -n`: the list holds the lowest ports.
Lowest(ports) == {p \in ports : Cardinality({q \in ports : q < p}) < MaxPorts}

FailedIn(h) == SubSeq(h.failed, 1, Min({Len(h.failed), MaxFailed}))

\* The host answers for the items of the list of units that name one: its shell
\* drops the empty ones.
Filled == {i \in DOMAIN Services : Services[i] # NoName}
Nth(j) == CHOOSE i \in Filled : Cardinality({k \in Filled : k <= i}) = j
ActiveIn(h) == [j \in 1 .. Min({Cardinality(Filled), MaxWatched}) |-> Services[Nth(j)] \in h.active]

\* What parse_kv makes of the first `got` lines of host h and of a torn rest.
Snapshot(h, got, torn) ==
  LET Has(k)  == LineOf(k) <= got
      Torn(k) == torn /\ LineOf(k) = got + 1
      Or(k, value, else) == IF Has(k) THEN value ELSE else
      \* the last line a metric needs is the torn one
      CutShort(m) == \E k \in LinesOf[m] : Torn(k) /\ \A j \in LinesOf[m] \ {k} : Has(j)
  IN [online  |-> TRUE,
      uptime  |-> Or("UPTIME", h.uptime, 0),
      metric  |-> [m \in Metrics |->
                     IF \A k \in LinesOf[m] : Has(k) THEN h.metric[m]
                     ELSE IF CutShort(m) THEN h.cut[m] ELSE Unknown],
      failed  |-> Or("FAILED", FailedIn(h), <<>>),
      ports   |-> Lowest(Or("PORTS", h.ports, IF Torn("PORTS") THEN h.tornPorts ELSE {})),
      top     |-> Or("TOP", h.top, NoName),
      topCpu  |-> Or("TOP", h.topCpu, 0),
      ntp     |-> Or("NTP", h.ntp, Unknown),
      oom     |-> Or("OOM", h.oom, 0),
      zombies |-> Or("ZOMBIE", h.zombies, 0),
      \* the first word of a torn line lacks its end, so it is not "active"
      active  |-> Or("WATCHSVC", ActiveIn(h),
                     IF Torn("WATCHSVC") /\ Filled # {} THEN <<FALSE>> ELSE <<>>)]

-----------------------------------------------------------------------------
(* The score *)

MetricScore(v, t) == CASE v <= t.warn -> 100
                       [] v >= t.crit -> 0
                       [] OTHER -> (100 * (t.crit - v)) \div (t.crit - t.warn)

\* The worst known metric decides.
ResourceScore_UnknownIsBad(s, cfg) == Min({100} \cup {MetricScore(s.metric[m], cfg[m]) : m \in {n \in Metrics : s.metric[n] # Unknown}}
                                          \cup {0 : m \in {n \in Metrics : s.metric[n] = Unknown}})
ResourceScore(s, cfg) ==
  LET known == {m \in Metrics : s.metric[m] # Unknown}
  IN Min({100} \cup {MetricScore(s.metric[m], cfg[m]) : m \in known})

FailedUnits(s) == Cardinality({i \in DOMAIN s.failed : s.failed[i] \notin IgnoreUnits})
ServiceScore(n) == CASE n = 0 -> 100 [] n = 1 -> 65 [] n = 2 -> 45 [] OTHER -> 25

NewPorts(s, base)  == {p \in s.ports : p < Ephemeral} \ (base \cup IgnorePorts)
LostPorts_Ignored(s, base) == base \ s.ports
LostPorts_Swapped(s, base) == s.ports \ (base \cup IgnorePorts)
LostPorts(s, base) == base \ (s.ports \cup IgnorePorts)
NetScore(lost, new) == Max({0, 100 - 40 * Cardinality(lost) - 5 * Cardinality(new)})

StabilityScore(s) == CASE s.oom > 0 -> 0
                       [] s.oom = 0 /\ s.zombies > 10 -> 60
                       [] s.oom = 0 /\ s.zombies <= 10 /\ s.ntp = 0 -> 90
                       [] OTHER -> 100

\* Swap and load lower the score but are never critical by themselves.
Critical(s, cfg, lost) ==
  \/ \E m \in Settable : s.metric[m] >= cfg[m].crit
  \/ s.oom > 0 \/ lost # {}

\* The first finding that applies is the reason shown.
Reason_NoMemory(s, cfg, lost, new) ==
  CASE s.oom > 0 -> "oom"
    [] s.oom = 0 /\ lost # {} -> "lost"
    [] OTHER -> IF FailedUnits(s) > 0 THEN "failed"
                ELSE IF s.metric["cpu"] >= cfg["cpu"].warn THEN "cpu" ELSE "normal"
Findings == <<"oom", "lost", "failed", "disk", "inode", "temp", "cpu", "mem", "new", "normal">>
Finds(f, s, cfg, lost, new) ==
  \/ f = "oom" /\ s.oom > 0
  \/ f = "lost" /\ lost # {}
  \/ f = "failed" /\ FailedUnits(s) > 0
  \/ f \in {"disk", "inode", "temp"} /\ s.metric[f] >= cfg[f].crit
  \/ f \in {"cpu", "mem"} /\ s.metric[f] >= cfg[f].warn
  \/ f = "new" /\ new # {}
  \/ f = "normal"
Reason(s, cfg, lost, new) ==
  Findings[Min({i \in DOMAIN Findings : Finds(Findings[i], s, cfg, lost, new)})]

Suggests(s) == IF s.topCpu >= 50 THEN s.top ELSE NoName

Score(s, cfg, base) ==
  LET lost == LostPorts(s, base)
      new  == NewPorts(s, base)
      crit == Critical(s, cfg, lost)
      sum  == ((IF s.uptime < 300 THEN 90 ELSE 100) * 25 + ResourceScore(s, cfg) * 30
               + ServiceScore(FailedUnits(s)) * 25
               + NetScore(lost, new) * 10 + StabilityScore(s) * 10) \div 100
  IN IF s.online
     THEN [total |-> IF crit /\ sum > 40 THEN 40 ELSE sum, critical |-> crit,
           reason |-> Reason(s, cfg, lost, new), kill |-> Suggests(s)]
     ELSE [total |-> 0, critical |-> TRUE, reason |-> "offline", kill |-> NoName]

-----------------------------------------------------------------------------
(* The baseline and the rule's proposal *)

\* A first list of ephemeral ports only leaves the baseline empty.
Learns(s, base)  == s.online /\ base = {} /\ s.ports # {}
Learned(s) == {p \in s.ports : p > 0 /\ p < Ephemeral}

\* csv_find_index counts the empty items of the list as well.
IndexOf(service) == SelectInSeq(Services, LAMBDA x : x = service)

\* pick_repair_target: units of the repair list that are monitored and down,
\* in the order of that list; kill_allowed otherwise.
Down_AnyIndex(s) == {i \in DOMAIN Repair : LET k == IndexOf(Repair[i]) IN k \in DOMAIN s.active => ~s.active[k]}
Down(s) == {i \in DOMAIN Repair : LET k == IndexOf(Repair[i]) IN k \in DOMAIN s.active /\ ~s.active[k]}

Proposal(s, r) == CASE ~s.online -> NoName
                    [] s.online /\ Down(s) # {} -> Repair[Min(Down(s))]
                    [] s.online /\ Down(s) = {} /\ r.kill \in KillAllow -> r.kill
                    [] OTHER -> NoName
=============================================================================
