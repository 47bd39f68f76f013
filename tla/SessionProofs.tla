--------------------------- MODULE SessionProofs ---------------------------
(***************************************************************************)
(* The invariants of Session for every host, every list of thresholds,     *)
(* units and ports, and every limit: what the thread holds, what it shows, *)
(* when the watchdog resets the board, and what the score says.            *)
(***************************************************************************)
EXTENDS Session, FiniteSetTheorems, SequenceTheorems, WellFoundedInduction, TLAPS

\* What the thread holds is told by its place in the code.
SshHolds == {"fd", "session"}
Holds ==
  /\ pc \in {"shell", "beat", "call", "connect", "backoff", "return", "assess", "wait", "dns"} => held = {}
  /\ pc \in {"handshake", "auth", "open"} => held = SshHolds
  /\ pc \in {"start", "read"} => held = SshHolds \cup {"channel"}
  /\ pc = "release" => held \in {SshHolds, SshHolds \cup {"channel"}}
  /\ pc = "dial" => held \subseteq {"addresses"}
  /\ pc \in {"tls", "write", "answer"} => held \subseteq {"addresses", "socket", "buffers", "tls"}

\* A session that changes something has no good result before its command is
\* started; no state of the cycle claims more.
Acted ==
  /\ pc \in {"connect", "handshake", "backoff", "auth", "open", "start", "read"} => rc = -1
  /\ pc = "read" /\ job \in Ordering => effect # "none"
  /\ pc \in {"release", "return"} /\ job \in Ordering /\ rc = 0 => effect # "none"
  /\ state \in {"RC0", "DONE"} => effect # "none"

\* The watchdog counts one check less than has passed since the beat, because
\* the first one only takes note of it.
Watched ==
  /\ since \in Nat
  /\ up => idle < StallLimit
  /\ beaten => since = 0
  /\ ~beaten => \/ since = idle + 1
                \/ since = 0 /\ idle = 0 /\ (Ordered \/ pc \in {"beat", "shell"})
  /\ ~up => idle = StallLimit /\ since = idle + 1 /\ pc \in Blocking
  /\ Ordered => pc # "wait"

\* What is scored was read from the host in this cycle, or is blank.
Scored ==
  pc = "assess" =>
    \/ rc = 0 /\ from \in Sources /\ snap = Snapshot(from.host, from.got, from.torn)
    \/ rc # 0 /\ snap = Blank

CycleInv == TypeOK /\ Holds /\ Acted /\ Watched /\ Scored /\ IsFiniteSet(base)

-----------------------------------------------------------------------------
(* What the thread holds and what it claims *)

\* No step takes or drops anything out of its place.
LEMMA HoldsStep ==
  Holds /\ [Next]_vars => Holds'
<1> SUFFICES ASSUME Holds /\ [Next]_vars
             PROVE  Holds'
  OBVIOUS
<1>1. CASE up /\ Beat
  BY <1>1 DEF Beat, Goto, link, known, deed, watch, Holds, SshHolds, Blocking
<1>2. CASE up /\ Refuse
  BY <1>2 DEF Refuse, Refusals, Return, Goto, link, known, deed, watch, Holds, SshHolds, Blocking
<1>3. CASE up /\ Open
  BY <1>3 DEF Open, Goto, link, known, deed, watch, Holds, SshHolds, Blocking
<1>4. CASE up /\ Connected
  BY <1>4 DEF Connected, Take, Goto, link, known, deed, watch, Holds, SshHolds, Blocking
<1>5. CASE up /\ ConnectFails
  BY <1>5 DEF ConnectFails, Return, Goto, link, known, deed, watch, Holds, SshHolds, Blocking
<1>6. CASE up /\ HandshakeFails
  BY <1>6 DEF HandshakeFails, Drop, HandshakeDrops, Goto, link, known, deed, watch, Holds, SshHolds, Blocking
<1>7. CASE up /\ Retry
  BY <1>7 DEF Retry, Return, Again, Goto, link, known, deed, watch, Holds, SshHolds, Blocking
<1>8. CASE up /\ Proceed
  BY <1>8 DEF Proceed, Steps, Take, Goto, link, known, deed, watch, Holds, SshHolds, Blocking
<1>9. CASE up /\ AuthFails
  BY <1>9 DEF AuthFails, Return, Drop, Goto, link, known, deed, watch, Holds, SshHolds, Blocking
<1>10. CASE up /\ ChannelFails
  BY <1>10 DEF ChannelFails, StartsFrom, Goto, link, known, deed, watch, Holds, SshHolds, Blocking
<1>11. CASE up /\ Started
  BY <1>11 DEF Started, Goto, link, known, deed, watch, Holds, SshHolds, Blocking
<1>12. CASE up /\ ReadMore
  BY <1>12 DEF ReadMore, Goto, link, known, deed, watch, Holds, SshHolds, Blocking
<1>13. CASE up /\ ReadEnds
  BY <1>13 DEF ReadEnds, ActResults, OrderResults, Restarted, Says, Goto, link, known, deed, watch, Holds, SshHolds, Blocking
<1>14. CASE up /\ Release
  BY <1>14 DEF Release, Return, Drop, Releases, Goto, link, known, deed, watch, Holds, SshHolds, Blocking
<1>15. CASE up /\ Collected
  BY <1>15 DEF Collected, ApplySnapshot, Goto, link, known, deed, watch, Holds, SshHolds, Blocking
<1>16. CASE up /\ ActReturned
  BY <1>16 DEF ActReturned, Goto, link, known, deed, watch, Holds, SshHolds, Blocking
<1>17. CASE up /\ Verified
  BY <1>17 DEF Verified, ShowsResult, ApplySnapshot, Goto, link, known, deed, watch, Holds, SshHolds, Blocking
<1>18. CASE up /\ OrderVerified
  BY <1>18 DEF OrderVerified, ShowsResult, ApplySnapshot, Goto, link, known, deed, watch, Holds, SshHolds, Blocking
<1>19. CASE up /\ ExecReturned
  BY <1>19 DEF ExecReturned, Goto, link, known, deed, watch, Holds, SshHolds, Blocking
<1>20. CASE up /\ Assess
  BY <1>20 DEF Assess, Goto, link, known, deed, watch, Holds, SshHolds, Blocking
<1>21. CASE up /\ Approve
  BY <1>21 DEF Approve, Goto, link, known, deed, watch, Holds, SshHolds, Blocking
<1>22. CASE up /\ NextCycle
  BY <1>22 DEF NextCycle, Goto, link, known, deed, watch, Holds, SshHolds, Blocking
<1>23. CASE up /\ AskModel
  BY <1>23 DEF AskModel, Goto, link, known, deed, watch, Holds, SshHolds, Blocking
<1>24. CASE up /\ Resolved
  BY <1>24 DEF Resolved, Take, Goto, link, known, deed, watch, Holds, SshHolds, Blocking
<1>25. CASE up /\ Dialled
  BY <1>25 DEF Dialled, Take, Goto, link, known, deed, watch, Holds, SshHolds, Blocking
<1>26. CASE up /\ Exchanged
  BY <1>26 DEF Exchanged, Goto, link, known, deed, watch, Holds, SshHolds, Blocking
<1>27. CASE up /\ AnswerPart
  BY <1>27 DEF AnswerPart, Goto, link, known, deed, watch, Holds, SshHolds, Blocking
<1>28. CASE up /\ AnswerSilent
  BY <1>28 DEF AnswerSilent, Goto, link, known, deed, watch, Holds, SshHolds, Blocking
<1>29. CASE up /\ HangUp
  BY <1>29 DEF HangUp, Drop, HangUpDrops, Goto, link, known, deed, watch, Holds, SshHolds, Blocking
<1>30. CASE Order
  BY <1>30 DEF Order, Goto, link, known, deed, watch, Holds, SshHolds, Blocking
<1>31. CASE OrderExec
  BY <1>31 DEF OrderExec, Goto, link, known, deed, watch, Holds, SshHolds, Blocking
<1>32. CASE StartRun
  BY <1>32 DEF StartRun, Goto, link, known, deed, watch, Holds, SshHolds, Blocking
<1>33. CASE HostEnds
  BY <1>33 DEF HostEnds, Goto, link, known, deed, watch, Holds, SshHolds, Blocking
<1>34. CASE Tick
  BY <1>34 DEF Tick, Goto, link, known, deed, watch, Holds, SshHolds, Blocking
<1>35. CASE Restart
  BY <1>35 DEF Restart, Goto, link, known, deed, watch, Holds, SshHolds, Blocking
<1>36. CASE UNCHANGED vars
  BY <1>36 DEF vars, link, known, deed, watch, Holds, SshHolds, Blocking
<1>37. QED
  BY <1>1, <1>2, <1>3, <1>4, <1>5, <1>6, <1>7, <1>8, <1>9, <1>10, <1>11, <1>12, <1>13, <1>14, <1>15, <1>16, <1>17, <1>18, <1>19, <1>20, <1>21, <1>22, <1>23, <1>24, <1>25, <1>26, <1>27, <1>28, <1>29, <1>30, <1>31, <1>32, <1>33, <1>34, <1>35, <1>36 DEF Next, Main, Ssh, Loop, Chat

\* No step claims a result of a command that was not started.
LEMMA ActedStep ==
  Acted /\ [Next]_vars => Acted'
<1> SUFFICES ASSUME Acted /\ [Next]_vars
             PROVE  Acted'
  OBVIOUS
<1>1. CASE up /\ Beat
  BY <1>1 DEF Beat, Goto, link, known, deed, watch, Acted, Ordering, Ordered, Done
<1>2. CASE up /\ Refuse
  BY <1>2 DEF Refuse, Refusals, Return, Goto, link, known, deed, watch, Acted, Ordering, Ordered, Done
<1>3. CASE up /\ Open
  BY <1>3 DEF Open, Goto, link, known, deed, watch, Acted, Ordering, Ordered, Done
<1>4. CASE up /\ Connected
  BY <1>4 DEF Connected, Take, Goto, link, known, deed, watch, Acted, Ordering, Ordered, Done
<1>5. CASE up /\ ConnectFails
  BY <1>5 DEF ConnectFails, Return, Goto, link, known, deed, watch, Acted, Ordering, Ordered, Done
<1>6. CASE up /\ HandshakeFails
  BY <1>6 DEF HandshakeFails, Drop, HandshakeDrops, Goto, link, known, deed, watch, Acted, Ordering, Ordered, Done
<1>7. CASE up /\ Retry
  BY <1>7 DEF Retry, Return, Again, Goto, link, known, deed, watch, Acted, Ordering, Ordered, Done
<1>8. CASE up /\ Proceed
  BY <1>8 DEF Proceed, Steps, Take, Goto, link, known, deed, watch, Acted, Ordering, Ordered, Done
<1>9. CASE up /\ AuthFails
  BY <1>9 DEF AuthFails, Return, Drop, Goto, link, known, deed, watch, Acted, Ordering, Ordered, Done
<1>10. CASE up /\ ChannelFails
  BY <1>10 DEF ChannelFails, StartsFrom, Goto, link, known, deed, watch, Acted, Ordering, Ordered, Done
<1>11. CASE up /\ Started
  BY <1>11 DEF Started, Goto, link, known, deed, watch, Acted, Ordering, Ordered, Done
<1>12. CASE up /\ ReadMore
  BY <1>12 DEF ReadMore, Goto, link, known, deed, watch, Acted, Ordering, Ordered, Done
<1>13. CASE up /\ ReadEnds
  BY <1>13 DEF ReadEnds, ActResults, OrderResults, Restarted, Says, Goto, link, known, deed, watch, Acted, Ordering, Ordered, Done
<1>14. CASE up /\ Release
  BY <1>14 DEF Release, Return, Drop, Releases, Goto, link, known, deed, watch, Acted, Ordering, Ordered, Done
<1>15. CASE up /\ Collected
  BY <1>15 DEF Collected, ApplySnapshot, Goto, link, known, deed, watch, Acted, Ordering, Ordered, Done
<1>16. CASE up /\ ActReturned
  BY <1>16 DEF ActReturned, Goto, link, known, deed, watch, Acted, Ordering, Ordered, Done
<1>17. CASE up /\ Verified
  BY <1>17 DEF Verified, ShowsResult, ApplySnapshot, Goto, link, known, deed, watch, Acted, Ordering, Ordered, Done
<1>18. CASE up /\ OrderVerified
  BY <1>18 DEF OrderVerified, ShowsResult, ApplySnapshot, Goto, link, known, deed, watch, Acted, Ordering, Ordered, Done
<1>19. CASE up /\ ExecReturned
  BY <1>19 DEF ExecReturned, Goto, link, known, deed, watch, Acted, Ordering, Ordered, Done
<1>20. CASE up /\ Assess
  BY <1>20 DEF Assess, Goto, link, known, deed, watch, Acted, Ordering, Ordered, Done
<1>21. CASE up /\ Approve
  BY <1>21 DEF Approve, Goto, link, known, deed, watch, Acted, Ordering, Ordered, Done
<1>22. CASE up /\ NextCycle
  BY <1>22 DEF NextCycle, Goto, link, known, deed, watch, Acted, Ordering, Ordered, Done
<1>23. CASE up /\ AskModel
  BY <1>23 DEF AskModel, Goto, link, known, deed, watch, Acted, Ordering, Ordered, Done
<1>24. CASE up /\ Resolved
  BY <1>24 DEF Resolved, Take, Goto, link, known, deed, watch, Acted, Ordering, Ordered, Done
<1>25. CASE up /\ Dialled
  BY <1>25 DEF Dialled, Take, Goto, link, known, deed, watch, Acted, Ordering, Ordered, Done
<1>26. CASE up /\ Exchanged
  BY <1>26 DEF Exchanged, Goto, link, known, deed, watch, Acted, Ordering, Ordered, Done
<1>27. CASE up /\ AnswerPart
  BY <1>27 DEF AnswerPart, Goto, link, known, deed, watch, Acted, Ordering, Ordered, Done
<1>28. CASE up /\ AnswerSilent
  BY <1>28 DEF AnswerSilent, Goto, link, known, deed, watch, Acted, Ordering, Ordered, Done
<1>29. CASE up /\ HangUp
  BY <1>29 DEF HangUp, Drop, HangUpDrops, Goto, link, known, deed, watch, Acted, Ordering, Ordered, Done
<1>30. CASE Order
  BY <1>30 DEF Order, Goto, link, known, deed, watch, Acted, Ordering, Ordered, Done
<1>31. CASE OrderExec
  BY <1>31 DEF OrderExec, Goto, link, known, deed, watch, Acted, Ordering, Ordered, Done
<1>32. CASE StartRun
  BY <1>32 DEF StartRun, Goto, link, known, deed, watch, Acted, Ordering, Ordered, Done
<1>33. CASE HostEnds
  BY <1>33 DEF HostEnds, Goto, link, known, deed, watch, Acted, Ordering, Ordered, Done
<1>34. CASE Tick
  BY <1>34 DEF Tick, Goto, link, known, deed, watch, Acted, Ordering, Ordered, Done
<1>35. CASE Restart
  BY <1>35 DEF Restart, Goto, link, known, deed, watch, Acted, Ordering, Ordered, Done
<1>36. CASE UNCHANGED vars
  BY <1>36 DEF vars, link, known, deed, watch, Acted, Ordering, Ordered, Done
<1>37. QED
  BY <1>1, <1>2, <1>3, <1>4, <1>5, <1>6, <1>7, <1>8, <1>9, <1>10, <1>11, <1>12, <1>13, <1>14, <1>15, <1>16, <1>17, <1>18, <1>19, <1>20, <1>21, <1>22, <1>23, <1>24, <1>25, <1>26, <1>27, <1>28, <1>29, <1>30, <1>31, <1>32, <1>33, <1>34, <1>35, <1>36 DEF Next, Main, Ssh, Loop, Chat

-----------------------------------------------------------------------------
(* The watchdog *)

LEMMA MinOfTwo ==
  ASSUME NEW x \in Int, NEW y \in Int, x <= y
  PROVE  Min({x, y}) = x
BY DEF Min

\* Only a check moves the watchdog's count away from the beat.
LEMMA WatchedStep ==
  TypeOK /\ Watched /\ [Next]_vars => Watched'
<1> SUFFICES ASSUME TypeOK /\ Watched /\ [Next]_vars
             PROVE  Watched'
  OBVIOUS
<1>1. CASE up /\ Beat
  BY <1>1, LimitsAssumption DEF Beat, Goto, link, known, deed, watch, Watched, Ordered, Blocking
<1>2. CASE up /\ Refuse
  BY <1>2 DEF Refuse, Refusals, Return, Goto, link, known, deed, watch, Watched, Ordered, Blocking
<1>3. CASE up /\ Open
  BY <1>3 DEF Open, Goto, link, known, deed, watch, Watched, Ordered, Blocking
<1>4. CASE up /\ Connected
  BY <1>4 DEF Connected, Take, Goto, link, known, deed, watch, Watched, Ordered, Blocking
<1>5. CASE up /\ ConnectFails
  BY <1>5 DEF ConnectFails, Return, Goto, link, known, deed, watch, Watched, Ordered, Blocking
<1>6. CASE up /\ HandshakeFails
  BY <1>6 DEF HandshakeFails, Drop, HandshakeDrops, Goto, link, known, deed, watch, Watched, Ordered, Blocking
<1>7. CASE up /\ Retry
  BY <1>7 DEF Retry, Return, Again, Goto, link, known, deed, watch, Watched, Ordered, Blocking
<1>8. CASE up /\ Proceed
  BY <1>8 DEF Proceed, Steps, Take, Goto, link, known, deed, watch, Watched, Ordered, Blocking
<1>9. CASE up /\ AuthFails
  BY <1>9 DEF AuthFails, Return, Drop, Goto, link, known, deed, watch, Watched, Ordered, Blocking
<1>10. CASE up /\ ChannelFails
  BY <1>10 DEF ChannelFails, StartsFrom, Goto, link, known, deed, watch, Watched, Ordered, Blocking
<1>11. CASE up /\ Started
  BY <1>11 DEF Started, Goto, link, known, deed, watch, Watched, Ordered, Blocking
<1>12. CASE up /\ ReadMore
  BY <1>12 DEF ReadMore, Goto, link, known, deed, watch, Watched, Ordered, Blocking
<1>13. CASE up /\ ReadEnds
  BY <1>13 DEF ReadEnds, ActResults, OrderResults, Restarted, Says, Goto, link, known, deed, watch, Watched, Ordered, Blocking
<1>14. CASE up /\ Release
  BY <1>14 DEF Release, Return, Drop, Releases, Goto, link, known, deed, watch, Watched, Ordered, Blocking
<1>15. CASE up /\ Collected
  BY <1>15 DEF Collected, ApplySnapshot, Goto, link, known, deed, watch, Watched, Ordered, Blocking
<1>16. CASE up /\ ActReturned
  BY <1>16 DEF ActReturned, Goto, link, known, deed, watch, Watched, Ordered, Blocking
<1>17. CASE up /\ Verified
  BY <1>17 DEF Verified, ShowsResult, ApplySnapshot, Goto, link, known, deed, watch, Watched, Ordered, Blocking
<1>18. CASE up /\ OrderVerified
  BY <1>18 DEF OrderVerified, ShowsResult, ApplySnapshot, Goto, link, known, deed, watch, Watched, Ordered, Blocking
<1>19. CASE up /\ ExecReturned
  BY <1>19, LimitsAssumption DEF ExecReturned, Goto, link, known, deed, watch, Watched, Ordered, Blocking
<1>20. CASE up /\ Assess
  BY <1>20 DEF Assess, Goto, link, known, deed, watch, Watched, Ordered, Blocking
<1>21. CASE up /\ Approve
  BY <1>21 DEF Approve, Goto, link, known, deed, watch, Watched, Ordered, Blocking
<1>22. CASE up /\ NextCycle
  BY <1>22 DEF NextCycle, Goto, link, known, deed, watch, Watched, Ordered, Blocking
<1>23. CASE up /\ AskModel
  BY <1>23 DEF AskModel, Goto, link, known, deed, watch, Watched, Ordered, Blocking
<1>24. CASE up /\ Resolved
  BY <1>24 DEF Resolved, Take, Goto, link, known, deed, watch, Watched, Ordered, Blocking
<1>25. CASE up /\ Dialled
  BY <1>25 DEF Dialled, Take, Goto, link, known, deed, watch, Watched, Ordered, Blocking
<1>26. CASE up /\ Exchanged
  BY <1>26 DEF Exchanged, Goto, link, known, deed, watch, Watched, Ordered, Blocking
<1>27. CASE up /\ AnswerPart
  BY <1>27 DEF AnswerPart, Goto, link, known, deed, watch, Watched, Ordered, Blocking
<1>28. CASE up /\ AnswerSilent
  BY <1>28 DEF AnswerSilent, Goto, link, known, deed, watch, Watched, Ordered, Blocking
<1>29. CASE up /\ HangUp
  BY <1>29 DEF HangUp, Drop, HangUpDrops, Goto, link, known, deed, watch, Watched, Ordered, Blocking
<1>30. CASE Order
  BY <1>30 DEF Order, Goto, link, known, deed, watch, Watched, Ordered, Blocking
<1>31. CASE OrderExec
  BY <1>31 DEF OrderExec, Goto, link, known, deed, watch, Watched, Ordered, Blocking
<1>32. CASE StartRun
  BY <1>32 DEF StartRun, Goto, link, known, deed, watch, Watched, Ordered, Blocking
<1>33. CASE HostEnds
  BY <1>33 DEF HostEnds, Goto, link, known, deed, watch, Watched, Ordered, Blocking
<1>34. CASE Tick
  <2>1. since + 1 <= StallLimit + 2 /\ since + 1 \in Int /\ StallLimit + 2 \in Int
    BY <1>34, LimitsAssumption DEF Tick, TypeOK, Watched, Ordered, Blocking
  <2>2. since' = since + 1
    BY <2>1, <1>34, MinOfTwo DEF Tick
  <2>3. /\ idle' = Idle /\ beaten' = FALSE /\ up' = (idle' < StallLimit)
        /\ up /\ pc' = pc /\ pc \in Blocking /\ ~Ordered /\ ~Ordered'
        /\ idle \in 0 .. StallLimit /\ StallLimit \in Nat \ {0}
    BY <1>34, LimitsAssumption DEF Tick, TypeOK, Ordered, link
  <2>4. up' <=> (idle' < StallLimit)
    BY <1>34 DEF Tick
  <2>5. CASE beaten
    <3>1. idle' = 0 /\ since = 0
      BY <2>3, <2>5 DEF Idle, Watched
    <3>2. up' /\ ~beaten' /\ idle' = 0 /\ since' = 1
      BY <3>1, <2>2, <2>3, <2>4
    <3>3. QED
      BY <3>2, <2>3 DEF Watched
  <2>6. CASE ~beaten
    <3>1. since = idle + 1 /\ idle < StallLimit
      BY <2>3, <2>6 DEF Watched, Blocking
    <3>2. idle' = idle + 1
      BY <2>3, <2>6 DEF Idle
    <3>3. ~beaten' /\ since' \in Nat /\ since' = idle' + 1
      BY <3>1, <3>2, <2>2, <2>3
    <3>4. idle' < StallLimit => up'
      BY <2>4
    <3>5. ~up' => idle' = StallLimit
      BY <3>1, <3>2, <2>3, <2>4
    <3>6. up' => idle' < StallLimit
      BY <2>4
    <3>7. QED
      BY <3>3, <3>5, <3>6, <2>3 DEF Watched
  <2>7. QED
    BY <2>5, <2>6
<1>35. CASE Restart
  BY <1>35, LimitsAssumption DEF Restart, Goto, link, known, deed, watch, Watched, Ordered, Blocking
<1>36. CASE UNCHANGED vars
  BY <1>36 DEF vars, link, known, deed, watch, Watched, Ordered, Blocking
<1>37. QED
  BY <1>1, <1>2, <1>3, <1>4, <1>5, <1>6, <1>7, <1>8, <1>9, <1>10, <1>11, <1>12, <1>13, <1>14, <1>15, <1>16, <1>17, <1>18, <1>19, <1>20, <1>21, <1>22, <1>23, <1>24, <1>25, <1>26, <1>27, <1>28, <1>29, <1>30, <1>31, <1>32, <1>33, <1>34, <1>35, <1>36 DEF Next, Main, Ssh, Loop, Chat

-----------------------------------------------------------------------------
(* Types *)

LeftMax == Max({ConnectLimit, SshLimit, LlmLimit})

\* Every limit of a call is within the greatest of them.
LEMMA LimitsFit ==
  /\ LeftMax \in Nat
  /\ {0, 1, ConnectLimit, SshLimit, LlmLimit} \subseteq 0 .. LeftMax
<1>1. {ConnectLimit, SshLimit, LlmLimit} \subseteq Nat \ {0}
  BY LimitsAssumption
<1>2. \E x \in {ConnectLimit, SshLimit, LlmLimit} : \A y \in {ConnectLimit, SshLimit, LlmLimit} : x >= y
  BY <1>1
<1>3. /\ LeftMax \in {ConnectLimit, SshLimit, LlmLimit}
      /\ \A y \in {ConnectLimit, SshLimit, LlmLimit} : LeftMax >= y
  BY <1>2 DEF LeftMax, Max
<1>4. QED
  BY <1>1, <1>3

SnapOK(s) ==
  /\ s.metric \in [Metrics -> Int]
  /\ {s.uptime, s.topCpu, s.ntp, s.oom, s.zombies} \subseteq Int
  /\ s.ports \subseteq Nat /\ IsFiniteSet(s.ports)

\* Whatever part of an output is parsed, numbers stay numbers.
LEMMA SnapshotOK ==
  ASSUME NEW f \in Sources
  PROVE  SnapOK(Snapshot(f.host, f.got, f.torn))
<1> DEFINE h == f.host
           s == Snapshot(h, f.got, f.torn)
<1>1. /\ h.metric \in [Metrics -> Int] /\ h.cut \in [Metrics -> Int]
      /\ {h.uptime, h.topCpu, h.ntp, h.oom, h.zombies} \subseteq Int
      /\ IsFiniteSet(h.ports) /\ h.ports \subseteq Nat
      /\ IsFiniteSet(h.tornPorts) /\ h.tornPorts \subseteq Nat
  BY HostsAssumption DEF Sources
<1>2. s.metric \in [Metrics -> Int]
  <2>2. s.metric = [m \in Metrics |-> s.metric[m]]
    BY DEF Snapshot
  <2>3. ASSUME NEW m \in Metrics
        PROVE  s.metric[m] = h.metric[m] \/ s.metric[m] = h.cut[m] \/ s.metric[m] = Unknown
    BY DEF Snapshot
  <2>4. ASSUME NEW m \in Metrics
        PROVE  s.metric[m] \in Int
    BY <1>1, <2>3 DEF Unknown
  <2>5. QED
    BY <2>2, <2>4
<1>3. {s.uptime, s.topCpu, s.ntp, s.oom, s.zombies} \subseteq Int
  BY <1>1 DEF Snapshot, Unknown
<1>4. \/ s.ports \subseteq h.ports
      \/ s.ports \subseteq h.tornPorts
      \/ s.ports \subseteq {}
  BY DEF Snapshot, Lowest
<1>5. s.ports \subseteq Nat /\ IsFiniteSet(s.ports)
  BY <1>1, <1>4, FS_Subset, FS_EmptySet
<1>6. QED
  BY <1>2, <1>3, <1>5 DEF SnapOK

LEMMA BlankOK == SnapOK(Blank)
BY FS_EmptySet DEF SnapOK, Blank, Unknown

\* What is scored comes from the step that read it.
LEMMA ScoredStep ==
  Scored /\ [Next]_vars => Scored'
<1> SUFFICES ASSUME Scored /\ [Next]_vars
             PROVE  Scored'
  OBVIOUS
<1>1. CASE up /\ Beat
  BY <1>1 DEF Beat, Goto, link, known, deed, watch, Scored, Blocking, Parsed
<1>2. CASE up /\ Refuse
  BY <1>2 DEF Refuse, Refusals, Return, Goto, link, known, deed, watch, Scored, Blocking, Parsed
<1>3. CASE up /\ Open
  BY <1>3 DEF Open, Goto, link, known, deed, watch, Scored, Blocking, Parsed
<1>4. CASE up /\ Connected
  BY <1>4 DEF Connected, Take, Goto, link, known, deed, watch, Scored, Blocking, Parsed
<1>5. CASE up /\ ConnectFails
  BY <1>5 DEF ConnectFails, Return, Goto, link, known, deed, watch, Scored, Blocking, Parsed
<1>6. CASE up /\ HandshakeFails
  BY <1>6 DEF HandshakeFails, Drop, HandshakeDrops, Goto, link, known, deed, watch, Scored, Blocking, Parsed
<1>7. CASE up /\ Retry
  BY <1>7 DEF Retry, Return, Again, Goto, link, known, deed, watch, Scored, Blocking, Parsed
<1>8. CASE up /\ Proceed
  <2>1. pc' \in {"auth", "open", "start"}
    BY <1>8 DEF Proceed, Steps, Goto
  <2>2. QED
    BY <2>1 DEF Scored
<1>9. CASE up /\ AuthFails
  BY <1>9 DEF AuthFails, Return, Drop, Goto, link, known, deed, watch, Scored, Blocking, Parsed
<1>10. CASE up /\ ChannelFails
  BY <1>10 DEF ChannelFails, StartsFrom, Goto, link, known, deed, watch, Scored, Blocking, Parsed
<1>11. CASE up /\ Started
  BY <1>11 DEF Started, Goto, link, known, deed, watch, Scored, Blocking, Parsed
<1>12. CASE up /\ ReadMore
  BY <1>12 DEF ReadMore, Goto, link, known, deed, watch, Scored, Blocking, Parsed
<1>13. CASE up /\ ReadEnds
  BY <1>13 DEF ReadEnds, ActResults, OrderResults, Restarted, Says, Goto, link, known, deed, watch, Scored, Blocking, Parsed
<1>14. CASE up /\ Release
  BY <1>14 DEF Release, Return, Drop, Releases, Goto, link, known, deed, watch, Scored, Blocking, Parsed
<1>15. CASE up /\ Collected
  BY <1>15 DEF Collected, ApplySnapshot, Goto, link, known, deed, watch, Scored, Blocking, Parsed
<1>16. CASE up /\ ActReturned
  BY <1>16 DEF ActReturned, Goto, link, known, deed, watch, Scored, Blocking, Parsed
<1>17. CASE up /\ Verified
  BY <1>17 DEF Verified, ShowsResult, ApplySnapshot, Goto, link, known, deed, watch, Scored, Blocking, Parsed
<1>18. CASE up /\ OrderVerified
  BY <1>18 DEF OrderVerified, ShowsResult, ApplySnapshot, Goto, link, known, deed, watch, Scored, Blocking, Parsed
<1>19. CASE up /\ ExecReturned
  BY <1>19 DEF ExecReturned, Goto, link, known, deed, watch, Scored, Blocking, Parsed
<1>20. CASE up /\ Assess
  BY <1>20 DEF Assess, Goto, link, known, deed, watch, Scored, Blocking, Parsed
<1>21. CASE up /\ Approve
  BY <1>21 DEF Approve, Goto, link, known, deed, watch, Scored, Blocking, Parsed
<1>22. CASE up /\ NextCycle
  BY <1>22 DEF NextCycle, Goto, link, known, deed, watch, Scored, Blocking, Parsed
<1>23. CASE up /\ AskModel
  BY <1>23 DEF AskModel, Goto, link, known, deed, watch, Scored, Blocking, Parsed
<1>24. CASE up /\ Resolved
  BY <1>24 DEF Resolved, Take, Goto, link, known, deed, watch, Scored, Blocking, Parsed
<1>25. CASE up /\ Dialled
  BY <1>25 DEF Dialled, Take, Goto, link, known, deed, watch, Scored, Blocking, Parsed
<1>26. CASE up /\ Exchanged
  BY <1>26 DEF Exchanged, Goto, link, known, deed, watch, Scored, Blocking, Parsed
<1>27. CASE up /\ AnswerPart
  BY <1>27 DEF AnswerPart, Goto, link, known, deed, watch, Scored, Blocking, Parsed
<1>28. CASE up /\ AnswerSilent
  BY <1>28 DEF AnswerSilent, Goto, link, known, deed, watch, Scored, Blocking, Parsed
<1>29. CASE up /\ HangUp
  BY <1>29 DEF HangUp, Drop, HangUpDrops, Goto, link, known, deed, watch, Scored, Blocking, Parsed
<1>30. CASE Order
  BY <1>30 DEF Order, Goto, link, known, deed, watch, Scored, Blocking, Parsed
<1>31. CASE OrderExec
  BY <1>31 DEF OrderExec, Goto, link, known, deed, watch, Scored, Blocking, Parsed
<1>32. CASE StartRun
  BY <1>32 DEF StartRun, Goto, link, known, deed, watch, Scored, Blocking, Parsed
<1>33. CASE HostEnds
  BY <1>33 DEF HostEnds, Goto, link, known, deed, watch, Scored, Blocking, Parsed
<1>34. CASE Tick
  BY <1>34 DEF Tick, Goto, link, known, deed, watch, Scored, Blocking, Parsed
<1>35. CASE Restart
  BY <1>35 DEF Restart, Goto, link, known, deed, watch, Scored, Blocking, Parsed
<1>36. CASE UNCHANGED vars
  BY <1>36 DEF vars, link, known, deed, watch, Scored, Blocking, Parsed
<1>37. QED
  BY <1>1, <1>2, <1>3, <1>4, <1>5, <1>6, <1>7, <1>8, <1>9, <1>10, <1>11, <1>12, <1>13, <1>14, <1>15, <1>16, <1>17, <1>18, <1>19, <1>20, <1>21, <1>22, <1>23, <1>24, <1>25, <1>26, <1>27, <1>28, <1>29, <1>30, <1>31, <1>32, <1>33, <1>34, <1>35, <1>36 DEF Next, Main, Ssh, Loop, Chat

\* What the baseline learns is a finite set of ports.
LEMMA BaselineOK ==
  ASSUME TypeOK, IsFiniteSet(base), ApplySnapshot
  PROVE  base' \subseteq Nat /\ IsFiniteSet(base')
<1>1. SnapOK(snap')
  BY SnapshotOK, BlankOK DEF ApplySnapshot, Parsed
<1>2. base' = base \/ base' \subseteq snap'.ports
  BY DEF ApplySnapshot, Bases, Learned
<1>3. QED
  BY <1>1, <1>2, FS_Subset DEF TypeOK, SnapOK

\* The limit of a call is one of the three, and only runs down.
LEMMA LeftStep ==
  left \in 0 .. LeftMax /\ [Next]_vars => (left \in 0 .. LeftMax)'
<1> SUFFICES ASSUME left \in 0 .. LeftMax /\ [Next]_vars
             PROVE  (left \in 0 .. LeftMax)'
  OBVIOUS
<1>1. CASE up /\ Beat
  BY <1>1, LimitsFit DEF Beat, Goto, link, known, deed, watch
<1>2. CASE up /\ Refuse
  BY <1>2, LimitsFit DEF Refuse, Refusals, Return, Goto, link, known, deed, watch
<1>3. CASE up /\ Open
  BY <1>3, LimitsFit DEF Open, Goto, link, known, deed, watch
<1>4. CASE up /\ Connected
  BY <1>4, LimitsFit DEF Connected, Take, Goto, link, known, deed, watch
<1>5. CASE up /\ ConnectFails
  BY <1>5, LimitsFit DEF ConnectFails, Return, Goto, link, known, deed, watch
<1>6. CASE up /\ HandshakeFails
  BY <1>6, LimitsFit DEF HandshakeFails, Drop, HandshakeDrops, Goto, link, known, deed, watch
<1>7. CASE up /\ Retry
  BY <1>7, LimitsFit, LimitsAssumption DEF Retry, Return, Again, Goto, link, known, deed, watch
<1>8. CASE up /\ Proceed
  BY <1>8, LimitsFit DEF Proceed, Steps, Take, Goto, link, known, deed, watch
<1>9. CASE up /\ AuthFails
  BY <1>9, LimitsFit DEF AuthFails, Return, Drop, Goto, link, known, deed, watch
<1>10. CASE up /\ ChannelFails
  BY <1>10, LimitsFit DEF ChannelFails, StartsFrom, Goto, link, known, deed, watch
<1>11. CASE up /\ Started
  BY <1>11, LimitsFit DEF Started, Goto, link, known, deed, watch
<1>12. CASE up /\ ReadMore
  BY <1>12, LimitsFit DEF ReadMore, Goto, link, known, deed, watch
<1>13. CASE up /\ ReadEnds
  BY <1>13, LimitsFit DEF ReadEnds, ActResults, OrderResults, Restarted, Says, Goto, link, known, deed, watch
<1>14. CASE up /\ Release
  BY <1>14, LimitsFit DEF Release, Return, Drop, Releases, Goto, link, known, deed, watch
<1>15. CASE up /\ Collected
  BY <1>15, LimitsFit DEF Collected, ApplySnapshot, Goto, link, known, deed, watch
<1>16. CASE up /\ ActReturned
  BY <1>16, LimitsFit DEF ActReturned, Goto, link, known, deed, watch
<1>17. CASE up /\ Verified
  BY <1>17, LimitsFit DEF Verified, ShowsResult, ApplySnapshot, Goto, link, known, deed, watch
<1>18. CASE up /\ OrderVerified
  BY <1>18, LimitsFit DEF OrderVerified, ShowsResult, ApplySnapshot, Goto, link, known, deed, watch
<1>19. CASE up /\ ExecReturned
  BY <1>19, LimitsFit DEF ExecReturned, Goto, link, known, deed, watch
<1>20. CASE up /\ Assess
  BY <1>20, LimitsFit DEF Assess, Goto, link, known, deed, watch
<1>21. CASE up /\ Approve
  BY <1>21, LimitsFit DEF Approve, Goto, link, known, deed, watch
<1>22. CASE up /\ NextCycle
  BY <1>22, LimitsFit DEF NextCycle, Goto, link, known, deed, watch
<1>23. CASE up /\ AskModel
  BY <1>23, LimitsFit DEF AskModel, Goto, link, known, deed, watch
<1>24. CASE up /\ Resolved
  BY <1>24, LimitsFit DEF Resolved, Take, Goto, link, known, deed, watch
<1>25. CASE up /\ Dialled
  BY <1>25, LimitsFit DEF Dialled, Take, Goto, link, known, deed, watch
<1>26. CASE up /\ Exchanged
  BY <1>26, LimitsFit DEF Exchanged, Goto, link, known, deed, watch
<1>27. CASE up /\ AnswerPart
  BY <1>27, LimitsFit DEF AnswerPart, Goto, link, known, deed, watch
<1>28. CASE up /\ AnswerSilent
  BY <1>28, LimitsFit DEF AnswerSilent, Goto, link, known, deed, watch
<1>29. CASE up /\ HangUp
  BY <1>29, LimitsFit DEF HangUp, Drop, HangUpDrops, Goto, link, known, deed, watch
<1>30. CASE Order
  BY <1>30, LimitsFit DEF Order, Goto, link, known, deed, watch
<1>31. CASE OrderExec
  BY <1>31, LimitsFit DEF OrderExec, Goto, link, known, deed, watch
<1>32. CASE StartRun
  BY <1>32, LimitsFit DEF StartRun, Goto, link, known, deed, watch
<1>33. CASE HostEnds
  BY <1>33, LimitsFit DEF HostEnds, Goto, link, known, deed, watch
<1>34. CASE Tick
  BY <1>34, LimitsFit DEF Tick, Goto, link, known, deed, watch
<1>35. CASE Restart
  BY <1>35, LimitsFit DEF Restart, Goto, link, known, deed, watch
<1>36. CASE UNCHANGED vars
  BY <1>36 DEF vars, link, known, deed, watch
<1>37. QED
  BY <1>1, <1>2, <1>3, <1>4, <1>5, <1>6, <1>7, <1>8, <1>9, <1>10, <1>11, <1>12, <1>13, <1>14, <1>15, <1>16, <1>17, <1>18, <1>19, <1>20, <1>21, <1>22, <1>23, <1>24, <1>25, <1>26, <1>27, <1>28, <1>29, <1>30, <1>31, <1>32, <1>33, <1>34, <1>35, <1>36 DEF Next, Main, Ssh, Loop, Chat

TypesOfRest ==
  /\ pc \in Blocking \cup {"shell", "beat", "call", "return", "assess"}
  /\ job \in {"collect", "act", "verify", "order", "check"} /\ try \in 1 .. Tries /\ rc \in -2 .. 0
  /\ held \subseteq {"fd", "session", "channel", "addresses", "socket", "buffers", "tls"}
  /\ chunks \in 0 .. MaxChunks
  /\ act \in Acts \cup {NoName} /\ effect \in {"none", "running", "done", "failed"}
  /\ state \in {"WAITING", "RC0", "RC", "DONE", "FAILED"}
  /\ up \in BOOLEAN /\ beaten \in BOOLEAN /\ idle \in 0 .. StallLimit

\* No step leaves the ranges of the other variables.
LEMMA TypesStep ==
  TypesOfRest /\ Watched /\ [Next]_vars => TypesOfRest'
<1> SUFFICES ASSUME TypesOfRest /\ Watched /\ [Next]_vars
             PROVE  TypesOfRest'
  OBVIOUS
<1>1. CASE up /\ Beat
  BY <1>1, LimitsAssumption DEF Beat, Goto, link, known, deed, watch, TypesOfRest, Blocking, Acts
<1>2. CASE up /\ Refuse
  BY <1>2, LimitsAssumption DEF Refuse, Refusals, Return, Goto, link, known, deed, watch, TypesOfRest, Blocking, Acts
<1>3. CASE up /\ Open
  BY <1>3, LimitsAssumption DEF Open, Goto, link, known, deed, watch, TypesOfRest, Blocking, Acts
<1>4. CASE up /\ Connected
  BY <1>4, LimitsAssumption DEF Connected, Take, Goto, link, known, deed, watch, TypesOfRest, Blocking, Acts
<1>5. CASE up /\ ConnectFails
  BY <1>5, LimitsAssumption DEF ConnectFails, Return, Goto, link, known, deed, watch, TypesOfRest, Blocking, Acts
<1>6. CASE up /\ HandshakeFails
  BY <1>6, LimitsAssumption DEF HandshakeFails, Drop, HandshakeDrops, Goto, link, known, deed, watch, TypesOfRest, Blocking, Acts
<1>7. CASE up /\ Retry
  BY <1>7, LimitsAssumption DEF Retry, Return, Again, Goto, link, known, deed, watch, TypesOfRest, Blocking, Acts
<1>8. CASE up /\ Proceed
  BY <1>8, LimitsAssumption DEF Proceed, Steps, Take, Goto, link, known, deed, watch, TypesOfRest, Blocking, Acts
<1>9. CASE up /\ AuthFails
  BY <1>9, LimitsAssumption DEF AuthFails, Return, Drop, Goto, link, known, deed, watch, TypesOfRest, Blocking, Acts
<1>10. CASE up /\ ChannelFails
  BY <1>10, LimitsAssumption DEF ChannelFails, StartsFrom, Goto, link, known, deed, watch, TypesOfRest, Blocking, Acts
<1>11. CASE up /\ Started
  BY <1>11, LimitsAssumption DEF Started, Goto, link, known, deed, watch, TypesOfRest, Blocking, Acts
<1>12. CASE up /\ ReadMore
  BY <1>12, LimitsAssumption DEF ReadMore, Goto, link, known, deed, watch, TypesOfRest, Blocking, Acts
<1>13. CASE up /\ ReadEnds
  BY <1>13, LimitsAssumption DEF ReadEnds, ActResults, OrderResults, Restarted, Says, Goto, link, known, deed, watch, TypesOfRest, Blocking, Acts
<1>14. CASE up /\ Release
  BY <1>14, LimitsAssumption DEF Release, Return, Drop, Releases, Goto, link, known, deed, watch, TypesOfRest, Blocking, Acts
<1>15. CASE up /\ Collected
  BY <1>15, LimitsAssumption DEF Collected, ApplySnapshot, Goto, link, known, deed, watch, TypesOfRest, Blocking, Acts
<1>16. CASE up /\ ActReturned
  BY <1>16, LimitsAssumption DEF ActReturned, Goto, link, known, deed, watch, TypesOfRest, Blocking, Acts
<1>17. CASE up /\ Verified
  BY <1>17, LimitsAssumption DEF Verified, ShowsResult, ApplySnapshot, Goto, link, known, deed, watch, TypesOfRest, Blocking, Acts
<1>18. CASE up /\ OrderVerified
  BY <1>18, LimitsAssumption DEF OrderVerified, ShowsResult, ApplySnapshot, Goto, link, known, deed, watch, TypesOfRest, Blocking, Acts
<1>19. CASE up /\ ExecReturned
  BY <1>19, LimitsAssumption DEF ExecReturned, Goto, link, known, deed, watch, TypesOfRest, Blocking, Acts
<1>20. CASE up /\ Assess
  BY <1>20, LimitsAssumption DEF Assess, Goto, link, known, deed, watch, TypesOfRest, Blocking, Acts
<1>21. CASE up /\ Approve
  BY <1>21, LimitsAssumption DEF Approve, Goto, link, known, deed, watch, TypesOfRest, Blocking, Acts
<1>22. CASE up /\ NextCycle
  BY <1>22, LimitsAssumption DEF NextCycle, Goto, link, known, deed, watch, TypesOfRest, Blocking, Acts
<1>23. CASE up /\ AskModel
  BY <1>23, LimitsAssumption DEF AskModel, Goto, link, known, deed, watch, TypesOfRest, Blocking, Acts
<1>24. CASE up /\ Resolved
  BY <1>24, LimitsAssumption DEF Resolved, Take, Goto, link, known, deed, watch, TypesOfRest, Blocking, Acts
<1>25. CASE up /\ Dialled
  BY <1>25, LimitsAssumption DEF Dialled, Take, Goto, link, known, deed, watch, TypesOfRest, Blocking, Acts
<1>26. CASE up /\ Exchanged
  BY <1>26, LimitsAssumption DEF Exchanged, Goto, link, known, deed, watch, TypesOfRest, Blocking, Acts
<1>27. CASE up /\ AnswerPart
  BY <1>27, LimitsAssumption DEF AnswerPart, Goto, link, known, deed, watch, TypesOfRest, Blocking, Acts
<1>28. CASE up /\ AnswerSilent
  BY <1>28, LimitsAssumption DEF AnswerSilent, Goto, link, known, deed, watch, TypesOfRest, Blocking, Acts
<1>29. CASE up /\ HangUp
  BY <1>29, LimitsAssumption DEF HangUp, Drop, HangUpDrops, Goto, link, known, deed, watch, TypesOfRest, Blocking, Acts
<1>30. CASE Order
  BY <1>30, LimitsAssumption DEF Order, Goto, link, known, deed, watch, TypesOfRest, Blocking, Acts
<1>31. CASE OrderExec
  BY <1>31, LimitsAssumption DEF OrderExec, Goto, link, known, deed, watch, TypesOfRest, Blocking, Acts
<1>32. CASE StartRun
  BY <1>32, LimitsAssumption DEF StartRun, Goto, link, known, deed, watch, TypesOfRest, Blocking, Acts
<1>33. CASE HostEnds
  BY <1>33, LimitsAssumption DEF HostEnds, Goto, link, known, deed, watch, TypesOfRest, Blocking, Acts
<1>34. CASE Tick
  <2>1. idle' \in 0 .. StallLimit
    <3>1. up /\ idle \in 0 .. StallLimit /\ idle < StallLimit
      BY <1>34 DEF Tick, TypesOfRest, Watched
    <3>2. idle' = 0 \/ idle' = idle + 1
      BY <1>34 DEF Tick, Idle
    <3>3. QED
      BY <3>1, <3>2, LimitsAssumption
  <2>2. up' \in BOOLEAN /\ beaten' \in BOOLEAN
    <3>1. (idle' < StallLimit) \in BOOLEAN
      OBVIOUS
    <3>2. up' = (idle' < StallLimit) /\ beaten' = FALSE
      BY <1>34 DEF Tick
    <3>3. QED
      BY <3>1, <3>2, Zenon
  <2>3. QED
    BY <2>1, <2>2, <1>34 DEF Tick, TypesOfRest, link, deed
<1>35. CASE Restart
  <2>1. /\ pc' = "beat" /\ job' = "collect" /\ try' = 1 /\ rc' = 0 /\ held' = {} /\ chunks' = 0
        /\ act' = NoName /\ effect' = "none" /\ state' = "WAITING" /\ idle' = 0
    BY <1>35 DEF Restart, Goto
  <2>2. up' \in BOOLEAN /\ beaten' \in BOOLEAN
    BY <1>35 DEF Restart
  <2>3. 1 \in 1 .. Tries /\ 0 \in 0 .. MaxChunks /\ 0 \in 0 .. StallLimit
    BY LimitsAssumption
  <2>4. QED
    BY <2>1, <2>2, <2>3 DEF TypesOfRest
<1>36. CASE UNCHANGED vars
  BY <1>36 DEF vars, link, known, deed, watch, TypesOfRest, Blocking, Acts
<1>37. QED
  BY <1>1, <1>2, <1>3, <1>4, <1>5, <1>6, <1>7, <1>8, <1>9, <1>10, <1>11, <1>12, <1>13, <1>14, <1>15, <1>16, <1>17, <1>18, <1>19, <1>20, <1>21, <1>22, <1>23, <1>24, <1>25, <1>26, <1>27, <1>28, <1>29, <1>30, <1>31, <1>32, <1>33, <1>34, <1>35, <1>36 DEF Next, Main, Ssh, Loop, Chat

\* Only a collection changes the baseline.
LEMMA BaseStep ==
  TypeOK /\ IsFiniteSet(base) /\ [Next]_vars => (base \subseteq Nat /\ IsFiniteSet(base))'
<1> SUFFICES ASSUME TypeOK /\ IsFiniteSet(base) /\ [Next]_vars
             PROVE  (base \subseteq Nat /\ IsFiniteSet(base))'
  OBVIOUS
<1>1. CASE up /\ Beat
  BY <1>1 DEF Beat, Goto, link, known, deed, watch, TypeOK
<1>2. CASE up /\ Refuse
  BY <1>2 DEF Refuse, Refusals, Return, Goto, link, known, deed, watch, TypeOK
<1>3. CASE up /\ Open
  BY <1>3 DEF Open, Goto, link, known, deed, watch, TypeOK
<1>4. CASE up /\ Connected
  BY <1>4 DEF Connected, Take, Goto, link, known, deed, watch, TypeOK
<1>5. CASE up /\ ConnectFails
  BY <1>5 DEF ConnectFails, Return, Goto, link, known, deed, watch, TypeOK
<1>6. CASE up /\ HandshakeFails
  BY <1>6 DEF HandshakeFails, Drop, HandshakeDrops, Goto, link, known, deed, watch, TypeOK
<1>7. CASE up /\ Retry
  BY <1>7 DEF Retry, Return, Again, Goto, link, known, deed, watch, TypeOK
<1>8. CASE up /\ Proceed
  BY <1>8 DEF Proceed, Steps, Take, Goto, link, known, deed, watch, TypeOK
<1>9. CASE up /\ AuthFails
  BY <1>9 DEF AuthFails, Return, Drop, Goto, link, known, deed, watch, TypeOK
<1>10. CASE up /\ ChannelFails
  BY <1>10 DEF ChannelFails, StartsFrom, Goto, link, known, deed, watch, TypeOK
<1>11. CASE up /\ Started
  BY <1>11 DEF Started, Goto, link, known, deed, watch, TypeOK
<1>12. CASE up /\ ReadMore
  BY <1>12 DEF ReadMore, Goto, link, known, deed, watch, TypeOK
<1>13. CASE up /\ ReadEnds
  BY <1>13 DEF ReadEnds, ActResults, OrderResults, Restarted, Says, Goto, link, known, deed, watch, TypeOK
<1>14. CASE up /\ Release
  BY <1>14 DEF Release, Return, Drop, Releases, Goto, link, known, deed, watch, TypeOK
<1>15. CASE up /\ Collected
  BY <1>15, BaselineOK DEF Collected
<1>16. CASE up /\ ActReturned
  BY <1>16 DEF ActReturned, Goto, link, known, deed, watch, TypeOK
<1>17. CASE up /\ Verified
  BY <1>17, BaselineOK DEF Verified, ShowsResult
<1>18. CASE up /\ OrderVerified
  BY <1>18, BaselineOK DEF OrderVerified, ShowsResult
<1>19. CASE up /\ ExecReturned
  BY <1>19 DEF ExecReturned, Goto, link, known, deed, watch, TypeOK
<1>20. CASE up /\ Assess
  BY <1>20 DEF Assess, Goto, link, known, deed, watch, TypeOK
<1>21. CASE up /\ Approve
  BY <1>21 DEF Approve, Goto, link, known, deed, watch, TypeOK
<1>22. CASE up /\ NextCycle
  BY <1>22 DEF NextCycle, Goto, link, known, deed, watch, TypeOK
<1>23. CASE up /\ AskModel
  BY <1>23 DEF AskModel, Goto, link, known, deed, watch, TypeOK
<1>24. CASE up /\ Resolved
  BY <1>24 DEF Resolved, Take, Goto, link, known, deed, watch, TypeOK
<1>25. CASE up /\ Dialled
  BY <1>25 DEF Dialled, Take, Goto, link, known, deed, watch, TypeOK
<1>26. CASE up /\ Exchanged
  BY <1>26 DEF Exchanged, Goto, link, known, deed, watch, TypeOK
<1>27. CASE up /\ AnswerPart
  BY <1>27 DEF AnswerPart, Goto, link, known, deed, watch, TypeOK
<1>28. CASE up /\ AnswerSilent
  BY <1>28 DEF AnswerSilent, Goto, link, known, deed, watch, TypeOK
<1>29. CASE up /\ HangUp
  BY <1>29 DEF HangUp, Drop, HangUpDrops, Goto, link, known, deed, watch, TypeOK
<1>30. CASE Order
  BY <1>30 DEF Order, Goto, link, known, deed, watch, TypeOK
<1>31. CASE OrderExec
  BY <1>31 DEF OrderExec, Goto, link, known, deed, watch, TypeOK
<1>32. CASE StartRun
  BY <1>32 DEF StartRun, Goto, link, known, deed, watch, TypeOK
<1>33. CASE HostEnds
  BY <1>33 DEF HostEnds, Goto, link, known, deed, watch, TypeOK
<1>34. CASE Tick
  BY <1>34 DEF Tick, Goto, link, known, deed, watch, TypeOK
<1>35. CASE Restart
  BY <1>35 DEF Restart, Goto, link, known, deed, watch, TypeOK
<1>36. CASE UNCHANGED vars
  BY <1>36 DEF vars, link, known, deed, watch, TypeOK
<1>37. QED
  BY <1>1, <1>2, <1>3, <1>4, <1>5, <1>6, <1>7, <1>8, <1>9, <1>10, <1>11, <1>12, <1>13, <1>14, <1>15, <1>16, <1>17, <1>18, <1>19, <1>20, <1>21, <1>22, <1>23, <1>24, <1>25, <1>26, <1>27, <1>28, <1>29, <1>30, <1>31, <1>32, <1>33, <1>34, <1>35, <1>36 DEF Next, Main, Ssh, Loop, Chat

LEMMA TypeSplit == TypeOK <=> TypesOfRest /\ left \in 0 .. LeftMax /\ base \subseteq Nat
BY DEF TypeOK, TypesOfRest, LeftMax

LEMMA CycleInit == Init => CycleInv
<1> SUFFICES ASSUME Init
             PROVE  CycleInv
  OBVIOUS
<1>1. /\ pc \in {"beat", "shell"} /\ left = 0
      /\ job = "collect" /\ try = 1 /\ rc = 0 /\ held = {} /\ chunks = 0
      /\ base = {} /\ act = NoName /\ effect = "none" /\ state = "WAITING"
      /\ up = TRUE /\ beaten = FALSE /\ idle = 0 /\ since = 0
  BY DEF Init
<1>2. TypesOfRest
  <2>1. 1 \in 1 .. Tries /\ 0 \in 0 .. MaxChunks /\ 0 \in 0 .. StallLimit
    BY LimitsAssumption
  <2>2. up \in BOOLEAN /\ beaten \in BOOLEAN
    BY <1>1
  <2>3. QED
    BY <1>1, <2>1, <2>2 DEF TypesOfRest
<1>3. left \in 0 .. LeftMax /\ base \subseteq Nat /\ IsFiniteSet(base)
  BY <1>1, LimitsFit, FS_EmptySet
<1>4. Holds
  BY <1>1 DEF Holds
<1>5. Acted
  BY <1>1 DEF Acted
<1>6. Watched
  BY <1>1, LimitsAssumption DEF Watched, Ordered
<1>7. Scored
  BY <1>1 DEF Scored
<1>8. QED
  BY <1>2, <1>3, <1>4, <1>5, <1>6, <1>7, TypeSplit DEF CycleInv

LEMMA CycleStep == CycleInv /\ [Next]_vars => CycleInv'
<1> SUFFICES ASSUME CycleInv /\ [Next]_vars
             PROVE  CycleInv'
  OBVIOUS
<1>1. TypeOK /\ Holds /\ Acted /\ Watched /\ Scored /\ IsFiniteSet(base)
  BY DEF CycleInv
<1>2. Holds' /\ Acted' /\ Watched' /\ Scored'
  BY <1>1, HoldsStep, ActedStep, WatchedStep, ScoredStep
<1>3. TypesOfRest' /\ (left \in 0 .. LeftMax)' /\ (base \subseteq Nat /\ IsFiniteSet(base))'
  BY <1>1, TypeSplit, TypesStep, LeftStep, BaseStep
<1>4. TypeOK'
  BY <1>3 DEF TypeOK, TypesOfRest, LeftMax
<1>5. QED
  BY <1>2, <1>3, <1>4 DEF CycleInv

\* The inductive invariant of the cycle: what is held, claimed, counted and
\* scored at every place of the code.
THEOREM CycleInvariant == Spec => []CycleInv
BY CycleInit, CycleStep, PTL DEF Spec

\* Whatever session, call or command of whatever cycle fails: the thread holds
\* what its place in the code says and shows nothing of an earlier cycle.
THEOREM NothingLeaks == Spec => []SessionInv
<1>1. CycleInv => SessionInv
  <2>1. CycleInv => TypeOK
    BY DEF CycleInv
  <2>2. CycleInv => NothingLeftOpen
    BY DEF CycleInv, TypeOK, Holds, NothingLeftOpen, SshHolds, Blocking
  <2>3. CycleInv => FailureIsBlank
    BY DEF CycleInv, Scored, FailureIsBlank
  <2>4. QED
    BY <2>1, <2>2, <2>3 DEF SessionInv
<1>2. QED
  BY <1>1, CycleInvariant, PTL

\* An action the panel or the console shows as DONE was started on the host.
THEOREM DoneMeansStarted == Spec => []DoneWasStarted
<1>1. CycleInv => DoneWasStarted
  BY DEF CycleInv, Acted, DoneWasStarted
<1>2. QED
  BY <1>1, CycleInvariant, PTL

\* The watchdog resets the board between the limit and one check after it.
THEOREM ResetsAreStalls == Spec => []ResetsOnlyStalls
<1>1. CycleInv => ResetsOnlyStalls
  BY LimitsAssumption DEF CycleInv, TypeOK, Watched, ResetsOnlyStalls
<1>2. QED
  BY <1>1, CycleInvariant, PTL

-----------------------------------------------------------------------------
(* The score *)

\* A nonempty set of natural numbers has a least element.
LEMMA MinIsLeast ==
  ASSUME NEW S \in SUBSET Nat, S # {}
  PROVE  Min(S) \in S /\ \A x \in S : Min(S) <= x
<1>1. \E x \in S : \A y \in S : x <= y
  <2> DEFINE R == {ss \in Nat \X Nat : ss[1] < ss[2]}
  <2>1. IsWellFoundedOn(R, Nat)
    BY NatLessThanWellFounded, Zenon DEF OpToRel
  <2>2. PICK x \in S : \A y \in S : ~(<<y, x>> \in R)
    <3> HIDE DEF R
    <3>1. QED
      BY <2>1, WFMin
  <2>3. ASSUME NEW y \in S
        PROVE  x <= y
    <3>1. y < x => <<y, x>> \in R
      OBVIOUS
    <3> HIDE DEF R
    <3>2. x \in Nat /\ y \in Nat /\ ~(y < x)
      BY <3>1, <2>2
    <3>3. QED
      BY <3>2
  <2>4. QED
    BY <2>3
<1>2. QED
  BY <1>1 DEF Min

\* The reason shown is a finding that applies, and "normal" only when no other
\* one does.
LEMMA ReasonApplies ==
  ASSUME NEW s, NEW cfg, NEW lost, NEW new
  PROVE  /\ Finds(Reason(s, cfg, lost, new), s, cfg, lost, new)
         /\ Reason(s, cfg, lost, new) = "normal" =>
              \A i \in 1 .. 9 : ~Finds(Findings[i], s, cfg, lost, new)
<1> DEFINE I == {i \in DOMAIN Findings : Finds(Findings[i], s, cfg, lost, new)}
<1>1. DOMAIN Findings = 1 .. 10 /\ Findings[10] = "normal"
  BY DEF Findings
<1>2. I \in SUBSET Nat /\ 10 \in I
  BY <1>1 DEF Finds
<1>3. Min(I) \in I /\ \A i \in I : Min(I) <= i
  <2> HIDE DEF I
  <2>1. QED
    BY <1>2, MinIsLeast
<1>4. Reason(s, cfg, lost, new) = Findings[Min(I)]
  BY DEF Reason
<1>5. \A i \in 1 .. 9 : Findings[i] # "normal"
  BY DEF Findings
<1>6. ASSUME Findings[Min(I)] = "normal", NEW i \in 1 .. 9
      PROVE  ~Finds(Findings[i], s, cfg, lost, new)
  <2>1. Min(I) = 10
    BY <1>1, <1>3, <1>5, <1>6
  <2>2. i \notin I
    <3> HIDE DEF I
    <3>1. QED
      BY <1>3, <2>1
  <2>3. QED
    BY <2>2, <1>1
<1>7. Finds(Findings[Min(I)], s, cfg, lost, new)
  BY <1>3
<1>8. QED
  BY <1>4, <1>6, <1>7

\* An unreachable host has a reason of its own; the others follow the score.
LEMMA ScoreIs ==
  ASSUME NEW s, NEW cfg, NEW ports
  PROVE  /\ s.online => /\ Score(s, cfg, ports).critical = Critical(s, cfg, LostPorts(s, ports))
                        /\ Score(s, cfg, ports).reason = Reason(s, cfg, LostPorts(s, ports), NewPorts(s, ports))
                        /\ Score(s, cfg, ports).kill = Suggests(s)
         /\ ~s.online => Score(s, cfg, ports).reason = "offline"
BY DEF Score

-----------------------------------------------------------------------------
(* A complete output *)

\* A list of ports that fits the snapshot is kept entirely.
LEMMA LowestKeepsAll ==
  ASSUME NEW ports, ports \subseteq Nat, IsFiniteSet(ports), Cardinality(ports) <= MaxPorts
  PROVE  Lowest(ports) = ports
<1>1. ASSUME NEW p \in ports
      PROVE  Cardinality({q \in ports : q < p}) < MaxPorts
  <2> DEFINE below == {q \in ports : q < p}
  <2>1. below \subseteq ports /\ below # ports
    OBVIOUS
  <2>2. Cardinality(below) < Cardinality(ports)
    <3> HIDE DEF below
    <3>1. Cardinality(below) <= Cardinality(ports) /\ Cardinality(below) # Cardinality(ports)
      BY <2>1, FS_Subset
    <3>2. Cardinality(below) \in Nat /\ Cardinality(ports) \in Nat
      BY <2>1, FS_Subset, FS_CardinalityType
    <3>3. QED
      BY <3>1, <3>2
  <2>3. Cardinality(below) \in Nat /\ Cardinality(ports) \in Nat
    BY <2>1, FS_Subset, FS_CardinalityType
  <2>4. QED
    BY <2>2, <2>3, HealthLimits
<1>2. QED
  BY <1>1 DEF Lowest

\* No line lies behind the end of the output.
LEMMA LineInOutput ==
  ASSUME NEW k
  PROVE  LineOf(k) \in 0 .. Whole
<1> DEFINE I == {i \in 1 .. Len(Output) : Output[i] = k}
<1>1. Whole \in Nat /\ Len(Output) = Whole
  BY DEF Whole, Output
<1>2. LineOf(k) = IF I # {} THEN Min(I) ELSE 0
  BY DEF LineOf, SelectInSeq
<1>3. I \in SUBSET Nat /\ I \subseteq 0 .. Whole
  BY <1>1
<1>4. I # {} => Min(I) \in I
  <2> HIDE DEF I
  <2>1. QED
    BY <1>3, MinIsLeast
<1>5. QED
  BY <1>1, <1>2, <1>3, <1>4

\* Nothing is missing from what a complete output is parsed to.
LEMMA CompleteIs ==
  ASSUME CycleInv, Complete
  PROVE  /\ from.host \in Hosts /\ snap.online
         /\ \A m \in Metrics : snap.metric[m] = from.host.metric[m]
         /\ snap.failed = FailedIn(from.host) /\ snap.ports = Lowest(from.host.ports)
         /\ snap.oom = from.host.oom
<1>1. from \in Sources /\ from.got = Whole /\ snap = Snapshot(from.host, Whole, from.torn)
  BY DEF CycleInv, Complete, Scored, Blank
<1>2. \A k : LineOf(k) <= Whole
  <2>1. Whole \in Nat
    BY DEF Whole, Output
  <2>2. QED
    BY <2>1, LineInOutput
<1>3. from.host \in Hosts /\ snap.online
  BY <1>1 DEF Sources, Snapshot
<1>4. \A m \in Metrics : snap.metric[m] = from.host.metric[m]
  BY <1>1, <1>2 DEF Snapshot
<1>5. snap.failed = FailedIn(from.host) /\ snap.ports = Lowest(from.host.ports)
  BY <1>1, <1>2 DEF Snapshot
<1>6. snap.oom = from.host.oom
  BY <1>1, <1>2 DEF Snapshot
<1>7. QED
  BY <1>3, <1>4, <1>5, <1>6

\* A port shown as lost is closed on the host, as long as the open ports fit
\* the snapshot.
THEOREM LossesAreReal == Spec => []LossIsReal
<1>1. CycleInv => LossIsReal
  <2>1. SUFFICES ASSUME CycleInv, Complete, Cardinality(from.host.ports) <= MaxPorts,
                        Result(snap).reason = "lost"
                 PROVE  \E p \in base \ IgnorePorts : p \notin from.host.ports
    BY DEF LossIsReal
  <2>2. snap.online /\ snap.ports = from.host.ports
    BY <2>1, CompleteIs, LowestKeepsAll, HostsAssumption
  <2>3. Finds("lost", snap, Config, LostPorts(snap, base), NewPorts(snap, base))
    BY <2>1, <2>2, ScoreIs, ReasonApplies DEF Result
  <2>4. LostPorts(snap, base) # {}
    BY <2>3 DEF Finds
  <2>5. QED
    BY <2>2, <2>4 DEF LostPorts
<1>2. QED
  BY <1>1, CycleInvariant, PTL

\* The parts of the score are percentages.
LEMMA NetScoreRange ==
  ASSUME NEW lost, NEW new, Cardinality(lost) \in Nat, Cardinality(new) \in Nat
  PROVE  NetScore(lost, new) \in 0 .. 100
<1> DEFINE n == 100 - 40 * Cardinality(lost) - 5 * Cardinality(new)
<1>1. n \in Int /\ n <= 100
  OBVIOUS
<1>2. Max({0, n}) \in {0, n} /\ Max({0, n}) >= 0
  <2> HIDE DEF n
  <2>1. \E x \in {0, n} : \A y \in {0, n} : x >= y
    BY <1>1
  <2>2. Max({0, n}) \in {0, n} /\ \A y \in {0, n} : Max({0, n}) >= y
    BY <2>1 DEF Max
  <2>3. QED
    BY <2>2
<1>3. NetScore(lost, new) = Max({0, n})
  BY DEF NetScore
<1>4. QED
  BY <1>1, <1>2, <1>3

LEMMA StabilityRange ==
  ASSUME NEW s, SnapOK(s)
  PROVE  StabilityScore(s) \in {0, 60, 90, 100} /\ (s.oom = 0 => StabilityScore(s) >= 60)
BY DEF SnapOK, StabilityScore

LEMMA ServiceRange == \A n : ServiceScore(n) \in {25, 45, 65, 100}
BY DEF ServiceScore

\* The ports compared with the baseline are finitely many.
LEMMA PortsFinite ==
  ASSUME NEW s, SnapOK(s), IsFiniteSet(base)
  PROVE  /\ Cardinality(LostPorts(s, base)) \in Nat
         /\ Cardinality(NewPorts(s, base)) \in Nat
BY FS_Subset, FS_CardinalityType DEF SnapOK, LostPorts, NewPorts

\* No metric above its warning leaves the resources at 100.
LEMMA NoWarningIsFull ==
  ASSUME NEW s, SnapOK(s), \A m \in Metrics : s.metric[m] <= Config[m].warn
  PROVE  ResourceScore(s, Config) = 100
<1> DEFINE scores == {MetricScore(s.metric[m], Config[m]) : m \in {n \in Metrics : s.metric[n] # Unknown}}
<1>1. ASSUME NEW m \in Metrics
      PROVE  MetricScore(s.metric[m], Config[m]) = 100
  <2>1. /\ s.metric[m] \in Int /\ Config[m].warn \in Int /\ Config[m].crit \in Int
        /\ Config[m].crit = Config[m].warn + Margin[m]
    BY ConfigAssumption DEF SnapOK
  <2>2. Margin[m] \in Nat \ {0}
    BY DEF Margin, Metrics
  <2>3. s.metric[m] <= Config[m].warn /\ ~(s.metric[m] >= Config[m].crit)
    BY <2>1, <2>2
  <2>4. QED
    BY <2>3 DEF MetricScore
<1>2. {100} \cup scores = {100}
  BY <1>1
<1>3. Min({100}) = 100
  BY DEF Min
<1>4. QED
  BY <1>2, <1>3 DEF ResourceScore

\* The list of failed units is a first part of the host's.
LEMMA FailedFits ==
  ASSUME NEW h \in Hosts
  PROVE  \E n \in 0 .. Len(h.failed) : FailedIn(h) = SubSeq(h.failed, 1, n)
<1>0. h.failed \in Seq(ToSet(h.failed)) /\ Len(h.failed) \in Nat
  BY HostsAssumption
<1>1. {Len(h.failed), MaxFailed} \in SUBSET Nat
  BY <1>0, HealthLimits
<1>2. Min({Len(h.failed), MaxFailed}) \in 0 .. Len(h.failed)
  <2> DEFINE both == {Len(h.failed), MaxFailed}
  <2>1. Min(both) \in both /\ \A x \in both : Min(both) <= x
    <3>1. both # {}
      OBVIOUS
    <3> HIDE DEF both
    <3>2. QED
      BY <1>1, <3>1, MinIsLeast DEF both
  <2>2. QED
    BY <1>1, <2>1
<1>3. QED
  BY <1>2 DEF FailedIn

\* Failed units that are all ignored count as none.
LEMMA IgnoredIsNone ==
  ASSUME NEW h \in Hosts, NEW s, s.failed = FailedIn(h), ToSet(h.failed) \subseteq IgnoreUnits
  PROVE  FailedUnits(s) = 0
<1>1. h.failed \in Seq(ToSet(h.failed)) /\ Len(h.failed) \in Nat
  BY HostsAssumption
<1>2. PICK n \in 0 .. Len(h.failed) : s.failed = SubSeq(h.failed, 1, n)
  BY FailedFits
<1>3. s.failed \in Seq(ToSet(h.failed))
  BY <1>1, <1>2, SubSeqProperties
<1>4. {i \in DOMAIN s.failed : s.failed[i] \notin IgnoreUnits} = {}
  BY <1>3
<1>5. QED
  BY <1>4, FS_EmptySet DEF FailedUnits

\* The alert of a host with nothing to complain of can end.
THEOREM SoundHostRecovers == Spec => []SoundRecovers
<1>1. CycleInv => SoundRecovers
  <2>1. SUFFICES ASSUME CycleInv, Complete, SoundHost(from.host)
                 PROVE  ~Result(snap).critical /\ Result(snap).total >= RecoverFrom
    BY DEF SoundRecovers
  <2> DEFINE h    == from.host
             lost == LostPorts(snap, base)
             new  == NewPorts(snap, base)
             R    == ResourceScore(snap, Config)
             F    == ServiceScore(FailedUnits(snap))
             N    == NetScore(lost, new)
             S    == StabilityScore(snap)
             U    == IF snap.uptime < 300 THEN 90 ELSE 100
             sum  == (U * 25 + R * 30 + F * 25 + N * 10 + S * 10) \div 100
  <2>2. /\ h \in Hosts /\ snap.online /\ snap.failed = FailedIn(h) /\ snap.oom = 0
        /\ \A m \in Metrics : snap.metric[m] <= Config[m].warn
    BY <2>1, CompleteIs DEF SoundHost
  <2>3. snap.ports = h.ports
    BY <2>1, CompleteIs, LowestKeepsAll, HostsAssumption DEF SoundHost
  <2>4. SnapOK(snap)
    BY <2>1, SnapshotOK, BlankOK DEF CycleInv, Complete, Scored
  <2>5. lost = {}
    BY <2>1, <2>3 DEF SoundHost, LostPorts
  <2>6. ~Critical(snap, Config, lost)
    <3>1. ASSUME NEW m \in Settable
          PROVE  ~(snap.metric[m] >= Config[m].crit)
      <4>1. /\ snap.metric[m] \in Int /\ Config[m].warn \in Int /\ Config[m].crit \in Int
            /\ Config[m].crit = Config[m].warn + Margin[m] /\ snap.metric[m] <= Config[m].warn
        BY <2>2, <2>4, ConfigAssumption DEF SnapOK, Settable
      <4>2. Margin[m] \in {7, 10}
        BY DEF Margin, Settable, Metrics
      <4>3. QED
        BY <4>1, <4>2
    <3>2. QED
      BY <3>1, <2>2, <2>5 DEF Critical
  <2>7. R = 100 /\ F = 100
    BY <2>1, <2>2, <2>4, NoWarningIsFull, IgnoredIsNone DEF ServiceScore, SoundHost
  <2>8. N \in 0 .. 100 /\ S \in {60, 90, 100} /\ U \in {90, 100}
    <3>1. N \in 0 .. 100
      BY <2>1, <2>4, PortsFinite, NetScoreRange DEF CycleInv
    <3>2. QED
      BY <3>1, <2>2, <2>4, StabilityRange
  <2>9. sum >= 80
    <3> HIDE DEF R, F, N, S, U
    <3>1. QED
      BY <2>7, <2>8
  <2>10. Result(snap).total = sum /\ ~Result(snap).critical
    BY <2>2, <2>6 DEF Result, Score
  <2>11. QED
    BY <2>9, <2>10 DEF RecoverFrom
<1>2. QED
  BY <1>1, CycleInvariant, PTL

-----------------------------------------------------------------------------
(* The rule's proposal *)

\* As long as no item is empty, the host's answers stand where the list has
\* their units.
LEMMA AnswersAlign ==
  ASSUME NEW k \in DOMAIN Services, \A i \in 1 .. k : Services[i] # NoName
  PROVE  Nth(k) = k
<1>1. k \in Nat /\ DOMAIN Services = 1 .. Len(Services) /\ Len(Services) \in Nat
  BY UnitLists
<1>2. /\ Filled \subseteq 1 .. Len(Services) /\ 1 .. k \subseteq Filled
      /\ \A i \in Filled : i \in Nat /\ i >= 1
  BY <1>1 DEF Filled
<1>3. IsFiniteSet(Filled)
  <2>1. IsFiniteSet(1 .. Len(Services))
    BY <1>1, FS_Interval
  <2>2. QED
    BY <1>2, <2>1, FS_Subset
<1> DEFINE Upto(i) == {l \in Filled : l <= i}
<1>4. \A i \in 1 .. k : Upto(i) = 1 .. i /\ Cardinality(Upto(i)) = i
  <2>1. ASSUME NEW i \in 1 .. k
        PROVE  Upto(i) = 1 .. i
    <3>1. \A x \in Filled : x <= i => x \in 1 .. i
      BY <1>1, <1>2, <2>1
    <3>2. \A x \in 1 .. i : x \in 1 .. k /\ x <= i
      BY <1>1, <2>1
    <3>3. QED
      BY <1>2, <3>1, <3>2
  <2>2. ASSUME NEW i \in 1 .. k
        PROVE  Cardinality(1 .. i) = i
    BY <1>1, FS_Interval
  <2>3. QED
    BY <2>1, <2>2
<1>5. ASSUME NEW i \in Filled, i > k
      PROVE  Cardinality(Upto(i)) # k
  <2>1. Upto(k) \subseteq Upto(i) /\ i \in Upto(i) /\ i \notin Upto(k)
    <3>1. i \in Nat /\ k \in Nat /\ ~(i <= k) /\ i <= i
      BY <1>1, <1>2, <1>5
    <3>2. \A x \in Filled : x <= k => x <= i
      BY <1>2, <3>1
    <3>3. QED
      BY <1>5, <3>1, <3>2
  <2>2. IsFiniteSet(Upto(i))
    BY <1>3, FS_Subset
  <2>3. Upto(k) # Upto(i)
    BY <2>1
  <2>4. Cardinality(Upto(k)) = k
    BY <1>1, <1>4
  <2> HIDE DEF Upto
  <2>5. QED
    BY <2>1, <2>2, <2>3, <2>4, FS_Subset
<1>6. \A i \in Filled : Cardinality(Upto(i)) = k <=> i = k
  BY <1>1, <1>2, <1>4, <1>5
<1>7. k \in Filled
  BY <1>1, <1>2
<1>8. Nth(k) = CHOOSE i \in Filled : Cardinality(Upto(i)) = k
  BY DEF Nth
<1> HIDE DEF Upto
<1>9. QED
  BY <1>6, <1>7, <1>8

\* Whatever the rule proposes is a unit the host shows as down, or a process
\* it may kill, unless the list of units was torn or shifted.
THEOREM ProposalsAreDown == Spec => []ProposalIsDown
<1>1. CycleInv => ProposalIsDown
  <2> DEFINE unit == Proposal(snap, Result(snap))
  <2>1. SUFFICES ASSUME CycleInv, pc = "assess", snap.online, ~from.torn, ~Shifted(unit), unit # NoName
                 PROVE  unit \in {NoName} \cup KillAllow \cup (ToSet(Services) \ from.host.active)
    BY DEF ProposalIsDown
  <2>2. CASE Down(snap) = {}
    BY <2>1, <2>2 DEF Proposal
  <2>3. CASE Down(snap) # {}
    <3> DEFINE k == IndexOf(unit)
    <3>1. unit = Repair[Min(Down(snap))]
      BY <2>1, <2>3 DEF Proposal
    <3>2. k \in DOMAIN snap.active /\ ~snap.active[k]
      <4>1. Down(snap) \in SUBSET Nat
        BY UnitLists DEF Down
      <4>2. Min(Down(snap)) \in Down(snap)
        BY <4>1, <2>3, MinIsLeast
      <4>3. QED
        BY <3>1, <4>2 DEF Down
    <3>3. snap.active = ActiveIn(from.host)
      <4>1. snap = Snapshot(from.host, from.got, from.torn)
        BY <2>1 DEF CycleInv, Scored, Blank
      <4>2. snap.active # <<>>
        BY <3>2
      <4>3. QED
        BY <4>1, <4>2, <2>1 DEF Snapshot
    <3>4. /\ k \in 1 .. Min({Cardinality(Filled), MaxWatched})
          /\ ~(Services[Nth(k)] \in from.host.active)
      BY <3>2, <3>3 DEF ActiveIn
    <3>5. Services[k] = unit /\ k \in DOMAIN Services
      <4> DEFINE I == {i \in 1 .. Len(Services) : Services[i] = unit}
      <4>1. k = IF I # {} THEN Min(I) ELSE 0
        BY DEF IndexOf, SelectInSeq
      <4>2. I \in SUBSET Nat /\ I \subseteq DOMAIN Services
        BY UnitLists
      <4>3. I # {}
        BY <4>1, <3>4
      <4>4. Min(I) \in I
        <5> HIDE DEF I
        <5>1. QED
          BY <4>2, <4>3, MinIsLeast
      <4>5. QED
        BY <4>1, <4>2, <4>3, <4>4
    <3>6. unit \in ToSet(Services)
      BY <3>5 DEF ToSet
    <3>7. \A i \in 1 .. k : Services[i] # NoName
      <4>1. DOMAIN Services = 1 .. Len(Services) /\ Len(Services) \in Nat
        BY UnitLists
      <4>2. ASSUME NEW i \in 1 .. k
            PROVE  i = k \/ (i \in DOMAIN Services /\ i < k)
        BY <3>5, <4>1
      <4>3. \A i \in DOMAIN Services : i < k => Services[i] # NoName
        BY <2>1 DEF Shifted
      <4>4. QED
        BY <2>1, <3>5, <4>2, <4>3
    <3>8. Nth(k) = k
      BY <3>5, <3>7, AnswersAlign
    <3>9. QED
      BY <3>4, <3>5, <3>6, <3>8
  <2>4. QED
    BY <2>2, <2>3
<1>2. QED
  BY <1>1, CycleInvariant, PTL

-----------------------------------------------------------------------------
(* The score follows the metrics *)

\* If every value of one set is undercut in the other, so is the least.
LEMMA MinUndercut ==
  ASSUME NEW A \in SUBSET Nat, NEW B \in SUBSET Nat, A # {}, B # {},
         \A x \in A : \E y \in B : y <= x
  PROVE  Min(B) <= Min(A)
<1>1. Min(A) \in A /\ Min(B) \in B /\ \A y \in B : Min(B) <= y
  BY MinIsLeast
<1>2. PICK y \in B : y <= Min(A)
  BY <1>1
<1>3. y \in Nat /\ Min(A) \in Nat /\ Min(B) \in Nat /\ Min(B) <= y
  BY <1>1
<1>4. QED
  BY <1>2, <1>3

\* A metric that rises never scores better.
LEMMA MetricFalls ==
  ASSUME NEW m \in Metrics, NEW v \in Int, NEW w \in Int, v <= w
  PROVE  /\ MetricScore(v, Config[m]) \in 0 .. 100
         /\ MetricScore(w, Config[m]) <= MetricScore(v, Config[m])
<1> DEFINE warn == Config[m].warn
           crit == Config[m].crit
           d    == Margin[m]
           Frac(x) == (100 * (crit - x)) \div (crit - warn)
<1>1. warn \in Int /\ crit \in Int /\ crit = warn + d /\ d \in {7, 10, 30, 150}
  BY ConfigAssumption DEF Margin, Metrics
<1>2. ASSUME NEW x \in Int, NEW y \in Int, warn < x, x <= y, y < crit
      PROVE  /\ Frac(x) \in 0 .. 100 /\ Frac(y) \in 0 .. 100
             /\ Frac(y) <= Frac(x)
  <2>1. crit - warn = d
    BY <1>1
  <2> DEFINE a == 100 * (crit - x)
             b == 100 * (crit - y)
  <2>2. a \in Nat /\ b \in Nat /\ b <= a /\ a <= 100 * d
    BY <1>1, <1>2
  <2>3. a \div d \in 0 .. 100 /\ b \div d \in 0 .. 100 /\ b \div d <= a \div d
    <3> HIDE DEF a, b
    <3>1. CASE d = 7
      BY <2>2, <3>1
    <3>2. CASE d = 10
      BY <2>2, <3>2
    <3>3. CASE d = 30
      BY <2>2, <3>3
    <3>4. CASE d = 150
      BY <2>2, <3>4
    <3>5. QED
      BY <1>1, <3>1, <3>2, <3>3, <3>4
  <2>4. QED
    BY <2>1, <2>3
<1>3. \A x \in Int : /\ x <= warn => MetricScore(x, Config[m]) = 100
                     /\ x >= crit => MetricScore(x, Config[m]) = 0
                     /\ warn < x /\ x < crit => MetricScore(x, Config[m]) = Frac(x)
  <2>1. \A x \in Int : ~(x <= warn /\ x >= crit)
    BY <1>1
  <2>2. \A x \in Int : warn < x /\ x < crit => ~(x <= warn) /\ ~(x >= crit)
    BY <1>1
  <2>3. QED
    BY <2>1, <2>2 DEF MetricScore
<1>4. ASSUME NEW x \in Int
      PROVE  MetricScore(x, Config[m]) \in 0 .. 100
  <2> HIDE DEF Frac
  <2>1. warn < x /\ x < crit => Frac(x) \in 0 .. 100
    BY <1>2
  <2>2. QED
    BY <1>1, <1>3, <2>1
<1>5. CASE w <= warn \/ v <= warn \/ w >= crit
  <2> HIDE DEF Frac
  <2>1. v <= warn => MetricScore(v, Config[m]) = 100
    BY <1>3
  <2>2. w >= crit => MetricScore(w, Config[m]) = 0
    BY <1>3
  <2>3. w <= warn => v <= warn
    BY <1>1
  <2>4. QED
    BY <1>4, <1>5, <2>1, <2>2, <2>3
<1>6. CASE warn < v /\ w < crit
  <2> HIDE DEF Frac
  <2>1. Frac(w) <= Frac(v)
    BY <1>2, <1>6
  <2>2. MetricScore(v, Config[m]) = Frac(v) /\ MetricScore(w, Config[m]) = Frac(w)
    <3>1. warn < w /\ v < crit
      BY <1>1, <1>6
    <3>2. QED
      BY <1>3, <1>6, <3>1
  <2>3. QED
    BY <1>4, <2>1, <2>2
<1>7. QED
  BY <1>1, <1>5, <1>6

Known(s) == {m \in Metrics : s.metric[m] # Unknown}
Values(s) == {100} \cup {MetricScore(s.metric[m], Config[m]) : m \in Known(s)}

LEMMA ValuesArePercent ==
  ASSUME NEW s, s.metric \in [Metrics -> Int]
  PROVE  /\ Values(s) \in SUBSET Nat /\ Values(s) # {} /\ \A x \in Values(s) : x <= 100
         /\ ResourceScore(s, Config) = Min(Values(s))
         /\ ResourceScore(s, Config) \in 0 .. 100
<1>1. \A m \in Metrics : MetricScore(s.metric[m], Config[m]) \in 0 .. 100
  BY MetricFalls
<1>2. Values(s) \in SUBSET Nat /\ 100 \in Values(s) /\ \A x \in Values(s) : x <= 100
  BY <1>1 DEF Values, Known
<1>3. ResourceScore(s, Config) = Min(Values(s))
  BY DEF ResourceScore, Values, Known
<1>4. QED
  BY <1>2, <1>3, MinIsLeast

\* The worst metric never improves when one rises.
LEMMA ResourceFalls ==
  ASSUME NEW s, s.metric \in [Metrics -> Int], NEW t, t.metric \in [Metrics -> Int],
         \A m \in Metrics : s.metric[m] <= t.metric[m],
         Known(s) \subseteq Known(t)
  PROVE  ResourceScore(t, Config) <= ResourceScore(s, Config)
<1>1. ASSUME NEW x \in Values(s)
      PROVE  \E y \in Values(t) : y <= x
  <2>1. CASE x = 100
    BY <2>1 DEF Values
  <2>2. CASE x # 100
    <3>1. PICK m \in Known(s) : x = MetricScore(s.metric[m], Config[m])
      BY <2>2 DEF Values
    <3>2. m \in Metrics /\ m \in Known(t)
      BY DEF Known
    <3>3. MetricScore(t.metric[m], Config[m]) <= x
      BY <3>1, <3>2, MetricFalls
    <3>4. MetricScore(t.metric[m], Config[m]) \in Values(t)
      BY <3>2 DEF Values
    <3>5. QED
      BY <3>3, <3>4
  <2>3. QED
    BY <2>1, <2>2
<1>2. QED
  BY <1>1, MinUndercut, ValuesArePercent

\* Nor does it suffer from a metric that is no longer reported.
LEMMA ResourceKeeps ==
  ASSUME NEW s, s.metric \in [Metrics -> Int], NEW t, t.metric \in [Metrics -> Int],
         \A m \in Known(t) : t.metric[m] = s.metric[m]
  PROVE  ResourceScore(s, Config) <= ResourceScore(t, Config)
<1>1. Values(t) \subseteq Values(s)
  <2>1. Known(t) \subseteq Known(s)
    BY DEF Known
  <2>2. QED
    BY <2>1 DEF Values
<1>2. \A x \in Values(t) : x \in Nat /\ x \in Values(s)
  BY <1>1, ValuesArePercent
<1>3. \A x \in Values(t) : \E y \in Values(s) : y <= x
  BY <1>2
<1>4. QED
  BY <1>3, MinUndercut, ValuesArePercent

\* Two snapshots that differ in the metrics alone.
SameButMetrics(s, t) ==
  /\ s.online /\ t.online /\ SnapOK(s) /\ SnapOK(t)
  /\ s.uptime = t.uptime /\ s.failed = t.failed /\ s.ports = t.ports
  /\ s.oom = t.oom /\ s.zombies = t.zombies /\ s.ntp = t.ntp

\* Worse resources and no fewer reasons to be critical: no higher a score.
LEMMA TotalFollows ==
  ASSUME NEW s, NEW t, SameButMetrics(s, t), IsFiniteSet(base),
         ResourceScore(t, Config) <= ResourceScore(s, Config),
         Critical(s, Config, LostPorts(s, base)) => Critical(t, Config, LostPorts(s, base))
  PROVE  /\ Result(t).total <= Result(s).total
         /\ Result(s).critical => Result(t).critical
<1> DEFINE lost == LostPorts(s, base)
           new  == NewPorts(s, base)
           F == ServiceScore(FailedUnits(s))
           N == NetScore(lost, new)
           S == StabilityScore(s)
           U == IF s.uptime < 300 THEN 90 ELSE 100
           Sum(r) == (U * 25 + r * 30 + F * 25 + N * 10 + S * 10) \div 100
           Rs == ResourceScore(s, Config)
           Rt == ResourceScore(t, Config)
<1>1. LostPorts(t, base) = lost /\ NewPorts(t, base) = new
  BY DEF SameButMetrics, LostPorts, NewPorts
<1>2. FailedUnits(t) = FailedUnits(s) /\ StabilityScore(t) = S
  BY DEF SameButMetrics, FailedUnits, StabilityScore
<1>3. /\ Result(s).total = IF Critical(s, Config, lost) /\ Sum(Rs) > 40 THEN 40 ELSE Sum(Rs)
      /\ Result(s).critical = Critical(s, Config, lost)
  BY DEF SameButMetrics, Result, Score
<1>4. /\ Result(t).total = IF Critical(t, Config, lost) /\ Sum(Rt) > 40 THEN 40 ELSE Sum(Rt)
      /\ Result(t).critical = Critical(t, Config, lost)
  BY <1>1, <1>2 DEF SameButMetrics, Result, Score
<1>5. Rs \in 0 .. 100 /\ Rt \in 0 .. 100 /\ Rt <= Rs
  BY ValuesArePercent DEF SameButMetrics, SnapOK
<1>6. F \in Nat /\ N \in Nat /\ S \in Nat /\ U \in Nat
  <2>1. N \in Nat
    BY PortsFinite, NetScoreRange DEF SameButMetrics
  <2>2. QED
    BY <2>1, ServiceRange, StabilityRange DEF SameButMetrics
<1>7. Sum(Rs) \in Nat /\ Sum(Rt) \in Nat /\ Sum(Rt) <= Sum(Rs)
  <2> HIDE DEF F, N, S, U, Rs, Rt
  <2>1. QED
    BY <1>5, <1>6
<1>8. Result(t).total <= Result(s).total
  <2> HIDE DEF Sum, lost
  <2>1. CASE Critical(t, Config, lost)
    BY <2>1, <1>3, <1>4, <1>7
  <2>2. CASE ~Critical(t, Config, lost)
    <3>1. ~Critical(s, Config, lost)
      BY <2>2 DEF lost
    <3>2. QED
      BY <2>2, <3>1, <1>3, <1>4, <1>7
  <2>3. QED
    BY <2>1, <2>2
<1>9. QED
  BY <1>3, <1>4, <1>8

\* One metric of a snapshot that was read, replaced.
LEMMA ReplacedIs ==
  ASSUME CycleInv, pc = "assess", snap.online, NEW m \in Metrics, NEW v \in Int
  PROVE  LET t == [snap EXCEPT !.metric[m] = v]
         IN /\ SameButMetrics(snap, t)
            /\ t.metric = [snap.metric EXCEPT ![m] = v]
<1> DEFINE t == [snap EXCEPT !.metric[m] = v]
<1>1. from \in Sources /\ snap = Snapshot(from.host, from.got, from.torn)
  BY DEF CycleInv, Scored, Blank
<1>2. SnapOK(snap)
  BY <1>1, SnapshotOK
<1>3. DOMAIN snap = {"online", "uptime", "metric", "failed", "ports", "top", "topCpu", "ntp",
                     "oom", "zombies", "active"}
  BY <1>1 DEF Snapshot
<1>4. /\ t.online = snap.online /\ t.uptime = snap.uptime /\ t.failed = snap.failed
      /\ t.ports = snap.ports /\ t.oom = snap.oom /\ t.zombies = snap.zombies
      /\ t.ntp = snap.ntp /\ t.topCpu = snap.topCpu
  BY <1>3
<1>5. t.metric = [snap.metric EXCEPT ![m] = v]
  BY <1>3
<1>6. SnapOK(t)
  BY <1>2, <1>4, <1>5 DEF SnapOK
<1>7. QED
  BY <1>2, <1>4, <1>5, <1>6 DEF SameButMetrics

\* A metric that rises never improves the result, and one that is lost never
\* spoils it, when no critical threshold is configured below zero, where the
\* code would take the mark of an unknown metric for a value.
THEOREM WorseScoresNoBetter ==
  ASSUME \A m \in Settable : Config[m].crit >= 0
  PROVE  Spec => []WorseIsNoBetter
<1>1. CycleInv => WorseIsNoBetter
  <2>1. SUFFICES ASSUME CycleInv, pc = "assess", snap.online, NEW m \in Metrics
                 PROVE  LET is == Result(snap)
                            With(n, v) == Result([snap EXCEPT !.metric[n] = v])
                        IN /\ \A v \in {l \in Levels : snap.metric[m] # Unknown /\ l >= snap.metric[m]} :
                                With(m, v).total <= is.total /\ (is.critical => With(m, v).critical)
                           /\ With(m, Unknown).total >= is.total
    BY DEF WorseIsNoBetter
  <2> DEFINE T(v) == [snap EXCEPT !.metric[m] = v]
             lost == LostPorts(snap, base)
  <2>2. snap.metric \in [Metrics -> Int] /\ IsFiniteSet(base)
    BY <2>1, ReplacedIs, 0 \in Int DEF SameButMetrics, SnapOK, CycleInv
  <2>3. \A n \in Settable : Config[n].crit \in Int
    BY ConfigAssumption DEF Settable
  <2>4. ASSUME NEW v \in Levels, snap.metric[m] # Unknown, v >= snap.metric[m]
        PROVE  /\ Result(T(v)).total <= Result(snap).total
               /\ Result(snap).critical => Result(T(v)).critical
    <3>1. v \in Int /\ v # Unknown
      BY DEF Levels, Unknown
    <3>2. SameButMetrics(snap, T(v)) /\ T(v).metric = [snap.metric EXCEPT ![m] = v]
      BY <2>1, <3>1, ReplacedIs
    <3> HIDE DEF T
    <3>3. T(v).metric \in [Metrics -> Int] /\ \A n \in Metrics : snap.metric[n] <= T(v).metric[n]
      BY <2>2, <2>4, <3>1, <3>2
    <3>4. Known(snap) \subseteq Known(T(v))
      BY <2>2, <3>1, <3>2 DEF Known
    <3>5. ResourceScore(T(v), Config) <= ResourceScore(snap, Config)
      BY <2>2, <3>3, <3>4, ResourceFalls
    <3>6. \A n \in Settable : snap.metric[n] >= Config[n].crit => T(v).metric[n] >= Config[n].crit
      BY <2>2, <2>3, <3>3 DEF Settable
    <3>7. Critical(snap, Config, lost) => Critical(T(v), Config, lost)
      BY <3>2, <3>6 DEF Critical, SameButMetrics
    <3>8. QED
      BY <2>2, <3>2, <3>5, <3>7, TotalFollows
  <2>5. Result(T(Unknown)).total >= Result(snap).total
    <3>1. SameButMetrics(snap, T(Unknown)) /\ T(Unknown).metric = [snap.metric EXCEPT ![m] = Unknown]
      BY <2>1, ReplacedIs DEF Unknown
    <3> HIDE DEF T
    <3>2. T(Unknown).metric \in [Metrics -> Int]
      BY <2>2, <3>1 DEF Unknown
    <3>3. \A n \in Known(T(Unknown)) : snap.metric[n] = T(Unknown).metric[n]
      BY <2>2, <3>1 DEF Known
    <3>4. ResourceScore(snap, Config) <= ResourceScore(T(Unknown), Config)
      BY <2>2, <3>2, <3>3, ResourceKeeps
    <3>5. ASSUME NEW n \in Settable, T(Unknown).metric[n] >= Config[n].crit
          PROVE  snap.metric[n] >= Config[n].crit
      <4>1. T(Unknown).metric[n] # Unknown
        BY <3>5, <2>3 DEF Unknown
      <4>2. n \in Known(T(Unknown))
        BY <4>1 DEF Known, Settable
      <4>3. QED
        BY <4>2, <3>3, <3>5
    <3>6. Critical(T(Unknown), Config, lost) => Critical(snap, Config, lost)
      BY <3>1, <3>5 DEF Critical, SameButMetrics
    <3>7. SameButMetrics(T(Unknown), snap) /\ LostPorts(T(Unknown), base) = lost
      BY <3>1 DEF SameButMetrics, LostPorts
    <3>8. Result(snap).total <= Result(T(Unknown)).total
      BY <2>2, <3>4, <3>6, <3>7, TotalFollows
    <3>9. QED
      BY <3>8
  <2>6. QED
    BY <2>4, <2>5
<1>2. QED
  BY <1>1, CycleInvariant, PTL

-----------------------------------------------------------------------------
(* What an alert says *)

\* With the reason "normal" nothing is critical.
LEMMA NormalIsNotCritical ==
  ASSUME NEW s, SnapOK(s), s.online, Result(s).reason = "normal"
  PROVE  /\ ~Critical(s, Config, LostPorts(s, base)) /\ ~Result(s).critical
         /\ LostPorts(s, base) = {} /\ NewPorts(s, base) = {} /\ ~(FailedUnits(s) > 0) /\ ~(s.oom > 0)
         /\ \A m \in {"cpu", "mem"} : ~(s.metric[m] >= Config[m].warn)
<1> DEFINE lost == LostPorts(s, base)
           new  == NewPorts(s, base)
<1>1. Reason(s, Config, lost, new) = "normal"
  BY ScoreIs DEF Result
<1>2. \A i \in 1 .. 9 : ~Finds(Findings[i], s, Config, lost, new)
  BY <1>1, ReasonApplies
<1>3. /\ Findings[1] = "oom" /\ Findings[2] = "lost" /\ Findings[3] = "failed" /\ Findings[4] = "disk"
      /\ Findings[5] = "inode" /\ Findings[6] = "temp" /\ Findings[7] = "cpu" /\ Findings[8] = "mem"
      /\ Findings[9] = "new"
  BY DEF Findings
<1>4. \A f \in {"oom", "lost", "failed", "disk", "inode", "temp", "cpu", "mem", "new"} :
        ~Finds(f, s, Config, lost, new)
  BY <1>2, <1>3
<1>5. ~(s.oom > 0) /\ lost = {} /\ new = {} /\ ~(FailedUnits(s) > 0)
  BY <1>4 DEF Finds
<1>6. \A m \in {"disk", "inode", "temp"} : ~(s.metric[m] >= Config[m].crit)
  BY <1>4 DEF Finds
<1>7. \A m \in {"cpu", "mem"} : ~(s.metric[m] >= Config[m].warn)
  BY <1>4 DEF Finds
<1>8. \A m \in {"cpu", "mem"} : ~(s.metric[m] >= Config[m].crit)
  <2>1. \A m \in {"cpu", "mem"} : /\ s.metric[m] \in Int /\ Config[m].warn \in Int /\ Config[m].crit \in Int
                                  /\ Config[m].crit = Config[m].warn + Margin[m]
    BY ConfigAssumption DEF SnapOK, Metrics
  <2>2. Margin["cpu"] = 10 /\ Margin["mem"] = 7
    BY DEF Margin
  <2>3. QED
    BY <2>1, <2>2, <1>7
<1>9. ~Critical(s, Config, lost)
  BY <1>5, <1>6, <1>8 DEF Critical, Settable, Metrics
<1>10. QED
  BY <1>5, <1>7, <1>9, ScoreIs DEF Result

\* What a cycle assesses has a number of failed units.
LEMMA FailedIsCount ==
  ASSUME CycleInv, pc = "assess", snap.online
  PROVE  FailedUnits(snap) \in Nat
<1>1. from \in Sources /\ snap = Snapshot(from.host, from.got, from.torn)
  BY DEF CycleInv, Scored, Blank
<1>2. from.host \in Hosts /\ from.host.failed \in Seq(ToSet(from.host.failed))
  BY <1>1, HostsAssumption DEF Sources
<1>3. snap.failed = FailedIn(from.host) \/ snap.failed = <<>>
  BY <1>1 DEF Snapshot
<1>4. \E n \in Nat : DOMAIN snap.failed = 1 .. n
  <2>1. CASE snap.failed = <<>>
    <3>1. DOMAIN snap.failed = 1 .. 0
      BY <2>1
    <3>2. QED
      BY <3>1
  <2>2. CASE snap.failed = FailedIn(from.host)
    <3>1. PICK n \in 0 .. Len(from.host.failed) : snap.failed = SubSeq(from.host.failed, 1, n)
      BY <1>2, <2>2, FailedFits
    <3>2. snap.failed \in Seq(ToSet(from.host.failed))
      BY <1>2, <3>1, SubSeqProperties
    <3>3. QED
      BY <3>2
  <2>3. QED
    BY <1>3, <2>1, <2>2
<1>5. IsFiniteSet(DOMAIN snap.failed)
  BY <1>4, FS_Interval
<1>6. QED
  BY <1>5, FS_Subset, FS_CardinalityType DEF FailedUnits

\* An alert that says all is well is of no critical finding, and takes a
\* metric above its warning on a host with a second, minor complaint.
THEOREM AlertsAreExplained == Spec => []AlertIsExplained
<1>1. CycleInv => AlertIsExplained
  <2>1. SUFFICES ASSUME CycleInv, pc = "assess", Alarming(Result(snap)), Result(snap).reason = "normal"
                 PROVE  /\ ~Result(snap).critical
                        /\ \E m \in Unnamed : snap.metric[m] > Config[m].warn
                        /\ snap.uptime < 300 \/ snap.zombies > 10 \/ snap.ntp = 0
    BY DEF AlertIsExplained
  <2>2. SnapOK(snap) /\ IsFiniteSet(base)
    BY <2>1, SnapshotOK, BlankOK DEF CycleInv, Scored
  <2>3. snap.online
    BY <2>1, ScoreIs DEF Result
  <2>4. /\ ~Critical(snap, Config, LostPorts(snap, base)) /\ ~Result(snap).critical
        /\ LostPorts(snap, base) = {} /\ NewPorts(snap, base) = {} /\ ~(FailedUnits(snap) > 0) /\ ~(snap.oom > 0)
        /\ \A m \in {"cpu", "mem"} : ~(snap.metric[m] >= Config[m].warn)
    BY <2>1, <2>2, <2>3, NormalIsNotCritical
  <2> DEFINE u == IF snap.uptime < 300 THEN 90 ELSE 100
             r == ResourceScore(snap, Config)
             f == ServiceScore(FailedUnits(snap))
             n == NetScore({}, {})
             y == StabilityScore(snap)
             sum == (u * 25 + r * 30 + f * 25 + n * 10 + y * 10) \div 100
  <2>5. Result(snap).total = sum /\ Result(snap).total < AlertBelow
    BY <2>1, <2>3, <2>4 DEF Alarming, Result, Score
  <2>6. FailedUnits(snap) = 0
    BY <2>1, <2>3, <2>4, FailedIsCount
  <2>7. f = 100
    BY <2>6 DEF ServiceScore
  <2>8. n = 100
    <3>1. Cardinality({}) = 0
      BY FS_EmptySet
    <3>2. Max({0, 100}) = 100
      <4>1. \E x \in {0, 100} : \A z \in {0, 100} : x >= z
        OBVIOUS
      <4>2. Max({0, 100}) \in {0, 100} /\ \A z \in {0, 100} : Max({0, 100}) >= z
        BY <4>1 DEF Max
      <4>3. QED
        BY <4>2
    <3>3. 100 - 40 * 0 - 5 * 0 = 100
      OBVIOUS
    <3>4. QED
      BY <3>1, <3>2, <3>3 DEF NetScore
  <2>9. r \in 0 .. 100
    BY <2>2, ValuesArePercent DEF SnapOK
  <2>10. /\ y \in {0, 60, 90, 100} /\ y >= 60
         /\ ~(snap.zombies > 10) /\ ~(snap.ntp = 0) => y = 100
    BY <2>2, <2>4, StabilityRange DEF SnapOK, StabilityScore
  <2>11. ASSUME \A m \in Unnamed : ~(snap.metric[m] > Config[m].warn)
         PROVE  FALSE
    <3>1. \A m \in Metrics : snap.metric[m] <= Config[m].warn
      BY <2>2, <2>4, <2>11, ConfigAssumption DEF SnapOK, Unnamed, Metrics
    <3>2. r = 100
      BY <2>2, <3>1, NoWarningIsFull
    <3>3. QED
      <4>1. u \in {90, 100}
        OBVIOUS
      <4> HIDE DEF u, r, f, n, y
      <4>2. QED
        BY <2>5, <2>7, <2>8, <2>10, <3>2, <4>1 DEF AlertBelow
  <2>12. ASSUME ~(snap.uptime < 300), ~(snap.zombies > 10), ~(snap.ntp = 0)
         PROVE  FALSE
    <3>1. u = 100 /\ y = 100
      BY <2>10, <2>12
    <3> HIDE DEF u, r, f, n, y
    <3>2. QED
      BY <2>5, <2>7, <2>8, <2>9, <3>1 DEF AlertBelow
  <2>13. QED
    BY <2>4, <2>11, <2>12
<1>2. QED
  BY <1>1, CycleInvariant, PTL

=============================================================================
