------------------------------- MODULE PathsProofs -------------------------------
(***************************************************************************)
(* Probes of a path, for every list of candidates, every set of relays and *)
(* any number of changes of the network and the configuration.             *)
(***************************************************************************)
EXTENDS Paths, TLAPS

\* A probe is a token that was drawn for it, of the active endpoint or of
\* another one; the absence of a probe has no token.
GoodProbe(b, active) ==
    /\ b \in [endpoint : {b.endpoint}, promotes : {b.promotes}, attempts : {b.attempts},
              token : {b.token}, opened : {b.opened}]
    /\ b # NoProbe => /\ b.token # 0
                      /\ b.promotes <=> b.endpoint # active

GoodPath(p) ==
    /\ p \in [candidates : {p.candidates}, active : {p.active}, probe : {p.probe},
              cooldown : {p.cooldown}]
    /\ GoodProbe(p.probe, p.active)

\* A challenge on its way has the token of some probe.
GoodDatagrams(S) == \A m \in S : m.kind = "challenge" => m.token # 0

ProbeInv ==
    /\ path = [h \in Hosts |-> path[h]]
    /\ \A h \in Hosts : GoodPath(path[h])
    /\ GoodDatagrams(transit)

\* No probe is a good one.
LEMMA NoProbeGood == \A active : GoodProbe(NoProbe, active)
BY DEF GoodProbe, NoProbe

\* Of three tokens one is not in use.
LEMMA TokenDrawn ==
    ASSUME transit = {} PROVE FreshToken # 0
<1>1. PICK a, b \in Hosts : Hosts = {a, b}
  BY PathsAssumption
<1> DEFINE used == {m.token : m \in transit} \cup {path[h].probe.token : h \in Hosts}
<1>2. used = {path[a].probe.token, path[b].probe.token}
  BY <1>1
<1>3. {1, 2, 3} \subseteq 1 .. MaxTokens
  BY PathsAssumption
<1>4. \E t \in {1, 2, 3} : t \notin used
  BY <1>2
<1>5. \E t \in 1 .. MaxTokens : t \notin used
  BY <1>3, <1>4
<1>6. FreshToken \in 1 .. MaxTokens
  BY <1>5 DEF FreshToken
<1> QED
  BY <1>6, PathsAssumption

\* What each operation makes of a good path.  The path moves.
LEMMA PromoteGood ==
    ASSUME NEW p, GoodPath(p), NEW e
    PROVE  GoodPath(PromotePath(p, e))
<1>1. PromotePath(p, e) \in [candidates : {p.candidates}, active : {e}, probe : {NoProbe},
                            cooldown : {p.cooldown}]
  BY DEF PromotePath, GoodPath
<1> QED
  BY <1>1, NoProbeGood DEF GoodPath

\* A relay fails under the path.
LEMMA FailRelayGood ==
    ASSUME NEW p, GoodPath(p), NEW e
    PROVE  GoodPath(FailRelayPath(p, e))
<1>1. FailRelayPath(p, e) \in [candidates : {p.candidates}, active : {e}, probe : {NoProbe},
                              cooldown : {FALSE}]
  BY DEF FailRelayPath, GoodPath
<1> QED
  BY <1>1, NoProbeGood DEF GoodPath

\* Relays fail, in any order.
LEMMA FailoversGood ==
    ASSUME NEW p, GoodPath(p), NEW failed, NEW q \in Failovers(p, failed)
    PROVE  GoodPath(q)
BY FailRelayGood DEF Failovers

\* A configuration lists the candidates.
LEMMA ApplyGood ==
    ASSUME NEW p, GoodPath(p), NEW candidates
    PROVE  GoodPath(ApplyConfiguration(p, candidates))
BY NoProbeGood DEF ApplyConfiguration, GoodPath

\* Candidates expire.
LEMMA PruneGood ==
    ASSUME NEW p, GoodPath(p)
    PROVE  GoodPath(PruneExpired(p))
BY DEF PruneExpired, GoodPath

\* A probe begins.
LEMMA CreateGood ==
    ASSUME NEW p, GoodPath(p), NEW e, transit = {}
    PROVE  GoodPath(CreatePathProbe(p, e))
<1> DEFINE b == [endpoint |-> e, promotes |-> p.active # e, attempts |-> 1,
                 token |-> FreshToken, opened |-> FALSE]
<1>1. CreatePathProbe(p, e) \in [candidates : {p.candidates}, active : {p.active}, probe : {b},
                                cooldown : {p.cooldown}]
  BY DEF CreatePathProbe, GoodPath
<1>2. b.token # 0 /\ (b.promotes <=> b.endpoint # p.active)
  BY TokenDrawn
<1>3. GoodProbe(b, p.active)
  BY <1>2 DEF GoodProbe
<1> HIDE DEF b
<1> QED
  BY <1>1, <1>3 DEF GoodPath

\* A probe is sent again.
LEMMA RetryGood ==
    ASSUME NEW p, GoodPath(p), p.probe # NoProbe
    PROVE  GoodPath([p EXCEPT !.probe.attempts = @ + 1])
<1> DEFINE q == [p EXCEPT !.probe.attempts = @ + 1]
           b == [p.probe EXCEPT !.attempts = @ + 1]
<1>1. /\ b.endpoint = p.probe.endpoint /\ b.promotes = p.probe.promotes
      /\ b.token = p.probe.token /\ b.opened = p.probe.opened
      /\ b \in [endpoint : {b.endpoint}, promotes : {b.promotes}, attempts : {b.attempts},
                token : {b.token}, opened : {b.opened}]
  BY DEF GoodPath, GoodProbe
<1>2. GoodProbe(b, p.active)
  BY <1>1 DEF GoodPath, GoodProbe
<1>3. q \in [candidates : {p.candidates}, active : {p.active}, probe : {b}, cooldown : {p.cooldown}]
  BY DEF GoodPath
<1> QED
  BY <1>2, <1>3 DEF GoodPath

\* The peer has read the challenge of a probe.
LEMMA OpenGood ==
    ASSUME NEW p, GoodPath(p), p.probe # NoProbe
    PROVE  GoodPath([p EXCEPT !.probe.opened = TRUE])
<1> DEFINE q == [p EXCEPT !.probe.opened = TRUE]
           b == [p.probe EXCEPT !.opened = TRUE]
<1>1. b \in [endpoint : {p.probe.endpoint}, promotes : {p.probe.promotes},
             attempts : {p.probe.attempts}, token : {p.probe.token}, opened : {TRUE}]
  BY DEF GoodPath, GoodProbe
<1>2. q \in [candidates : {p.candidates}, active : {p.active}, probe : {b}, cooldown : {p.cooldown}]
  BY DEF GoodPath
<1> HIDE DEF b
<1>3. /\ b \in [endpoint : {b.endpoint}, promotes : {b.promotes}, attempts : {b.attempts},
                token : {b.token}, opened : {b.opened}]
      /\ b.endpoint = p.probe.endpoint /\ b.promotes = p.probe.promotes
      /\ b.token = p.probe.token
  BY <1>1
<1>4. GoodProbe(b, p.active)
  BY <1>3 DEF GoodPath, GoodProbe
<1> QED
  BY <1>2, <1>4 DEF GoodPath

\* One pass of maintain_path_probe.
LEMMA MaintainGood ==
    ASSUME NEW p, GoodPath(p), NEW latency, transit = {}
    PROVE  GoodPath(MaintainPathProbe(p, latency))
<1>1. CASE p.probe # NoProbe /\ p.probe.attempts < MaxProbeAttempts
  BY <1>1, RetryGood DEF MaintainPathProbe
<1>2. CASE p.probe # NoProbe /\ ~(p.probe.attempts < MaxProbeAttempts)
  <2>1. MaintainPathProbe(p, latency) = [p EXCEPT !.probe = NoProbe, !.cooldown = TRUE]
    BY <1>2 DEF MaintainPathProbe
  <2> QED
    BY <2>1, NoProbeGood DEF GoodPath
<1>3. CASE p.probe = NoProbe
  BY <1>3, CreateGood DEF MaintainPathProbe
<1> QED
  BY <1>1, <1>2, <1>3

\* Only challenges need a token.
LEMMA SentGood ==
    ASSUME NEW h, NEW e, NEW kind, NEW token, NEW leases, kind = "challenge" => token # 0
    PROVE  GoodDatagrams(Sent(h, e, kind, token, leases))
BY DEF GoodDatagrams, Sent, Datagram

\* The path of one agent changes.
LEMMA OneChanges ==
    ASSUME ProbeInv, NEW h, NEW q, GoodPath(q), path' = [path EXCEPT ![h] = q],
           GoodDatagrams(transit')
    PROVE  ProbeInv'
<1>1. path' = [k \in Hosts |-> path'[k]]
  BY DEF ProbeInv
<1>2. ASSUME NEW k \in Hosts PROVE GoodPath(path'[k])
  BY DEF ProbeInv
<1>3. GoodDatagrams(transit)'
  BY DEF GoodDatagrams
<1> QED
  BY <1>1, <1>2, <1>3 DEF ProbeInv, GoodPath, GoodProbe

\* Nothing of it changes, or a datagram goes.
LEMMA PathStays ==
    ASSUME ProbeInv, path' = path, transit' \subseteq transit
    PROVE  ProbeInv'
BY DEF ProbeInv, GoodPath, GoodProbe, GoodDatagrams

\* Datagrams are added.
LEMMA GoodUnion ==
    ASSUME NEW S, NEW T, GoodDatagrams(S), GoodDatagrams(T)
    PROVE  GoodDatagrams(S \cup T)
BY DEF GoodDatagrams

\* A session begins without a probe.
LEMMA PathsInitGood == PathsInit => ProbeInv
<1> SUFFICES ASSUME PathsInit PROVE ProbeInv
  OBVIOUS
<1>1. PICK relay : path = [h \in Hosts |->
                   [candidates |-> Configured(directory, h),
                    active |-> IF relay = NoEndpoint THEN place[Remote(h)] ELSE relay,
                    probe |-> NoProbe, cooldown |-> FALSE]]
  BY DEF PathsInit
<1>2. path = [h \in Hosts |-> path[h]]
  BY <1>1
<1>3. ASSUME NEW h \in Hosts PROVE GoodPath(path[h])
  <2>1. path[h] \in [candidates : {path[h].candidates}, active : {path[h].active},
                     probe : {path[h].probe}, cooldown : {path[h].cooldown}]
    BY <1>1
  <2>2. path[h].probe = NoProbe
    BY <1>1
  <2> QED
    BY <2>1, <2>2, NoProbeGood DEF GoodPath
<1>4. GoodDatagrams(transit)
  BY DEF PathsInit, GoodDatagrams
<1> QED
  BY <1>2, <1>3, <1>4 DEF ProbeInv

\* A maintenance pass.
LEMMA MaintainStep ==
    ASSUME ProbeInv, NEW h \in Hosts, NEW keepalive \in BOOLEAN, NEW latency \in BOOLEAN,
           MaintainPaths(h, keepalive, latency)
    PROVE  ProbeInv'
<1> DEFINE now == IF applied[h] THEN path[h]
                  ELSE ApplyConfiguration(path[h], Configured(directory, h))
           failed == {r \in RelaySet : lease[h][r] \in {"silent", "expired"}}
           leases == [r \in RelaySet |-> IF r \in failed THEN "none" ELSE lease[h][r]]
           pruned == PruneExpired(now)
<1>1. transit = {}
  BY DEF MaintainPaths
<1>2. GoodPath(now)
  BY ApplyGood DEF ProbeInv
<1>3. GoodPath(pruned)
  BY <1>2, PruneGood
<1> HIDE DEF now
<1>4. PICK moved \in Failovers(pruned, failed) :
        /\ path' = [path EXCEPT ![h] = MaintainPathProbe(moved, latency)]
        /\ transit' = transit
             \cup (IF keepalive THEN Sent(h, moved.active, "traffic", 0, leases) ELSE {})
             \cup (IF MaintainPathProbe(moved, latency).probe \notin {NoProbe, moved.probe}
                   THEN Sent(h, MaintainPathProbe(moved, latency).probe.endpoint, "challenge",
                             MaintainPathProbe(moved, latency).probe.token, leases)
                   ELSE {})
  BY DEF MaintainPaths, now
<1> DEFINE probed == MaintainPathProbe(moved, latency)
<1>5. GoodPath(moved)
  BY <1>3, <1>4, FailoversGood
<1>6. GoodPath(probed)
  BY <1>1, <1>5, MaintainGood
<1> HIDE DEF leases, failed, pruned, probed
<1>7. GoodDatagrams(IF keepalive THEN Sent(h, moved.active, "traffic", 0, leases) ELSE {})
  BY SentGood DEF GoodDatagrams
<1>8. GoodDatagrams(IF probed.probe \notin {NoProbe, moved.probe}
                    THEN Sent(h, probed.probe.endpoint, "challenge", probed.probe.token, leases)
                    ELSE {})
  <2>1. CASE probed.probe \notin {NoProbe, moved.probe}
    <3>1. probed.probe.token # 0
      BY <1>6, <2>1 DEF GoodPath, GoodProbe
    <3>2. GoodDatagrams(Sent(h, probed.probe.endpoint, "challenge", probed.probe.token, leases))
      BY <3>1, SentGood
    <3> QED
      BY <2>1, <3>2
  <2>2. CASE ~(probed.probe \notin {NoProbe, moved.probe})
    BY <2>2 DEF GoodDatagrams
  <2> QED
    BY <2>1, <2>2
<1>9. GoodDatagrams(transit')
  BY <1>1, <1>4, <1>7, <1>8 DEF GoodDatagrams, probed
<1>10. path' = [path EXCEPT ![h] = probed]
  BY <1>4 DEF probed
<1> QED
  BY <1>6, <1>9, <1>10, OneChanges

\* A packet of the TUN device: only traffic.
LEMMA ForwardStep ==
    ASSUME ProbeInv, NEW h \in Hosts, ForwardOnPath(h)
    PROVE  ProbeInv'
<1>1. GoodDatagrams(Sent(h, path[h].active, "traffic", 0, lease[h]))
  BY SentGood
<1>2. GoodDatagrams(transit')
  BY <1>1, GoodUnion DEF ForwardOnPath, ProbeInv
<1>3. path' = path
  BY DEF ForwardOnPath
<1> QED
  BY <1>2, <1>3 DEF ProbeInv, GoodPath, GoodProbe, GoodDatagrams

\* A path with another cooldown.
LEMMA CooldownGood ==
    ASSUME NEW p, GoodPath(p), NEW c
    PROVE  GoodPath([p EXCEPT !.cooldown = c])
<1> DEFINE q == [p EXCEPT !.cooldown = c]
<1>1. q \in [candidates : {p.candidates}, active : {p.active}, probe : {p.probe}, cooldown : {c}]
  BY DEF GoodPath
<1> HIDE DEF q
<1>2. GoodPath(q)
  BY <1>1 DEF GoodPath
<1> QED
  BY <1>2 DEF q

\* A probe asked for by hand.
LEMMA ManualStep ==
    ASSUME ProbeInv, NEW h \in Hosts, ManualPathProbe(h)
    PROVE  ProbeInv'
<1> DEFINE started == CreatePathProbe(path[h], path[h].active)
           next == IF CanSend(h, path[h].active, lease[h]) THEN started ELSE path[h]
<1>1. transit = {}
  BY DEF ManualPathProbe
<1>2. GoodPath(path[h])
  BY DEF ProbeInv
<1>3. GoodPath(started)
  BY <1>1, <1>2, CreateGood
<1>4. GoodPath(next)
  BY <1>2, <1>3
<1>5. /\ path' = [path EXCEPT ![h] = [next EXCEPT !.cooldown = TRUE]]
      /\ transit' = transit \cup Sent(h, path[h].active, "challenge", started.probe.token, lease[h])
  BY DEF ManualPathProbe
<1>6. started.probe.token = FreshToken
  <2>1. path[h] \in [candidates : {path[h].candidates}, active : {path[h].active},
                     probe : {path[h].probe}, cooldown : {path[h].cooldown}]
    BY <1>2 DEF GoodPath
  <2> QED
    BY <2>1 DEF CreatePathProbe
<1>7. started.probe.token # 0
  BY <1>1, <1>6, TokenDrawn
<1> HIDE DEF started, next
<1>8. GoodDatagrams(transit')
  BY <1>1, <1>5, <1>7, SentGood
<1> QED
  BY <1>4, <1>5, <1>8, CooldownGood, OneChanges

\* A cooldown ends.
LEMMA CooldownStep ==
    ASSUME ProbeInv, NEW h \in Hosts, CooldownEnds(h)
    PROVE  ProbeInv'
<1>1. GoodPath([path[h] EXCEPT !.cooldown = FALSE])
  BY CooldownGood DEF ProbeInv
<1>2. path' = [path EXCEPT ![h] = [path[h] EXCEPT !.cooldown = FALSE]] /\ transit' = transit
  BY DEF CooldownEnds
<1>3. GoodDatagrams(transit')
  BY <1>2 DEF ProbeInv, GoodDatagrams
<1> QED
  BY <1>1, <1>2, <1>3, OneChanges

\* Traffic moves the path and ends the probe with it.
LEMMA TrafficStep ==
    ASSUME ProbeInv, NEW m \in transit, NEW h, h = m.to, TrafficMovesPath(h, m)
    PROVE  ProbeInv'
<1> DEFINE q == IF path[h].active # m.source /\ path[h].probe.endpoint # m.source
                THEN PromotePath(path[h], m.source) ELSE path[h]
<1>1. path' = [path EXCEPT ![h] = q] /\ transit' \subseteq transit
  BY DEF TrafficMovesPath
<1>2. GoodDatagrams(transit')
  BY <1>1 DEF ProbeInv, GoodDatagrams
<1>3. CASE h \in Hosts
  <2>1. GoodPath(q)
    BY <1>3, PromoteGood DEF ProbeInv
  <2> QED
    BY <1>1, <1>2, <2>1, OneChanges
<1>4. CASE h \notin Hosts
  <2>1. path' = path
    BY <1>1, <1>4 DEF ProbeInv
  <2> QED
    BY <1>1, <2>1, PathStays
<1> QED
  BY <1>3, <1>4

\* A challenge is noted in the probe it belongs to, and only there: it has a
\* token and the absence of a probe has none.
LEMMA ChallengeStep ==
    ASSUME ProbeInv, NEW m \in transit, NEW h, AnswerChallenge(h, m)
    PROVE  ProbeInv'
<1> DEFINE k == Remote(h)
           again == path[k].probe.token = m.token /\ path[k].probe.opened
<1>1. m.token # 0
  BY DEF AnswerChallenge, ProbeInv, GoodDatagrams
<1>2. GoodDatagrams(Sent(h, m.source, "response", m.token, lease[h]))
  BY SentGood
<1>3. transit' = (transit \ {m}) \cup
                 (IF again THEN {} ELSE Sent(h, m.source, "response", m.token, lease[h]))
  BY DEF AnswerChallenge
<1>4. GoodDatagrams(transit')
  BY <1>2, <1>3 DEF ProbeInv, GoodDatagrams
<1>5. CASE path[k].probe.token = m.token /\ k \in Hosts
  <2>1. path[k].probe # NoProbe
    BY <1>1, <1>5 DEF NoProbe
  <2>2. GoodPath([path[k] EXCEPT !.probe.opened = TRUE])
    BY <1>5, <2>1, OpenGood DEF ProbeInv
  <2>3. path' = [path EXCEPT ![k] = [path[k] EXCEPT !.probe.opened = TRUE]]
    BY <1>5 DEF AnswerChallenge
  <2> QED
    BY <1>4, <2>2, <2>3, OneChanges
<1>6. CASE ~(path[k].probe.token = m.token /\ k \in Hosts)
  <2>1. path' = path
    BY <1>6 DEF AnswerChallenge, ProbeInv
  <2> QED
    BY <1>4, <2>1 DEF ProbeInv, GoodPath, GoodProbe, GoodDatagrams
<1> QED
  BY <1>5, <1>6

\* The answer to a probe ends it.
LEMMA ResponseStep ==
    ASSUME ProbeInv, NEW m \in transit, NEW h, ResponseMovesPath(h, m)
    PROVE  ProbeInv'
<1> DEFINE p == path[h]
           q == IF p.probe.endpoint # m.source \/ p.probe.token # m.token THEN p
                ELSE IF p.probe.promotes THEN PromotePath(p, m.source)
                ELSE [p EXCEPT !.probe = NoProbe]
<1>1. path' = [path EXCEPT ![h] = q] /\ transit' \subseteq transit
  BY DEF ResponseMovesPath
<1>2. GoodDatagrams(transit')
  BY <1>1 DEF ProbeInv, GoodDatagrams
<1>3. CASE h \in Hosts
  <2>1. GoodPath(p)
    BY <1>3 DEF ProbeInv
  <2>2. GoodPath([p EXCEPT !.probe = NoProbe])
    <3> DEFINE x == [p EXCEPT !.probe = NoProbe]
    <3>1. x \in [candidates : {p.candidates}, active : {p.active}, probe : {NoProbe},
                 cooldown : {p.cooldown}]
      BY <2>1 DEF GoodPath
    <3> HIDE DEF x
    <3>2. GoodPath(x)
      BY <3>1, NoProbeGood DEF GoodPath
    <3> QED
      BY <3>2 DEF x
  <2>3. GoodPath(q)
    BY <2>1, <2>2, PromoteGood
  <2> QED
    BY <1>1, <1>2, <2>3, OneChanges
<1>4. CASE h \notin Hosts
  <2>1. path' = path
    BY <1>1, <1>4 DEF ProbeInv
  <2> QED
    BY <1>1, <2>1, PathStays
<1> QED
  BY <1>3, <1>4

\* A datagram arrives or is lost.
LEMMA DeliverStep ==
    ASSUME ProbeInv, NEW m \in transit, PathDeliver(m)
    PROVE  ProbeInv'
<1>1. CASE TrafficMovesPath(m.to, m)
  BY <1>1, TrafficStep
<1>2. CASE AnswerChallenge(m.to, m)
  BY <1>2, ChallengeStep
<1>3. CASE ResponseMovesPath(m.to, m)
  BY <1>3, ResponseStep
<1>4. CASE transit' = transit \ {m} /\ path' = path
  BY <1>4, PathStays
<1> QED
  BY <1>1, <1>2, <1>3, <1>4 DEF PathDeliver

\* Relays, addresses and configurations change no probe.
LEMMA WorldStep ==
    ASSUME WorldNext PROVE path' = path /\ transit' = transit
BY DEF WorldNext, RelayStops, RelayStarts, DirectCut, DirectReturns, Publishes, CandidatesLapse,
   Moves

\* A lease is granted or fails.
LEMMA LeaseStep ==
    ASSUME NEW h, NEW r, LeaseGranted(h, r) \/ LeaseFails(h, r)
    PROVE  path' = path /\ transit' = transit
BY DEF LeaseGranted, LeaseFails

\* Every step keeps the invariant of the probes.
LEMMA ProbeInvStep == ProbeInv /\ [PathsNext]_pathVars => ProbeInv'
<1> SUFFICES ASSUME ProbeInv, [PathsNext]_pathVars PROVE ProbeInv'
  OBVIOUS
<1>1. ASSUME NEW h \in Hosts, NEW keepalive \in BOOLEAN, NEW latency \in BOOLEAN,
             MaintainPaths(h, keepalive, latency)
      PROVE  ProbeInv'
  BY <1>1, MaintainStep
<1>2. ASSUME NEW h \in Hosts, ForwardOnPath(h) \/ ManualPathProbe(h) \/ CooldownEnds(h)
      PROVE  ProbeInv'
  BY <1>2, ForwardStep, ManualStep, CooldownStep
<1>3. ASSUME NEW h \in Hosts, NEW r \in RelaySet, LeaseGranted(h, r) \/ LeaseFails(h, r)
      PROVE  ProbeInv'
  BY <1>3, LeaseStep, PathStays
<1>4. ASSUME NEW m \in transit, PathDeliver(m) PROVE ProbeInv'
  BY <1>4, DeliverStep
<1>5. ASSUME WorldNext PROVE ProbeInv'
  BY <1>5, WorldStep, PathStays
<1>6. ASSUME UNCHANGED pathVars PROVE ProbeInv'
  BY <1>6, PathStays DEF pathVars
<1> QED
  BY <1>1, <1>2, <1>3, <1>4, <1>5, <1>6 DEF PathsNext

\* A probe moves the path exactly when it is of another endpoint than the path
\* (PendingPathProbe.promotes_path), whatever moved the path, the list or the
\* relays while it was under way.
THEOREM ProbesMeanWhatTheySay == PathsSpec => []ProbeMeaning
<1>1. ProbeInv => ProbeMeaning
  BY DEF ProbeInv, GoodPath, GoodProbe, ProbeMeaning
<1> QED
  BY <1>1, PathsInitGood, ProbeInvStep, PTL DEF PathsSpec
===============================================================================
