---------------------------------- MODULE Paths ----------------------------------
(***************************************************************************)
(* Which path an established session takes: each of two agents keeps an    *)
(* ordered list of candidates for the other, the endpoint it sends to now  *)
(* and at most one authenticated probe, and moves on an answered probe, on *)
(* authenticated traffic from elsewhere and when a relay it uses fails.    *)
(* Relays stop and start again, addresses change, the direct way is cut,   *)
(* configurations and the expiry of candidates change the lists.  A round  *)
(* is one PATH_PROBE_RETRY_INTERVAL: each agent makes one maintenance pass *)
(* in it, and its datagrams have arrived or are lost before the next one.  *)
(* A lease is what RelayManager knows of it; Relay has its protocol.       *)
(***************************************************************************)
EXTENDS Integers, Sequences, FiniteSets, SequencesExt

CONSTANTS
    Hosts,             \* the two agents
    Places,            \* the direct endpoints
    Relays,            \* the configured relays, in the order of their priority
    Directories,       \* the direct candidates a configuration may list, per host
    FirstDirectory,    \* the ones listed when the session was made
    MaxProbeAttempts,  \* PATH_PROBE_MAX_ATTEMPTS: 4
    MaxTokens,         \* bound on the probe tokens in use at a time
    PathFaults         \* bound on the changes of the network and the configuration

RelaySet == Range(Relays)
Endpoints == Places \cup RelaySet
NoEndpoint == "none"

ASSUME PathsAssumption ==
    /\ \E a, b \in Hosts : a # b /\ Hosts = {a, b}
    /\ Places \cap RelaySet = {} /\ NoEndpoint \notin Endpoints
    /\ Directories \subseteq [Hosts -> Seq(Places)]
    /\ FirstDirectory \in Directories /\ \A h \in Hosts : FirstDirectory[h] # <<>>
    /\ MaxProbeAttempts \in Nat \ {0}
    /\ MaxTokens \in Nat /\ MaxTokens > 2
    /\ PathFaults \in Nat

VARIABLES
    path,        \* of the Peer each agent keeps: candidates, active, probe, cooldown
    lease,       \* RelayClient.lease: none, held, silent too long, or expired
    serving,     \* the agents each relay has a lease for
    running,     \* the relays that are up
    place,       \* the endpoint each agent is reached at and sends from
    open,        \* the direct way between the agents works
    directory,   \* the direct candidates of the published configuration
    applied,     \* whether each agent has applied that configuration
    lapsed,      \* the direct candidates of that configuration have expired
    transit,     \* datagrams on their way
    ticked,      \* the agents that have made their maintenance pass of the round
    changes      \* how many changes there have been

worldVars == <<serving, running, place, open, directory, lapsed, changes>>
pathVars == <<path, lease, applied, transit, ticked, worldVars>>

Remote(h) == CHOOSE k \in Hosts : k # h

\* PendingPathProbe.  opened is a history field: the peer has read the challenge.
NoProbe == [endpoint |-> NoEndpoint, promotes |-> FALSE, attempts |-> 0, token |-> 0,
            opened |-> FALSE]

PathType ==
    /\ path \in [Hosts -> [candidates : Seq(Endpoints), active : Endpoints \cup {NoEndpoint},
                           probe : [endpoint : Endpoints \cup {NoEndpoint}, promotes : BOOLEAN,
                                    attempts : 0 .. MaxProbeAttempts, token : 0 .. MaxTokens,
                                    opened : BOOLEAN],
                           cooldown : BOOLEAN]]
    /\ lease \in [Hosts -> [RelaySet -> {"none", "held", "silent", "expired"}]]
    /\ serving \in [RelaySet -> SUBSET Hosts]
    /\ place \in [Hosts -> Places]

-------------------------------------------------------------------------------
\* configured_candidates: the direct endpoints in their order, then the relays
\* (no node has static endpoints to fall back on).
Configured(d, h) == d[Remote(h)] \o Relays

\* Position of an endpoint in the list, 0 for one that is not in it: priorities
\* are numbered down the list.
Position(candidates, e) ==
    IF e \in Range(candidates) THEN CHOOSE i \in DOMAIN candidates : candidates[i] = e ELSE 0

\* The first candidate among some positions, or none.
FirstOf(candidates, positions) ==
    IF positions = {} THEN NoEndpoint ELSE candidates[Min(positions)]

\* best_probe_target: the first candidate better than the active endpoint.
BestProbeTarget(p) ==
    LET at == Position(p.candidates, p.active)
    IN  FirstOf(p.candidates, {i \in DOMAIN p.candidates :
                                  p.candidates[i] # p.active /\ (at = 0 \/ i < at)})

\* Mutant: a probe under way survives the move of the path.
PromoteKeepsProbe(p, e) == [p EXCEPT !.active = e]

\* promote_path
PromotePath(p, e) == [p EXCEPT !.active = e, !.probe = NoProbe]

\* fail_relay_path: the next candidate after a failed relay, or the first one.
NextAfter(candidates, r) ==
    LET others == {i \in DOMAIN candidates : candidates[i] # r}
        next == FirstOf(candidates, {i \in others : i > Position(candidates, r)})
    IN  IF next # NoEndpoint THEN next ELSE FirstOf(candidates, others)

FailRelayPath(p, e) == [p EXCEPT !.active = e, !.probe = NoProbe, !.cooldown = FALSE]

\* apply_configuration, for an established peer.
ApplyConfiguration(p, candidates) ==
    IF p.candidates = candidates THEN p
    ELSE [p EXCEPT !.candidates = candidates, !.probe = NoProbe, !.cooldown = FALSE]

\* prune_expired_candidates: an established peer keeps its path.
PruneExpired(p) == [p EXCEPT !.candidates = IF lapsed THEN SelectSeq(@, LAMBDA e : e \in RelaySet)
                                            ELSE @]

FreshToken ==
    LET used == {m.token : m \in transit} \cup {path[h].probe.token : h \in Hosts}
    IN  CHOOSE t \in 1 .. MaxTokens : t \notin used

\* create_path_probe
CreatePathProbe(p, e) ==
    [p EXCEPT !.probe = [endpoint |-> e, promotes |-> p.active # e, attempts |-> 1,
                         token |-> FreshToken, opened |-> FALSE]]

\* Mutant: a probe whose attempts are used up is never given up.
ProbeNeverExpires(p, latency) ==
    LET best == BestProbeTarget(p)
        target == IF best # NoEndpoint THEN best ELSE IF latency THEN p.active ELSE NoEndpoint
    IN  IF p.probe # NoProbe
        THEN IF p.probe.attempts < MaxProbeAttempts
             THEN [p EXCEPT !.probe.attempts = @ + 1] ELSE p
        ELSE IF p.cooldown \/ target = NoEndpoint THEN p
        ELSE CreatePathProbe(p, target)

\* maintain_path_probe: another attempt, the end of them, or a new probe of a
\* better candidate, or of the active endpoint when its latency is due.
MaintainPathProbe(p, latency) ==
    LET best == BestProbeTarget(p)
        target == IF best # NoEndpoint THEN best ELSE IF latency THEN p.active ELSE NoEndpoint
    IN  IF p.probe # NoProbe
        THEN IF p.probe.attempts < MaxProbeAttempts
             THEN [p EXCEPT !.probe.attempts = @ + 1]
             ELSE [p EXCEPT !.probe = NoProbe, !.cooldown = TRUE]
        ELSE IF p.cooldown \/ target = NoEndpoint THEN p
        ELSE CreatePathProbe(p, target)

-------------------------------------------------------------------------------
\* send_xsp and wrap: what leaves, given the leases; a relay needs one.
CanSend(h, e, leases) ==
    \/ e \in Places
    \/ e \in RelaySet /\ leases[e] \in {"held", "silent"}

Datagram(h, e, kind, token) ==
    [to |-> Remote(h), via |-> e, source |-> IF e \in RelaySet THEN e ELSE place[h],
     kind |-> kind, token |-> token]

Sent(h, e, kind, token, leases) ==
    IF CanSend(h, e, leases) THEN {Datagram(h, e, kind, token)} ELSE {}

\* wrap drops a lease it finds expired, without a word to anyone.
LeasesAfter(h, e) ==
    IF e \in RelaySet /\ lease[h][e] = "expired" THEN [lease EXCEPT ![h][e] = "none"] ELSE lease

\* A datagram arrives over the direct way at the place it was sent to, or from
\* a relay that serves both agents, if its receiver still has a lease there.
Arrives(m) ==
    IF m.via \in RelaySet
    THEN serving[m.via] = Hosts /\ lease[m.to][m.via] \in {"held", "silent"}
    ELSE open /\ place[m.to] = m.via /\ place[Remote(m.to)] = m.source

-------------------------------------------------------------------------------
\* The operator and the network act a bounded number of times.
Change == changes < PathFaults /\ changes' = changes + 1

\* A session that was just made, over the direct way or over a relay.
PathsInit ==
    /\ directory = FirstDirectory
    /\ applied = [h \in Hosts |-> TRUE] /\ lapsed = FALSE
    /\ place = [h \in Hosts |-> Head(directory[h])]
    /\ open \in BOOLEAN
    /\ running = RelaySet /\ serving = [r \in RelaySet |-> Hosts]
    /\ lease = [h \in Hosts |-> [r \in RelaySet |-> "held"]]
    /\ \E relay \in IF open THEN RelaySet \cup {NoEndpoint} ELSE RelaySet :
         path = [h \in Hosts |->
                   [candidates |-> Configured(directory, h),
                    active |-> IF relay = NoEndpoint THEN place[Remote(h)] ELSE relay,
                    probe |-> NoProbe, cooldown |-> FALSE]]
    /\ transit = {} /\ ticked = {} /\ changes = 0

\* fail_relay_path for each failed relay, in the order of a hash map: the path
\* may stop at every endpoint that failing relays lead to.
Failovers(p, failed) ==
    LET next == [r \in failed |-> NextAfter(p.candidates, r)]
        Closed(S) == \A r \in failed \cap ({p.active} \cup S) : next[r] \in S
        ends == {e \in Range(next) : \A S \in SUBSET Range(next) : Closed(S) => e \in S}
    IN  IF p.active \in failed THEN {FailRelayPath(p, e) : e \in ends} ELSE {p}

\* maintain_data_plane: a newer configuration, then maintain: expired candidates,
\* failed relays, a keepalive that is due, the probe.
MaintainPaths(h, keepalive, latency) ==
    LET now == IF applied[h] THEN path[h]
               ELSE ApplyConfiguration(path[h], Configured(directory, h))
        failed == {r \in RelaySet : lease[h][r] \in {"silent", "expired"}}
        leases == [r \in RelaySet |-> IF r \in failed THEN "none" ELSE lease[h][r]]
    IN
    /\ h \notin ticked
    /\ transit = {}
    /\ \E pruned \in {PruneExpired(now)} :
       \E moved \in Failovers(pruned, failed) :
       \E probed \in {MaintainPathProbe(moved, latency)} :
         /\ path' = [path EXCEPT ![h] = probed]
         /\ transit' = transit
              \cup (IF keepalive THEN Sent(h, moved.active, "traffic", 0, leases) ELSE {})
              \cup (IF probed.probe \notin {NoProbe, moved.probe}
                    THEN Sent(h, probed.probe.endpoint, "challenge", probed.probe.token, leases)
                    ELSE {})
    /\ lease' = [lease EXCEPT ![h] = leases]
    /\ applied' = [applied EXCEPT ![h] = TRUE]
    /\ ticked' = IF ticked \cup {h} = Hosts THEN {} ELSE ticked \cup {h}
    /\ UNCHANGED worldVars

\* forward_tun: a packet for the peer, between the passes of a round.
ForwardOnPath(h) ==
    /\ ticked # {} /\ transit = {}
    /\ path[h].active # NoEndpoint
    /\ transit' = transit \cup Sent(h, path[h].active, "traffic", 0, lease[h])
    /\ lease' = LeasesAfter(h, path[h].active)
    /\ UNCHANGED <<path, applied, ticked, worldVars>>

\* start_manual_path_probe: of the active endpoint; its cooldown stays when it
\* cannot be sent.
ManualPathProbe(h) ==
    LET p == path[h]
        started == CreatePathProbe(p, p.active)
    IN
    /\ ticked # {} /\ transit = {} /\ Change
    /\ p.active # NoEndpoint /\ p.probe = NoProbe /\ ~p.cooldown
    /\ path' = [path EXCEPT ![h] =
                  [(IF CanSend(h, p.active, lease[h]) THEN started ELSE p) EXCEPT !.cooldown = TRUE]]
    /\ transit' = transit \cup Sent(h, p.active, "challenge", started.probe.token, lease[h])
    /\ lease' = LeasesAfter(h, p.active)
    /\ UNCHANGED <<applied, ticked, serving, running, place, open, directory, lapsed>>

CooldownEnds(h) ==
    /\ path[h].cooldown
    /\ path' = [path EXCEPT ![h].cooldown = FALSE]
    /\ UNCHANGED <<lease, applied, transit, ticked, worldVars>>

-------------------------------------------------------------------------------
\* receive, handle_data: authenticated traffic moves the path to where it came
\* from, unless a probe of that endpoint is under way.
TrafficMovesPath(h, m) ==
    LET p == path[h] IN
    /\ m.kind = "traffic"
    /\ path' = [path EXCEPT ![h] =
                  IF p.active # m.source /\ p.probe.endpoint # m.source
                  THEN PromotePath(p, m.source) ELSE p]
    /\ lease' = IF m.source \in RelaySet THEN [lease EXCEPT ![h][m.source] = "held"] ELSE lease
    /\ transit' = transit \ {m}

\* A challenge is answered to where it came from, once: a retry is the same
\* bytes again, which the replay window of the session turns away.
AnswerChallenge(h, m) ==
    LET probe == path[Remote(h)].probe
        again == probe.token = m.token /\ probe.opened
    IN
    /\ m.kind = "challenge"
    /\ transit' = (transit \ {m}) \cup
                  (IF again THEN {} ELSE Sent(h, m.source, "response", m.token, lease[h]))
    /\ path' = IF probe.token = m.token THEN [path EXCEPT ![Remote(h)].probe.opened = TRUE]
               ELSE path
    /\ UNCHANGED lease

\* The answer to the probe under way moves the path if that was its purpose.
ResponseMovesPath(h, m) ==
    LET p == path[h] IN
    /\ m.kind = "response"
    /\ path' = [path EXCEPT ![h] =
                  IF p.probe.endpoint # m.source \/ p.probe.token # m.token THEN p
                  ELSE IF p.probe.promotes THEN PromotePath(p, m.source)
                  ELSE [p EXCEPT !.probe = NoProbe]]
    /\ transit' = transit \ {m}
    /\ UNCHANGED lease

PathDeliver(m) ==
    /\ \/ /\ Arrives(m)
          /\ \/ TrafficMovesPath(m.to, m)
             \/ AnswerChallenge(m.to, m)
             \/ ResponseMovesPath(m.to, m)
       \/ /\ ~Arrives(m)
          /\ transit' = transit \ {m}
          /\ UNCHANGED <<path, lease>>
    /\ UNCHANGED <<applied, ticked, worldVars>>

-------------------------------------------------------------------------------
\* A relay that is up grants a lease to an agent it does not serve (a new
\* registration, or the renewal of a lease a restarted relay has forgotten).
LeaseGranted(h, r) ==
    /\ r \in running /\ h \notin serving[r]
    /\ lease[h][r] \in {"none", "held"}
    /\ lease' = [lease EXCEPT ![h][r] = "held"]
    /\ serving' = [serving EXCEPT ![r] = @ \cup {h}]
    /\ UNCHANGED <<path, applied, transit, ticked, running, place, open, directory, lapsed, changes>>

\* RELAY_FAILURE_TIMEOUT passes without an answer, or, when the relay stopped
\* shortly before a renewal was due, the lease runs out first.
LeaseFails(h, r) ==
    /\ lease[h][r] = "held" /\ h \notin serving[r]
    /\ \E end \in {"silent", "expired"} : lease' = [lease EXCEPT ![h][r] = end]
    /\ UNCHANGED <<path, applied, transit, ticked, worldVars>>

RelayStops(r) ==
    /\ r \in running /\ Change
    /\ running' = running \ {r}
    /\ serving' = [serving EXCEPT ![r] = {}]
    /\ UNCHANGED <<path, lease, applied, transit, ticked, place, open, directory, lapsed>>

RelayStarts(r) ==
    /\ r \in RelaySet \ running
    /\ running' = running \cup {r}
    /\ UNCHANGED <<path, lease, applied, transit, ticked, serving, place, open, directory, lapsed, changes>>

\* The direct way is cut, or works again.
DirectCut ==
    /\ open /\ Change
    /\ open' = FALSE
    /\ UNCHANGED <<path, lease, applied, transit, ticked, serving, running, place, directory, lapsed>>

DirectReturns ==
    /\ ~open
    /\ open' = TRUE
    /\ UNCHANGED <<path, lease, applied, transit, ticked, serving, running, place, directory, lapsed, changes>>

\* An agent gets another address.
Moves(h) ==
    /\ Change
    /\ \E e \in Places \ {place[k] : k \in Hosts} : place' = [place EXCEPT ![h] = e]
    /\ UNCHANGED <<path, lease, applied, transit, ticked, serving, running, open, directory, lapsed>>

\* A configuration lists other candidates, or the same ones again.
Publishes ==
    /\ Change
    /\ directory' \in Directories
    /\ lapsed' = FALSE
    /\ applied' = [h \in Hosts |-> FALSE]
    /\ UNCHANGED <<path, lease, transit, ticked, serving, running, place, open>>

\* The lifetime of the candidates ends without a newer advertisement.
CandidatesLapse ==
    /\ ~lapsed /\ Change
    /\ lapsed' = TRUE
    /\ UNCHANGED <<path, lease, applied, transit, ticked, serving, running, place, open, directory>>

WorldNext ==
    \/ \E r \in RelaySet : RelayStops(r) \/ RelayStarts(r)
    \/ DirectCut \/ DirectReturns \/ Publishes \/ CandidatesLapse
    \/ \E h \in Hosts : Moves(h)

PathsNext ==
    \/ \E h \in Hosts : \/ \E keepalive, latency \in BOOLEAN : MaintainPaths(h, keepalive, latency)
                        \/ ForwardOnPath(h) \/ ManualPathProbe(h) \/ CooldownEnds(h)
                        \/ \E r \in RelaySet : LeaseGranted(h, r) \/ LeaseFails(h, r)
    \/ \E m \in transit : PathDeliver(m)
    \/ WorldNext

\* The maintenance ticker, the socket reader and the relays' answers keep
\* coming, a cooldown ends, and a keepalive falls due again and again.  Nothing
\* obliges the network to recover.
PathsFairness ==
    /\ \A h \in Hosts : /\ SF_pathVars(\E latency \in BOOLEAN : MaintainPaths(h, TRUE, latency))
                        /\ WF_pathVars(CooldownEnds(h))
    /\ WF_pathVars(\E h \in Hosts, r \in RelaySet : LeaseGranted(h, r) \/ LeaseFails(h, r))
    /\ WF_pathVars(\E m \in transit : PathDeliver(m))

PathsSpec == PathsInit /\ [][PathsNext]_pathVars /\ PathsFairness

-------------------------------------------------------------------------------
\* Datagrams of h sent to an endpoint arrive.
Reaches(h, e) ==
    IF e \in RelaySet THEN serving[e] = Hosts /\ \A k \in Hosts : lease[k][e] = "held"
    ELSE open /\ e = place[Remote(h)]

Carried == \A h \in Hosts : Reaches(h, path[h].active)

\* The candidate each agent likes best reaches the other.
BestReaches == \A h \in Hosts : path[h].candidates # <<>> /\ Reaches(h, Head(path[h].candidates))

\* From whatever relay, dead end or foreign address a session was driven to,
\* once the preferred candidates work and stay so, both agents send on paths
\* that work (best_probe_target, maintain_path_probe, handle_data).
BestPathReturns == <>[]BestReaches => <>[]Carried

\* A probe moves the path exactly when it is of another endpoint than the path
\* (PendingPathProbe.promotes_path): the answer to a latency probe that comes
\* after the path has moved never moves it back, and the answer to a probe of a
\* better candidate is never spent on a latency sample.
ProbeMeaning ==
    \A h \in Hosts : path[h].probe # NoProbe =>
        (path[h].probe.promotes <=> path[h].probe.endpoint # path[h].active)

\* Some candidate of each agent reaches the other.
SomeReaches == \A h \in Hosts : \E e \in Range(path[h].candidates) : Reaches(h, e)

\* A path that fails is replaced by one that works, if there is one: ARCHITECTURE.md
\* promises that probing selects the path again when the direct one changes, and
\* that the agent tries other relays and the direct way when a relay is gone.
PathRecovers == <>[]SomeReaches => <>[]Carried
===============================================================================
