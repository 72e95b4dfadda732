-------------------------------- MODULE Updates --------------------------------
(***************************************************************************)
(* Staged updates of one Linux node: the rollout policy of the controller, *)
(* the unprivileged agent that stages a release, the root helper that      *)
(* applies it, and the installer the helper and the operator share.        *)
(*                                                                         *)
(* A release is its version.  The node's channel, platform and             *)
(* architecture are those of the policy; its rollout bucket is either      *)
(* below the policy's basis points (`included') or not.  Signatures,       *)
(* hashes and sizes always verify here: what can go wrong is the order of  *)
(* steps of four parties and a crash between any two of them.              *)
(***************************************************************************)
EXTENDS Integers, Sequences

CONSTANTS
    Releases,        \* versions that may be released
    FirstVersion,    \* the version installed on the node at the start
    MaxGeneration,   \* bound on policy changes
    OperatorActs,    \* bound on installs and rollbacks by hand
    UpdateFaults     \* bound on crashes and failing calls

ASSUME UpdatesAssumption ==
    /\ Releases \subseteq Nat /\ FirstVersion \in Nat \ {0}
    /\ \A r \in Releases : r > FirstVersion
    /\ MaxGeneration \in Nat /\ OperatorActs \in Nat /\ UpdateFaults \in Nat

VARIABLES
    released,        \* update_releases
    policy,          \* the row of update_rollout_policies
    reported,        \* agent_version in node_update_reports, 0 without a row
    directives,      \* update directives on their way to the agent
    updater,         \* the agent process and the update part of its control session
    stage,           \* update-staging/<release>/ready.json
    request,         \* update-request.json
    trigger,         \* the path unit has a change to act on
    helper,          \* the oneshot apply service
    versions,        \* versions/<release>: absent, unpacked, or complete with metadata
    links,           \* the `current' and `previous' links
    operatorActs,
    updateFaults

updateVars == <<released, policy, reported, directives, updater, stage, request, trigger,
                helper, versions, links, operatorActs, updateFaults>>

Versions == Releases \cup {FirstVersion}
NoPolicy == [generation |-> 0, release |-> 0, minimum |-> 0, included |-> FALSE,
             paused |-> FALSE, announce |-> FALSE]
NoStage == [generation |-> 0, decision |-> "none"]
NoUpdate == [release |-> 0, generation |-> 0, decision |-> "none"]
NoHelper == [at |-> "none", request |-> NoUpdate, old |-> 0, created |-> FALSE]

\* A process of that version, not connected; version 0 is no process.
Process(version) ==
    [version |-> version, connected |-> FALSE, at |-> "loop", state |-> "idle",
     observed |-> 0, attempted |-> <<0, 0>>, directive |-> NoUpdate]

UpdatesInit ==
    /\ released = {}
    /\ policy = NoPolicy
    /\ reported = 0
    /\ directives = <<>>
    /\ updater = Process(FirstVersion)
    /\ stage = [r \in Releases |-> NoStage]
    /\ request = NoUpdate
    /\ trigger = FALSE
    /\ helper = NoHelper
    /\ versions = [v \in Versions |-> IF v = FirstVersion THEN "complete" ELSE "absent"]
    /\ links = [current |-> FirstVersion, previous |-> 0]
    /\ operatorActs = 0
    /\ updateFaults = 0

UpdateFault ==
    /\ updateFaults < UpdateFaults
    /\ updateFaults' = updateFaults + 1

(***************************************************************************)
(* The controller.                                                         *)
(***************************************************************************)

CreateRelease(r) ==
    /\ r \notin released
    /\ released' = released \cup {r}
    /\ UNCHANGED <<policy, reported, directives, updater, stage, request, trigger, helper,
                   versions, links, operatorActs, updateFaults>>

\* persist_policy: the generation grows by one with every change.
Persisted(r, minimum, included, paused) ==
    [generation |-> policy.generation + 1, release |-> r, minimum |-> minimum,
     included |-> included, paused |-> paused, announce |-> TRUE]

ReplacePolicy(r, minimum, included, paused) ==
    /\ r \in released
    /\ minimum <= r
    /\ policy.generation < MaxGeneration
    /\ policy' = Persisted(r, minimum, included, paused)
    /\ UNCHANGED <<released, reported, directives, updater, stage, request, trigger, helper,
                   versions, links, operatorActs, updateFaults>>

\* UpdateRolloutPolicy::decide
Decide(version) ==
    CASE policy.paused -> "paused"
      [] ~policy.paused /\ version >= policy.release -> "up_to_date"
      [] ~policy.paused /\ version < policy.release /\ version < policy.minimum -> "required"
      [] OTHER -> IF policy.included THEN "eligible" ELSE "deferred"

\* directive_for_report: only these two decisions make a directive.
DirectiveFor(version) ==
    IF policy.generation > 0 /\ Decide(version) \in {"eligible", "required"}
    THEN <<[release |-> policy.release, generation |-> policy.generation,
            decision |-> Decide(version), minimum |-> policy.minimum]>>
    ELSE <<>>

\* A directive that repeats the one queued before it is dropped here: the agent
\* ignores it, the attempt being the same.
Queued(queue, version) ==
    IF queue # <<>> /\ DirectiveFor(version) = <<queue[Len(queue)]>>
    THEN queue ELSE queue \o DirectiveFor(version)

\* send_runtime_report of a session and the controller's answer.
Reporting(queue) ==
    /\ reported' = updater.version
    /\ directives' = Queued(queue, updater.version)

\* The control task of the session hears of the change: current_update_directive
\* decides on the report in the database, which may be of another version.
PushDirective ==
    /\ policy.announce
    /\ policy' = [policy EXCEPT !.announce = FALSE]
    /\ directives' = IF updater.connected /\ reported # 0
                     THEN Queued(directives, reported) ELSE directives
    /\ UNCHANGED <<released, reported, updater, stage, request, trigger, helper, versions,
                   links, operatorActs, updateFaults>>

(***************************************************************************)
(* The agent: control_session and stage_update.                            *)
(***************************************************************************)

UpdaterConnects ==
    /\ updater.version # 0 /\ ~updater.connected
    /\ updater' = [Process(updater.version) EXCEPT !.connected = TRUE]
    /\ Reporting(<<>>)
    /\ UNCHANGED <<released, policy, stage, request, trigger, helper, versions, links,
                   operatorActs, updateFaults>>

UpdaterDisconnects ==
    /\ updater.connected /\ updater.at = "loop"
    /\ updater' = Process(updater.version)
    /\ directives' = <<>>
    /\ UNCHANGED <<released, policy, reported, stage, request, trigger, helper, versions,
                   links, operatorActs, updateFaults>>

SynchronizationReport ==
    /\ updater.connected /\ updater.at = "loop"
    /\ Reporting(directives)
    /\ UNCHANGED <<released, policy, updater, stage, request, trigger, helper, versions,
                   links, operatorActs, updateFaults>>

\* process_update_directive: one attempt per generation and release and session.
IgnoresDirective(d) ==
    \/ updater.state = "staged" /\ updater.observed = d.release
    \/ updater.attempted = <<d.generation, d.release>>

ProcessDirective ==
    /\ updater.connected /\ updater.at = "loop"
    /\ directives # <<>>
    /\ LET d == Head(directives) IN
       IF IgnoresDirective(d)
       THEN /\ directives' = Tail(directives)
            /\ UNCHANGED <<updater, reported>>
       ELSE /\ updater' = [updater EXCEPT !.at = "verify", !.state = "downloading",
                              !.observed = d.release, !.directive = d,
                              !.attempted = <<d.generation, d.release>>]
            /\ Reporting(Tail(directives))
    /\ UNCHANGED <<released, policy, stage, request, trigger, helper, versions, links,
                   operatorActs, updateFaults>>

\* The outcome of stage_update goes into the status and is reported.
Staging(state) ==
    /\ updater' = [updater EXCEPT !.at = "loop", !.state = state, !.directive = NoUpdate]
    /\ Reporting(directives)

\* verify_directive, against the version of the running binary.
Verified(d) ==
    /\ d.release > updater.version
    /\ d.minimum <= d.release
    /\ d.decision = "required" <=> updater.version < d.minimum

\* A stage of this release is there: it must be of this very generation and decision.
VerifyExistingStage(d) ==
    IF stage[d.release] = [generation |-> d.generation, decision |-> d.decision]
    THEN updater' = [updater EXCEPT !.at = "publish"] /\ UNCHANGED <<reported, directives>>
    ELSE Staging("failed")

VerifyDirective ==
    LET d == updater.directive IN
    /\ updater.at = "verify"
    /\ IF ~Verified(d) THEN Staging("failed")
       ELSE IF stage[d.release] # NoStage THEN VerifyExistingStage(d)
       ELSE /\ updater' = [updater EXCEPT !.at = "download"]
            /\ UNCHANGED <<reported, directives>>
    /\ UNCHANGED <<released, policy, stage, request, trigger, helper, versions, links,
                   operatorActs, updateFaults>>

\* Mutant: the request is written before the stage has its final name.
StageReleaseLate ==
    LET d == updater.directive IN
    /\ updater.at = "download"
    /\ request' = [release |-> d.release, generation |-> d.generation,
                   decision |-> d.decision]
    /\ updater' = [updater EXCEPT !.at = "publish"]
    /\ UNCHANGED <<released, policy, reported, directives, stage, trigger, helper, versions,
                   links, operatorActs, updateFaults>>

\* stage_into a directory of its own, then the rename.
StageRelease ==
    LET d == updater.directive IN
    /\ updater.at = "download"
    /\ \/ /\ stage' = [stage EXCEPT ![d.release] =
                          [generation |-> d.generation, decision |-> d.decision]]
          /\ updater' = [updater EXCEPT !.at = "publish"]
          /\ UNCHANGED <<reported, directives, updateFaults>>
       \/ /\ UpdateFault
          /\ Staging("failed")
          /\ UNCHANGED stage
    /\ UNCHANGED <<released, policy, request, trigger, helper, versions, links,
                   operatorActs>>

\* The atomic write of the request, which the path unit sees; a change while
\* the service runs may go unnoticed.
PublishRequest ==
    LET d == updater.directive IN
    /\ updater.at = "publish"
    /\ \/ /\ request' = [release |-> d.release, generation |-> d.generation,
                         decision |-> d.decision]
          /\ trigger' \in IF helper = NoHelper THEN {TRUE} ELSE {trigger, TRUE}
          /\ Staging("staged")
          /\ UNCHANGED updateFaults
       \/ /\ UpdateFault
          /\ Staging("failed")
          /\ UNCHANGED <<request, trigger>>
    /\ UNCHANGED <<released, policy, stage, helper, versions, links, operatorActs>>

AgentDies ==
    /\ updater.version # 0
    /\ UpdateFault
    /\ updater' = Process(0)
    /\ directives' = <<>>
    /\ UNCHANGED <<released, policy, reported, stage, request, trigger, helper, versions,
                   links, operatorActs>>

\* systemd starts what `current' names, unless the installer has stopped it.
AgentStarts ==
    /\ updater.version = 0 /\ helper.at # "switched"
    /\ updater' = Process(links.current)
    /\ UNCHANGED <<released, policy, reported, directives, stage, request, trigger, helper,
                   versions, links, operatorActs, updateFaults>>

(***************************************************************************)
(* The helper: apply_staged_update and install_release.                    *)
(***************************************************************************)

\* validate_apply_request: the helper runs from `current'.
AcceptsRequest ==
    /\ request # NoUpdate
    /\ request.release > links.current
    /\ stage[request.release] # NoStage

\* The root helper works on a copy of its own, verified again.
PrivateUpdateCopy == [NoHelper EXCEPT !.at = "copied", !.request = request]

ApplyStagedUpdate ==
    /\ trigger /\ helper = NoHelper
    /\ trigger' = FALSE
    /\ helper' = IF AcceptsRequest THEN PrivateUpdateCopy ELSE NoHelper
    /\ UNCHANGED <<released, policy, reported, directives, updater, stage, request, versions,
                   links, operatorActs, updateFaults>>

\* Mutant: the installer does not look at the version that is installed.
InstallableAny(r) == versions[r] # "unpacked"

\* The installer refuses a downgrade, and a release directory without metadata.
Installable(r) == r >= links.current /\ versions[r] # "unpacked"

UnpackRelease ==
    LET r == helper.request.release IN
    /\ helper.at = "copied"
    /\ IF ~Installable(r)
       THEN helper' = NoHelper /\ UNCHANGED versions
       ELSE /\ helper' = [helper EXCEPT !.old = links.current,
                             !.created = versions[r] = "absent",
                             !.at = IF versions[r] = "absent" THEN "unpacked" ELSE "registered"]
            /\ versions' = [versions EXCEPT ![r] = IF @ = "absent" THEN "unpacked" ELSE @]
    /\ UNCHANGED <<released, policy, reported, directives, updater, stage, request, trigger,
                   links, operatorActs, updateFaults>>

RegisterRelease ==
    /\ helper.at = "unpacked"
    /\ versions' = [versions EXCEPT ![helper.request.release] = "complete"]
    /\ helper' = [helper EXCEPT !.at = "registered"]
    /\ UNCHANGED <<released, policy, reported, directives, updater, stage, request, trigger,
                   links, operatorActs, updateFaults>>

\* The agent is stopped and `current' points to the new release.
SwitchRelease ==
    /\ helper.at = "registered"
    /\ \/ /\ updater' = Process(0)
          /\ directives' = <<>>
          /\ links' = [links EXCEPT !.current = helper.request.release]
          /\ helper' = [helper EXCEPT !.at = "switched"]
          /\ UNCHANGED updateFaults
       \/ /\ UpdateFault
          /\ helper' = NoHelper
          /\ UNCHANGED <<updater, directives, links>>
    /\ UNCHANGED <<released, policy, reported, stage, request, trigger, versions,
                   operatorActs>>

\* Mutant: the failed release is removed even when it was there before.
RestoreForgets ==
    /\ UpdateFault
    /\ links' = [links EXCEPT !.current = helper.old]
    /\ updater' = Process(helper.old)
    /\ versions' = [versions EXCEPT ![helper.request.release] = "absent"]
    /\ helper' = NoHelper

\* restore_activation: the old link, the old agent, and a release that this
\* run created is removed.
RestoreActivation ==
    /\ UpdateFault
    /\ links' = [links EXCEPT !.current = helper.old]
    /\ updater' = Process(helper.old)
    /\ versions' = IF helper.created
                   THEN [versions EXCEPT ![helper.request.release] = "absent"] ELSE versions
    /\ helper' = NoHelper

ActivateRelease ==
    /\ helper.at = "switched"
    /\ \/ /\ updater' = Process(links.current)
          /\ links' = [links EXCEPT !.previous = IF helper.old # links.current
                                                 THEN helper.old ELSE @]
          /\ helper' = [helper EXCEPT !.at = "applied"]
          /\ UNCHANGED <<versions, updateFaults>>
       \/ RestoreActivation
    /\ UNCHANGED <<released, policy, reported, directives, stage, request, trigger,
                   operatorActs>>

\* The request is read again, and removed if it is still the one applied.
CompareRequest ==
    /\ helper.at = "applied"
    /\ helper' = IF request = helper.request THEN [helper EXCEPT !.at = "remove"] ELSE NoHelper
    /\ UNCHANGED <<released, policy, reported, directives, updater, stage, request, trigger,
                   versions, links, operatorActs, updateFaults>>

RemoveRequest ==
    /\ helper.at = "remove"
    /\ request' = NoUpdate
    /\ helper' = NoHelper
    /\ UNCHANGED <<released, policy, reported, directives, updater, stage, trigger,
                   versions, links, operatorActs, updateFaults>>

\* The machine stops: what is on disk stays, the path unit sees no change at boot.
HostCrash ==
    /\ UpdateFault
    /\ updater' = Process(0)
    /\ directives' = <<>>
    /\ helper' = NoHelper
    /\ trigger' = FALSE
    /\ UNCHANGED <<released, policy, reported, stage, request, versions, links, operatorActs>>

(***************************************************************************)
(* The operator runs the installer by hand, under the same lock.           *)
(***************************************************************************)

LockFree == helper.at \notin {"unpacked", "registered", "switched"}

OperatorSwitches(r) ==
    /\ LockFree /\ operatorActs < OperatorActs
    /\ operatorActs' = operatorActs + 1
    /\ links' = [current |-> r,
                 previous |-> IF r # links.current THEN links.current ELSE links.previous]
    /\ updater' = Process(r)
    /\ directives' = <<>>

OperatorInstalls(r) ==
    /\ Installable(r)
    /\ OperatorSwitches(r)
    /\ versions' = [versions EXCEPT ![r] = "complete"]
    /\ UNCHANGED <<released, policy, reported, stage, request, trigger, helper, updateFaults>>

OperatorRollsBack(r) ==
    /\ versions[r] = "complete" /\ r # links.current
    /\ OperatorSwitches(r)
    /\ UNCHANGED <<released, policy, reported, stage, request, trigger, helper, versions,
                   updateFaults>>

UpdatesNext ==
    \/ \E r \in Releases : CreateRelease(r)
    \/ \E r \in Releases, minimum \in Releases \cup {0}, included, paused \in BOOLEAN :
          ReplacePolicy(r, minimum, included, paused)
    \/ PushDirective
    \/ UpdaterConnects \/ UpdaterDisconnects \/ SynchronizationReport
    \/ ProcessDirective \/ VerifyDirective \/ StageRelease \/ PublishRequest
    \/ AgentDies \/ AgentStarts \/ HostCrash
    \/ ApplyStagedUpdate \/ UnpackRelease \/ RegisterRelease \/ SwitchRelease
    \/ ActivateRelease \/ CompareRequest \/ RemoveRequest
    \/ \E r \in Versions : OperatorInstalls(r) \/ OperatorRollsBack(r)

UpdatesSpec == UpdatesInit /\ [][UpdatesNext]_updateVars

-------------------------------------------------------------------------------

\* A request the root helper can see names a release that is staged under its
\* final name, by the same directive: stage_update never publishes a partial
\* stage (updates.rs:112-115), across crashes, retries and policy changes.
PublishedComplete ==
    request # NoUpdate =>
       stage[request.release] = [generation |-> request.generation,
                                 decision |-> request.decision]

\* Both links and the running agent name releases that are installed with their
\* metadata, whatever failed, crashed or was rolled back: the next start and the
\* next rollback find what they need.
LinksInstalled ==
    /\ versions[links.current] = "complete"
    /\ links.previous # 0 => versions[links.previous] = "complete"
    /\ updater.version # 0 => versions[updater.version] = "complete"

\* The helper never takes the node to a lower version, even when the operator
\* installs a newer one after the helper has accepted the request.
NeverDowngraded ==
    [][helper.at # "switched" /\ helper'.at = "switched"
          => links'.current >= links.current]_updateVars

===============================================================================
