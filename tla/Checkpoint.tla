----------------------------- MODULE Checkpoint -----------------------------
(***************************************************************************)
(* Commit points of long-running tasks (envelope/checkpointed_execution.py)*)
(* while the operator revokes capabilities and rotates the policy epoch.   *)
(*                                                                         *)
(* validate_checkpoint is given the time and the active epoch, reads the   *)
(* revocation ledger, and then calls the audit sink: three moments between *)
(* which the world moves on.  A task has one capability and one            *)
(* CheckpointPolicy, and calls the validator before every commit.          *)
(***************************************************************************)
EXTENDS Integers, Checks

CONSTANTS
    Tasks,
    Exp,            \* Exp[t]: expiry of the task's capability
    Jti,            \* Jti[t]: its jti; tasks may share one
    Policy,         \* Policy[t]: [expected_epoch, on_expired, on_revoked, on_epoch]
    Epochs, NoEpoch,
    MaxClockSkew,
    MaxTime         \* bound on the clock

Actions == {"commit", "abort", "downgrade"}

\* CheckpointPolicy.__post_init__: a failure never commits.
CheckpointConstants ==
    /\ \A t \in Tasks :
         /\ Exp[t] \in Int
         /\ Policy[t].expected_epoch \in Epochs
         /\ Policy[t].on_expired \in Actions \ {"commit"}
         /\ Policy[t].on_revoked \in Actions \ {"commit"}
         /\ Policy[t].on_epoch \in Actions \ {"commit"}
    /\ NoEpoch \notin Epochs
    /\ MaxClockSkew \in Nat /\ MaxTime \in Nat

VARIABLES
    clock,
    revoked,    \* InMemoryRevocationLedger.revoked, without times and reasons
    epoch,      \* the active policy epoch
    pc,         \* pc[t]: "working", "called" or "decided"
    current,    \* current[t]: the time the call was given
    active,     \* active[t]: the epoch it was given
    verdict,    \* verdict[t]: the reason it found, "none" before
    done,       \* done[t]: what its last call returned, [action, reason, event]
    doomed      \* history: the calls under way that began with the capability
                \* revoked, and the tasks once refused for good

vars == <<clock, revoked, epoch, pc, current, active, verdict, done, doomed>>

Init ==
    /\ clock = 0
    /\ revoked = {}
    /\ epoch \in Epochs
    /\ pc = [t \in Tasks |-> "working"]
    /\ current = [t \in Tasks |-> 0]
    /\ active = [t \in Tasks |-> NoEpoch]
    /\ verdict = [t \in Tasks |-> "none"]
    /\ done = [t \in Tasks |-> [action |-> "none", reason |-> "none", event |-> "none"]]
    /\ doomed = {}

Tick ==
    /\ clock < MaxTime
    /\ clock' = clock + 1
    /\ UNCHANGED <<revoked, epoch, pc, current, active, verdict, done, doomed>>

\* InMemoryRevocationLedger.revoke; nothing is ever taken back.
Revoke(j) ==
    /\ revoked' = revoked \cup {j}
    /\ UNCHANGED <<clock, epoch, pc, current, active, verdict, done, doomed>>

\* The operator activates another policy bundle, possibly an earlier one.
Rotate(e) ==
    /\ e # epoch /\ epoch' = e
    /\ UNCHANGED <<clock, revoked, pc, current, active, verdict, done, doomed>>

\* The task calls validate_checkpoint.
Begin(t) ==
    /\ pc[t] = "working"
    /\ pc' = [pc EXCEPT ![t] = "called"]
    /\ current' = [current EXCEPT ![t] = clock]
    /\ active' = [active EXCEPT ![t] = epoch]
    /\ doomed' = doomed \cup (IF Jti[t] \in revoked THEN {t} ELSE {})
    /\ UNCHANGED <<clock, revoked, epoch, verdict, done>>

\* Mutant of CheckpointChecks: the ledger is not read.
CheckpointChecksUnrevoked(t) ==
    << <<current[t] - MaxClockSkew > Exp[t], "checkpoint_capability_expired">>,
       <<active[t] # Policy[t].expected_epoch, "checkpoint_policy_epoch_mismatch">> >>

\* _validate_checkpoint_inner, up to the decision.
CheckpointChecks(t) ==
    << <<current[t] - MaxClockSkew > Exp[t], "checkpoint_capability_expired">>,
       <<Jti[t] \in revoked, "checkpoint_capability_revoked">>,
       <<active[t] # Policy[t].expected_epoch, "checkpoint_policy_epoch_mismatch">> >>

Decide(t) ==
    /\ pc[t] = "called"
    /\ verdict' = [verdict EXCEPT ![t] = FirstFailure(CheckpointChecks(t))]
    /\ pc' = [pc EXCEPT ![t] = "decided"]
    /\ UNCHANGED <<clock, revoked, epoch, current, active, done, doomed>>

ActionOf(t, reason) ==
    CASE reason = "ok" -> "commit"
      [] reason = "checkpoint_capability_expired" -> Policy[t].on_expired
      [] reason = "checkpoint_capability_revoked" -> Policy[t].on_revoked
      [] reason = "checkpoint_policy_epoch_mismatch" -> Policy[t].on_epoch

\* _emit_checkpoint: the decision, or an abort when the sink raises.
Emitted(t) ==
    LET reason == verdict[t]
    IN  {[action |-> ActionOf(t, reason), reason |-> reason, event |-> reason],
         [action |-> "abort", reason |-> "audit_sink_failure", event |-> "none"]}

\* The call returns and the task acts on it: it commits, or does not, and
\* goes on to its next commit point.  A refusal for a reason other than the
\* epoch or the sink is one the task should never get past.
Return(t) ==
    /\ pc[t] = "decided"
    /\ \E d \in Emitted(t) : done' = [done EXCEPT ![t] = d]
    /\ doomed' = doomed \cup
         (IF verdict[t] \in {"checkpoint_capability_expired", "checkpoint_capability_revoked"}
            THEN {t} ELSE {})
    /\ pc' = [pc EXCEPT ![t] = "working"]
    /\ verdict' = [verdict EXCEPT ![t] = "none"]
    /\ current' = [current EXCEPT ![t] = 0]
    /\ active' = [active EXCEPT ![t] = NoEpoch]
    /\ UNCHANGED <<clock, revoked, epoch>>

Next ==
    \/ Tick
    \/ \E t \in Tasks : Revoke(Jti[t]) \/ Begin(t) \/ Decide(t) \/ Return(t)
    \/ \E e \in Epochs : Rotate(e)

Spec == Init /\ [][Next]_vars

-----------------------------------------------------------------------------
(* Properties *)

\* "A capability whose jti is in the RevocationLedger cannot commit at the
\* next checkpoint, regardless of how the task began": once a task was
\* refused because its capability expired or was revoked, no later call
\* commits, whatever the epoch does.  A task commits only under the epoch it
\* was authorized for, as it was when the call began, with a capability that
\* was current then, and on the record, although the sink is called after the
\* decision is made (validate_checkpoint, _emit_checkpoint).
CommitsAuthorized ==
    [][\A t \in Tasks : (pc[t] = "decided" /\ pc'[t] = "working" /\ done'[t].action = "commit") =>
           /\ t \notin doomed
           /\ active[t] = Policy[t].expected_epoch
           /\ current[t] <= Exp[t] + MaxClockSkew
           /\ done'[t].event = "ok"]_vars

=============================================================================
