---------------------------- MODULE MCAuthority ----------------------------
(***************************************************************************)
(* Small instances of AuditedDecisions, Delegation, Session, Checkpoint    *)
(* and RevocationFile: how authority is granted, passed on, kept alive and *)
(* taken back.  They share nothing but the clock, so a behaviour exercises *)
(* one of them: `focus` says which.                                        *)
(***************************************************************************)
EXTENDS Delegation, TLC

CONSTANTS
    Tokens, Sessions, NoJti, NoToken, MaxTokenTtl, MaxSessionLifetime,
    Tasks, Exp, Jti, Policy, Epochs, NoEpoch,
    Thread, Calls, Grants, PolicyMaxTtl, IssuerSkew, AllowedCallers, LowRiskTools,
    StepUpTools, AllowedWorkloads, AcceptedVersions, AlertWindow, Threshold,
    MaxDecisionTime, MaxDecisions, MaxFaults, Nobody,
    Revoker, Checker, Revocable, MaxRevocations, MaxBrokenWrites

VARIABLES
    focus,
    chain, last,
    revoked, epoch, pc, current, active, verdict, done, doomed,
    calling, number, at, stamp, decisions, log, answer, bucket, since, faults,
    lines, revoking, revokedIds, asking, owed, told, broken, revocations

S == INSTANCE Session

C == INSTANCE Checkpoint

A == INSTANCE AuditedDecisions WITH MaxTime <- MaxDecisionTime

L == INSTANCE RevocationFile

ASSUME SessionAssumption == S!SessionConstants
ASSUME CheckpointAssumption == C!CheckpointConstants
ASSUME DecisionAssumption == A!DecisionConstants
ASSUME RevocationAssumption == L!RevocationConstants

\* Workload w1 holds a capability; w1, w2, w3 delegate onwards.
MCCapabilities ==
    {[jti |-> "cap", sub |-> "w1", aud |-> "a", scope |-> "read", iat |-> 0, exp |-> 4]}

R(jti, chainId, hop, parent, from, to, scope, iat, exp) ==
    [jti |-> jti, chain |-> chainId, hop |-> hop, parent_jti |-> parent,
     delegator |-> from, delegate |-> to, aud |-> "a", scope |-> scope,
     iat |-> iat, nbf |-> iat, exp |-> exp, genuine |-> TRUE]

MCReceipts ==
    { \* two roots, and honest hops under one of them and under the capability
      R("r0", "x", 0, NoParent, "w1", "w2", "read", 0, 3),
      R("r1", "x", 1, "r0", "w2", "w3", "read", 1, 3),
      R("r2", "x", 2, "r1", "w3", "w1", "read", 1, 2),
      R("c1", "x", 1, "cap", "w1", "w2", "read", 1, 4),
      R("c2", "x", 2, "c1", "w2", "w3", "read", 2, 4),
      R("q0", "y", 0, NoParent, "w3", "w1", "write", 2, 4),
      \* hops that ask for more: time, scope, depth, an empty window
      R("r1", "x", 1, "r0", "w2", "w3", "read", 1, 4),
      R("r1", "x", 1, "r0", "w2", "w3", "write", 1, 3),
      R("r1", "x", 1, "c1", "w2", "w3", "read", 2, 4),
      R("r3", "x", 1, "r1", "w3", "w1", "read", 1, 3),
      R("r4", "x", 1, "r3", "w1", "w2", "read", 1, 3),
      R("r5", "x", 3, "r2", "w1", "w2", "read", 1, 2),
      R("r6", "x", 1, "r0", "w2", "w3", "read", 1, 1),
      \* a hop that names another chain
      R("z1", "y", 1, "r0", "w2", "w1", "read", 0, 2) }

-----------------------------------------------------------------------------
K(s, seq, jti, parent, iat, exp) ==
    [session_id |-> s, seq |-> seq, jti |-> jti, parent_jti |-> parent,
     sub |-> "client", aud |-> "server", scope |-> "stream",
     iat |-> iat, nbf |-> iat, exp |-> exp, flaw |-> "none"]

\* An honest chain, and tokens that differ from it in one respect.
MCTokens ==
    {K("s", 0, "a", NoJti, 0, 1), K("s", 1, "b", "a", 1, 2), K("s", 2, "c", "b", 2, 3),
     K("s", 3, "d", "c", 3, 5),                    \* beyond the lifetime
     K("s", 1, "e", "a", 0, 2),                    \* a second first resume
     K("s", 2, "f", "a", 1, 2),                    \* a skip
     K("s", 1, "h", "a", 0, 4), K("s", 1, "i", "a", 3, 2),      \* too long, reversed
     K("t", 0, "j", NoJti, 0, 0), K("t", 1, "b", "a", 1, 2),
     K("s", 1, "k", NoJti, 0, 2),
     [K("s", 1, "l", "a", 1, 2) EXCEPT !.sub = "other"],
     [K("s", 1, "m", "a", 1, 2) EXCEPT !.aud = "other"],
     [K("s", 1, "n", "a", 1, 2) EXCEPT !.scope = "other"]}
    \cup {[K("s", 1, "o", "a", 1, 2) EXCEPT !.flaw = f] :
            f \in {"malformed", "unknown_issuer", "bad_key", "signature"}}

-----------------------------------------------------------------------------
\* Two tasks under one capability, of which the second was authorized under
\* the later epoch and has the stricter policy.
MCExp == [t \in Tasks |-> 2]
MCJti == [t \in Tasks |-> "j"]
MCPolicy ==
    [t \in Tasks |->
        IF t = "t1"
          THEN [expected_epoch |-> "e1", on_expired |-> "downgrade",
                on_revoked |-> "abort", on_epoch |-> "downgrade"]
          ELSE [expected_epoch |-> "e2", on_expired |-> "abort",
                on_revoked |-> "downgrade", on_epoch |-> "abort"]]

-----------------------------------------------------------------------------
Is(scope, ttl) ==
    [kind |-> "issue", sub |-> "w1", aud |-> "w2", scope |-> scope, ttl |-> ttl]

In(tool, context) ==
    [kind |-> "policy", sub |-> "w1", action |-> "invoke_tool", resource |-> tool,
     context |-> context]

Ad(sub, version) == [kind |-> "admission", sub |-> sub, version |-> version]

\* Tokens no longer than the skew, within and beyond the policy's maximum; both
\* kinds of tool, with and without the step-up; a node to admit and one not to.
MCCalls ==
    { Is("read", 1), Is("read", 2), Is("read", 3), [kind |-> "verify", sub |-> "w1"],
      In("read_file", [caller |-> "alice"]), In("exec_sql", [caller |-> "alice"]),
      In("exec_sql", [caller |-> "alice", step_up |-> "true"]),
      Ad("w1", "v0"), Ad("w1", "v1") }

MCGrants == {[sub |-> "w1", aud |-> "w2", scope |-> "read"]}
MCLowRiskTools == <<"read_file">>
MCStepUpTools == <<"exec_sql">>
MCThreshold == [repeated_validation_failure |-> 2, abnormal_issuance_volume |-> 3]

-----------------------------------------------------------------------------
sessionVars == <<chain, last>>
checkpointVars == <<revoked, epoch, pc, current, active, verdict, done, doomed>>

decisionVars == <<calling, number, at, stamp, decisions, log, answer, bucket, since,
                  faults>>
fileVars == <<lines, revoking, revokedIds, asking, owed, told, broken, revocations>>

\* The capabilities of the tasks end at 2, with the skew at 3.
CheckpointHorizon == 4

MCInit ==
    /\ Init /\ S!Init /\ C!Init /\ A!Init /\ L!Init
    /\ focus \in {"delegation", "session", "checkpoint", "decision", "file"}

MCNext ==
    /\ UNCHANGED focus
    /\ \/ /\ focus = "delegation" /\ Next
          /\ UNCHANGED <<sessionVars, checkpointVars, decisionVars, fileVars>>
       \/ /\ focus = "session" /\ S!Next
          /\ UNCHANGED <<verified, checkpointVars, decisionVars, fileVars>>
       \/ /\ focus = "checkpoint" /\ C!Next /\ clock' <= CheckpointHorizon
          /\ UNCHANGED <<verified, sessionVars, decisionVars, fileVars>>
       \/ /\ focus = "decision" /\ A!Next
          /\ UNCHANGED <<verified, sessionVars, checkpointVars, fileVars>>
       \/ /\ focus = "file" /\ L!Next
          /\ UNCHANGED <<vars, sessionVars, checkpointVars, decisionVars>>

MCSpec ==
    MCInit /\ [][MCNext]_<<focus, vars, sessionVars, checkpointVars, decisionVars,
                          fileVars>>

\* The properties of the instances.
ChainStrict == S!ChainStrict
CommitsAuthorized == C!CommitsAuthorized
AnswersOnRecord == A!AnswersOnRecord
NoBurstMissed == A!NoBurstMissed
RevocationStands == L!RevocationStands

\* Threads that decide are interchangeable.
ThreadSymmetry == Permutations(Thread)

=============================================================================
