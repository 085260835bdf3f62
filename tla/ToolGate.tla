------------------------------ MODULE ToolGate ------------------------------
(***************************************************************************)
(* The decision of envelope/tool_policy_gate.py.  A call is a record with  *)
(* tool, caller and args (the digest of the arguments); a step-up          *)
(* attestation names the three and has a window and a `flaw`, what is      *)
(* wrong with its shape, issuer, key or signature.                         *)
(***************************************************************************)
EXTENDS Integers, Checks

CONSTANTS
    Rules,          \* ToolPolicy: tool -> [tier, callers, step_up]; callers {}
                    \* admits everyone, step_up "auto" follows the tier
    NoStepUp,       \* step_up = None
    GateSkew, MaxStepUpTtl

RiskRank == [low |-> 0, medium |-> 1, high |-> 2, critical |-> 3]

ASSUME ToolGateAssumption ==
    /\ \A t \in DOMAIN Rules :
         Rules[t].tier \in DOMAIN RiskRank /\ Rules[t].step_up \in {"auto", "yes", "no"}
    /\ GateSkew \in Nat /\ MaxStepUpTtl \in Nat

\* effective_step_up_required.
StepUpRequired(tool) ==
    \/ Rules[tool].step_up = "yes"
    \/ Rules[tool].step_up = "auto" /\ RiskRank[Rules[tool].tier] >= RiskRank["high"]

\* Mutant of StepUpChecks: the arguments are not bound.
StepUpChecksUnbound(a, call, t) ==
    << <<a.flaw = "malformed", "tool_step_up_malformed">>,
       <<a.tool # call.tool \/ a.caller # call.caller, "tool_step_up_mismatch">>,
       <<a.iat > a.nbf \/ a.nbf > a.exp \/ a.exp - a.nbf > MaxStepUpTtl, "tool_step_up_malformed">>,
       <<t + GateSkew < a.nbf \/ t - GateSkew > a.exp, "tool_step_up_expired">>,
       <<a.flaw = "unknown_issuer", "tool_step_up_unknown_issuer">>,
       <<a.flaw = "bad_key", "invalid_public_key">>,
       <<a.flaw = "signature", "tool_step_up_signature_invalid">> >>

\* verify_step_up.
StepUpChecks(a, call, t) ==
    << <<a.flaw = "malformed", "tool_step_up_malformed">>,
       <<a.tool # call.tool \/ a.caller # call.caller, "tool_step_up_mismatch">>,
       <<a.args # call.args, "tool_step_up_mismatch">>,
       <<a.iat > a.nbf \/ a.nbf > a.exp \/ a.exp - a.nbf > MaxStepUpTtl, "tool_step_up_malformed">>,
       <<t + GateSkew < a.nbf \/ t - GateSkew > a.exp, "tool_step_up_expired">>,
       <<a.flaw = "unknown_issuer", "tool_step_up_unknown_issuer">>,
       <<a.flaw = "bad_key", "invalid_public_key">>,
       <<a.flaw = "signature", "tool_step_up_signature_invalid">> >>

\* evaluate_tool_call without a sink: "ok" or the reason of the denial.
\* "invalid_public_key" is the one that is not returned but raised, because
\* it is an EnvelopeVerificationError and not a StepUpError.
GateReason(call, a, t) ==
    IF call.tool \notin DOMAIN Rules THEN "tool_unknown"
    ELSE IF Rules[call.tool].callers # {} /\ call.caller \notin Rules[call.tool].callers
      THEN "tool_caller_not_allowed"
    ELSE IF ~StepUpRequired(call.tool) THEN "ok"
    ELSE IF a = NoStepUp THEN "tool_step_up_required"
    ELSE FirstFailure(StepUpChecks(a, call, t))

=============================================================================
