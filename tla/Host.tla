-------------------------------- MODULE Host --------------------------------
(***************************************************************************)
(* ExampleMCPHost.handle of integrations/mcp/host.py: envelope             *)
(* verification, rate limit, tool gate, the tool, the egress gate and the  *)
(* reply, one request after the other.  Each stage ends with an audit      *)
(* event, and a sink that raises there is an exception of handle.          *)
(*                                                                         *)
(* verify_envelope is one step here (EnvelopeVerifier opens it up): a      *)
(* request is `genuine` if the signature and everything else that depends  *)
(* neither on time nor on the stores is in order; then its time, the       *)
(* revocation list and its nonce decide.                                   *)
(***************************************************************************)
EXTENDS ToolGate, FiniteSets

CONSTANTS
    Identity, EffectiveLimit, Window, MaxBucket,    \* the rate limiter's
    Requests,       \* the envelopes that may arrive, with their step-up
    Tools,          \* the registered tools
    OutputOf,       \* OutputOf[tool]: [kind, risk], what it returns, and the
                    \* risk that scan() finds in it
    EgressAllows,   \* the risks for which the egress policy answers ALLOW
    NoRequest,
    MaxClockSkew,
    MaxTime, MaxRequests, MaxSinkFailures   \* bounds

ASSUME HostAssumption ==
    /\ \A r \in Requests :
         /\ r.sender \in Identity /\ r.exp \in Nat
         /\ r.step_up = NoStepUp \/ r.step_up.exp \in Int
    /\ \A t \in Tools : OutputOf[t].kind \in {"value", "none", "exception"}
    /\ NoRequest \notin Requests
    /\ MaxClockSkew \in Nat /\ MaxRequests \in Nat /\ MaxSinkFailures \in Nat

VARIABLES
    clock,
    revoked,                    \* the revocation list
    until,                      \* until[n]: the replay cache, end of reservation
    bucket, granted,            \* the rate limiter
    pc,         \* the stage handle is at, "idle" between requests
    req,        \* the request
    reason,     \* the reason of the error reply, "ok" while there is none
    log,        \* the audit events of this request: <<stage, allow>>
    outcome,    \* how the last request ended: "result", "error" or "raised"
    executed,   \* history: [req, at] of the tool executions, in order
    served,     \* history: requests received
    failures    \* history: failures of the sink

limiter == <<bucket, granted>>
vars == <<clock, revoked, until, limiter, pc, req, reason, log, outcome,
          executed, served, failures>>

Limiter == INSTANCE RateLimiter

Nonces == {r.nonce : r \in Requests}

Init ==
    /\ clock = 0
    /\ revoked = {}
    /\ until = [n \in Nonces |-> -1]
    /\ Limiter!InitLimiter
    /\ pc = "idle"
    /\ req = NoRequest
    /\ reason = "ok"
    /\ log = <<>>
    /\ outcome = "none"
    /\ executed = <<>>
    /\ served = 0
    /\ failures = 0

-----------------------------------------------------------------------------
\* An audit event that is recorded.
Record(stage, allow) ==
    /\ log' = Append(log, <<stage, allow>>)
    /\ UNCHANGED failures

\* The sink raises.
SinkFails ==
    /\ failures < MaxSinkFailures
    /\ failures' = failures + 1
    /\ UNCHANGED log

\* handle is left by an exception.
Raise ==
    /\ pc' = "idle" /\ outcome' = "raised"
    /\ UNCHANGED reason

\* Go on to the next stage, or to the error reply.
Proceed(stage, why) ==
    /\ pc' = (IF why = "ok" THEN stage ELSE "error")
    /\ reason' = why
    /\ UNCHANGED outcome

\* _emit of an event of this host: if the sink raises, handle raises.
EmitAndProceed(event, why, stage) ==
    \/ Record(event, why = "ok") /\ Proceed(stage, why)
    \/ SinkFails /\ Raise

\* handle is called.
Receive(r) ==
    /\ pc = "idle" /\ served < MaxRequests
    /\ pc' = "verify" /\ req' = r /\ reason' = "ok" /\ log' = <<>>
    /\ outcome' = "none" /\ served' = served + 1
    /\ UNCHANGED <<clock, revoked, until, limiter, executed, failures>>

\* verify_envelope.
VerifyChecks(r) ==
    << <<~r.genuine, "signature_invalid">>,
       <<clock > r.exp + MaxClockSkew, "envelope_expired">>,
       <<r.jti \in revoked, "capability_revoked">>,
       <<until[r.nonce] > clock, "replay_detected">> >>

\* Mutant of Verify: the nonce is reserved before the envelope is checked.
VerifyReservesFirst ==
    /\ pc = "verify"
    /\ LET why == FirstFailure(VerifyChecks(req))
       IN  /\ until' = [until EXCEPT ![req.nonce] = req.exp]
           /\ \/ Record("envelope", why = "ok") /\ Proceed("limit", why)
              \/ SinkFails /\ Proceed("limit", "audit_sink_failure")
    /\ UNCHANGED <<clock, revoked, limiter, req, executed, served>>

\* Step 1.  verify_envelope records its own event and turns a failing sink
\* into a denial; the nonce is reserved before that.
Verify ==
    /\ pc = "verify"
    /\ LET why == FirstFailure(VerifyChecks(req))
       IN  /\ until' = (IF why = "ok" THEN [until EXCEPT ![req.nonce] = req.exp] ELSE until)
           /\ \/ Record("envelope", why = "ok") /\ Proceed("limit", why)
              \/ SinkFails /\ Proceed("limit", "audit_sink_failure")
    /\ UNCHANGED <<clock, revoked, limiter, req, executed, served>>

\* Step 1b: the authenticated sender is charged, whatever comes next.
Limit ==
    /\ pc = "limit"
    /\ Limiter!Check(req.sender)
    /\ LET b == Limiter!Recorded(bucket[req.sender], clock)
           why == IF Limiter!Allowed(req.sender, b) THEN "ok" ELSE "rate_limited"
       IN  EmitAndProceed("rate_limit", why, "unwrap")
    /\ UNCHANGED <<clock, revoked, until, req, executed, served>>

\* Step 2: the payload must be a JSON-RPC request.
Unwrap ==
    /\ pc = "unwrap"
    /\ Proceed("gate", IF req.rpc THEN "ok" ELSE "invalid_request")
    /\ UNCHANGED <<clock, revoked, until, limiter, req, log, executed, served, failures>>

Call(r) == [tool |-> r.tool, caller |-> r.sender, args |-> r.args]

\* Step 3: _tool_gate.
ToolGateStage ==
    /\ pc = "gate"
    /\ LET why == GateReason(Call(req), req.step_up, clock)
       IN  IF why = "invalid_public_key"
             THEN Raise /\ UNCHANGED <<log, failures>>
             ELSE EmitAndProceed("tool_gate", why, "tool")
    /\ UNCHANGED <<clock, revoked, until, limiter, req, executed, served>>

\* Step 4: the tool runs, with its side effects, if it is registered.
RunTool ==
    /\ pc = "tool"
    /\ IF req.tool \notin Tools
         THEN Proceed("egress", "tool_not_registered") /\ UNCHANGED executed
         ELSE /\ executed' = Append(executed, [req |-> req, at |-> clock])
              /\ Proceed("egress",
                   IF OutputOf[req.tool].kind = "exception" THEN "tool_exception" ELSE "ok")
    /\ UNCHANGED <<clock, revoked, until, limiter, req, log, served, failures>>

\* Step 5: the result is scanned and the egress policy asked.
Egress ==
    /\ pc = "egress"
    /\ EmitAndProceed("egress",
         IF OutputOf[req.tool].risk \in EgressAllows THEN "ok" ELSE "egress_denied", "reply")
    /\ UNCHANGED <<clock, revoked, until, limiter, req, executed, served>>

\* Step 6: the signed reply.  MCPResponse raises when the tool returned None:
\* it then has neither a result nor an error.
Reply ==
    /\ pc = "reply"
    /\ IF OutputOf[req.tool].kind = "none" THEN Raise
       ELSE pc' = "idle" /\ outcome' = "result" /\ UNCHANGED reason
    /\ UNCHANGED <<clock, revoked, until, limiter, req, log, executed, served, failures>>

\* _error_reply records host.deny and builds the signed error.
ErrorReply ==
    /\ pc = "error"
    /\ \/ Record("host_deny", FALSE) /\ pc' = "idle" /\ outcome' = "error" /\ UNCHANGED reason
       \/ SinkFails /\ Raise
    /\ UNCHANGED <<clock, revoked, until, limiter, req, executed, served>>

Tick ==
    /\ clock < MaxTime
    /\ clock' = clock + 1
    /\ pc = "idle"      \* handle reads the clock once, when it is called
    /\ UNCHANGED <<revoked, until, limiter, pc, req, reason, log, outcome, executed, served, failures>>

\* The operator appends to the revocation list, while a request is handled or
\* between two.
Revoke(j) ==
    /\ j \notin revoked /\ revoked' = revoked \cup {j}
    /\ UNCHANGED <<clock, until, limiter, pc, req, reason, log, outcome, executed, served, failures>>

Next ==
    \/ \E r \in Requests : Receive(r) \/ Revoke(r.jti)
    \/ Verify \/ Limit \/ Unwrap \/ ToolGateStage \/ RunTool \/ Egress \/ Reply \/ ErrorReply
    \/ Tick

Spec == Init /\ [][Next]_vars

-----------------------------------------------------------------------------
(* Properties *)

Ran == executed # <<>> /\ executed[Len(executed)].req = req /\ pc \in {"egress", "reply"}

\* A tool runs only after every gate before it said yes and its yes is in the
\* audit log; for a tool that needs a step-up, the attestation names this
\* tool, this caller and these arguments and is current.
RunsAuthorized ==
    Ran =>
        /\ SubSeq(log, 1, 3) = <<<<"envelope", TRUE>>, <<"rate_limit", TRUE>>, <<"tool_gate", TRUE>>>>
        /\ req.genuine
        /\ StepUpRequired(req.tool) =>
             /\ req.step_up # NoStepUp
             /\ req.step_up.tool = req.tool /\ req.step_up.caller = req.sender
             /\ req.step_up.args = req.args
             /\ clock <= req.step_up.exp + GateSkew

\* Until it expires an envelope runs its tool at most once, although a failing
\* sink may abort handle at any stage.
ExecutedOnce ==
    \A i, j \in DOMAIN executed :
        (i < j /\ executed[i].req.nonce = executed[j].req.nonce) =>
            executed[j].at >= executed[i].req.exp

\* handle runs a tool for the right call, and not again for the same one.
RunsRightly == RunsAuthorized /\ ExecutedOnce

\* "The limiter runs AFTER the envelope is authenticated": a forged envelope
\* consumes neither the allowance of the sender it names nor its nonce.
ForgeryCostsNothing ==
    [][(bucket' # bucket \/ until' # until) => req.genuine]_vars

=============================================================================
