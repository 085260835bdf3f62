----------------------------- MODULE NodeProofs -----------------------------
(***************************************************************************)
(* Proofs about the host and the components of one node (MCNode), for      *)
(* every value of their constants: what a tool call that runs has passed,  *)
(* what a forged one leaves behind, that both replay caches keep the       *)
(* contract of mark_if_new, what the audit log on disk is good for, and    *)
(* that the readers of the inbox neither lose a message nor read one twice.*)
(***************************************************************************)
EXTENDS MCNode, Sequences, SequenceTheorems, FiniteSetTheorems,
        WellFoundedInduction, TLAPS

-----------------------------------------------------------------------------
(* Lists of checks *)

\* A set of numbers has a least one.
LEMMA LeastNatural ==
    ASSUME NEW N \in SUBSET Nat, N # {}
    PROVE  \E x \in N : \A y \in N : x <= y
<1>1. PICK x \in N : \A y \in N : ~(<<y, x>> \in OpToRel(<, Nat))
  BY NatLessThanWellFounded, WFMin
<1>2. ASSUME NEW y \in N PROVE x <= y
  <2>1. ~(<<y, x>> \in {ss \in Nat \X Nat : ss[1] < ss[2]}) BY <1>1 DEF OpToRel
  <2>2. ~(y < x) BY <2>1
  <2> QED BY <2>2
<1> QED BY <1>2

\* A list of checks finds nothing only when none fails, and what it reports is
\* the reason of one that does.
LEMMA FirstFailureFails ==
    ASSUME NEW X, NEW a \in Seq(X), \A x \in X : x[1] => x[2] # "ok"
    PROVE  /\ FirstFailure(a) = "ok" => \A i \in 1..Len(a) : ~a[i][1]
           /\ FirstFailure(a) # "ok" =>
                \E i \in 1..Len(a) : a[i][1] /\ a[i][2] = FirstFailure(a)
<1> DEFINE failing == {i \in DOMAIN a : a[i][1]}
           first == CHOOSE i \in failing : \A j \in failing : i <= j
<1>1. FirstFailure(a) = IF failing = {} THEN "ok" ELSE a[first][2] BY DEF FirstFailure
<1>2. DOMAIN a = 1..Len(a) /\ Len(a) \in Nat OBVIOUS
<1>3. failing # {} => first \in failing
  <2> SUFFICES ASSUME failing # {} PROVE first \in failing OBVIOUS
  <2>1. failing \in SUBSET Nat BY <1>2
  <2> HIDE DEF failing
  <2>2. \E i \in failing : \A j \in failing : i <= j BY <2>1, LeastNatural
  <2> QED BY <2>2
<1> HIDE DEF first
<1>4. failing # {} => a[first] \in X /\ a[first][1] /\ first \in 1..Len(a) BY <1>2, <1>3
<1>5. failing # {} => a[first][2] # "ok" BY <1>4
<1>6. failing = {} => \A i \in 1..Len(a) : ~a[i][1] BY <1>2
<1> HIDE DEF failing
<1> QED BY <1>1, <1>4, <1>5, <1>6

-----------------------------------------------------------------------------
(* The host *)

\* What the gate let through with a step-up was attested for this very call.
LEMMA GateAttests ==
    ASSUME NEW call, NEW a, NEW t, GateReason(call, a, t) = "ok", StepUpRequired(call.tool)
    PROVE  /\ a # NoStepUp
           /\ a.tool = call.tool /\ a.caller = call.caller /\ a.args = call.args
           /\ ~(t - GateSkew > a.exp)
<1> DEFINE x1 == <<a.flaw = "malformed", "tool_step_up_malformed">>
           x2 == <<a.tool # call.tool \/ a.caller # call.caller, "tool_step_up_mismatch">>
           x3 == <<a.args # call.args, "tool_step_up_mismatch">>
           x4 == <<a.iat > a.nbf \/ a.nbf > a.exp \/ a.exp - a.nbf > MaxStepUpTtl,
                   "tool_step_up_malformed">>
           x5 == <<t + GateSkew < a.nbf \/ t - GateSkew > a.exp, "tool_step_up_expired">>
           x6 == <<a.flaw = "unknown_issuer", "tool_step_up_unknown_issuer">>
           x7 == <<a.flaw = "bad_key", "invalid_public_key">>
           x8 == <<a.flaw = "signature", "tool_step_up_signature_invalid">>
           c == <<x1, x2, x3, x4, x5, x6, x7, x8>>
           X == {x1, x2, x3, x4, x5, x6, x7, x8}
<1>1. a # NoStepUp /\ FirstFailure(c) = "ok" BY DEF GateReason, StepUpChecks
<1>2. /\ x1[2] # "ok" /\ x2[2] # "ok" /\ x3[2] # "ok" /\ x4[2] # "ok"
      /\ x5[2] # "ok" /\ x6[2] # "ok" /\ x7[2] # "ok" /\ x8[2] # "ok"
  OBVIOUS
<1>3. /\ x2[1] <=> (a.tool # call.tool \/ a.caller # call.caller)
      /\ x3[1] <=> a.args # call.args
      /\ x5[1] <=> (t + GateSkew < a.nbf \/ t - GateSkew > a.exp)
  BY Zenon
<1> HIDE DEF x1, x2, x3, x4, x5, x6, x7, x8
<1>4. c \in Seq(X) /\ Len(c) = 8 OBVIOUS
<1>5. \A x \in X : x[1] => x[2] # "ok" BY <1>2
<1>6. c[2] = x2 /\ c[3] = x3 /\ c[5] = x5 OBVIOUS
<1> HIDE DEF c, X
<1>7. \A i \in 1..8 : ~c[i][1] BY <1>1, <1>4, <1>5, FirstFailureFails
<1>8. ~x2[1] /\ ~x3[1] /\ ~x5[1] BY <1>6, <1>7
<1> QED BY <1>1, <1>3, <1>8

\* What verify_envelope let through is genuine, and its nonce was free.
LEMMA VerifyPasses ==
    ASSUME NEW r, FirstFailure(VerifyChecks(r)) = "ok"
    PROVE  r.genuine /\ ~(until[r.nonce] > clock)
<1> DEFINE x1 == <<~r.genuine, "signature_invalid">>
           x2 == <<clock > r.exp + MaxClockSkew, "envelope_expired">>
           x3 == <<r.jti \in revoked, "capability_revoked">>
           x4 == <<until[r.nonce] > clock, "replay_detected">>
           c == <<x1, x2, x3, x4>>
           X == {x1, x2, x3, x4}
<1>1. FirstFailure(c) = "ok" BY DEF VerifyChecks
<1>2. x1[2] # "ok" /\ x2[2] # "ok" /\ x3[2] # "ok" /\ x4[2] # "ok" OBVIOUS
<1>3. (x1[1] <=> ~r.genuine) /\ (x4[1] <=> until[r.nonce] > clock) BY Zenon
<1> HIDE DEF x1, x2, x3, x4
<1>4. c \in Seq(X) /\ Len(c) = 4 OBVIOUS
<1>5. \A x \in X : x[1] => x[2] # "ok" BY <1>2
<1>6. c[1] = x1 /\ c[4] = x4 OBVIOUS
<1> HIDE DEF c, X
<1>7. \A i \in 1..4 : ~c[i][1] BY <1>1, <1>4, <1>5, FirstFailureFails
<1>8. ~x1[1] /\ ~x4[1] BY <1>6, <1>7
<1> QED BY <1>3, <1>8

Execution == [req : Requests, at : Nat]

Verified == {"limit", "unwrap", "gate", "tool", "egress", "reply"}

HostTypes ==
    /\ clock \in Nat
    /\ pc \in {"idle", "verify", "error"} \cup Verified
    /\ pc # "idle" => req \in Requests
    /\ until \in [Nonces -> Int]
    /\ executed \in Seq(Execution)

Attested ==
    StepUpRequired(req.tool) =>
      /\ req.step_up # NoStepUp
      /\ req.step_up.tool = req.tool /\ req.step_up.caller = req.sender
      /\ req.step_up.args = req.args
      /\ clock <= req.step_up.exp + GateSkew

\* The events of the gates, in their order.
Env == <<"envelope", TRUE>>
Rate == <<"rate_limit", TRUE>>
Gate == <<"tool_gate", TRUE>>
Out == <<"egress", TRUE>>

\* The log holds the first n of them.
Passed(n) ==
    /\ log \in Seq({Env, Rate, Gate, Out}) /\ Len(log) = n
    /\ n >= 1 => log[1] = Env
    /\ n >= 2 => log[2] = Rate
    /\ n >= 3 => log[3] = Gate

\* What has been established, and recorded, at each stage.
Gates ==
    /\ pc \in Verified => req.genuine
    /\ pc = "verify" => Passed(0)
    /\ pc = "limit" => Passed(1)
    /\ pc \in {"unwrap", "gate"} => Passed(2)
    /\ pc \in {"tool", "egress"} => Passed(3)
    /\ pc = "reply" => Passed(4)
    /\ pc \in {"tool", "egress", "reply"} => Attested

LEMMA PassedNext ==
    ASSUME NEW n \in 0..3, Passed(n), NEW e, log' = Append(log, e),
           n = 0 => e = Env, n = 1 => e = Rate, n = 2 => e = Gate, n = 3 => e = Out
    PROVE  Passed(n + 1)'
<1> DEFINE X == {Env, Rate, Gate, Out}
<1>1. e \in X OBVIOUS
<1>2. log \in Seq(X) /\ Len(log) = n BY DEF Passed
<1> HIDE DEF X
<1>3. /\ log' \in Seq(X) /\ Len(log') = n + 1 /\ log'[n + 1] = e
      /\ \A i \in 1..n : log'[i] = log[i]
  BY <1>1, <1>2
<1>4. n + 1 >= 1 => log'[1] = Env BY <1>3 DEF Passed
<1>5. n + 1 >= 2 => log'[2] = Rate BY <1>3 DEF Passed
<1>6. n + 1 >= 3 => log'[3] = Gate BY <1>3 DEF Passed
<1> QED BY <1>3, <1>4, <1>5, <1>6 DEF Passed, X

\* An execution holds its nonce until its envelope expires.
Held ==
    \A i \in DOMAIN executed :
      \/ executed[i].req.exp <= clock
      \/ until[executed[i].req.nonce] >= executed[i].req.exp

\* A verified request has its nonce to itself until its tool runs.
Exclusive ==
    pc \in {"limit", "unwrap", "gate", "tool"} =>
      /\ until[req.nonce] = req.exp
      /\ \A i \in DOMAIN executed : executed[i].req.nonce = req.nonce => executed[i].req.exp <= clock

HostInv == HostTypes /\ Gates /\ Held /\ Exclusive /\ ExecutedOnce

LEMMA HostInit == Init => HostInv
<1> SUFFICES ASSUME Init PROVE HostInv OBVIOUS
<1>1. HostTypes BY DEF Init, HostTypes, Verified
<1>2. Gates BY DEF Init, Gates, Verified
<1>3. Held /\ Exclusive /\ ExecutedOnce BY DEF Init, Held, Exclusive, ExecutedOnce
<1> QED BY <1>1, <1>2, <1>3 DEF HostInv

\* A step that leaves clock, nonces and executions alone and goes to a stage
\* that claims nothing of them.
LEMMA StageKeeps ==
    ASSUME HostInv, UNCHANGED <<clock, until, executed, req>>,
           pc' \in {"idle", "verify", "error"} \cup Verified, pc' # "idle" => req \in Requests,
           pc' \in {"limit", "unwrap", "gate", "tool"} => pc \in {"limit", "unwrap", "gate", "tool"}
    PROVE  HostTypes' /\ Held' /\ Exclusive' /\ ExecutedOnce'
BY DEF HostInv, HostTypes, Held, Exclusive, ExecutedOnce

LEMMA VerifyKeeps == ASSUME HostInv, Verify PROVE HostInv'
<1> DEFINE why == FirstFailure(VerifyChecks(req))
<1>1. /\ pc = "verify" /\ UNCHANGED <<clock, req, executed>>
      /\ until' = IF why = "ok" THEN [until EXCEPT ![req.nonce] = req.exp] ELSE until
      /\ \/ log' = Append(log, <<"envelope", why = "ok">>) /\ pc' = IF why = "ok" THEN "limit" ELSE "error"
         \/ pc' = "error"
  BY DEF Verify, Record, Proceed, SinkFails
<1>2. req \in Requests /\ req.nonce \in Nonces /\ req.exp \in Nat /\ clock \in Nat
  BY <1>1, HostAssumption DEF HostInv, HostTypes, Nonces
<1>3. \A i \in DOMAIN executed : executed[i] \in Execution BY DEF HostInv, HostTypes
<1>4. \A i \in DOMAIN executed : executed[i].req.nonce \in Nonces /\ executed[i].req.exp \in Nat
  BY <1>3, HostAssumption DEF Execution, Nonces
<1>5. CASE why = "ok"
  <2>1. req.genuine /\ ~(until[req.nonce] > clock) BY <1>5, VerifyPasses
  <2>2. until' = [until EXCEPT ![req.nonce] = req.exp] /\ pc' \in {"limit", "error"} BY <1>1, <1>5
  <2>3. HostTypes' BY <1>1, <1>2, <2>2 DEF HostInv, HostTypes, Verified
  <2>4. pc' = "limit" => Passed(1)'
    <3>1. (why = "ok") = TRUE BY <1>5, Zenon
    <3>2. pc' = "limit" => log' = Append(log, Env) BY <1>1, <3>1, Zenon DEF Env
    <3>3. Passed(0) BY <1>1 DEF HostInv, Gates
    <3>4. pc' = "limit" => Passed(0 + 1)' BY <3>2, <3>3, PassedNext
    <3> QED BY <3>4
  <2>5. Gates' BY <1>1, <2>1, <2>2, <2>4 DEF Gates, Verified
  <2>6. \A n \in Nonces : n # req.nonce => until'[n] = until[n] BY <2>2 DEF HostInv, HostTypes
  <2>7. until'[req.nonce] = req.exp BY <1>2, <2>2 DEF HostInv, HostTypes
  <2>8. \A i \in DOMAIN executed :
          executed[i].req.nonce = req.nonce => executed[i].req.exp <= clock
    BY <1>2, <1>4, <2>1 DEF HostInv, HostTypes, Held
  <2>9. Held' BY <1>1, <1>4, <2>6, <2>8 DEF HostInv, Held
  <2>10. Exclusive' BY <1>1, <2>7, <2>8 DEF Exclusive
  <2>11. ExecutedOnce' BY <1>1 DEF HostInv, ExecutedOnce
  <2> QED BY <2>3, <2>5, <2>9, <2>10, <2>11 DEF HostInv
<1>6. CASE why # "ok"
  <2>1. until' = until /\ pc' = "error" BY <1>1, <1>6
  <2>2. HostTypes' /\ Held' /\ Exclusive' /\ ExecutedOnce'
    BY <1>1, <1>2, <2>1, StageKeeps
  <2>3. Gates' BY <2>1 DEF Gates, Verified
  <2> QED BY <2>2, <2>3 DEF HostInv
<1> QED BY <1>5, <1>6

\* The gates that record their own event.
LEMMA EmitKeeps ==
    ASSUME NEW gate, NEW why, NEW stage, EmitAndProceed(gate, why, stage)
    PROVE  \/ why = "ok" /\ pc' = stage /\ log' = Append(log, <<gate, TRUE>>)
           \/ pc' \in {"error", "idle"}
<1>1. CASE why = "ok"
  <2>1. (why = "ok") = TRUE BY <1>1, Zenon
  <2> QED BY <1>1, <2>1, Zenon DEF EmitAndProceed, Record, Proceed, SinkFails, Raise
<1>2. CASE why # "ok"
  BY <1>2 DEF EmitAndProceed, Record, Proceed, SinkFails, Raise
<1> QED BY <1>1, <1>2

LEMMA LimitKeeps == ASSUME HostInv, Limit PROVE HostInv'
<1>1. pc = "limit" /\ UNCHANGED <<clock, until, req, executed>> BY DEF Limit
<1>2. (pc' = "unwrap" /\ log' = Append(log, Rate)) \/ pc' \in {"error", "idle"}
  BY EmitKeeps DEF Limit, Rate
<1>3. HostTypes' /\ Held' /\ Exclusive' /\ ExecutedOnce'
  BY <1>1, <1>2, StageKeeps DEF HostInv, HostTypes, Verified
<1>4. Passed(1) BY <1>1 DEF HostInv, Gates
<1>5. pc' = "unwrap" => Passed(1 + 1)' BY <1>2, <1>4, PassedNext
<1>6. Gates' BY <1>1, <1>2, <1>5 DEF HostInv, Gates, Verified
<1> QED BY <1>3, <1>6 DEF HostInv

LEMMA ToolGateKeeps == ASSUME HostInv, ToolGateStage PROVE HostInv'
<1> DEFINE why == GateReason(Call(req), req.step_up, clock)
<1>1. pc = "gate" /\ UNCHANGED <<clock, until, req, executed>> BY DEF ToolGateStage
<1>2. \/ why = "ok" /\ pc' = "tool" /\ log' = Append(log, Gate)
      \/ pc' \in {"error", "idle"}
  BY EmitKeeps DEF ToolGateStage, Raise, Gate
<1>3. HostTypes' /\ Held' /\ Exclusive' /\ ExecutedOnce'
  BY <1>1, <1>2, StageKeeps DEF HostInv, HostTypes, Verified
<1>4. why = "ok" => Attested
  <2> SUFFICES ASSUME why = "ok", StepUpRequired(req.tool) PROVE
                 /\ req.step_up # NoStepUp
                 /\ req.step_up.tool = req.tool /\ req.step_up.caller = req.sender
                 /\ req.step_up.args = req.args
                 /\ clock <= req.step_up.exp + GateSkew
    BY DEF Attested
  <2>1. /\ Call(req).tool = req.tool /\ Call(req).caller = req.sender
        /\ Call(req).args = req.args
    BY DEF Call
  <2>2. /\ req.step_up # NoStepUp
        /\ req.step_up.tool = req.tool /\ req.step_up.caller = req.sender
        /\ req.step_up.args = req.args
        /\ ~(clock - GateSkew > req.step_up.exp)
    BY <2>1, GateAttests
  <2>3. req \in Requests /\ clock \in Nat BY <1>1 DEF HostInv, HostTypes
  <2>4. req.step_up.exp \in Int /\ GateSkew \in Nat
    BY <2>2, <2>3, HostAssumption, ToolGateAssumption
  <2> QED BY <2>2, <2>3, <2>4
<1>5. Passed(2) BY <1>1 DEF HostInv, Gates
<1>6. pc' = "tool" => Passed(2 + 1)' BY <1>2, <1>5, PassedNext
<1>7. Gates' BY <1>1, <1>2, <1>4, <1>6 DEF HostInv, Gates, Verified, Attested
<1> QED BY <1>3, <1>7 DEF HostInv

LEMMA RunToolKeeps == ASSUME HostInv, RunTool PROVE HostInv'
<1>1. /\ pc = "tool" /\ UNCHANGED <<clock, until, req, log>>
      /\ pc' \in {"egress", "error"}
      /\ \/ executed' = Append(executed, [req |-> req, at |-> clock])
         \/ executed' = executed /\ pc' = "error"
  BY DEF RunTool, Proceed
<1>2. Gates' BY <1>1 DEF HostInv, Gates, Verified, Attested, Passed
<1>3. CASE executed' = executed /\ pc' = "error"
  BY <1>1, <1>2, <1>3, StageKeeps DEF HostInv, HostTypes
<1>4. CASE executed' = Append(executed, [req |-> req, at |-> clock])
  <2> DEFINE x == [req |-> req, at |-> clock]
             n == Len(executed)
  <2>1. req \in Requests /\ clock \in Nat /\ executed \in Seq(Execution)
    BY <1>1 DEF HostInv, HostTypes
  <2>2. x \in Execution /\ x.req = req /\ x.at = clock BY <2>1 DEF Execution
  <2> HIDE DEF x
  <2>3. /\ executed' \in Seq(Execution) /\ n \in Nat
        /\ DOMAIN executed = 1..n /\ DOMAIN executed' = 1..(n + 1)
        /\ executed'[n + 1] = x /\ \A i \in 1..n : executed'[i] = executed[i]
    BY <1>4, <2>1, <2>2 DEF x
  <2> HIDE DEF n
  <2>4. HostTypes' BY <1>1, <2>1, <2>3 DEF HostInv, HostTypes, Verified
  <2>5. Exclusive /\ until[req.nonce] = req.exp BY <1>1 DEF HostInv, Exclusive
  <2>6. req.exp \in Nat BY <2>1, HostAssumption
  <2>7. Held'
    <3> SUFFICES ASSUME NEW i \in 1..(n + 1)
                 PROVE  \/ executed'[i].req.exp <= clock
                        \/ until[executed'[i].req.nonce] >= executed'[i].req.exp
      BY <1>1, <2>3 DEF Held
    <3>1. CASE i = n + 1 BY <2>2, <2>3, <2>5, <2>6, <3>1
    <3>2. CASE i \in 1..n BY <2>3, <3>2 DEF HostInv, Held
    <3> QED BY <2>3, <3>1, <3>2
  <2>8. Exclusive' BY <1>1 DEF Exclusive
  <2>9. ExecutedOnce'
    <3> SUFFICES ASSUME NEW i \in 1..(n + 1), NEW j \in 1..(n + 1), i < j,
                        executed'[i].req.nonce = executed'[j].req.nonce
                 PROVE  executed'[j].at >= executed'[i].req.exp
      BY <2>3 DEF ExecutedOnce
    <3>1. i \in 1..n BY <2>3
    <3>2. CASE j = n + 1
      <4>1. executed[i].req.nonce = req.nonce BY <2>2, <2>3, <3>1, <3>2
      <4>2. executed[i].req.exp <= clock BY <1>1, <2>3, <2>5, <3>1, <4>1 DEF Exclusive
      <4>3. executed[i].req.exp \in Nat
        <5>1. executed[i] \in Execution BY <2>1, <2>3, <3>1
        <5> QED BY <5>1, HostAssumption DEF Execution
      <4> QED BY <2>1, <2>2, <2>3, <3>1, <3>2, <4>2, <4>3
    <3>3. CASE j \in 1..n BY <2>3, <3>1, <3>3 DEF HostInv, ExecutedOnce
    <3> QED BY <2>3, <3>2, <3>3
  <2> QED BY <1>2, <2>4, <2>7, <2>8, <2>9 DEF HostInv
<1> QED BY <1>1, <1>3, <1>4

LEMMA HostNext == HostInv /\ [Next]_vars => HostInv'
<1> SUFFICES ASSUME HostInv, [Next]_vars PROVE HostInv' OBVIOUS
<1> USE DEF HostInv
<1>1. CASE UNCHANGED vars
  BY <1>1 DEF vars, HostTypes, Gates, Held, Exclusive, ExecutedOnce, Attested, Passed
<1>2. ASSUME NEW r \in Requests, Receive(r) PROVE HostInv'
  <2>1. HostTypes' BY <1>2 DEF Receive, HostTypes, Verified
  <2>2. Gates' BY <1>2 DEF Receive, Gates, Verified, Passed
  <2>3. Held' /\ Exclusive' /\ ExecutedOnce' BY <1>2 DEF Receive, Held, Exclusive, ExecutedOnce
  <2> QED BY <2>1, <2>2, <2>3
<1>3. ASSUME NEW j, Revoke(j) PROVE HostInv'
  BY <1>3 DEF Revoke, HostTypes, Gates, Held, Exclusive, ExecutedOnce, Attested, Passed
<1>4. CASE Unwrap
  <2>1. pc = "unwrap" /\ pc' \in {"gate", "error"} /\ UNCHANGED <<clock, until, req, log, executed>>
    BY <1>4 DEF Unwrap, Proceed
  <2>2. HostTypes' /\ Held' /\ Exclusive' /\ ExecutedOnce'
    BY <2>1, StageKeeps DEF HostTypes, Verified
  <2>3. Gates' BY <2>1 DEF Gates, Verified, Passed
  <2> QED BY <2>2, <2>3
<1>5. CASE Egress
  <2>1. pc = "egress" /\ UNCHANGED <<clock, until, req, executed>> BY <1>5 DEF Egress
  <2>2. (pc' = "reply" /\ log' = Append(log, Out)) \/ pc' \in {"error", "idle"}
    BY <1>5, EmitKeeps DEF Egress, Out
  <2>3. HostTypes' /\ Held' /\ Exclusive' /\ ExecutedOnce'
    BY <2>1, <2>2, StageKeeps DEF HostTypes, Verified
  <2>4. Passed(3) BY <2>1 DEF Gates
  <2>5. pc' = "reply" => Passed(3 + 1)' BY <2>2, <2>4, PassedNext
  <2>6. Gates' BY <2>1, <2>2, <2>5 DEF Gates, Verified, Attested
  <2> QED BY <2>3, <2>6
<1>6. CASE Reply
  <2>1. pc = "reply" /\ pc' = "idle" /\ UNCHANGED <<clock, until, req, executed>>
    BY <1>6 DEF Reply, Raise
  <2>2. HostTypes' /\ Held' /\ Exclusive' /\ ExecutedOnce' BY <2>1, StageKeeps
  <2>3. Gates' BY <2>1 DEF Gates, Verified
  <2> QED BY <2>2, <2>3
<1>7. CASE ErrorReply
  <2>1. pc = "error" /\ pc' = "idle" /\ UNCHANGED <<clock, until, req, executed>>
    BY <1>7 DEF ErrorReply, Raise
  <2>2. HostTypes' /\ Held' /\ Exclusive' /\ ExecutedOnce' BY <2>1, StageKeeps
  <2>3. Gates' BY <2>1 DEF Gates, Verified
  <2> QED BY <2>2, <2>3
<1>8. CASE Tick
  <2>1. pc = "idle" /\ pc' = "idle" /\ clock' = clock + 1 /\ UNCHANGED <<until, req, executed>>
    BY <1>8 DEF Tick
  <2>2. HostTypes' BY <2>1 DEF HostTypes
  <2>3. Gates' /\ Exclusive' BY <2>1 DEF Gates, Exclusive, Verified
  <2>4. \A i \in DOMAIN executed : executed[i] \in Execution BY DEF HostTypes
  <2>5. \A i \in DOMAIN executed : executed[i].req.exp \in Nat
    BY <2>4, HostAssumption DEF Execution
  <2>6. Held' BY <2>1, <2>5 DEF HostTypes, Held
  <2>7. ExecutedOnce' BY <2>1 DEF ExecutedOnce
  <2> QED BY <2>2, <2>3, <2>6, <2>7
<1> QED
  BY <1>1, <1>2, <1>3, <1>4, <1>5, <1>6, <1>7, <1>8, VerifyKeeps, LimitKeeps, ToolGateKeeps,
     RunToolKeeps
  DEF Next

\* Although the sink may abort handle at any stage and the operator revokes
\* meanwhile: a tool runs only when the three gates said yes on the record, with
\* a step-up for this very call where one is needed, and at most once for an
\* envelope until it expires (ExampleMCPHost.handle).
THEOREM ToolsRunRightly == Spec => []RunsRightly
<1>1. HostInv => RunsRightly
  <2> SUFFICES ASSUME HostInv PROVE RunsAuthorized BY DEF HostInv, RunsRightly
  <2> SUFFICES ASSUME pc \in {"egress", "reply"}
               PROVE  /\ SubSeq(log, 1, 3) = <<Env, Rate, Gate>>
                      /\ req.genuine /\ Attested
    BY DEF RunsAuthorized, Ran, Attested, Env, Rate, Gate
  <2>1. req.genuine /\ Attested BY DEF HostInv, Gates, Verified
  <2> DEFINE X == {Env, Rate, Gate, Out}
             gates == <<Env, Rate, Gate>>
             three == SubSeq(log, 1, 3)
  <2>2. Passed(3) \/ Passed(4) BY DEF HostInv, Gates
  <2>3. /\ log \in Seq(X) /\ Len(log) \in {3, 4}
        /\ log[1] = Env /\ log[2] = Rate /\ log[3] = Gate
    BY <2>2 DEF Passed
  <2>4. /\ gates \in Seq(X) /\ Len(gates) = 3
        /\ gates[1] = Env /\ gates[2] = Rate /\ gates[3] = Gate
    OBVIOUS
  <2> HIDE DEF X, gates
  <2>5. three \in Seq(X) /\ Len(three) = 3 /\ \A i \in 1..3 : three[i] = log[i] BY <2>3
  <2>6. \A i \in 1..3 : three[i] = gates[i] BY <2>3, <2>4, <2>5
  <2>7. three = gates BY <2>4, <2>5, <2>6, SeqEqual
  <2> QED BY <2>1, <2>7 DEF gates
<1> QED BY <1>1, HostInit, HostNext, PTL DEF Spec

\* A forged envelope never consumes the allowance or the nonce of the sender it
\* names: both are touched only once verify_envelope said yes.
THEOREM ForgeriesCostNothing == Spec => ForgeryCostsNothing
<1>1. ASSUME HostInv, [Next]_vars
      PROVE  [(bucket' # bucket \/ until' # until) => req.genuine]_vars
  <2> SUFFICES ASSUME Next, bucket' # bucket \/ until' # until PROVE req.genuine BY <1>1
  <2>1. Verify \/ Limit
    BY DEF Next, Receive, Revoke, Unwrap, ToolGateStage, RunTool, Egress, Reply, ErrorReply, Tick,
           limiter
  <2>2. CASE Verify
    <3>1. bucket' = bucket BY <2>2 DEF Verify, limiter
    <3>2. FirstFailure(VerifyChecks(req)) = "ok" BY <2>2, <3>1 DEF Verify
    <3> QED BY <3>2, VerifyPasses
  <2>3. CASE Limit BY <1>1, <2>3 DEF Limit, HostInv, Gates, Verified
  <2> QED BY <2>1, <2>2, <2>3
<1> QED BY <1>1, HostInit, HostNext, PTL DEF Spec, ForgeryCostsNothing

-----------------------------------------------------------------------------
(* The replay caches and the contract of mark_if_new *)

\* int() loses less than a second.
LEMMA EpochBounds ==
    ASSUME NEW t \in Nat
    PROVE  R!Epoch(t) \in Nat /\ R!Epoch(t) <= t /\ t < R!Epoch(t) + Second
<1>1. Second \in Nat /\ Second > 0 BY CacheAssumption DEF R!CacheConstants
<1> DEFINE q == t \div Second
<1>2. q \in Int /\ t % Second \in 0..(Second - 1) /\ t = Second * q + (t % Second) BY <1>1
<1>3. q >= 0 BY <1>1
<1>4. R!Epoch(t) = q * Second BY DEF R!Epoch
<1> HIDE DEF q
<1>5. q * Second = Second * q /\ Second * q \in Nat BY <1>1, <1>2, <1>3
<1> QED BY <1>1, <1>2, <1>4, <1>5

Request == [key : Key, ttl : Ttls, start : Nat]

Busy == {"lock", "purge", "insert"}

CacheTypes ==
    /\ time \in Nat /\ time >= StartClock /\ backend \in {"memory", "sqlite"}
    /\ entries \subseteq Key /\ reserved \in [Key -> Nat]
    /\ cachePc \in [Caller -> {"idle", "read_now", "return"} \cup Busy]
    /\ marking \in [Caller -> Request \cup {Idle}]
    /\ now \in [Caller -> Nat]
    /\ DOMAIN marked = Caller

\* What is not in the store has run out, and what is in it was reserved.
StoreTrue ==
    /\ \A k \in Key \ entries : reserved[k] <= time
    /\ \A k \in entries : reserved[k] # 0

\* A call that is under way has its arguments; the time it read is not before
\* it began, and not after the present.
CallsTrue ==
    \A c \in Caller :
      /\ cachePc[c] = "idle" => marking[c] = Idle
      /\ cachePc[c] # "idle" => marking[c] \in Request /\ marking[c].start <= time
      /\ marked[c] = "none" <=> cachePc[c] # "return"
      /\ cachePc[c] \in Busy =>
           StartClock <= now[c] /\ marking[c].start <= now[c] /\ now[c] <= time

CacheInv == CacheTypes /\ StoreTrue /\ CallsTrue

LEMMA RequestsAreNotIdle == Idle \notin Request
BY CacheAssumption DEF R!CacheConstants, Request

\* The purge at t takes only what ran out at t.
LEMMA PurgeKeeps ==
    ASSUME CacheInv, NEW t \in Nat, t <= time,
           entries' = entries \ R!Expired(t), time' = time, reserved' = reserved
    PROVE  entries' \subseteq Key /\ StoreTrue'
<1>1. entries' \subseteq Key BY DEF CacheInv, CacheTypes
<1>2. \A k \in Key : reserved[k] \in Nat /\ time \in Nat BY DEF CacheInv, CacheTypes
<1>3. \A k \in Key \ entries' : k \notin entries \/ reserved[k] <= t BY DEF R!Expired
<1> QED BY <1>1, <1>2, <1>3 DEF CacheInv, StoreTrue

\* What an insertion stores.
LEMMA ExpiryBounds ==
    ASSUME CacheInv, NEW c \in Caller, cachePc[c] = "insert"
    PROVE  LET e == R!Expiry(now[c], marking[c].ttl)
           IN  /\ e \in Nat /\ e # 0 /\ e <= time + marking[c].ttl
               /\ e + R!Rounding >= marking[c].start + marking[c].ttl
               /\ R!Rounding \in Nat
<1> DEFINE n == now[c]
           ttl == marking[c].ttl
           s == marking[c].start
<1>1. marking[c] \in Request BY DEF CacheInv, CallsTrue
<1>2. Second \in Nat /\ Second > 0 /\ StartClock \in Nat /\ StartClock > 2 * Second
      /\ Ttls \subseteq Nat
  BY CacheAssumption DEF R!CacheConstants
<1>3. ttl \in Nat /\ s \in Nat BY <1>1, <1>2 DEF Request
<1>4. n \in Nat /\ time \in Nat /\ StartClock <= n /\ s <= n /\ n <= time
  BY DEF CacheInv, CacheTypes, CallsTrue, Busy
<1> HIDE DEF n, ttl, s
<1>5. CASE backend = "memory"
  <2>1. R!Expiry(n, ttl) = n + ttl /\ R!Rounding = 0 BY <1>5 DEF R!Expiry, R!Rounding
  <2> QED BY <1>2, <1>3, <1>4, <2>1 DEF n, ttl, s
<1>6. CASE backend # "memory"
  <2>1. /\ R!Expiry(n, ttl) = R!Epoch(n) + R!Epoch(ttl) /\ R!Rounding = 2 * (Second - 1)
    BY <1>6 DEF R!Expiry, R!Rounding
  <2>2. /\ R!Epoch(n) \in Nat /\ R!Epoch(n) <= n /\ n < R!Epoch(n) + Second
        /\ R!Epoch(ttl) \in Nat /\ R!Epoch(ttl) <= ttl /\ ttl < R!Epoch(ttl) + Second
    BY <1>3, <1>4, EpochBounds
  <2> QED BY <1>2, <1>3, <1>4, <2>1, <2>2 DEF n, ttl, s
<1> QED BY <1>5, <1>6

LEMMA CacheInit == R!Init => CacheInv
<1> SUFFICES ASSUME R!Init PROVE CacheInv OBVIOUS
<1>1. StartClock \in Nat /\ Backends \subseteq {"memory", "sqlite"}
  BY CacheAssumption DEF R!CacheConstants
<1>2. CacheTypes BY <1>1 DEF R!Init, CacheTypes
<1>3. StoreTrue BY <1>1 DEF R!Init, StoreTrue
<1>4. CallsTrue BY DEF R!Init, CallsTrue, Busy
<1> QED BY <1>2, <1>3, <1>4 DEF CacheInv

LEMMA CacheNext == CacheInv /\ [R!Next]_(R!vars) => CacheInv'
<1> SUFFICES ASSUME CacheInv, [R!Next]_(R!vars) PROVE CacheInv' OBVIOUS
<1> USE DEF CacheInv
<1>0. StartClock \in Nat BY CacheAssumption DEF R!CacheConstants
<1>1. CASE UNCHANGED R!vars
  BY <1>1 DEF R!vars, CacheTypes, StoreTrue, CallsTrue
<1>2. CASE R!Tick
  <2>1. CacheTypes' BY <1>0, <1>2 DEF R!Tick, CacheTypes
  <2>2. StoreTrue' BY <1>2 DEF R!Tick, CacheTypes, StoreTrue
  <2>3. \A c \in Caller : marking[c] \in Request => marking[c].start \in Nat BY DEF Request
  <2>4. CallsTrue' BY <1>2, <2>3 DEF R!Tick, CacheTypes, CallsTrue
  <2> QED BY <2>1, <2>2, <2>4
<1>3. CASE R!Seen
  <2>1. PICK t \in StartClock..time : entries' = entries \ R!Expired(t) BY <1>3 DEF R!Seen
  <2>2. t \in Nat /\ t <= time BY <1>0, <2>1 DEF CacheTypes
  <2>3. entries' \subseteq Key /\ StoreTrue'
    BY <1>3, <2>1, <2>2, PurgeKeeps DEF R!Seen
  <2>4. CacheTypes' BY <1>3, <2>3 DEF R!Seen, CacheTypes
  <2>5. CallsTrue' BY <1>3 DEF R!Seen, CallsTrue
  <2> QED BY <2>3, <2>4, <2>5
<1>4. ASSUME NEW c \in Caller, R!MarkIfNew(c) PROVE CacheInv'
  <2>1. PICK k \in Key, ttl \in Ttls :
          marking' = [marking EXCEPT ![c] = [key |-> k, ttl |-> ttl, start |-> time]]
    BY <1>4 DEF R!MarkIfNew
  <2> DEFINE r == [key |-> k, ttl |-> ttl, start |-> time]
  <2>2. r \in Request /\ r.start <= time BY DEF Request, CacheTypes
  <2> HIDE DEF r
  <2>3. marking' = [marking EXCEPT ![c] = r] BY <2>1 DEF r
  <2>4. CacheTypes' BY <1>4, <2>2, <2>3 DEF R!MarkIfNew, CacheTypes
  <2>5. StoreTrue' BY <1>4 DEF R!MarkIfNew, StoreTrue
  <2>6. CallsTrue' BY <1>4, <2>2, <2>3 DEF R!MarkIfNew, CacheTypes, CallsTrue, Busy
  <2> QED BY <2>4, <2>5, <2>6
<1>5. ASSUME NEW c \in Caller, R!ReadNow(c) PROVE CacheInv'
  <2>1. CacheTypes' BY <1>5 DEF R!ReadNow, CacheTypes, Busy
  <2>2. StoreTrue' BY <1>5 DEF R!ReadNow, StoreTrue
  <2>3. CallsTrue'
    <3>1. marking[c] \in Request /\ marking[c].start <= time BY <1>5 DEF R!ReadNow, CallsTrue
    <3> QED BY <1>0, <1>5, <3>1 DEF R!ReadNow, CacheTypes, CallsTrue, Busy
  <2> QED BY <2>1, <2>2, <2>3
<1>6. ASSUME NEW c \in Caller, R!Acquire(c) PROVE CacheInv'
  <2>1. CacheTypes' BY <1>6 DEF R!Acquire, CacheTypes, Busy
  <2>2. StoreTrue' BY <1>6 DEF R!Acquire, StoreTrue
  <2>3. CallsTrue' BY <1>6 DEF R!Acquire, CacheTypes, CallsTrue, Busy
  <2> QED BY <2>1, <2>2, <2>3
<1>7. ASSUME NEW c \in Caller, R!Purge(c) PROVE CacheInv'
  <2>1. R!PurgeTime(c) \in Nat /\ R!PurgeTime(c) <= time
    BY <1>7, EpochBounds DEF R!Purge, R!PurgeTime, CacheTypes, CallsTrue, Busy
  <2>2. entries' \subseteq Key /\ StoreTrue' BY <1>7, <2>1, PurgeKeeps DEF R!Purge
  <2>3. CacheTypes' BY <1>7, <2>2 DEF R!Purge, CacheTypes, Busy
  <2>4. CallsTrue' BY <1>7 DEF R!Purge, CacheTypes, CallsTrue, Busy
  <2> QED BY <2>2, <2>3, <2>4
<1>8. ASSUME NEW c \in Caller, R!Insert(c) PROVE CacheInv'
  <2> DEFINE k == marking[c].key
             e == R!Expiry(now[c], marking[c].ttl)
  <2>1. k \in Key BY <1>8 DEF R!Insert, CallsTrue, Request
  <2>2. e \in Nat /\ e # 0 BY <1>8, ExpiryBounds DEF R!Insert
  <2>3. \/ k \in entries /\ UNCHANGED <<entries, reserved>>
           /\ marked' = [marked EXCEPT ![c] = "replay"]
        \/ k \notin entries /\ entries' = entries \cup {k}
           /\ reserved' = [reserved EXCEPT ![k] = e]
           /\ marked' = [marked EXCEPT ![c] = "new"]
    BY <1>8 DEF R!Insert
  <2>4. /\ cachePc[c] = "insert" /\ cachePc' = [cachePc EXCEPT ![c] = "return"]
        /\ UNCHANGED <<backend, time, marking, now>>
    BY <1>8 DEF R!Insert
  <2> HIDE DEF k, e
  <2>5. CacheTypes' BY <2>1, <2>2, <2>3, <2>4 DEF CacheTypes
  <2>6. StoreTrue' BY <2>1, <2>2, <2>3, <2>4 DEF CacheTypes, StoreTrue
  <2>7. CallsTrue' BY <2>3, <2>4 DEF CacheTypes, CallsTrue, Busy
  <2> QED BY <2>5, <2>6, <2>7
<1>9. ASSUME NEW c \in Caller, R!DatabaseError(c) PROVE CacheInv'
  <2>1. CacheTypes' BY <1>9 DEF R!DatabaseError, CacheTypes, Busy
  <2>2. StoreTrue' BY <1>9 DEF R!DatabaseError, StoreTrue
  <2>3. CallsTrue' BY <1>9 DEF R!DatabaseError, CacheTypes, CallsTrue, Busy
  <2> QED BY <2>1, <2>2, <2>3
<1>10. ASSUME NEW c \in Caller, R!Return(c) PROVE CacheInv'
  <2>1. CacheTypes' BY <1>10 DEF R!Return, CacheTypes, Busy
  <2>2. StoreTrue' BY <1>10 DEF R!Return, StoreTrue
  <2>3. CallsTrue' BY <1>10 DEF R!Return, CacheTypes, CallsTrue, Busy
  <2> QED BY <2>1, <2>2, <2>3
<1> QED BY <1>1, <1>2, <1>3, <1>4, <1>5, <1>6, <1>7, <1>8, <1>9, <1>10 DEF R!Next

\* A step of the cache is a step of the contract, or one it does not see.
LEMMA CacheStep ==
    ASSUME CacheInv, CacheInv', R!Next
    PROVE  [R!Store!StoreNext]_(R!Store!storeVars)
<1> USE DEF CacheInv
<1>1. CASE R!Tick
  <2>1. R!Store!Advance BY <1>1 DEF R!Tick, R!Store!Advance, R!Rounding
  <2> QED BY <2>1 DEF R!Store!StoreNext
<1>2. CASE R!Seen BY <1>2 DEF R!Seen, R!Store!storeVars, R!Rounding
<1>3. ASSUME NEW c \in Caller, R!MarkIfNew(c) PROVE [R!Store!StoreNext]_(R!Store!storeVars)
  <2>1. R!Store!Invoke(c)
    BY <1>3 DEF R!MarkIfNew, R!Store!Invoke, R!Rounding, CallsTrue
  <2> QED BY <2>1 DEF R!Store!StoreNext
<1>4. ASSUME NEW c \in Caller, R!ReadNow(c) \/ R!Acquire(c) \/ R!Purge(c)
      PROVE  [R!Store!StoreNext]_(R!Store!storeVars)
  BY <1>4 DEF R!ReadNow, R!Acquire, R!Purge, R!Store!storeVars, R!Rounding
<1>5. ASSUME NEW c \in Caller, R!Insert(c) PROVE [R!Store!StoreNext]_(R!Store!storeVars)
  <2> DEFINE k == marking[c].key
             e == R!Expiry(now[c], marking[c].ttl)
  <2>1. cachePc[c] = "insert" BY <1>5 DEF R!Insert
  <2>2. marking[c] \in Request /\ marked[c] = "none" BY <2>1 DEF CallsTrue
  <2>3. k \in Key /\ marking[c] # Idle BY <2>2, RequestsAreNotIdle DEF Request
  <2>4. UNCHANGED <<time, R!Rounding, marking>> BY <1>5 DEF R!Insert, R!Rounding
  <2>5. CASE k \in entries
    <3>1. reserved[k] # 0 BY <2>5 DEF StoreTrue
    <3>2. R!Store!Refuse(c) BY <1>5, <2>2, <2>3, <2>4, <2>5, <3>1 DEF R!Insert, R!Store!Refuse
    <3> QED BY <3>2 DEF R!Store!StoreNext
  <2>6. CASE k \notin entries
    <3>1. reserved[k] <= time BY <2>3, <2>6 DEF StoreTrue
    <3>2. /\ e \in Nat /\ e <= time + marking[c].ttl
          /\ e + R!Rounding >= marking[c].start + marking[c].ttl
      BY <2>1, ExpiryBounds
    <3>3. reserved' = [reserved EXCEPT ![k] = e] /\ marked' = [marked EXCEPT ![c] = "new"]
      BY <1>5, <2>6 DEF R!Insert
    <3>4. marking[c].ttl \in Nat /\ time \in Nat
      BY <2>2, CacheAssumption DEF R!CacheConstants, Request, CacheTypes
    <3> HIDE DEF e
    <3>5. e \in 0..(time + marking[c].ttl) BY <3>2, <3>4
    <3>6. R!Store!Reserve(c)
      BY <2>2, <2>3, <2>4, <3>1, <3>2, <3>3, <3>5 DEF R!Store!Reserve
    <3> QED BY <3>6 DEF R!Store!StoreNext
  <2> QED BY <2>5, <2>6
<1>6. ASSUME NEW c \in Caller, R!DatabaseError(c)
      PROVE  [R!Store!StoreNext]_(R!Store!storeVars)
  <2>1. marking[c] # Idle /\ marked[c] = "none"
    BY <1>6, RequestsAreNotIdle DEF R!DatabaseError, CallsTrue
  <2>2. R!Store!Fail(c) BY <1>6, <2>1 DEF R!DatabaseError, R!Store!Fail, R!Rounding
  <2> QED BY <2>2 DEF R!Store!StoreNext
<1>7. ASSUME NEW c \in Caller, R!Return(c) PROVE [R!Store!StoreNext]_(R!Store!storeVars)
  <2>1. R!Store!Return(c) BY <1>7 DEF R!Return, R!Store!Return, R!Rounding, CallsTrue
  <2> QED BY <2>1 DEF R!Store!StoreNext
<1> QED BY <1>1, <1>2, <1>3, <1>4, <1>5, <1>6, <1>7 DEF R!Next

\* However calls interleave, with purges, failures of the database and each
\* other, both caches implement the contract of mark_if_new: a key is granted
\* again only once its reservation has run out, and a reservation lasts its ttl,
\* less the rounding of the backend (InMemoryReplayCache, SQLiteReplayCache).
THEOREM CachesKeepContract == R!Spec => KeepsContract
<1>1. R!Init => R!Store!StoreInit
  <2> SUFFICES ASSUME R!Init PROVE R!Store!StoreInit OBVIOUS
  <2>1. time \in Nat /\ R!Rounding \in Nat
    BY CacheAssumption DEF R!CacheConstants, R!Init, R!Rounding
  <2> QED BY <2>1 DEF R!Init, R!Store!StoreInit
<1>2. CacheInv /\ CacheInv' /\ [R!Next]_(R!vars) => [R!Store!StoreNext]_(R!Store!storeVars)
  <2>1. ASSUME UNCHANGED R!vars PROVE UNCHANGED R!Store!storeVars
    BY <2>1 DEF R!vars, R!Store!storeVars, R!Rounding
  <2> QED BY <2>1, CacheStep
<1> QED
  BY <1>1, <1>2, CacheInit, CacheNext, PTL
  DEF R!Spec, KeepsContract, R!KeepsContract, R!Store!StoreSpec

-----------------------------------------------------------------------------
(* The audit log *)

\* A sequence, of whatever it may be: hashes are nested without bound.
Sequential(s) == \E X : s \in Seq(X)

LEMMA AppendSequential ==
    ASSUME NEW s, Sequential(s), NEW x
    PROVE  LET r == Append(s, x)
           IN  /\ Sequential(r) /\ Len(s) \in Nat /\ Len(r) = Len(s) + 1
               /\ r[Len(s) + 1] = x /\ \A i \in 1..Len(s) : r[i] = s[i]
<1>1. PICK X : s \in Seq(X) BY DEF Sequential
<1> DEFINE Y == X \cup {x}
<1>2. s \in Seq(Y) /\ x \in Y
  <2>1. Len(s) \in Nat /\ s \in [1..Len(s) -> X] BY <1>1, LenProperties
  <2>2. s \in [1..Len(s) -> Y] BY <2>1
  <2> QED BY <2>1, <2>2, SeqDef
<1> HIDE DEF Y
<1>3. Append(s, x) \in Seq(Y) BY <1>2
<1> QED BY <1>2, <1>3 DEF Sequential

LEMMA ReplaceSequential ==
    ASSUME NEW s, Sequential(s), NEW n \in 1..Len(s), NEW x
    PROVE  LET r == [s EXCEPT ![n] = x]
           IN  /\ Sequential(r) /\ Len(s) \in Nat /\ Len(r) = Len(s)
               /\ r[n] = x /\ \A i \in 1..Len(s) : i # n => r[i] = s[i]
<1>1. PICK X : s \in Seq(X) BY DEF Sequential
<1> DEFINE Y == X \cup {x}
           r == [s EXCEPT ![n] = x]
<1>2. Len(s) \in Nat /\ s \in [1..Len(s) -> X] BY <1>1, LenProperties
<1>3. r \in [1..Len(s) -> Y] BY <1>2
<1>4. r \in Seq(Y) BY <1>2, <1>3, SeqDef
<1>5. Len(r) = Len(s) /\ r[n] = x /\ \A i \in 1..Len(s) : i # n => r[i] = s[i]
  BY <1>2, <1>3, <1>4, LenProperties
<1> QED BY <1>2, <1>4, <1>5 DEF Sequential

Spoilt == Len(auditLog) > 0 /\ auditLog[Len(auditLog)].kind = "garbage"

\* Only the last line may be damaged.
Shape ==
    /\ Sequential(auditLog) /\ Sequential(returned)
    /\ recording \in [Writer -> {"idle", "append"}] /\ DOMAIN event = Writer
    /\ \A i \in 1..Len(auditLog) :
         /\ auditLog[i].kind \in {"event", "unterminated", "garbage"}
         /\ auditLog[i].kind = "event" => auditLog[i] = A!Line(auditLog[i].event)
         /\ i < Len(auditLog) => auditLog[i].kind = "event"

OwnHash(e) == e.this = A!ThisHash(e.prev, e.body)

\* e hangs off the genesis hash or one of the first n lines.
Hangs(file, e, n) ==
    \/ e.prev = A!GenesisPrevHash
    \/ \E j \in 1..n : A!Parses(file[j]) /\ file[j].event.this = e.prev

LinesHang ==
    \A i \in 1..Len(auditLog) : A!Parses(auditLog[i]) =>
      OwnHash(auditLog[i].event) /\ Hangs(auditLog, auditLog[i].event, i - 1)

\* So does the event of a call of record, unless nothing can be appended any more.
PendingHang ==
    \A w \in Writer : recording[w] = "append" =>
      OwnHash(event[w]) /\ (Spoilt \/ Hangs(auditLog, event[w], Len(auditLog)))

\* Without overlap the tail a call read is the tail it appends to,
Alone ==
    ~forked => \A w \in Writer : recording[w] = "append" =>
                 /\ ~Spoilt /\ event[w].prev = A!TailHash(auditLog)
                 /\ \A v \in Writer : recording[v] = "append" => v = w

\* and every line is linked to the one before it.
Linked ==
    ~forked => \A i \in 1..Len(auditLog) : A!Parses(auditLog[i]) =>
                 auditLog[i].event.prev =
                   IF i = 1 THEN A!GenesisPrevHash ELSE auditLog[i - 1].event.this

\* The whole lines are the first events that record returned, in their order; all
\* of them, unless the last line is spoilt, and without overlap all but one then.
InOrder ==
    /\ \A i \in 1..Len(auditLog) : auditLog[i].kind = "event" =>
         i <= Len(returned) /\ auditLog[i].event = returned[i]
    /\ ~Spoilt => Len(returned) =
         (IF Len(auditLog) > 0 /\ auditLog[Len(auditLog)].kind = "unterminated"
            THEN Len(auditLog) - 1 ELSE Len(auditLog))
    /\ Spoilt => /\ Len(auditLog) - 1 <= Len(returned)
                  /\ ~forked => Len(returned) <= Len(auditLog)

AuditInv ==
    Shape /\ LinesHang /\ PendingHang /\ Alone /\ Linked /\ InOrder

\* The file takes a line at its end, or is spoilt by it.
LEMMA Extended ==
    ASSUME Shape, NEW line, auditLog' = A!Extend(auditLog, line)
    PROVE  /\ Len(auditLog) \in Nat /\ Sequential(auditLog)'
           /\ \/ /\ Len(auditLog) = 0 \/ auditLog[Len(auditLog)].kind = "event"
                 /\ Len(auditLog') = Len(auditLog) + 1
                 /\ auditLog'[Len(auditLog) + 1] = line
                 /\ \A i \in 1..Len(auditLog) : auditLog'[i] = auditLog[i]
              \/ /\ Len(auditLog) > 0 /\ auditLog[Len(auditLog)].kind # "event"
                 /\ Len(auditLog') = Len(auditLog)
                 /\ auditLog'[Len(auditLog)] = A!Garbage
                 /\ \A i \in 1..Len(auditLog) : i # Len(auditLog) => auditLog'[i] = auditLog[i]
<1>1. Sequential(auditLog) BY DEF Shape
<1>2. Len(auditLog) \in Nat BY <1>1, AppendSequential
<1>3. (auditLog = <<>>) <=> (Len(auditLog) = 0)
  <2>1. PICK X : auditLog \in Seq(X) BY <1>1 DEF Sequential
  <2> QED BY <2>1
<1>4. CASE auditLog = <<>> \/ auditLog[Len(auditLog)].kind = "event"
  <2>1. auditLog' = Append(auditLog, line) BY <1>4 DEF A!Extend
  <2> QED BY <1>1, <1>2, <1>3, <1>4, <2>1, AppendSequential
<1>5. CASE ~(auditLog = <<>> \/ auditLog[Len(auditLog)].kind = "event")
  <2>1. auditLog' = [auditLog EXCEPT ![Len(auditLog)] = A!Garbage] BY <1>5 DEF A!Extend
  <2>2. Len(auditLog) > 0 /\ Len(auditLog) \in 1..Len(auditLog) BY <1>2, <1>3, <1>5
  <2> DEFINE k == Len(auditLog)
             r == [auditLog EXCEPT ![k] = A!Garbage]
  <2>3. /\ Sequential(r) /\ Len(r) = Len(auditLog) /\ r[k] = A!Garbage
        /\ \A i \in 1..Len(auditLog) : i # k => r[i] = auditLog[i]
    BY <1>1, <2>2, ReplaceSequential
  <2>4. auditLog' = r BY <2>1
  <2> HIDE DEF r
  <2>5. /\ Sequential(auditLog') /\ Len(auditLog') = Len(auditLog)
        /\ auditLog'[Len(auditLog)] = A!Garbage
        /\ \A i \in 1..Len(auditLog) : i # Len(auditLog) => auditLog'[i] = auditLog[i]
    BY <2>3, <2>4
  <2> QED BY <1>2, <1>5, <2>2, <2>5
<1> QED BY <1>4, <1>5

LEMMA ReadTailKeeps ==
    ASSUME AuditInv, NEW w \in Writer, A!ReadTail(w) PROVE AuditInv'
<1> USE DEF AuditInv
<1>1. PICK b \in Body :
        event' = [event EXCEPT ![w] = A!BuildEvent(A!TailHash(auditLog), b)]
  BY DEF A!ReadTail
<1> DEFINE e == A!BuildEvent(A!TailHash(auditLog), b)
<1>2. e.prev = A!TailHash(auditLog) /\ OwnHash(e) BY DEF A!BuildEvent, OwnHash
<1> HIDE DEF e
<1>3. /\ recording[w] = "idle" /\ recording' = [recording EXCEPT ![w] = "append"]
      /\ event' = [event EXCEPT ![w] = e]
      /\ forked' = (forked \/ \E v \in Writer : recording[v] # "idle")
      /\ A!TailReadable(auditLog) /\ UNCHANGED <<auditLog, returned>>
  BY <1>1 DEF A!ReadTail, e
<1>4. Sequential(auditLog) /\ Len(auditLog) \in Nat BY AppendSequential DEF Shape
<1>5. (auditLog = <<>>) <=> (Len(auditLog) = 0)
  <2>1. PICK X : auditLog \in Seq(X) BY <1>4 DEF Sequential
  <2> QED BY <2>1
<1>6. Len(auditLog) > 0 => A!Parses(auditLog[Len(auditLog)]) BY <1>3, <1>4 DEF A!TailReadable
<1>7. ~Spoilt BY <1>6 DEF Spoilt, A!Parses
<1>8. Hangs(auditLog, e, Len(auditLog))
  <2>1. CASE Len(auditLog) = 0 BY <1>2, <1>5, <2>1 DEF Hangs, A!TailHash
  <2>2. CASE Len(auditLog) > 0
    <3>1. e.prev = auditLog[Len(auditLog)].event.this BY <1>2, <1>4, <1>5, <2>2 DEF A!TailHash
    <3>2. Len(auditLog) \in 1..Len(auditLog) BY <1>4, <2>2
    <3> QED BY <1>6, <2>2, <3>1, <3>2 DEF Hangs
  <2> QED BY <1>4, <2>1, <2>2
<1>9. Shape' BY <1>3 DEF Shape
<1>10. LinesHang' BY <1>3 DEF LinesHang, Hangs
<1>11. PendingHang' BY <1>2, <1>3, <1>8 DEF Shape, PendingHang, Hangs, Spoilt
<1>12. Alone'
  <2> SUFFICES ASSUME ~forked', NEW u \in Writer, recording'[u] = "append"
               PROVE  /\ ~Spoilt /\ event'[u].prev = A!TailHash(auditLog)
                      /\ \A v \in Writer : recording'[v] = "append" => v = u
    BY <1>3 DEF Alone, Spoilt
  <2>1. \A v \in Writer : recording[v] = "idle" BY <1>3
  <2>2. u = w /\ \A v \in Writer : recording'[v] = "append" => v = w BY <1>3, <2>1 DEF Shape
  <2> QED BY <1>2, <1>3, <1>7, <2>2 DEF Shape
<1>13. ~forked' => ~forked BY <1>3
<1>14. Linked' BY <1>3, <1>13 DEF Linked
<1>15. InOrder' BY <1>3, <1>13 DEF InOrder, Spoilt
<1> QED BY <1>9, <1>10, <1>11, <1>12, <1>14, <1>15

\* A write, whole or not: the line is the event's, without its newline, or
\* garbage.
LEMMA WriteKeeps ==
    ASSUME AuditInv, NEW w \in Writer, recording[w] = "append",
           NEW line, line \in {A!Line(event[w]), A!Unterminated(event[w]), A!Garbage},
           auditLog' = A!Extend(auditLog, line),
           recording' = [recording EXCEPT ![w] = "idle"], UNCHANGED <<event, forked>>,
           \/ line = A!Line(event[w]) /\ returned' = Append(returned, event[w])
           \/ line # A!Line(event[w]) /\ returned' = returned
    PROVE  AuditInv'
<1> USE DEF AuditInv
<1> DEFINE n == Len(auditLog)
           Open == n = 0 \/ auditLog[n].kind = "event"
<1>1. /\ line.kind \in {"event", "unterminated", "garbage"}
      /\ A!Parses(line) => line.event = event[w]
      /\ line.kind = "event" <=> line = A!Line(event[w])
  BY DEF A!Line, A!Unterminated, A!Garbage, A!Parses
<1>2. A!Garbage.kind = "garbage" /\ ~A!Parses(A!Garbage) BY DEF A!Garbage, A!Parses
<1>3. n \in Nat /\ Sequential(auditLog)' BY Extended
<1>4. \/ /\ Open /\ Len(auditLog') = n + 1 /\ auditLog'[n + 1] = line
         /\ \A i \in 1..n : auditLog'[i] = auditLog[i]
      \/ /\ ~Open /\ n > 0 /\ Len(auditLog') = n /\ auditLog'[n] = A!Garbage
         /\ \A i \in 1..n : i # n => auditLog'[i] = auditLog[i]
  BY Extended
<1>5. Sequential(returned) /\ Sequential(returned)' /\ Len(returned) \in Nat
  <2>1. Sequential(returned) /\ Len(returned) \in Nat BY AppendSequential DEF Shape
  <2>2. Sequential(Append(returned, event[w])) BY <2>1, AppendSequential
  <2>3. returned' = returned \/ returned' = Append(returned, event[w]) OBVIOUS
  <2> QED BY <2>1, <2>2, <2>3 DEF Sequential
<1>6. returned' = Append(returned, event[w]) =>
        /\ Len(returned') = Len(returned) + 1 /\ returned'[Len(returned) + 1] = event[w]
        /\ \A i \in 1..Len(returned) : returned'[i] = returned[i]
  BY <1>5, AppendSequential
<1>7. \A i \in 1..n : /\ auditLog[i].kind \in {"event", "unterminated", "garbage"}
                      /\ i < n => auditLog[i].kind = "event"
  BY DEF Shape
<1>8. \A v \in Writer : recording'[v] = "append" => recording[v] = "append" /\ v # w
  BY DEF Shape
<1>9. \A v \in Writer : recording'[v] \in {"idle", "append"} BY DEF Shape
<1>10. recording' \in [Writer -> {"idle", "append"}] /\ DOMAIN event' = Writer BY DEF Shape
<1> HIDE DEF n
<1>11. CASE Open /\ Len(auditLog') = n + 1 /\ auditLog'[n + 1] = line
            /\ \A i \in 1..n : auditLog'[i] = auditLog[i]
  <2>1. Shape'
    <3>1. \A i \in 1..(n + 1) : /\ auditLog'[i].kind \in {"event", "unterminated", "garbage"}
                                /\ i < n + 1 => auditLog'[i].kind = "event"
      BY <1>1, <1>3, <1>7, <1>11
    <3>2. \A i \in 1..(n + 1) : auditLog'[i].kind = "event" =>
            auditLog'[i] = A!Line(auditLog'[i].event)
      <4>1. line.kind = "event" => line = A!Line(line.event) BY <1>1 DEF A!Parses
      <4>2. \A i \in 1..n : auditLog[i].kind = "event" =>
              auditLog[i] = A!Line(auditLog[i].event)
        BY DEF Shape, n
      <4>3. \A i \in 1..(n + 1) : i \in 1..n \/ i = n + 1 BY <1>3
      <4> QED BY <1>11, <4>1, <4>2, <4>3
    <3> QED BY <1>3, <1>5, <1>10, <1>11, <3>1, <3>2 DEF Shape
  <2>2. ~Spoilt BY <1>3, <1>11 DEF Spoilt, n
  <2>3. ASSUME NEW e, NEW m \in 0..n, Hangs(auditLog, e, m) PROVE Hangs(auditLog', e, m)
    BY <1>3, <1>11, <2>3 DEF Hangs
  <2>4. OwnHash(event[w]) /\ Hangs(auditLog, event[w], n) BY <2>2 DEF PendingHang, n
  <2>5. LinesHang'
    <3> SUFFICES ASSUME NEW i \in 1..(n + 1), A!Parses(auditLog'[i])
                 PROVE  OwnHash(auditLog'[i].event) /\ Hangs(auditLog', auditLog'[i].event, i - 1)
      BY <1>11 DEF LinesHang, OwnHash
    <3>1. CASE i = n + 1
      <4>1. auditLog'[i].event = event[w] BY <1>1, <1>11, <3>1
      <4>2. Hangs(auditLog', event[w], n) BY <1>3, <2>3, <2>4
      <4>3. i - 1 = n BY <1>3, <3>1
      <4> QED BY <2>4, <4>1, <4>2, <4>3 DEF Hangs
    <3>2. CASE i \in 1..n
      <4>1. auditLog'[i] = auditLog[i] BY <1>11, <3>2
      <4>2. OwnHash(auditLog[i].event) /\ Hangs(auditLog, auditLog[i].event, i - 1)
        BY <3>2, <4>1 DEF LinesHang, n
      <4>3. i - 1 \in 0..n BY <1>3, <3>2
      <4> QED BY <2>3, <4>1, <4>2, <4>3 DEF Hangs
    <3> QED BY <1>3, <3>1, <3>2
  <2>6. PendingHang'
    <3> SUFFICES ASSUME NEW v \in Writer, recording'[v] = "append"
                 PROVE  OwnHash(event[v]) /\ Hangs(auditLog', event[v], n + 1)
      BY <1>11 DEF PendingHang, OwnHash, Hangs
    <3>1. OwnHash(event[v]) /\ Hangs(auditLog, event[v], n) BY <1>8, <2>2 DEF PendingHang, n
    <3>2. Hangs(auditLog', event[v], n) BY <1>3, <2>3, <3>1
    <3> QED BY <1>3, <3>1, <3>2 DEF Hangs
  <2>7. Alone' BY <1>8 DEF Alone
  <2>8. Linked'
    <3> SUFFICES ASSUME ~forked, NEW i \in 1..(n + 1), A!Parses(auditLog'[i])
                 PROVE  auditLog'[i].event.prev =
                          IF i = 1 THEN A!GenesisPrevHash ELSE auditLog'[i - 1].event.this
      BY <1>11 DEF Linked
    <3>1. CASE i = n + 1
      <4>1. auditLog'[i].event.prev = A!TailHash(auditLog) BY <1>1, <1>11, <3>1 DEF Alone
      <4>2. (auditLog = <<>>) <=> (n = 0)
        <5>1. PICK X : auditLog \in Seq(X) BY DEF Shape, Sequential
        <5> QED BY <5>1 DEF n
      <4>3. n # 0 => auditLog'[i - 1] = auditLog[n] /\ i # 1 BY <1>3, <1>11, <3>1
      <4> QED BY <3>1, <4>1, <4>2, <4>3 DEF A!TailHash, n
    <3>2. CASE i \in 1..n
      <4>1. auditLog'[i] = auditLog[i] /\ (i # 1 => auditLog'[i - 1] = auditLog[i - 1])
        BY <1>3, <1>11, <3>2
      <4> QED BY <3>2, <4>1 DEF Linked, n
    <3> QED BY <1>3, <3>1, <3>2
  <2>9. InOrder'
    <3>1. Len(returned) = n BY <1>3, <1>11, <2>2 DEF InOrder, n
    <3>2. \A i \in 1..n : auditLog'[i].kind = "event" =>
            i <= n /\ auditLog'[i].event = returned[i]
      BY <1>11, <3>1 DEF InOrder, n
    <3>3. n + 1 > 0 /\ \A i \in 1..(n + 1) : i \in 1..n \/ i = n + 1 BY <1>3
    <3>4. CASE line = A!Line(event[w]) /\ returned' = Append(returned, event[w])
      <4>1. auditLog'[n + 1].kind = "event" /\ auditLog'[n + 1].event = event[w]
        BY <1>1, <1>11, <3>4 DEF A!Parses
      <4>2. /\ Len(returned') = n + 1 /\ returned'[n + 1] = event[w]
            /\ \A i \in 1..n : returned'[i] = returned[i]
        BY <1>6, <3>1, <3>4
      <4>3. \A i \in 1..(n + 1) : auditLog'[i].kind = "event" =>
              i <= Len(returned') /\ auditLog'[i].event = returned'[i]
        BY <1>3, <3>2, <3>3, <4>1, <4>2
      <4>4. ~Spoilt' BY <1>11, <4>1 DEF Spoilt
      <4> QED BY <1>11, <4>1, <4>2, <4>3, <4>4 DEF InOrder
    <3>5. CASE line # A!Line(event[w]) /\ returned' = returned
      <4>1. auditLog'[n + 1].kind \in {"unterminated", "garbage"} BY <1>1, <1>11, <3>5
      <4>2. \A i \in 1..(n + 1) : auditLog'[i].kind = "event" =>
              i <= Len(returned') /\ auditLog'[i].event = returned'[i]
        BY <3>1, <3>2, <3>3, <3>5, <4>1
      <4>3. (n + 1) - 1 = n /\ n <= n + 1 /\ n <= n BY <1>3
      <4> QED BY <1>11, <3>1, <3>3, <3>5, <4>1, <4>2, <4>3 DEF InOrder, Spoilt
    <3> QED BY <3>4, <3>5
  <2> QED BY <2>1, <2>5, <2>6, <2>7, <2>8, <2>9
<1>12. CASE ~Open /\ n > 0 /\ Len(auditLog') = n /\ auditLog'[n] = A!Garbage
            /\ \A i \in 1..n : i # n => auditLog'[i] = auditLog[i]
  <2>1. Shape'
    <3>1. \A i \in 1..n : /\ auditLog'[i].kind \in {"event", "unterminated", "garbage"}
                          /\ i < n => auditLog'[i].kind = "event"
      BY <1>2, <1>3, <1>7, <1>12
    <3>2. \A i \in 1..n : auditLog'[i].kind = "event" =>
            auditLog'[i] = A!Line(auditLog'[i].event)
      BY <1>2, <1>12 DEF Shape, n
    <3> QED BY <1>3, <1>5, <1>10, <1>12, <3>1, <3>2 DEF Shape
  <2>2. Spoilt' BY <1>2, <1>12 DEF Spoilt
  <2>3. ASSUME NEW e, NEW m \in 0..(n - 1), Hangs(auditLog, e, m) PROVE Hangs(auditLog', e, m)
    BY <1>3, <1>12, <2>3 DEF Hangs
  <2>4. \A i \in 1..n : A!Parses(auditLog'[i]) => i \in 1..(n - 1) /\ auditLog'[i] = auditLog[i]
    BY <1>2, <1>3, <1>12
  <2>5. LinesHang'
    <3> SUFFICES ASSUME NEW i \in 1..n, A!Parses(auditLog'[i])
                 PROVE  OwnHash(auditLog'[i].event) /\ Hangs(auditLog', auditLog'[i].event, i - 1)
      BY <1>12 DEF LinesHang, OwnHash
    <3>1. i \in 1..(n - 1) /\ auditLog'[i] = auditLog[i] BY <2>4
    <3>2. OwnHash(auditLog[i].event) /\ Hangs(auditLog, auditLog[i].event, i - 1)
      BY <3>1 DEF LinesHang, n
    <3>3. i - 1 \in 0..(n - 1) BY <1>3, <3>1
    <3> QED BY <2>3, <3>1, <3>2, <3>3 DEF Hangs
  <2>6. PendingHang' BY <1>8, <2>2 DEF PendingHang, OwnHash
  <2>7. Alone' BY <1>8 DEF Alone
  <2>8. Linked'
    <3> SUFFICES ASSUME ~forked, NEW i \in 1..n, A!Parses(auditLog'[i])
                 PROVE  auditLog'[i].event.prev =
                          IF i = 1 THEN A!GenesisPrevHash ELSE auditLog'[i - 1].event.this
      BY <1>12 DEF Linked
    <3>1. i \in 1..(n - 1) /\ auditLog'[i] = auditLog[i] BY <2>4
    <3>2. i # 1 => auditLog'[i - 1] = auditLog[i - 1] BY <1>3, <1>12, <3>1
    <3> QED BY <3>1, <3>2 DEF Linked, n
  <2>9. InOrder'
    <3>1. n - 1 <= Len(returned) /\ (Spoilt \/ Len(returned) = n - 1)
      BY <1>3, <1>5, <1>7, <1>12 DEF InOrder, Spoilt, n
    <3>2. ~forked => Len(returned) = n - 1 BY <3>1 DEF Alone
    <3>3. /\ Len(returned') \in {Len(returned), Len(returned) + 1}
          /\ \A i \in 1..Len(returned) : returned'[i] = returned[i]
      BY <1>6
    <3>4. \A i \in 1..n : auditLog'[i].kind = "event" =>
            i <= Len(returned') /\ auditLog'[i].event = returned'[i]
      <4> SUFFICES ASSUME NEW i \in 1..n, auditLog'[i].kind = "event"
                   PROVE  i <= Len(returned') /\ auditLog'[i].event = returned'[i]
        OBVIOUS
      <4>1. i # n /\ auditLog'[i] = auditLog[i] BY <1>2, <1>12
      <4>2. i <= Len(returned) /\ auditLog[i].event = returned[i] BY <4>1 DEF InOrder, n
      <4>3. i \in 1..Len(returned) BY <1>3, <1>5, <4>2
      <4> QED BY <1>3, <1>5, <3>3, <4>1, <4>2, <4>3
    <3>5. n - 1 <= Len(returned') /\ (~forked => Len(returned') <= n)
      BY <1>3, <1>5, <3>1, <3>2, <3>3
    <3> QED BY <1>12, <2>2, <3>4, <3>5 DEF InOrder
  <2> QED BY <2>1, <2>5, <2>6, <2>7, <2>8, <2>9
<1> QED BY <1>4, <1>11, <1>12

\* A write that leaves nothing: the call is over.
LEMMA SilentFailKeeps ==
    ASSUME AuditInv, NEW w \in Writer, recording' = [recording EXCEPT ![w] = "idle"],
           UNCHANGED <<auditLog, event, forked, returned>>
    PROVE  AuditInv'
<1> USE DEF AuditInv
<1>1. \A v \in Writer : recording'[v] = "append" => recording[v] = "append" BY DEF Shape
<1>2. Shape' BY DEF Shape
<1>3. LinesHang' /\ Linked' /\ InOrder' BY DEF LinesHang, Hangs, OwnHash, Linked, InOrder, Spoilt
<1>4. PendingHang' BY <1>1 DEF PendingHang, Hangs, OwnHash, Spoilt
<1>5. Alone' BY <1>1 DEF Alone, Spoilt
<1> QED BY <1>2, <1>3, <1>4, <1>5

LEMMA AuditNext == AuditInv /\ [A!Next]_(A!vars) => AuditInv'
<1> SUFFICES ASSUME AuditInv, [A!Next]_(A!vars) PROVE AuditInv' OBVIOUS
<1>1. CASE UNCHANGED A!vars
  <2>1. UNCHANGED <<auditLog, recording, event, forked, returned>> BY <1>1 DEF A!vars
  <2> QED BY <2>1 DEF AuditInv, Shape, LinesHang, PendingHang, Alone, Linked, InOrder,
                      Spoilt, Hangs, OwnHash
<1>2. ASSUME NEW w \in Writer, A!AppendEvent(w) PROVE AuditInv'
  BY <1>2, WriteKeeps DEF A!AppendEvent
<1>3. ASSUME NEW w \in Writer, A!AppendFails(w) PROVE AuditInv'
  <2>1. CASE auditLog' = auditLog BY <1>3, <2>1, SilentFailKeeps DEF A!AppendFails
  <2>2. ASSUME NEW line \in {A!Garbage, A!Unterminated(event[w])},
               auditLog' = A!Extend(auditLog, line)
        PROVE  AuditInv'
    <3>1. line.kind # "event" BY DEF A!Garbage, A!Unterminated
    <3>2. A!Line(event[w]).kind = "event" BY DEF A!Line
    <3>3. line # A!Line(event[w]) BY <3>1, <3>2
    <3> QED BY <1>3, <2>2, <3>3, WriteKeeps DEF A!AppendFails
  <2> QED BY <1>3, <2>1, <2>2 DEF A!AppendFails
<1> QED BY <1>1, <1>2, <1>3, ReadTailKeeps DEF A!Next

LEMMA AuditInit == A!Init => AuditInv
<1> SUFFICES ASSUME A!Init PROVE AuditInv OBVIOUS
<1>1. auditLog \in Seq({}) /\ returned \in Seq({}) /\ Len(auditLog) = 0 /\ Len(returned) = 0
  BY DEF A!Init
<1>2. Shape BY <1>1 DEF A!Init, Shape, Sequential
<1>3. LinesHang /\ Linked BY <1>1 DEF LinesHang, Linked
<1>4. PendingHang /\ Alone BY DEF A!Init, PendingHang, Alone
<1>5. InOrder BY <1>1 DEF InOrder, Spoilt
<1> QED BY <1>2, <1>3, <1>4, <1>5 DEF AuditInv

\* read_all raises exactly if the last line is spoilt; else it yields every line.
LEMMA ReadAllLines ==
    ASSUME Shape
    PROVE  LET n == Len(auditLog)
               events == A!ReadAll(auditLog)
           IN  /\ n \in Nat /\ (A!ReadAllRaises(auditLog) <=> Spoilt)
               /\ Sequential(events) /\ Len(events) = n
               /\ \A i \in 1..n : events[i] = auditLog[i].event
<1> DEFINE n == Len(auditLog)
           events == [i \in 1..n |-> auditLog[i].event]
           X == {events[i] : i \in 1..n}
<1>1. n \in Nat BY AppendSequential DEF Shape
<1>2. ASSUME A!ReadAllRaises(auditLog) PROVE Spoilt
  <2>1. PICK i \in 1..n : ~A!Parses(auditLog[i]) BY <1>2 DEF A!ReadAllRaises
  <2>2. i = n /\ auditLog[i].kind = "garbage" BY <1>1, <2>1 DEF Shape, A!Parses
  <2> QED BY <1>1, <2>1, <2>2 DEF Spoilt
<1>3. ASSUME Spoilt PROVE A!ReadAllRaises(auditLog)
  <2>1. n \in 1..n /\ ~A!Parses(auditLog[n]) BY <1>1, <1>3 DEF Spoilt, A!Parses
  <2> QED BY <2>1 DEF A!ReadAllRaises
<1>4. events \in [1..n -> X] OBVIOUS
<1>5. \A i \in 1..n : events[i] = auditLog[i].event OBVIOUS
<1>6. A!ReadAll(auditLog) = events BY DEF A!ReadAll
<1> HIDE DEF events, X
<1>7. events \in Seq(X) /\ Len(events) = n BY <1>1, <1>4, SeqDef, LenProperties
<1> QED BY <1>1, <1>2, <1>3, <1>5, <1>6, <1>7 DEF Sequential

\* No hash of a chain is the one before it: the first two that were equal would
\* hash equal hashes, and the first hash is not the genesis one.
LEMMA HashesMove ==
    ASSUME NEW events, Len(events) \in Nat, A!VerifyChain(events)
    PROVE  \A i \in 1..Len(events) : events[i].this # events[i].prev
<1> DEFINE bad == {i \in 1..Len(events) : events[i].this = events[i].prev}
<1>1. bad \in SUBSET Nat OBVIOUS
<1>2. bad = {}
  <2> SUFFICES ASSUME bad # {} PROVE FALSE OBVIOUS
  <2>1. PICK i \in bad : \A j \in bad : i <= j BY <1>1, LeastNatural
  <2>2. i \in 1..Len(events) /\ events[i].this = events[i].prev OBVIOUS
  <2>3. events[i].this = <<events[i].prev, events[i].body>>
    BY <2>2 DEF A!VerifyChain, A!ThisHash
  <2>4. CASE i = 1
    <3>1. events[i].prev = <<>> BY <2>2, <2>4 DEF A!VerifyChain, A!GenesisPrevHash
    <3>2. <<>> = <<events[i].prev, events[i].body>> BY <2>2, <2>3, <3>1
    <3> QED BY <3>2
  <2>5. CASE i # 1
    <3>1. i - 1 \in 1..Len(events) BY <2>2, <2>5
    <3>2. events[i].prev = events[i - 1].this BY <2>2, <2>5 DEF A!VerifyChain
    <3>3. events[i - 1].this = <<events[i - 1].prev, events[i - 1].body>>
      BY <3>1 DEF A!VerifyChain, A!ThisHash
    <3>4. <<events[i].prev, events[i].body>> = <<events[i - 1].prev, events[i - 1].body>>
      BY <2>2, <2>3, <3>2, <3>3
    <3>5. events[i].prev = events[i - 1].prev BY <3>4
    <3>6. i - 1 \in bad BY <3>1, <3>2, <3>5
    <3> QED BY <2>1, <2>2, <3>6
  <2> QED BY <2>4, <2>5
<1> QED BY <1>2

\* Deleting, exchanging and changing events shows.
LEMMA TamperingShows ==
    ASSUME NEW events, Sequential(events), A!VerifyChain(events)
    PROVE  /\ \A i \in 1..(Len(events) - 1) :
                /\ ~A!VerifyChain(A!Without(events, i))
                /\ ~A!VerifyChain(A!Exchanged(events, i))
           /\ \A i \in 1..Len(events) : \A b \in Body \ {events[i].body} :
                ~A!VerifyChain([events EXCEPT ![i].body = b])
<1> DEFINE n == Len(events)
<1>1. n \in Nat BY AppendSequential
<1>2. PICK X : events \in Seq(X) BY DEF Sequential
<1>3. DOMAIN events = 1..n BY <1>2
<1>4. \A i \in 1..n : events[i].this # events[i].prev BY <1>1, HashesMove
<1>5. ASSUME NEW i \in 1..(n - 1)
      PROVE  /\ i \in 1..n /\ i + 1 \in 1..n
             /\ events[i + 1].prev = events[i].this
             /\ events[i].prev = IF i = 1 THEN A!GenesisPrevHash ELSE events[i - 1].this
  <2>1. i \in 1..n /\ i + 1 \in 1..n /\ i + 1 # 1 /\ (i + 1) - 1 = i BY <1>1
  <2>2. events[i + 1].prev = IF i + 1 = 1 THEN A!GenesisPrevHash ELSE events[(i + 1) - 1].this
    BY <2>1 DEF A!VerifyChain
  <2> QED BY <2>1, <2>2 DEF A!VerifyChain
<1>6. ASSUME NEW i \in 1..(n - 1) PROVE ~A!VerifyChain(A!Without(events, i))
  <2> DEFINE r == A!Without(events, i)
  <2>1. r = [j \in 1..(n - 1) |-> events[IF j < i THEN j ELSE j + 1]] BY DEF A!Without
  <2> DEFINE Y == {r[j] : j \in 1..(n - 1)}
  <2>2. r \in [1..(n - 1) -> Y] /\ n - 1 \in Nat BY <1>1, <2>1
  <2>3. r[i] = events[i + 1] /\ (i # 1 => i - 1 \in 1..(n - 1) /\ r[i - 1] = events[i - 1])
    BY <1>1, <2>1
  <2> HIDE DEF r, Y
  <2>4. r \in Seq(Y) /\ Len(r) = n - 1 BY <2>2, SeqDef, LenProperties
  <2> SUFFICES ASSUME A!VerifyChain(r) PROVE FALSE BY DEF r
  <2>5. r[i].prev = IF i = 1 THEN A!GenesisPrevHash ELSE r[i - 1].this
    BY <2>4 DEF A!VerifyChain
  <2>6. r[i].prev = events[i].this BY <1>5, <2>3
  <2>7. events[i].this = events[i].prev BY <1>5, <2>3, <2>5, <2>6
  <2> QED BY <1>4, <1>5, <2>7
<1>7. ASSUME NEW i \in 1..(n - 1) PROVE ~A!VerifyChain(A!Exchanged(events, i))
  <2> DEFINE s == [events EXCEPT ![i] = events[i + 1]]
             r == [s EXCEPT ![i + 1] = events[i]]
  <2>1. A!Exchanged(events, i) = r BY DEF A!Exchanged
  <2>2. i \in 1..n /\ i + 1 \in 1..n /\ i # i + 1 BY <1>5, <1>1
  <2>3. /\ Sequential(s) /\ Len(s) = n /\ s[i] = events[i + 1]
        /\ \A j \in 1..n : j # i => s[j] = events[j]
    BY <2>2, ReplaceSequential
  <2> HIDE DEF s
  <2>4. /\ Len(r) = n /\ r[i + 1] = events[i] /\ \A j \in 1..n : j # i + 1 => r[j] = s[j]
    BY <2>2, <2>3, ReplaceSequential
  <2> HIDE DEF r
  <2>5. r[i] = events[i + 1] /\ (i # 1 => i - 1 \in 1..n /\ r[i - 1] = events[i - 1])
    BY <1>1, <2>2, <2>3, <2>4
  <2> SUFFICES ASSUME A!VerifyChain(r) PROVE FALSE BY <2>1
  <2>6. r[i].prev = IF i = 1 THEN A!GenesisPrevHash ELSE r[i - 1].this
    BY <2>2, <2>4 DEF A!VerifyChain
  <2>7. events[i].this = events[i].prev BY <1>5, <2>5, <2>6
  <2> QED BY <1>4, <2>2, <2>7
<1>8. ASSUME NEW i \in 1..n, NEW b \in Body \ {events[i].body}
      PROVE  ~A!VerifyChain([events EXCEPT ![i].body = b])
  <2> DEFINE e == [events[i] EXCEPT !.body = b]
             r == [events EXCEPT ![i] = e]
  <2>1. [events EXCEPT ![i].body = b] = r OBVIOUS
  <2>2. Len(r) = n /\ r[i] = e BY ReplaceSequential
  <2> SUFFICES ASSUME A!VerifyChain(r) PROVE FALSE BY <2>1
  <2> HIDE DEF r
  <2>3. e.this = <<e.prev, e.body>> BY <2>2 DEF A!VerifyChain, A!ThisHash
  <2>4. events[i].this = <<events[i].prev, events[i].body>>
    BY DEF A!VerifyChain, A!ThisHash
  <2> QED BY <2>3, <2>4
<1> QED BY <1>6, <1>7, <1>8

LEMMA AuditTrusted == AuditInv => LogTrustworthy
<1> SUFFICES ASSUME AuditInv PROVE LogTrustworthy OBVIOUS
<1> USE DEF AuditInv
<1> DEFINE n == Len(auditLog)
           events == A!ReadAll(auditLog)
<1>1. /\ n \in Nat /\ (A!ReadAllRaises(auditLog) <=> Spoilt)
      /\ Sequential(events) /\ Len(events) = n
      /\ \A i \in 1..n : events[i] = auditLog[i].event
  BY ReadAllLines
<1>2. Len(returned) \in Nat BY AppendSequential DEF Shape
<1> HIDE DEF events
<1>3. ASSUME Spoilt PROVE A!DamageContained
  <2>1. ~A!TailReadable(auditLog)
    <3>1. n \in 1..n /\ ~A!Parses(auditLog[n]) BY <1>1, <1>3 DEF Spoilt, A!Parses
    <3> QED BY <3>1 DEF A!TailReadable
  <2>2. ASSUME NEW i \in 1..(n - 1)
        PROVE  i <= Len(returned) /\ auditLog[i] = A!Line(returned[i])
    <3>1. i \in 1..n /\ i < n BY <1>1
    <3>2. auditLog[i].kind = "event" BY <3>1 DEF Shape
    <3>3. i <= Len(returned) /\ auditLog[i].event = returned[i] BY <3>1, <3>2 DEF InOrder
    <3>4. auditLog[i] = A!Line(auditLog[i].event) BY <3>1, <3>2 DEF Shape
    <3> QED BY <3>3, <3>4
  <2> QED BY <1>3, <2>1, <2>2 DEF A!DamageContained, InOrder
<1>4. ASSUME ~Spoilt PROVE A!ReadsBack(events)
  <2>1. \A i \in 1..n : A!Parses(auditLog[i]) BY <1>1, <1>4 DEF A!ReadAllRaises
  <2>2. /\ Len(returned) \in {n, n - 1}
        /\ \A i \in 1..Len(returned) : i \in 1..n /\ auditLog[i].kind = "event"
    <3>1. Len(returned) = IF n > 0 /\ auditLog[n].kind = "unterminated" THEN n - 1 ELSE n
      BY <1>4 DEF InOrder
    <3>2. \A i \in 1..n : i < n => auditLog[i].kind = "event" BY DEF Shape
    <3>3. n > 0 => auditLog[n].kind \in {"event", "unterminated"} BY <1>1, <2>1 DEF A!Parses
    <3> QED BY <1>1, <3>1, <3>2, <3>3
  <2>3. \A i \in 1..Len(returned) : events[i] = returned[i] BY <1>1, <2>2 DEF InOrder
  <2>4. A!Anchored(events)
    <3> SUFFICES ASSUME NEW i \in 1..n
                 PROVE  /\ events[i].this = A!ThisHash(events[i].prev, events[i].body)
                        /\ \/ events[i].prev = A!GenesisPrevHash
                           \/ \E j \in 1..(i - 1) : events[j].this = events[i].prev
      BY <1>1 DEF A!Anchored
    <3>1. OwnHash(events[i]) /\ Hangs(auditLog, events[i], i - 1) BY <1>1, <2>1 DEF LinesHang
    <3>2. \A j \in 1..(i - 1) : j \in 1..n BY <1>1
    <3> QED BY <1>1, <3>1, <3>2 DEF OwnHash, Hangs
  <2>5. ~forked => A!VerifyChain(events)
    <3> SUFFICES ASSUME ~forked, NEW i \in 1..n
                 PROVE  /\ events[i].prev =
                             (IF i = 1 THEN A!GenesisPrevHash ELSE events[i - 1].this)
                        /\ events[i].this = A!ThisHash(events[i].prev, events[i].body)
      BY <1>1 DEF A!VerifyChain
    <3>1. i # 1 => i - 1 \in 1..n BY <1>1
    <3> QED BY <1>1, <2>1, <3>1 DEF Linked, LinesHang, OwnHash
  <2> QED BY <1>1, <2>2, <2>3, <2>4, <2>5 DEF A!ReadsBack
<1>5. A!LogSound BY <1>1, <1>3, <1>4 DEF A!LogSound, events
<1>6. A!TamperEvident
  <2> SUFFICES ASSUME ~forked, ~Spoilt
               PROVE  /\ \A i \in 1..(Len(events) - 1) :
                            /\ ~A!VerifyChain(A!Without(events, i))
                            /\ ~A!VerifyChain(A!Exchanged(events, i))
                      /\ \A i \in 1..Len(events) : \A b \in Body \ {events[i].body} :
                            ~A!VerifyChain([events EXCEPT ![i].body = b])
    BY <1>1 DEF A!TamperEvident, events
  <2>1. A!VerifyChain(events) BY <1>4 DEF A!ReadsBack
  <2> QED BY <1>1, <2>1, TamperingShows
<1> QED BY <1>5, <1>6 DEF LogTrustworthy, A!LogTrustworthy

\* Whatever write broke off and wherever it did, a log that read_all can read
\* returns what was recorded, verifies unless calls of record overlapped, and
\* hangs together even then; verify_chain refuses every deletion, exchange or
\* change; and a log it cannot read is damaged in its last line only, and record
\* refuses to write on (AuditSink.record, JsonlAuditSink, verify_chain).
THEOREM LogsTrustworthy == A!Spec => []LogTrustworthy
BY AuditInit, AuditNext, AuditTrusted, PTL DEF A!Spec

-----------------------------------------------------------------------------
(* The inbox *)

InboxLine == [mail : Mail, read : BOOLEAN, parses : BOOLEAN, ended : BOOLEAN]

\* Copies are counted in the natural numbers.
LEMMA CopiesCount ==
    ASSUME NEW ls \in Seq(InboxLine), NEW m
    PROVE  /\ IsFiniteSet(I!Unseen(ls, m)) /\ I!Copies(ls, m) \in Nat
           /\ I!Copies(ls, m) = Cardinality(I!Unseen(ls, m))
<1>1. I!Unseen(ls, m) \subseteq 1..Len(ls) BY DEF I!Unseen
<1>2. IsFiniteSet(1..Len(ls)) BY FS_Interval
<1>3. IsFiniteSet(I!Unseen(ls, m)) BY <1>1, <1>2, FS_Subset
<1>4. I!Copies(ls, m) = Cardinality(I!Unseen(ls, m))
  BY Zenon DEF I!Copies, I!Cardinality, Cardinality
<1> QED BY <1>3, <1>4, FS_CardinalityType

\* What lies in order at the same places counts at most as much.
LEMMA CopiesWithin ==
    ASSUME NEW a \in Seq(InboxLine), NEW b \in Seq(InboxLine), NEW m,
           \A i \in DOMAIN a : I!Unread(a[i]) /\ a[i].mail = m =>
             i \in DOMAIN b /\ I!Unread(b[i]) /\ b[i].mail = m
    PROVE  I!Copies(a, m) <= I!Copies(b, m)
<1>1. I!Unseen(a, m) \subseteq I!Unseen(b, m) BY DEF I!Unseen
<1> QED BY <1>1, CopiesCount, FS_Subset

LEMMA NoCopies ==
    ASSUME NEW a \in Seq(InboxLine), NEW m,
           \A i \in DOMAIN a : ~(I!Unread(a[i]) /\ a[i].mail = m)
    PROVE  I!Copies(a, m) = 0
<1>1. I!Unseen(a, m) = {} BY DEF I!Unseen
<1> QED BY <1>1, CopiesCount, FS_EmptySet

\* Copies of a file that another one was appended to.
LEMMA CopiesConcat ==
    ASSUME NEW a \in Seq(InboxLine), NEW b \in Seq(InboxLine), NEW m
    PROVE  I!Copies(a \o b, m) = I!Copies(a, m) + I!Copies(b, m)
<1> DEFINE inA == I!Unseen(a, m)
           inB == I!Unseen(b, m)
           moved == {i \in (Len(a) + 1)..(Len(a) + Len(b)) : i - Len(a) \in inB}
<1>1. /\ a \o b \in Seq(InboxLine) /\ Len(a \o b) = Len(a) + Len(b)
      /\ \A i \in 1..(Len(a) + Len(b)) :
           (a \o b)[i] = IF i <= Len(a) THEN a[i] ELSE b[i - Len(a)]
  BY ConcatProperties
<1>2. DOMAIN a = 1..Len(a) /\ DOMAIN b = 1..Len(b) /\ Len(a) \in Nat /\ Len(b) \in Nat
  OBVIOUS
<1>3. DOMAIN (a \o b) = 1..(Len(a) + Len(b)) BY <1>1
<1>4. I!Unseen(a \o b, m) = inA \cup moved
  <2>1. ASSUME NEW i PROVE i \in I!Unseen(a \o b, m) <=> i \in inA \cup moved
    <3>1. CASE i \in 1..Len(a)
      <4>1. i \in 1..(Len(a) + Len(b)) /\ i <= Len(a) BY <1>2, <3>1
      <4>2. (a \o b)[i] = a[i] BY <1>1, <4>1
      <4>3. i \notin moved BY <1>2, <3>1
      <4> QED BY <1>2, <1>3, <3>1, <4>1, <4>2, <4>3 DEF I!Unseen
    <3>2. CASE i \in (Len(a) + 1)..(Len(a) + Len(b))
      <4>1. i \in 1..(Len(a) + Len(b)) /\ ~(i <= Len(a)) /\ i - Len(a) \in 1..Len(b)
        BY <1>2, <3>2
      <4>2. (a \o b)[i] = b[i - Len(a)] BY <1>1, <4>1
      <4>3. i \notin inA BY <1>2, <4>1 DEF I!Unseen
      <4> QED BY <1>2, <1>3, <3>2, <4>1, <4>2, <4>3 DEF I!Unseen
    <3>3. CASE i \notin 1..Len(a) /\ i \notin (Len(a) + 1)..(Len(a) + Len(b))
      <4>1. i \notin 1..(Len(a) + Len(b)) BY <1>2, <3>3
      <4> QED BY <1>2, <1>3, <3>3, <4>1 DEF I!Unseen
    <3> QED BY <3>1, <3>2, <3>3
  <2> QED BY <2>1
<1>5. inA \cap moved = {} BY <1>2 DEF I!Unseen
<1>6. Cardinality(moved) = Cardinality(inB) /\ IsFiniteSet(moved)
  <2> DEFINE f == [i \in inB |-> i + Len(a)]
  <2>1. inB \subseteq 1..Len(b) BY <1>2 DEF I!Unseen
  <2> HIDE DEF inB
  <2>2. \A i \in inB : i \in Nat /\ f[i] \in moved BY <1>2, <2>1
  <2>3. \A c \in moved : c - Len(a) \in inB /\ f[c - Len(a)] = c BY <1>2, <2>1
  <2>4. f \in [inB -> moved] BY <2>2
  <2>5. \A i, j \in inB : f[i] = f[j] => i = j BY <1>2, <2>2
  <2>6. f \in Bijection(inB, moved)
    <3>1. f \in Surjection(inB, moved)
      <4>1. \A c \in moved : \E i \in inB : f[i] = c BY <2>3
      <4> QED BY <2>4, <4>1 DEF Surjection
    <3>2. DOMAIN f = inB BY <2>4
    <3> HIDE DEF f
    <3>3. IsInjective(f) BY <2>5, <3>2 DEF IsInjective
    <3> QED BY <2>4, <3>1, <3>3 DEF Bijection, Injection
  <2>7. IsFiniteSet(inB) BY CopiesCount DEF inB
  <2>8. ExistsBijection(inB, moved) BY <2>6 DEF ExistsBijection
  <2> QED BY <2>7, <2>8, FS_Bijection
<1>7. IsFiniteSet(inA) BY CopiesCount
<1>8. Cardinality(inA \cup moved) = Cardinality(inA) + Cardinality(moved)
  <2> HIDE DEF inA, moved
  <2>1. Cardinality(inA \cap moved) = 0 BY <1>5, FS_EmptySet
  <2>2. Cardinality(inA) \in Nat /\ Cardinality(moved) \in Nat BY <1>6, <1>7, FS_CardinalityType
  <2>3. Cardinality(inA \cup moved) = Cardinality(inA) + Cardinality(moved) - Cardinality(inA \cap moved)
    BY <1>6, <1>7, FS_Union
  <2> QED BY <2>1, <2>2, <2>3
<1>9. /\ I!Copies(a \o b, m) = Cardinality(I!Unseen(a \o b, m))
      /\ I!Copies(a, m) = Cardinality(inA) /\ I!Copies(b, m) = Cardinality(inB)
  BY <1>1, CopiesCount
<1> HIDE DEF inA, inB, moved
<1> QED BY <1>4, <1>6, <1>8, <1>9

\* What is appended to a file whose last line is broken loses its first line.
LEMMA WrittenCopies ==
    ASSUME NEW a \in Seq(InboxLine), NEW b \in Seq(InboxLine), NEW m
    PROVE  /\ I!Written(a, b) \in Seq(InboxLine)
           /\ I!Copies(I!Written(a, b), m) <= I!Copies(a, m) + I!Copies(b, m)
           /\ (\A i \in DOMAIN a : a[i].ended) =>
                /\ I!Written(a, b) = a \o b
                /\ I!Copies(I!Written(a, b), m) = I!Copies(a, m) + I!Copies(b, m)
<1>1. CASE I!Written(a, b) = a \o b
  BY <1>1, CopiesConcat, ConcatProperties, CopiesCount
<1>2. CASE I!Written(a, b) # a \o b
  <2> DEFINE front == SubSeq(a, 1, Len(a) - 1)
             x == [Head(b) EXCEPT !.parses = FALSE]
             joined == <<x>> \o Tail(b)
  <2>1. a # <<>> /\ b # <<>> /\ ~I!Last(a).ended BY <1>2 DEF I!Written
  <2>2. I!Written(a, b) = (front \o <<x>>) \o Tail(b)
    BY <1>2, <2>1 DEF I!Written, I!Front
  <2>3. Len(a) \in 1..Len(a) /\ DOMAIN a = 1..Len(a) /\ I!Last(a) = a[Len(a)]
    BY <2>1, EmptySeq DEF I!Last
  <2>4. ~\A i \in DOMAIN a : a[i].ended BY <2>1, <2>3
  <2>5. Head(b) \in InboxLine /\ Tail(b) \in Seq(InboxLine) BY <2>1, HeadTailProperties
  <2>6. x \in InboxLine /\ x.parses = FALSE BY <2>5 DEF InboxLine
  <2> HIDE DEF x
  <2>7. <<x>> \in Seq(InboxLine) /\ Len(<<x>>) = 1 /\ <<x>>[1] = x BY <2>6
  <2>8. front \in Seq(InboxLine) /\ Len(front) = Len(a) - 1
        /\ \A i \in 1..(Len(a) - 1) : front[i] = a[i]
    <3>1. \A i \in 1..(Len(a) - 1) : a[i] \in InboxLine BY <2>3, ElementOfSeq
    <3>2. 1 \in Int /\ Len(a) - 1 \in Int /\ Len(a) \in Nat BY <2>3
    <3>3. /\ front \in Seq(InboxLine)
          /\ Len(front) = IF 1 <= Len(a) - 1 THEN Len(a) - 1 - 1 + 1 ELSE 0
          /\ \A i \in 1..(Len(a) - 1 - 1 + 1) : front[i] = a[1 + i - 1]
      BY <3>1, <3>2, SubSeqProperties
    <3> HIDE DEF front
    <3>4. Len(front) = Len(a) - 1
      <4>1. Len(a) >= 1 BY <2>3, <3>2
      <4>2. CASE 1 <= Len(a) - 1
        <5>1. Len(front) = Len(a) - 1 - 1 + 1 BY <3>3, <4>2, Zenon
        <5>2. Len(a) - 1 - 1 + 1 = Len(a) - 1 BY <3>2
        <5> QED BY <5>1, <5>2, Zenon
      <4>3. CASE ~(1 <= Len(a) - 1)
        <5>1. Len(front) = 0 BY <3>3, <4>3, Zenon
        <5>2. \A n \in Nat : n >= 1 /\ ~(1 <= n - 1) => n - 1 = 0 OBVIOUS
        <5>3. Len(a) - 1 = 0 BY <3>2, <4>1, <4>3, <5>2, Zenon
        <5> QED BY <5>1, <5>3, Zenon
      <4> QED BY <4>2, <4>3
    <3>5. \A i \in 1..(Len(a) - 1) : i \in 1..(Len(a) - 1 - 1 + 1) /\ 1 + i - 1 = i
      BY <3>2
    <3>6. ASSUME NEW i \in 1..(Len(a) - 1) PROVE front[i] = a[i]
      <4>1. front[i] = a[1 + i - 1] BY <3>3, <3>5
      <4> QED BY <3>5, <4>1, Zenon
    <3> QED BY <3>3, <3>4, <3>6
  <2> HIDE DEF front
  <2>9. I!Copies(front, m) <= I!Copies(a, m)
    <3>1. DOMAIN front = 1..(Len(a) - 1) BY <2>8
    <3>2. \A i \in DOMAIN front : i \in DOMAIN a /\ front[i] = a[i] BY <2>3, <2>8, <3>1
    <3> QED BY <2>8, <3>2, CopiesWithin
  <2>10. I!Copies(<<x>>, m) = 0
    <3>1. \A i \in DOMAIN <<x>> : ~I!Unread(<<x>>[i]) BY <2>6, <2>7 DEF I!Unread
    <3> QED BY <2>7, <3>1, NoCopies
  <2>11. I!Copies(Tail(b), m) <= I!Copies(b, m)
    <3>1. <<Head(b)>> \in Seq(InboxLine) BY <2>5
    <3>2. b = <<Head(b)>> \o Tail(b)
      <4> DEFINE c == <<Head(b)>> \o Tail(b)
      <4>1. Len(Tail(b)) = Len(b) - 1 /\ Head(b) = b[1] /\ Len(b) \in Nat /\ Len(b) # 0
        BY <2>1, HeadTailProperties, EmptySeq
      <4>2. \A i \in 1..(Len(b) - 1) : Tail(b)[i] = b[i + 1]
        BY <2>1, <4>1, HeadTailProperties
      <4>3. /\ c \in Seq(InboxLine) /\ Len(c) = Len(<<Head(b)>>) + Len(Tail(b))
            /\ \A i \in 1..(Len(<<Head(b)>>) + Len(Tail(b))) :
                 c[i] = IF i <= Len(<<Head(b)>>) THEN <<Head(b)>>[i]
                        ELSE Tail(b)[i - Len(<<Head(b)>>)]
        BY <2>5, <3>1, ConcatProperties
      <4>4. Len(<<Head(b)>>) = 1 /\ <<Head(b)>>[1] = Head(b) OBVIOUS
      <4> HIDE DEF c
      <4>5. Len(c) = Len(b) BY <4>1, <4>3, <4>4
      <4>6. ASSUME NEW i \in 1..Len(b) PROVE b[i] = c[i]
        <5>1. CASE i = 1 BY <4>1, <4>3, <4>4, <5>1
        <5>2. CASE i # 1
          <6>1. i - 1 \in 1..(Len(b) - 1) /\ (i - 1) + 1 = i /\ ~(i <= 1) /\ i \in 1..(1 + Len(Tail(b)))
            BY <4>1, <5>2
          <6>2. c[i] = Tail(b)[i - 1] BY <4>3, <4>4, <6>1
          <6> QED BY <4>2, <6>1, <6>2
        <5> QED BY <5>1, <5>2
      <4>7. b = c BY <4>3, <4>5, <4>6, SeqEqual
      <4> QED BY <4>7 DEF c
    <3>3. I!Copies(b, m) = I!Copies(<<Head(b)>>, m) + I!Copies(Tail(b), m)
      <4>1. I!Copies(<<Head(b)>> \o Tail(b), m)
              = I!Copies(<<Head(b)>>, m) + I!Copies(Tail(b), m)
        BY <2>5, <3>1, CopiesConcat
      <4> QED BY <3>2, <4>1, Zenon
    <3>4. I!Copies(<<Head(b)>>, m) \in Nat /\ I!Copies(Tail(b), m) \in Nat
      BY <2>5, <3>1, CopiesCount
    <3> QED BY <3>3, <3>4
  <2>12. front \o <<x>> \in Seq(InboxLine) BY <2>7, <2>8, ConcatProperties
  <2>13. /\ I!Written(a, b) \in Seq(InboxLine)
         /\ I!Copies(I!Written(a, b), m) =
              I!Copies(front, m) + I!Copies(<<x>>, m) + I!Copies(Tail(b), m)
    <3> DEFINE y == <<x>>
    <3>1. y \in Seq(InboxLine) BY <2>7
    <3> HIDE DEF y
    <3>2. I!Copies(front \o y, m) = I!Copies(front, m) + I!Copies(y, m)
      BY <2>8, <3>1, CopiesConcat
    <3> DEFINE z == front \o y
    <3>3. z \in Seq(InboxLine) BY <2>12 DEF y
    <3> HIDE DEF z
    <3>4. z \o Tail(b) \in Seq(InboxLine) BY <2>5, <3>3, ConcatProperties
    <3>5. I!Copies(z \o Tail(b), m) = I!Copies(z, m) + I!Copies(Tail(b), m)
      BY <2>5, <3>3, CopiesConcat
    <3> QED BY <2>2, <3>2, <3>4, <3>5 DEF y, z
  <2>14. /\ I!Copies(front, m) \in Nat /\ I!Copies(a, m) \in Nat
         /\ I!Copies(b, m) \in Nat /\ I!Copies(Tail(b), m) \in Nat
    BY <2>5, <2>8, CopiesCount
  <2> QED BY <2>4, <2>9, <2>10, <2>11, <2>13, <2>14
<1> QED BY <1>1, <1>2

LEMMA EndedConcat ==
    ASSUME NEW a \in Seq(InboxLine), NEW b \in Seq(InboxLine),
           \A i \in DOMAIN a : a[i].ended, \A i \in DOMAIN b : b[i].ended
    PROVE  \A i \in DOMAIN (a \o b) : (a \o b)[i].ended
<1>1. /\ a \o b \in Seq(InboxLine) /\ Len(a \o b) = Len(a) + Len(b)
      /\ \A i \in 1..(Len(a) + Len(b)) :
           (a \o b)[i] = IF i <= Len(a) THEN a[i] ELSE b[i - Len(a)]
  BY ConcatProperties
<1>2. DOMAIN a = 1..Len(a) /\ DOMAIN b = 1..Len(b) /\ Len(a) \in Nat /\ Len(b) \in Nat
  OBVIOUS
<1>3. DOMAIN (a \o b) = 1..(Len(a) + Len(b)) BY <1>1
<1>4. \A i \in 1..(Len(a) + Len(b)) :
        /\ i <= Len(a) => i \in 1..Len(a)
        /\ ~(i <= Len(a)) => i - Len(a) \in 1..Len(b)
  BY <1>2
<1> QED BY <1>1, <1>2, <1>3, <1>4

\* What a broken write leaves of lines that parse counts at most as much.
LEMMA RemainsCopies ==
    ASSUME NEW a \in Seq(InboxLine), NEW m, NEW rest \in I!Remains(a),
           \A i \in DOMAIN a : a[i].parses \/ a[i].read
    PROVE  rest \in Seq(InboxLine) /\ I!Copies(rest, m) <= I!Copies(a, m)
<1>1. DOMAIN a = 1..Len(a) /\ Len(a) \in Nat OBVIOUS
<1>2. ASSUME NEW k \in 0..Len(a), NEW b, b = SubSeq(a, 1, k)
      PROVE  /\ b \in Seq(InboxLine) /\ Len(b) = k /\ DOMAIN b = 1..k
             /\ \A i \in 1..k : i \in DOMAIN a /\ b[i] = a[i]
  <2>1. \A i \in 1..k : i \in 1..Len(a) BY <1>1
  <2>2. \A i \in 1..k : a[i] \in InboxLine BY <2>1, ElementOfSeq
  <2>3. k \in Nat /\ 1 \in Int /\ k \in Int BY <1>1
  <2>4. /\ b \in Seq(InboxLine) /\ Len(b) = IF 1 <= k THEN k - 1 + 1 ELSE 0
        /\ \A i \in 1..(k - 1 + 1) : b[i] = a[1 + i - 1]
    BY <1>2, <2>2, <2>3, SubSeqProperties
  <2>5. \A n \in Nat : n = IF 1 <= n THEN n - 1 + 1 ELSE 0 OBVIOUS
  <2>6. Len(b) = k BY <2>3, <2>4, <2>5, Zenon
  <2>7. \A i \in 1..k : i \in 1..(k - 1 + 1) /\ 1 + i - 1 = i BY <2>3
  <2>8. ASSUME NEW i \in 1..k PROVE b[i] = a[i]
    <3>1. b[i] = a[1 + i - 1] BY <2>4, <2>7
    <3> QED BY <2>7, <3>1, Zenon
  <2> QED BY <1>1, <2>1, <2>4, <2>6, <2>8
<1>3. CASE \E k \in 0..Len(a) : rest = SubSeq(a, 1, k)
  <2>1. PICK k \in 0..Len(a) : rest = SubSeq(a, 1, k) BY <1>3
  <2>2. /\ rest \in Seq(InboxLine) /\ DOMAIN rest = 1..k
        /\ \A i \in 1..k : i \in DOMAIN a /\ rest[i] = a[i]
    BY <1>2, <2>1
  <2> QED BY <2>2, CopiesWithin
<1>4. CASE \E k \in 1..Len(a), whole \in BOOLEAN :
             rest = I!Torn(a, k, whole)
  <2>1. PICK k \in 1..Len(a), whole \in BOOLEAN : rest = I!Torn(a, k, whole) BY <1>4
  <2> DEFINE b == SubSeq(a, 1, k - 1)
             x == [a[k] EXCEPT !.parses = whole, !.ended = FALSE]
  <2>2. k - 1 \in 0..Len(a) /\ k \in Nat /\ k - 1 \in Nat BY <1>1
  <2>3. /\ b \in Seq(InboxLine) /\ Len(b) = k - 1
        /\ \A i \in 1..(k - 1) : i \in DOMAIN a /\ b[i] = a[i]
    BY <1>2, <2>2
  <2>4. a[k] \in InboxLine /\ k \in DOMAIN a BY <1>1, ElementOfSeq
  <2>5. x \in InboxLine /\ x.read = a[k].read /\ x.mail = a[k].mail BY <2>4 DEF InboxLine
  <2>6. rest = Append(b, x) BY <2>1 DEF I!Torn
  <2> HIDE DEF b, x
  <2>7. /\ rest \in Seq(InboxLine) /\ Len(rest) = k /\ rest[k] = x
        /\ \A i \in 1..(k - 1) : rest[i] = b[i]
    BY <2>2, <2>3, <2>5, <2>6, AppendProperties
  <2>8. ASSUME NEW i \in DOMAIN rest, I!Unread(rest[i]), rest[i].mail = m
        PROVE  i \in DOMAIN a /\ I!Unread(a[i]) /\ a[i].mail = m
    <3>1. i \in 1..k BY <2>7, <2>8
    <3>2. CASE i = k BY <2>4, <2>5, <2>7, <2>8, <3>2 DEF I!Unread
    <3>3. CASE i # k
      <4>1. i \in 1..(k - 1) BY <2>2, <3>1, <3>3
      <4> QED BY <2>3, <2>7, <2>8, <4>1
    <3> QED BY <3>2, <3>3
  <2> QED BY <2>7, <2>8, CopiesWithin
<1>5. \/ \E k \in 0..Len(a) : rest = SubSeq(a, 1, k)
      \/ \E k \in 1..Len(a), whole \in BOOLEAN : rest = I!Torn(a, k, whole)
  BY DEF I!Remains
<1> QED BY <1>3, <1>4, <1>5

\* A file that is rewritten holds the same lines, and none is unread.
LEMMA MarkedReadCopies ==
    ASSUME NEW a \in Seq(InboxLine), NEW m
    PROVE  /\ I!MarkedRead(a) \in Seq(InboxLine) /\ I!Copies(I!MarkedRead(a), m) = 0
           /\ \A i \in DOMAIN I!MarkedRead(a) :
                I!MarkedRead(a)[i].read /\ I!MarkedRead(a)[i].ended
<1> DEFINE b == I!MarkedRead(a)
<1>1. DOMAIN a = 1..Len(a) /\ Len(a) \in Nat OBVIOUS
<1>2. b = [i \in 1..Len(a) |-> [a[i] EXCEPT !.read = TRUE, !.ended = TRUE]]
  BY <1>1 DEF I!MarkedRead
<1>3. \A i \in 1..Len(a) : a[i] \in InboxLine BY ElementOfSeq
<1>4. ASSUME NEW i \in 1..Len(a) PROVE b[i] \in InboxLine /\ b[i].read /\ b[i].ended
  <2> DEFINE x == [a[i] EXCEPT !.read = TRUE, !.ended = TRUE]
  <2>1. a[i] \in InboxLine BY <1>3
  <2>2. x \in InboxLine /\ x.read /\ x.ended BY <2>1 DEF InboxLine
  <2>3. b[i] = x BY <1>2
  <2> QED BY <2>2, <2>3
<1>5. b \in Seq(InboxLine) /\ DOMAIN b = 1..Len(a)
  <2>1. DOMAIN b = 1..Len(a) BY <1>2
  <2>2. b \in [1..Len(a) -> InboxLine]
    <3>1. b = [i \in 1..Len(a) |-> b[i]] BY <1>2
    <3> HIDE DEF b
    <3> QED BY <1>4, <3>1
  <2> HIDE DEF b
  <2> QED BY <1>1, <2>1, <2>2, SeqDef
<1> HIDE DEF b
<1>6. \A i \in DOMAIN b : ~(I!Unread(b[i]) /\ b[i].mail = m) BY <1>4, <1>5 DEF I!Unread
<1>7. I!Copies(b, m) = 0 BY <1>5, <1>6, NoCopies
<1> QED BY <1>4, <1>5, <1>7 DEF b

InCritical == {"append", "read", "truncate", "write", "unlock"}

Outcomes == {"unsent", "resolving", "sending", "sent", "failed"}

ReaderStages == {"idle", "lock", "read", "truncate", "write", "unlock"}

DaemonStages == {"down", "announce", "idle", "lock", "append", "unlock"}

InboxTypes ==
    /\ sending \in [Mail -> Outcomes] /\ queue \in Seq(Mail)
    /\ life \in Nat /\ crashes \in Nat
    /\ replay \in SUBSET Mail
    /\ inbox \in Seq(InboxLine) /\ lines \in [I!Process -> Seq(InboxLine)]
    /\ shown \in [Mail -> Nat] /\ taken \in [Mail -> Nat] /\ late \in [Mail -> Nat]
    /\ expiry \in [Mail -> {"valid", "late", "over"}]
    /\ DOMAIN process = I!Process
    /\ \A r \in Reader : process[r] \in ReaderStages
    /\ process[Daemon] \in DaemonStages

LockHeld == \A p \in I!Process : process[p] \in InCritical => inboxLock = p

\* What a process has in its hands at each stage.
LinesKnown ==
    /\ \A p \in I!Process : \A i \in DOMAIN lines[p] : lines[p][i].parses
    /\ \A r \in Reader :
         /\ process[r] \in {"idle", "lock", "read"} => lines[r] = <<>>
         /\ process[r] = "truncate" => lines[r] = inbox
         /\ process[r] = "write" => inbox = <<>>
    /\ process[Daemon] \notin {"lock", "append"} => lines[Daemon] = <<>>
    /\ \A i \in DOMAIN lines[Daemon] : lines[Daemon][i].ended

\* Without a death every line has its end.
LinesEnded == crashes = 0 => \A i \in DOMAIN inbox : inbox[i].ended

\* What the holder of the lock read and took out of the file.
HeldLines ==
    IF inboxLock \in Reader /\ process[inboxLock] \in {"write", "unlock"}
    THEN lines[inboxLock] ELSE <<>>

Underway(m) ==
    I!Copies(inbox, m) + I!Copies(lines[Daemon], m) + I!Copies(HeldLines, m)

Balance ==
    \A m \in Mail : /\ Underway(m) + shown[m] <= taken[m]
                    /\ crashes = 0 => Underway(m) + shown[m] = taken[m]

\* A life of the daemon accepts a message once until its expires_at: it then
\* holds the nonce.
Lives ==
    \A m \in Mail :
      /\ taken[m] <= life + late[m]
      /\ process[Daemon] # "down" /\ expiry[m] = "valid" /\ m \notin replay =>
           taken[m] < life + late[m]
      /\ m \in replay => taken[m] > 0

Arrivals ==
    \A m \in Mail :
      /\ taken[m] > 0 => sending[m] = "sent"
      /\ (\E i \in DOMAIN queue : queue[i] = m) => sending[m] = "sent"
      /\ crashes = 0 /\ sending[m] = "sent" =>
           taken[m] > 0 \/ (\E i \in DOMAIN queue : queue[i] = m) \/ expiry[m] = "over"

InboxInv == InboxTypes /\ LockHeld /\ LinesKnown /\ LinesEnded /\ Balance /\ Lives /\ Arrivals

LEMMA InboxProcesses ==
    /\ Daemon \notin Reader /\ NoOne \notin Reader /\ NoOne # Daemon
    /\ I!Process = Reader \cup {Daemon}
BY InboxAssumption DEF I!InboxConstants, I!Process

\* A tag on every element leaves the number of elements.
LEMMA TaggedCount ==
    ASSUME NEW tag, NEW P, IsFiniteSet(P)
    PROVE  IsFiniteSet({tag} \X P) /\ Cardinality({tag} \X P) = Cardinality(P)
<1>1. IsFiniteSet({tag}) /\ Cardinality({tag}) = 1 BY FS_Singleton
<1>2. /\ IsFiniteSet({tag} \X P)
      /\ Cardinality({tag} \X P) = Cardinality({tag}) * Cardinality(P)
  BY <1>1, FS_Product
<1>3. Cardinality(P) \in Nat BY FS_CardinalityType
<1> QED BY <1>1, <1>2, <1>3

LEMMA DisjointCount ==
    ASSUME NEW P, NEW Q, IsFiniteSet(P), IsFiniteSet(Q), P \cap Q = {}
    PROVE  IsFiniteSet(P \cup Q) /\ Cardinality(P \cup Q) = Cardinality(P) + Cardinality(Q)
<1>1. Cardinality(P \cap Q) = 0 BY FS_EmptySet
<1>2. /\ IsFiniteSet(P \cup Q)
      /\ Cardinality(P \cup Q) = Cardinality(P) + Cardinality(Q) - Cardinality(P \cap Q)
  BY FS_Union
<1>3. Cardinality(P) \in Nat /\ Cardinality(Q) \in Nat BY FS_CardinalityType
<1> QED BY <1>1, <1>2, <1>3

LEMMA NoLinesNoCopies ==
    ASSUME NEW m PROVE <<>> \in Seq(InboxLine) /\ I!Copies(<<>>, m) = 0
<1>1. <<>> \in Seq(InboxLine) /\ DOMAIN <<>> = {} BY EmptySeq
<1> QED BY <1>1, NoCopies

\* The places of a message are counted file by file.
LEMMA WaitingUnderway ==
    ASSUME InboxInv, NEW m \in Mail PROVE I!Waiting(m) = Underway(m)
<1> USE DEF InboxInv
<1> DEFINE F == {NoOne} \X I!Unseen(inbox, m)
           D == {Daemon} \X I!Unseen(lines[Daemon], m)
           H == {inboxLock} \X I!Unseen(lines[inboxLock], m)
           W == UNION {{p} \X I!Unseen(lines[p], m) : p \in I!Holding \cup {Daemon}}
           z == I!Copies(HeldLines, m)
<1>1. inbox \in Seq(InboxLine) /\ lines[Daemon] \in Seq(InboxLine)
  BY InboxProcesses DEF InboxTypes
<1>2. /\ IsFiniteSet(F) /\ Cardinality(F) = I!Copies(inbox, m)
      /\ IsFiniteSet(D) /\ Cardinality(D) = I!Copies(lines[Daemon], m)
  <2>1. /\ IsFiniteSet(I!Unseen(inbox, m))
        /\ I!Copies(inbox, m) = Cardinality(I!Unseen(inbox, m))
    BY <1>1, CopiesCount
  <2>2. /\ IsFiniteSet(I!Unseen(lines[Daemon], m))
        /\ I!Copies(lines[Daemon], m) = Cardinality(I!Unseen(lines[Daemon], m))
    BY <1>1, CopiesCount
  <2>3. IsFiniteSet(F) /\ Cardinality(F) = I!Copies(inbox, m) BY <2>1, TaggedCount
  <2>4. IsFiniteSet(D) /\ Cardinality(D) = I!Copies(lines[Daemon], m) BY <2>2, TaggedCount
  <2> QED BY <2>3, <2>4
<1>3. \A r \in I!Holding : r \in Reader /\ inboxLock = r
  BY InboxProcesses DEF I!Holding, LockHeld, InCritical
<1>4. /\ IsFiniteSet(W) /\ NoOne \notin I!Holding \cup {Daemon}
      /\ Cardinality(W) = I!Copies(lines[Daemon], m) + z
  <2>1. CASE inboxLock \in Reader /\ process[inboxLock] \in {"write", "unlock"}
    <3>1. I!Holding = {inboxLock} BY <1>3, <2>1 DEF I!Holding
    <3>2. W = D \cup H BY <3>1
    <3>3. lines[inboxLock] \in Seq(InboxLine) /\ HeldLines = lines[inboxLock]
      BY <2>1, InboxProcesses DEF InboxTypes, HeldLines
    <3>4. IsFiniteSet(H) /\ Cardinality(H) = z BY <3>3, CopiesCount, TaggedCount
    <3>5. D \cap H = {} BY <2>1, InboxProcesses
    <3> HIDE DEF D, H, W
    <3>6. IsFiniteSet(D \cup H) /\ Cardinality(D \cup H) = Cardinality(D) + Cardinality(H)
      BY <1>2, <3>4, <3>5, DisjointCount
    <3> QED BY <1>2, <1>3, <3>2, <3>4, <3>6, InboxProcesses
  <2>2. CASE ~(inboxLock \in Reader /\ process[inboxLock] \in {"write", "unlock"})
    <3>1. I!Holding = {} BY <1>3, <2>2 DEF I!Holding
    <3>2. W = D BY <3>1
    <3>3. z = 0
      <4>1. HeldLines = <<>> BY <2>2 DEF HeldLines
      <4> QED BY <4>1, NoLinesNoCopies
    <3>4. I!Copies(lines[Daemon], m) \in Nat BY <1>1, CopiesCount
    <3> HIDE DEF D, W, z
    <3> QED BY <1>2, <3>1, <3>2, <3>3, <3>4, InboxProcesses
  <2> QED BY <2>1, <2>2
<1>5. F \cap W = {} BY <1>4
<1>6. I!Waiting(m) = Cardinality(F \cup W)
  <2>1. I!Places(m) = F \cup W BY DEF I!Places
  <2>2. I!Waiting(m) = Cardinality(I!Places(m)) BY Zenon DEF I!Waiting, I!Cardinality, Cardinality
  <2> QED BY <2>1, <2>2
<1>7. /\ I!Copies(inbox, m) \in Nat /\ I!Copies(lines[Daemon], m) \in Nat /\ z \in Nat
  <2>1. HeldLines \in Seq(InboxLine)
    BY InboxProcesses, NoLinesNoCopies DEF InboxTypes, HeldLines
  <2> QED BY <1>1, <2>1, CopiesCount
<1> HIDE DEF F, W
<1>8. Cardinality(F \cup W) = Cardinality(F) + Cardinality(W) BY <1>2, <1>4, <1>5, DisjointCount
<1> QED BY <1>2, <1>4, <1>6, <1>7, <1>8 DEF Underway

LEMMA HeldTypes == ASSUME InboxTypes PROVE HeldLines \in Seq(InboxLine)
BY InboxProcesses, NoLinesNoCopies DEF InboxTypes, HeldLines

\* What is underway is a natural number.
LEMMA UnderwayCounts ==
    ASSUME InboxTypes, NEW m
    PROVE  /\ I!Copies(inbox, m) \in Nat /\ I!Copies(lines[Daemon], m) \in Nat
           /\ I!Copies(HeldLines, m) \in Nat
<1>1. inbox \in Seq(InboxLine) /\ lines[Daemon] \in Seq(InboxLine)
  BY InboxProcesses DEF InboxTypes
<1> QED BY <1>1, HeldTypes, CopiesCount

\* What a queue holds after its head left it, and after another element came.
LEMMA QueueTail ==
    ASSUME NEW S, NEW s \in Seq(S), s # <<>>
    PROVE  /\ Head(s) \in S /\ Tail(s) \in Seq(S)
           /\ \E i \in DOMAIN s : s[i] = Head(s)
           /\ \A i \in DOMAIN Tail(s) : \E j \in DOMAIN s : s[j] = Tail(s)[i]
           /\ \A i \in DOMAIN s : s[i] # Head(s) => \E j \in DOMAIN Tail(s) : Tail(s)[j] = s[i]
<1>1. Len(s) \in Nat /\ Len(s) # 0 /\ DOMAIN s = 1..Len(s) BY EmptySeq
<1>2. /\ Head(s) \in S /\ Tail(s) \in Seq(S) /\ Len(Tail(s)) = Len(s) - 1
      /\ \A i \in 1..Len(Tail(s)) : Tail(s)[i] = s[i + 1]
  BY HeadTailProperties
<1>3. Head(s) = s[1] OBVIOUS
<1>4. DOMAIN Tail(s) = 1..(Len(s) - 1) BY <1>2
<1>5. 1 \in DOMAIN s BY <1>1
<1>6. \A i \in 1..(Len(s) - 1) : i + 1 \in 1..Len(s) BY <1>1
<1>7. \A i \in 1..Len(s) : i # 1 => i - 1 \in 1..(Len(s) - 1) /\ (i - 1) + 1 = i BY <1>1
<1>8. ASSUME NEW i \in DOMAIN s, s[i] # Head(s)
      PROVE  \E j \in DOMAIN Tail(s) : Tail(s)[j] = s[i]
  <2>1. i # 1 BY <1>3, <1>8
  <2>2. i - 1 \in 1..(Len(s) - 1) /\ (i - 1) + 1 = i BY <1>1, <1>7, <2>1
  <2>3. Tail(s)[i - 1] = s[i] BY <1>2, <2>2
  <2> QED BY <1>4, <2>2, <2>3
<1>9. ASSUME NEW i \in DOMAIN Tail(s) PROVE \E j \in DOMAIN s : s[j] = Tail(s)[i]
  <2>1. Tail(s)[i] = s[i + 1] BY <1>2, <1>4
  <2> QED BY <1>1, <1>4, <1>6, <2>1
<1> QED BY <1>2, <1>3, <1>5, <1>8, <1>9

LEMMA QueueAppend ==
    ASSUME NEW S, NEW s \in Seq(S), NEW x \in S
    PROVE  /\ Append(s, x) \in Seq(S)
           /\ \E i \in DOMAIN Append(s, x) : Append(s, x)[i] = x
           /\ \A i \in DOMAIN s : \E j \in DOMAIN Append(s, x) : Append(s, x)[j] = s[i]
           /\ \A i \in DOMAIN Append(s, x) :
                Append(s, x)[i] = x \/ \E j \in DOMAIN s : s[j] = Append(s, x)[i]
<1> DEFINE t == Append(s, x)
<1>1. /\ t \in Seq(S) /\ Len(t) = Len(s) + 1 /\ t[Len(s) + 1] = x
      /\ \A i \in 1..Len(s) : t[i] = s[i]
  BY AppendProperties
<1>2. Len(s) \in Nat /\ DOMAIN s = 1..Len(s) /\ DOMAIN t = 1..(Len(s) + 1) BY <1>1
<1>3. Len(s) + 1 \in 1..(Len(s) + 1) BY <1>2
<1>4. \A i \in 1..Len(s) : i \in 1..(Len(s) + 1) BY <1>2
<1>5. \A i \in 1..(Len(s) + 1) : i = Len(s) + 1 \/ i \in 1..Len(s) BY <1>2
<1> HIDE DEF t
<1>6. ASSUME NEW i \in DOMAIN t PROVE t[i] = x \/ \E j \in DOMAIN s : s[j] = t[i]
  <2>1. CASE i = Len(s) + 1 BY <1>1, <2>1
  <2>2. CASE i \in 1..Len(s) BY <1>1, <1>2, <2>2
  <2> QED BY <1>2, <1>5, <2>1, <2>2
<1>7. \E i \in DOMAIN t : t[i] = x BY <1>1, <1>2, <1>3
<1>8. \A i \in DOMAIN s : \E j \in DOMAIN t : t[j] = s[i] BY <1>1, <1>2, <1>4
<1> QED BY <1>1, <1>6, <1>7, <1>8 DEF t

\* A step that moves no line keeps the balance.
LEMMA BalanceStays ==
    ASSUME InboxInv, UNCHANGED <<inbox, lines, shown, taken, crashes>>, HeldLines' = HeldLines
    PROVE  Balance'
<1>1. ASSUME NEW m \in Mail PROVE Underway(m)' = Underway(m) BY DEF Underway
<1> QED BY <1>1 DEF InboxInv, Balance

\* A step of the daemon takes nothing from a reader.
LEMMA HeldStays ==
    ASSUME InboxInv, UNCHANGED inboxLock, \A r \in Reader : process'[r] = process[r] /\ lines'[r] = lines[r]
    PROVE  HeldLines' = HeldLines
BY DEF HeldLines

LEMMA DaemonStarts == ASSUME InboxInv, I!Start \/ I!Announce PROVE InboxInv'
<1> USE DEF InboxInv, InboxTypes
<1>1. /\ UNCHANGED <<sending, queue, expiry, replay, inbox, inboxLock, lines, shown, taken, late, crashes>>
      /\ life' \in Nat /\ life <= life'
      /\ \/ process[Daemon] = "down" /\ process' = [process EXCEPT ![Daemon] = "announce"]
            /\ life' = life + 1
         \/ process[Daemon] = "announce" /\ process' = [process EXCEPT ![Daemon] = "idle"]
            /\ life' = life
  BY DEF I!Start, I!Announce, I!Goto
<1>2. /\ DOMAIN process' = I!Process
      /\ \A r \in Reader : process'[r] = process[r]
      /\ process[Daemon] \in {"down", "announce"} /\ process'[Daemon] \in {"announce", "idle"}
  BY <1>1, InboxProcesses
<1>3. InboxTypes' BY <1>1, <1>2 DEF DaemonStages
<1>4. LockHeld' BY <1>1, <1>2, InboxProcesses DEF LockHeld, InCritical
<1>5. LinesKnown' BY <1>1, <1>2, InboxProcesses DEF LinesKnown
<1>6. LinesEnded' BY <1>1 DEF LinesEnded
<1>7. Balance'
  <2>1. HeldLines' = HeldLines BY <1>1, <1>2, HeldStays
  <2> QED BY <1>1, <2>1, BalanceStays
<1>8. Lives' BY <1>1, <1>2 DEF Lives
<1>9. Arrivals' BY <1>1 DEF Arrivals
<1> QED BY <1>3, <1>4, <1>5, <1>6, <1>7, <1>8, <1>9

\* What a sender does leaves the inbox alone.
LEMMA SenderKeeps ==
    ASSUME InboxInv, UNCHANGED <<life, expiry, replay, inbox, inboxLock, process, lines, shown, taken, late, crashes>>,
           sending' \in [Mail -> Outcomes], queue' \in Seq(Mail),
           \A m \in Mail : sending[m] = "sent" => sending'[m] = "sent",
           \A m \in Mail : (\E i \in DOMAIN queue' : queue'[i] = m) => sending'[m] = "sent",
           \A m \in Mail : (\E i \in DOMAIN queue : queue[i] = m) => \E i \in DOMAIN queue' : queue'[i] = m,
           \A m \in Mail : sending'[m] = "sent" /\ sending[m] # "sent" =>
             \E i \in DOMAIN queue' : queue'[i] = m
    PROVE  InboxInv'
<1> USE DEF InboxInv
<1>1. InboxTypes' BY DEF InboxTypes
<1>2. LockHeld' /\ LinesKnown' /\ LinesEnded' BY DEF LockHeld, LinesKnown, LinesEnded
<1>3. Balance'
  <2>1. HeldLines' = HeldLines BY DEF HeldLines
  <2> QED BY <2>1, BalanceStays
<1>4. Lives' BY DEF Lives
<1>5. Arrivals' BY DEF Arrivals
<1> QED BY <1>1, <1>2, <1>3, <1>4, <1>5

LEMMA SendersKeep ==
    ASSUME InboxInv, NEW m \in Mail,
           I!SendMessage(m) \/ I!PeerAddr(m) \/ I!Send(m) \/ I!Duplicate(m)
    PROVE  InboxInv'
<1> USE DEF InboxInv, InboxTypes
<1>1. UNCHANGED <<life, expiry, replay, inbox, inboxLock, process, lines, shown, taken, late, crashes>>
  BY DEF I!SendMessage, I!PeerAddr, I!Send, I!Duplicate
<1>2. CASE queue' = queue
  <2>1. PICK o \in Outcomes : sending' = [sending EXCEPT ![m] = o] /\ o # "sent" /\ sending[m] # "sent"
    <3>1. CASE I!SendMessage(m) BY <3>1 DEF I!SendMessage, Outcomes
    <3>2. CASE I!PeerAddr(m) BY <3>2 DEF I!PeerAddr, Outcomes
    <3>3. CASE I!Send(m) /\ ~(process[Daemon] # "down" /\ target[m] = life)
      BY <3>3 DEF I!Send, Outcomes
    <3>4. CASE queue' = Append(queue, m)
      <4>1. Len(queue') = Len(queue) + 1 /\ Len(queue) \in Nat BY <3>4
      <4> QED BY <1>2, <4>1
    <3> QED BY <3>1, <3>2, <3>3, <3>4 DEF I!Send, I!Duplicate
  <2>2. sending' \in [Mail -> Outcomes] BY <2>1
  <2>3. \A k \in Mail : sending'[k] = "sent" <=> sending[k] = "sent" BY <2>1
  <2>4. \A k \in Mail : (\E i \in DOMAIN queue : queue[i] = k) => sending[k] = "sent"
    BY DEF Arrivals
  <2> QED BY <1>1, <1>2, <2>2, <2>3, <2>4, SenderKeeps
<1>3. CASE queue' # queue
  <2>1. /\ queue' = Append(queue, m)
        /\ sending' = [sending EXCEPT ![m] = "sent"]
    <3>1. ~I!SendMessage(m) /\ ~I!PeerAddr(m) BY <1>3 DEF I!SendMessage, I!PeerAddr
    <3>2. CASE I!Send(m) BY <1>3, <3>2 DEF I!Send
    <3>3. CASE I!Duplicate(m)
      <4>1. sending[m] = "sent" /\ sending' = sending BY <3>3 DEF I!Duplicate
      <4>2. sending' = [sending EXCEPT ![m] = "sent"] BY <4>1
      <4> QED BY <3>3, <4>2 DEF I!Duplicate
    <3> QED BY <3>1, <3>2, <3>3
  <2>2. /\ queue' \in Seq(Mail) /\ \E i \in DOMAIN queue' : queue'[i] = m
        /\ \A i \in DOMAIN queue : \E j \in DOMAIN queue' : queue'[j] = queue[i]
        /\ \A i \in DOMAIN queue' : queue'[i] = m \/ \E j \in DOMAIN queue : queue[j] = queue'[i]
    <3> DEFINE after == Append(queue, m)
    <3>1. queue' = after BY <2>1
    <3>2. /\ after \in Seq(Mail) /\ \E i \in DOMAIN after : after[i] = m
          /\ \A i \in DOMAIN queue : \E j \in DOMAIN after : after[j] = queue[i]
          /\ \A i \in DOMAIN after : after[i] = m \/ \E j \in DOMAIN queue : queue[j] = after[i]
      <4>1. queue \in Seq(Mail) OBVIOUS
      <4> HIDE DEF InboxInv, InboxTypes
      <4> QED BY <4>1, QueueAppend
    <3> HIDE DEF after
    <3> QED BY <3>1, <3>2
  <2>3. sending' \in [Mail -> Outcomes] /\ sending'[m] = "sent"
        /\ \A k \in Mail : k # m => sending'[k] = sending[k]
    BY <2>1 DEF Outcomes
  <2>4. \A k \in Mail : (\E i \in DOMAIN queue : queue[i] = k) => sending[k] = "sent"
    BY DEF Arrivals
  <2>9. \A k \in Mail : sending[k] = "sent" => sending'[k] = "sent" BY <2>3
  <2>10. \A k \in Mail : (\E i \in DOMAIN queue' : queue'[i] = k) => sending'[k] = "sent"
    BY <2>2, <2>3, <2>4
  <2>11. \A k \in Mail : (\E i \in DOMAIN queue : queue[i] = k) => \E i \in DOMAIN queue' : queue'[i] = k
    BY <2>2
  <2>12. \A k \in Mail : sending'[k] = "sent" /\ sending[k] # "sent" => \E i \in DOMAIN queue' : queue'[i] = k
    BY <2>2, <2>3
  <2> QED BY <1>1, <2>2, <2>3, <2>9, <2>10, <2>11, <2>12, SenderKeeps
<1> QED BY <1>2, <1>3

\* Time alone moves no message, and lets the nonces be forgotten.
LEMMA ExpireKeeps == ASSUME InboxInv, NEW m \in Mail, I!Expire(m) PROVE InboxInv'
<1> USE DEF InboxInv, InboxTypes
<1>1. /\ UNCHANGED <<sending, life, queue, replay, inbox, inboxLock, process, lines, shown, taken,
                     late, crashes>>
      /\ expiry' = [expiry EXCEPT ![m] = IF expiry[m] = "valid" THEN "late" ELSE "over"]
  BY DEF I!Expire, I!sendVars
<1>2. /\ expiry' \in [Mail -> {"valid", "late", "over"}]
      /\ \A k \in Mail : expiry'[k] = "valid" => expiry[k] = "valid"
      /\ \A k \in Mail : expiry[k] = "over" => expiry'[k] = "over"
  BY <1>1
<1>3. InboxTypes' BY <1>1, <1>2
<1>4. LockHeld' /\ LinesKnown' /\ LinesEnded' BY <1>1 DEF LockHeld, LinesKnown, LinesEnded
<1>5. Balance'
  <2>1. HeldLines' = HeldLines BY <1>1 DEF HeldLines
  <2> QED BY <1>1, <2>1, BalanceStays
<1>6. Lives' BY <1>1, <1>2 DEF Lives
<1>7. Arrivals' BY <1>1, <1>2 DEF Arrivals
<1> QED BY <1>3, <1>4, <1>5, <1>6, <1>7

\* The queue loses its head; until its expires_at a life accepts it once, and
\* then once for each frame.
LEMMA ReceiveKeeps == ASSUME InboxInv, I!Receive PROVE InboxInv'
<1> USE DEF InboxInv, InboxTypes
<1> DEFINE m == Head(queue)
           x == I!Line(m, FALSE)
           Accepts(held) ==
             /\ expiry[m] # "over" /\ m \notin held
             /\ replay' = IF expiry[m] = "valid" THEN held \cup {m} ELSE held
             /\ taken' = [taken EXCEPT ![m] = taken[m] + 1]
             /\ lines' = [lines EXCEPT ![Daemon] = <<x>>]
             /\ process' = [process EXCEPT ![Daemon] = "lock"]
           Refuses(held) ==
             /\ expiry[m] = "over" \/ m \in held
             /\ replay' = held /\ UNCHANGED <<process, lines, taken>>
<1>1. /\ process[Daemon] = "idle" /\ queue # <<>> /\ queue' = Tail(queue)
      /\ UNCHANGED <<sending, life, expiry, inbox, inboxLock, shown, crashes>>
      /\ late' = IF expiry[m] = "late" THEN [late EXCEPT ![m] = late[m] + 1] ELSE late
  BY DEF I!Receive
<1>2. /\ m \in Mail /\ queue' \in Seq(Mail) /\ \E i \in DOMAIN queue : queue[i] = m
      /\ \A i \in DOMAIN queue' : \E j \in DOMAIN queue : queue[j] = queue'[i]
      /\ \A i \in DOMAIN queue : queue[i] # m => \E j \in DOMAIN queue' : queue'[j] = queue[i]
  BY <1>1, QueueTail
<1>3. PICK held \in SUBSET replay :
        /\ \A k \in replay \ held : expiry[k] # "valid"
        /\ Accepts(held) \/ Refuses(held)
  <2>1. CASE expiry[m] = "over"
    <3>1. Refuses(replay) BY <2>1 DEF I!Receive
    <3> QED BY <3>1
  <2>2. CASE expiry[m] # "over"
    <3>1. PICK out \in SUBSET {k \in replay : expiry[k] # "valid"} :
            Accepts(replay \ out) \/ Refuses(replay \ out)
      BY <2>2 DEF I!Receive, I!Goto
    <3>2. replay \ out \in SUBSET replay BY <3>1
    <3>3. \A k \in replay \ (replay \ out) : expiry[k] # "valid" BY <3>1
    <3> QED BY <3>1, <3>2, <3>3
  <2> QED BY <2>1, <2>2
<1>4. \A k \in Mail : (\E i \in DOMAIN queue' : queue'[i] = k) => \E i \in DOMAIN queue : queue[i] = k
  BY <1>2
<1>5. \A k \in Mail : k # m =>
        ((\E i \in DOMAIN queue : queue[i] = k) => \E i \in DOMAIN queue' : queue'[i] = k)
  BY <1>2
<1>6. sending[m] = "sent" BY <1>2 DEF Arrivals
<1>7. LinesEnded' BY <1>1 DEF LinesEnded
<1>10. /\ late' \in [Mail -> Nat]
       /\ \A k \in Mail : late'[k] = IF k = m /\ expiry[k] = "late" THEN late[k] + 1 ELSE late[k]
  <2>1. late' = IF expiry[m] = "late" THEN [late EXCEPT ![m] = late[m] + 1] ELSE late BY <1>1
  <2>2. late \in [Mail -> Nat] /\ m \in Mail BY <1>2
  <2> HIDE DEF m, InboxInv, InboxTypes
  <2>3. late[m] + 1 \in Nat BY <2>2
  <2> QED BY <2>1, <2>2, <2>3
<1>8. CASE Refuses(held)
  <2>1. UNCHANGED <<sending, life, expiry, inbox, inboxLock, shown, crashes, process, lines, taken>>
        /\ replay' = held
    BY <1>1, <1>8
  <2>2. InboxTypes' BY <1>2, <1>10, <2>1
  <2>3. LockHeld' /\ LinesKnown' BY <2>1 DEF LockHeld, LinesKnown
  <2>4. Balance'
    <3>1. HeldLines' = HeldLines BY <2>1, HeldStays
    <3> QED BY <2>1, <3>1, BalanceStays
  <2>5. Lives'
    <3> SUFFICES ASSUME NEW k \in Mail
                 PROVE  /\ (taken[k] <= life + late[k])'
                        /\ (process[Daemon] # "down" /\ expiry[k] = "valid" /\ k \notin replay =>
                              taken[k] < life + late[k])'
                        /\ (k \in replay => taken[k] > 0)'
      BY DEF Lives
    <3>1. /\ taken[k] <= life + late[k] /\ (k \in replay => taken[k] > 0)
          /\ expiry[k] = "valid" /\ k \notin replay => taken[k] < life + late[k]
      BY <1>1 DEF Lives
    <3>2. /\ taken'[k] = taken[k] /\ life' = life /\ expiry'[k] = expiry[k]
          /\ k \in replay' => k \in replay
          /\ expiry[k] = "valid" /\ k \notin replay' => k \notin replay
      BY <1>3, <2>1
    <3>3. late'[k] = late[k] \/ late'[k] = late[k] + 1 BY <1>10
    <3>4. taken[k] \in Nat /\ life \in Nat /\ late[k] \in Nat OBVIOUS
    <3> HIDE DEF InboxInv, InboxTypes
    <3> QED BY <3>1, <3>2, <3>3, <3>4
  <2>6. taken[m] > 0 \/ expiry[m] = "over" BY <1>2, <1>3, <1>8 DEF Lives
  <2>7. Arrivals' BY <1>4, <1>5, <2>1, <2>6 DEF Arrivals
  <2> QED BY <1>7, <2>2, <2>3, <2>4, <2>5, <2>7
<1>9. CASE Accepts(held)
  <2>1. /\ replay' \in SUBSET Mail
        /\ taken' \in [Mail -> Nat] /\ taken'[m] = taken[m] + 1
        /\ \A k \in Mail : k # m => taken'[k] = taken[k]
    <3>1. taken' = [taken EXCEPT ![m] = taken[m] + 1] BY <1>9
    <3>2. replay' \subseteq held \cup {m} BY <1>9
    <3> HIDE DEF m, Accepts, Refuses
    <3>3. taken \in [Mail -> Nat] /\ m \in Mail /\ held \in SUBSET Mail BY <1>2, <1>3
    <3>4. taken[m] + 1 \in Nat BY <3>3
    <3> HIDE DEF InboxInv, InboxTypes
    <3> QED BY <3>1, <3>2, <3>3, <3>4
  <2>2. x \in InboxLine /\ x.parses /\ x.ended /\ x.mail = m /\ ~x.read
    BY <1>2 DEF InboxLine, I!Line
  <2> HIDE DEF x
  <2>3. <<x>> \in Seq(InboxLine) /\ DOMAIN <<x>> = {1} /\ <<x>>[1] = x BY <2>2
  <2>4. /\ lines' \in [I!Process -> Seq(InboxLine)] /\ lines'[Daemon] = <<x>>
        /\ \A r \in Reader : lines'[r] = lines[r]
    BY <1>1, <1>9, <2>3, InboxProcesses
  <2>5. /\ DOMAIN process' = I!Process /\ process'[Daemon] = "lock"
        /\ \A r \in Reader : process'[r] = process[r]
    BY <1>1, <1>9, InboxProcesses
  <2>6. InboxTypes' BY <1>1, <1>2, <1>10, <2>1, <2>4, <2>5 DEF DaemonStages
  <2>7. LockHeld' BY <1>1, <2>5, InboxProcesses DEF LockHeld, InCritical
  <2>8. LinesKnown'
    <3>1. \A i \in DOMAIN <<x>> : <<x>>[i].parses /\ <<x>>[i].ended BY <2>2, <2>3
    <3>2. \A p \in I!Process : \A i \in DOMAIN lines'[p] : lines'[p][i].parses
      BY <2>4, <3>1, InboxProcesses DEF LinesKnown
    <3>3. \A r \in Reader : /\ process'[r] = process[r] /\ lines'[r] = lines[r] BY <2>4, <2>5
    <3>4. inbox' = inbox BY <1>1
    <3> QED BY <2>4, <2>5, <3>1, <3>2, <3>3, <3>4 DEF LinesKnown
  <2>9. HeldLines' = HeldLines BY <1>1, <2>4, <2>5, HeldStays
  <2>10. lines[Daemon] = <<>> BY <1>1 DEF LinesKnown
  <2>11. I!Copies(<<x>>, m) = 1
    <3>1. I!Unseen(<<x>>, m) = {1} BY <2>2, <2>3 DEF I!Unseen, I!Unread
    <3>2. I!Copies(<<x>>, m) = Cardinality({1}) BY <2>3, <3>1, CopiesCount
    <3> QED BY <3>2, FS_Singleton
  <2>12. ASSUME NEW k \in Mail, k # m PROVE I!Copies(<<x>>, k) = 0
    <3>1. \A i \in DOMAIN <<x>> : ~(I!Unread(<<x>>[i]) /\ <<x>>[i].mail = k)
      BY <2>2, <2>3, <2>12
    <3> QED BY <2>3, <3>1, NoCopies
  <2>13. ASSUME NEW k \in Mail
         PROVE  Underway(k)' = IF k = m THEN Underway(k) + 1 ELSE Underway(k)
    <3> DEFINE one == I!Copies(<<x>>, k)
    <3>1. I!Copies(lines[Daemon], k) = 0 BY <2>10, NoLinesNoCopies
    <3>2. I!Copies(inbox, k) \in Nat /\ I!Copies(HeldLines, k) \in Nat BY UnderwayCounts
    <3>3. I!Copies(lines[Daemon], k)' = one BY <2>4
    <3>4. I!Copies(HeldLines, k)' = I!Copies(HeldLines, k) BY <2>9
    <3>5. I!Copies(inbox, k)' = I!Copies(inbox, k) BY <1>1
    <3>6. Underway(k)' = I!Copies(inbox, k) + one + I!Copies(HeldLines, k)
      BY <3>3, <3>4, <3>5 DEF Underway
    <3>7. Underway(k) = I!Copies(inbox, k) + 0 + I!Copies(HeldLines, k) BY <3>1 DEF Underway
    <3>8. one = IF k = m THEN 1 ELSE 0 BY <2>11, <2>12
    <3> HIDE DEF one, m
    <3> QED BY <3>2, <3>6, <3>7, <3>8
  <2> HIDE DEF m
  <2>14. ASSUME NEW k \in Mail PROVE Underway(k) \in Nat /\ taken[k] \in Nat /\ shown[k] \in Nat
    BY UnderwayCounts DEF Underway
  <2>15. Balance'
    <3> SUFFICES ASSUME NEW k \in Mail
                 PROVE  /\ (Underway(k) + shown[k] <= taken[k])'
                        /\ (crashes = 0 => Underway(k) + shown[k] = taken[k])'
      BY DEF Balance
    <3>1. /\ Underway(k) + shown[k] <= taken[k] /\ crashes' = crashes /\ shown'[k] = shown[k]
          /\ crashes = 0 => Underway(k) + shown[k] = taken[k]
      BY <1>1 DEF Balance
    <3>2. CASE k = m
      <4>1. Underway(k)' = Underway(k) + 1 /\ taken'[k] = taken[k] + 1 BY <2>1, <2>13, <3>2
      <4> QED BY <2>14, <3>1, <4>1
    <3>3. CASE k # m
      <4>1. Underway(k)' = Underway(k) /\ taken'[k] = taken[k] BY <2>1, <2>13, <3>3
      <4> QED BY <3>1, <4>1
    <3> QED BY <3>2, <3>3
  <2>16. Lives'
    <3> SUFFICES ASSUME NEW k \in Mail
                 PROVE  /\ (taken[k] <= life + late[k])'
                        /\ (process[Daemon] # "down" /\ expiry[k] = "valid" /\ k \notin replay =>
                              taken[k] < life + late[k])'
                        /\ (k \in replay => taken[k] > 0)'
      BY DEF Lives
    <3>1. /\ taken[k] <= life + late[k] /\ (k \in replay => taken[k] > 0)
          /\ expiry[k] = "valid" /\ k \notin replay => taken[k] < life + late[k]
          /\ life' = life /\ expiry'[k] = expiry[k] /\ life \in Nat /\ late[k] \in Nat
          /\ expiry[k] \in {"valid", "late", "over"}
      BY <1>1 DEF Lives
    <3>2. CASE k = m /\ expiry[k] = "valid"
      <4>1. k \in replay' /\ k \notin held BY <1>9, <3>2
      <4>2. k \notin replay BY <1>3, <3>2, <4>1
      <4>3. taken'[k] = taken[k] + 1 /\ late'[k] = late[k] BY <1>10, <2>1, <3>2
      <4> HIDE DEF InboxInv, InboxTypes
      <4> QED BY <2>14, <3>1, <3>2, <4>1, <4>2, <4>3
    <3>3. CASE k = m /\ expiry[k] = "late"
      <4>1. taken'[k] = taken[k] + 1 /\ late'[k] = late[k] + 1 BY <1>10, <2>1, <3>3
      <4> HIDE DEF InboxInv, InboxTypes
      <4> QED BY <2>14, <3>1, <3>3, <4>1
    <3>4. CASE k # m
      <4>1. /\ k \in replay' <=> k \in held
        BY <1>9, <3>4
      <4>2. taken'[k] = taken[k] /\ late'[k] = late[k] BY <1>10, <2>1, <3>4
      <4>3. /\ k \in replay' => k \in replay
            /\ expiry[k] = "valid" /\ k \notin replay' => k \notin replay
        BY <1>3, <4>1
      <4> HIDE DEF InboxInv, InboxTypes
      <4> QED BY <3>1, <4>2, <4>3
    <3>5. k = m => expiry[k] # "over" BY <1>9
    <3> QED BY <3>1, <3>2, <3>3, <3>4, <3>5
  <2>17. Arrivals'
    <3> SUFFICES ASSUME NEW k \in Mail
                 PROVE  /\ (taken[k] > 0 => sending[k] = "sent")'
                        /\ ((\E i \in DOMAIN queue : queue[i] = k) => sending[k] = "sent")'
                        /\ (crashes = 0 /\ sending[k] = "sent" =>
                              taken[k] > 0 \/ (\E i \in DOMAIN queue : queue[i] = k)
                                \/ expiry[k] = "over")'
      BY DEF Arrivals
    <3>1. /\ sending' = sending /\ crashes' = crashes /\ expiry' = expiry
          /\ taken[k] > 0 => sending[k] = "sent"
          /\ (\E i \in DOMAIN queue : queue[i] = k) => sending[k] = "sent"
          /\ crashes = 0 /\ sending[k] = "sent" =>
               taken[k] > 0 \/ (\E i \in DOMAIN queue : queue[i] = k) \/ expiry[k] = "over"
      BY <1>1 DEF Arrivals
    <3>2. CASE k = m
      <4>1. taken'[k] > 0 BY <2>1, <2>14, <3>2
      <4> QED BY <1>6, <3>1, <3>2, <4>1
    <3>3. CASE k # m
      <4>1. taken'[k] = taken[k] BY <2>1, <3>3
      <4> QED BY <1>4, <1>5, <3>1, <3>3, <4>1
    <3> QED BY <3>2, <3>3
  <2> QED BY <1>7, <2>6, <2>7, <2>8, <2>15, <2>16, <2>17
<1> QED BY <1>3, <1>8, <1>9

\* The lines of the daemon go to the file.
LEMMA AppendKeeps == ASSUME InboxInv, I!AppendInbox PROVE InboxInv'
<1> USE DEF InboxInv
<1>1. /\ process[Daemon] = "append"
      /\ inbox' = I!Written(inbox, lines[Daemon])
      /\ lines' = [lines EXCEPT ![Daemon] = <<>>]
      /\ process' = [process EXCEPT ![Daemon] = "unlock"]
      /\ UNCHANGED <<sending, target, life, addr, queue, expiry, replay, inboxLock, shown, taken, late, crashes>>
  BY DEF I!AppendInbox, I!Goto, I!sendVars
<1>2. /\ inbox \in Seq(InboxLine) /\ lines[Daemon] \in Seq(InboxLine)
      /\ lines \in [I!Process -> Seq(InboxLine)] /\ DOMAIN process = I!Process
  BY InboxProcesses DEF InboxTypes
<1>3. inboxLock = Daemon BY <1>1, InboxProcesses DEF LockHeld, InCritical
<1>4. /\ lines' \in [I!Process -> Seq(InboxLine)] /\ lines'[Daemon] = <<>>
      /\ \A r \in Reader : lines'[r] = lines[r]
  BY <1>1, <1>2, InboxProcesses, NoLinesNoCopies
<1>5. /\ DOMAIN process' = I!Process /\ process'[Daemon] = "unlock"
      /\ \A r \in Reader : process'[r] = process[r]
  BY <1>1, <1>2, InboxProcesses
<1>6. inbox' \in Seq(InboxLine) BY <1>1, <1>2, WrittenCopies
<1>7. \A r \in Reader : process[r] \notin InCritical BY <1>3, InboxProcesses DEF LockHeld
<1>8. InboxTypes' BY <1>1, <1>4, <1>5, <1>6 DEF InboxTypes, DaemonStages
<1>9. LockHeld' BY <1>1, <1>3, <1>5, InboxProcesses DEF LockHeld
<1>10. LinesKnown'
  <2>1. \A r \in Reader : process'[r] \in {"idle", "lock"}
    BY <1>5, <1>7 DEF InboxTypes, ReaderStages, InCritical
  <2>2. DOMAIN lines'[Daemon] = {} BY <1>4
  <2> QED BY <1>4, <1>5, <2>1, <2>2, InboxProcesses DEF LinesKnown
<1>11. LinesEnded'
  <2> SUFFICES ASSUME crashes = 0 PROVE \A i \in DOMAIN inbox' : inbox'[i].ended
    BY <1>1 DEF LinesEnded
  <2>1. \A i \in DOMAIN inbox : inbox[i].ended BY DEF LinesEnded
  <2>2. inbox' = inbox \o lines[Daemon] BY <1>1, <1>2, <2>1, WrittenCopies
  <2>3. \A i \in DOMAIN lines[Daemon] : lines[Daemon][i].ended BY DEF LinesKnown
  <2> DEFINE a == inbox
             b == lines[Daemon]
  <2>4. a \in Seq(InboxLine) /\ b \in Seq(InboxLine) BY <1>2
  <2>5. \A i \in DOMAIN a : a[i].ended BY <2>1
  <2>6. \A i \in DOMAIN b : b[i].ended BY <2>3
  <2> HIDE DEF a, b
  <2>7. \A i \in DOMAIN (a \o b) : (a \o b)[i].ended BY <2>4, <2>5, <2>6, EndedConcat
  <2> QED BY <2>2, <2>7 DEF a, b
<1>12. HeldLines = <<>> /\ HeldLines' = <<>>
  BY <1>1, <1>3, InboxProcesses DEF HeldLines
<1>13. Balance'
  <2> SUFFICES ASSUME NEW m \in Mail
               PROVE  /\ (Underway(m) + shown[m] <= taken[m])'
                      /\ (crashes = 0 => Underway(m) + shown[m] = taken[m])'
    BY DEF Balance
  <2> DEFINE c == I!Copies(inbox, m)
             d == I!Copies(lines[Daemon], m)
             e == I!Copies(I!Written(inbox, lines[Daemon]), m)
  <2>1. c \in Nat /\ d \in Nat BY UnderwayCounts
  <2>2. e \in Nat /\ e <= c + d /\ (crashes = 0 => e = c + d)
    <3>1. e \in Nat BY <1>1, <1>2, <1>6, CopiesCount
    <3>2. e <= c + d /\ ((\A i \in DOMAIN inbox : inbox[i].ended) => e = c + d)
      BY <1>2, WrittenCopies
    <3>3. crashes = 0 => \A i \in DOMAIN inbox : inbox[i].ended BY DEF LinesEnded
    <3> HIDE DEF c, d, e
    <3> QED BY <3>1, <3>2, <3>3
  <2>3. I!Copies(<<>>, m) = 0 BY NoLinesNoCopies
  <2>4. Underway(m) = c + d + 0 BY <1>12, <2>3 DEF Underway
  <2>5. Underway(m)' = e + 0 + 0
    <3>1. I!Copies(inbox, m)' = e BY <1>1
    <3>2. I!Copies(lines[Daemon], m)' = 0 /\ I!Copies(HeldLines, m)' = 0 BY <1>4, <1>12, <2>3
    <3> QED BY <3>1, <3>2 DEF Underway
  <2>6. /\ Underway(m) + shown[m] <= taken[m] /\ crashes' = crashes
        /\ shown'[m] = shown[m] /\ taken'[m] = taken[m]
        /\ crashes = 0 => Underway(m) + shown[m] = taken[m]
    BY <1>1 DEF Balance
  <2>7. shown[m] \in Nat /\ taken[m] \in Nat BY DEF InboxTypes
  <2> HIDE DEF c, d, e
  <2> QED BY <2>1, <2>2, <2>4, <2>5, <2>6, <2>7
<1>14. Lives' BY <1>1, <1>5 DEF Lives
<1>15. Arrivals' BY <1>1 DEF Arrivals
<1> QED BY <1>8, <1>9, <1>10, <1>11, <1>13, <1>14, <1>15

\* A step of a reader that moves no line of its own.
LEMMA ReaderWaits ==
    ASSUME InboxInv, NEW p \in I!Process,
           I!TakeLock(p) \/ (p \in Reader /\ I!StartRead(p))
    PROVE  InboxInv'
<1> USE DEF InboxInv
<1>1. /\ UNCHANGED <<sending, life, queue, expiry, replay, inbox, lines, shown, taken, late, crashes>>
      /\ \/ /\ process[p] = "idle" /\ p \in Reader /\ inboxLock' = inboxLock
            /\ process' = [process EXCEPT ![p] = "lock"]
         \/ /\ process[p] = "lock" /\ inboxLock = NoOne /\ inboxLock' = p
            /\ process' = [process EXCEPT ![p] = IF p = Daemon THEN "append" ELSE "read"]
  BY DEF I!TakeLock, I!StartRead, I!Flock, I!Goto, I!sendVars
<1>2. /\ DOMAIN process' = I!Process
      /\ \A q \in I!Process : q # p => process'[q] = process[q]
      /\ \/ process'[p] = "lock" /\ process[p] = "idle" /\ p \in Reader /\ inboxLock' = inboxLock
         \/ /\ process'[p] = (IF p = Daemon THEN "append" ELSE "read") /\ process[p] = "lock"
            /\ inboxLock = NoOne /\ inboxLock' = p
  BY <1>1 DEF InboxTypes
<1>3. InboxTypes'
  <2>1. process'[Daemon] \in DaemonStages
    BY <1>2, InboxProcesses DEF InboxTypes, DaemonStages
  <2>2. \A r \in Reader : process'[r] \in ReaderStages
    BY <1>2, InboxProcesses DEF InboxTypes, ReaderStages
  <2> QED BY <1>1, <1>2, <2>1, <2>2 DEF InboxTypes
<1>4. LockHeld' BY <1>1, <1>2, InboxProcesses DEF LockHeld, InCritical
<1>5. LinesKnown' BY <1>1, <1>2, InboxProcesses DEF LinesKnown
<1>6. LinesEnded' BY <1>1 DEF LinesEnded
<1>7. HeldLines' = HeldLines BY <1>1, <1>2, InboxProcesses DEF HeldLines
<1>8. Balance' BY <1>1, <1>7, BalanceStays
<1>9. process'[Daemon] # "down" <=> process[Daemon] # "down" BY <1>2, InboxProcesses
<1>10. Lives' BY <1>1, <1>9 DEF Lives
<1>11. Arrivals' BY <1>1 DEF Arrivals
<1> QED BY <1>3, <1>4, <1>5, <1>6, <1>8, <1>10, <1>11

\* What the steps of a reader that holds the lock share.
LEMMA ReaderKeeps ==
    ASSUME InboxInv, NEW r \in Reader, process[r] \in InCritical, process[r] # "unlock",
           UNCHANGED <<sending, life, queue, expiry, replay, inboxLock, shown, taken, late, crashes>>,
           inbox' \in Seq(InboxLine), \A i \in DOMAIN inbox' : inbox'[i].ended \/ inbox' = inbox,
           NEW s \in ReaderStages, process' = [process EXCEPT ![r] = s],
           s \in InCritical,
           NEW ls \in Seq(InboxLine), lines' = [lines EXCEPT ![r] = ls],
           \A i \in DOMAIN ls : ls[i].parses,
           s = "read" => ls = <<>>, s = "truncate" => ls = inbox', s = "write" => inbox' = <<>>,
           \A m \in Mail :
             /\ (I!Copies(inbox, m) + I!Copies(HeldLines, m) = I!Copies(inbox, m)' + I!Copies(HeldLines, m)')
             /\ I!Copies(inbox, m)' \in Nat /\ I!Copies(HeldLines, m)' \in Nat
    PROVE  InboxInv'
<1> USE DEF InboxInv
<1>1. /\ lines \in [I!Process -> Seq(InboxLine)] /\ DOMAIN process = I!Process /\ r \in I!Process
  BY InboxProcesses DEF InboxTypes
<1>2. /\ lines' \in [I!Process -> Seq(InboxLine)] /\ lines'[r] = ls
      /\ \A q \in I!Process : q # r => lines'[q] = lines[q]
  BY <1>1
<1>3. /\ DOMAIN process' = I!Process /\ process'[r] = s
      /\ \A q \in I!Process : q # r => process'[q] = process[q]
  BY <1>1
<1>4. r # Daemon /\ inboxLock = r BY <1>1, InboxProcesses DEF LockHeld
<1>5. \A q \in I!Process : q # r => process[q] \notin InCritical BY <1>4 DEF LockHeld
<1>6. InboxTypes' BY <1>2, <1>3, <1>4, InboxProcesses DEF InboxTypes
<1>7. LockHeld' BY <1>3, <1>4 DEF LockHeld
<1>8. LinesKnown'
  <2>1. \A q \in I!Process : \A i \in DOMAIN lines'[q] : lines'[q][i].parses
    BY <1>2 DEF LinesKnown
  <2>2. \A q \in Reader : q # r => process'[q] = process[q] /\ process[q] \in {"idle", "lock"}
    BY <1>3, <1>5, InboxProcesses DEF InboxTypes, ReaderStages, InCritical
  <2>3. \A q \in Reader :
          /\ process'[q] \in {"idle", "lock", "read"} => lines'[q] = <<>>
          /\ process'[q] = "truncate" => lines'[q] = inbox'
          /\ process'[q] = "write" => inbox' = <<>>
    <3> SUFFICES ASSUME NEW q \in Reader
                 PROVE  /\ process'[q] \in {"idle", "lock", "read"} => lines'[q] = <<>>
                        /\ process'[q] = "truncate" => lines'[q] = inbox'
                        /\ process'[q] = "write" => inbox' = <<>>
      OBVIOUS
    <3>1. CASE q = r BY <1>2, <1>3, <3>1 DEF InCritical
    <3>2. CASE q # r BY <1>2, <2>2, <3>2, InboxProcesses DEF LinesKnown
    <3> QED BY <3>1, <3>2
  <2>4. lines'[Daemon] = lines[Daemon] /\ process'[Daemon] = process[Daemon]
    BY <1>2, <1>3, <1>4, InboxProcesses
  <2> QED BY <2>1, <2>3, <2>4 DEF LinesKnown
<1>9. LinesEnded' BY DEF LinesEnded
<1>10. Balance'
  <2> SUFFICES ASSUME NEW m \in Mail
               PROVE  /\ (Underway(m) + shown[m] <= taken[m])'
                      /\ (crashes = 0 => Underway(m) + shown[m] = taken[m])'
    BY DEF Balance
  <2>1. I!Copies(lines[Daemon], m)' = I!Copies(lines[Daemon], m)
    BY <1>2, <1>4, InboxProcesses
  <2>2. /\ I!Copies(inbox, m) \in Nat /\ I!Copies(lines[Daemon], m) \in Nat
        /\ I!Copies(HeldLines, m) \in Nat
    BY UnderwayCounts
  <2>3. /\ I!Copies(inbox, m) + I!Copies(HeldLines, m) = I!Copies(inbox, m)' + I!Copies(HeldLines, m)'
        /\ I!Copies(inbox, m)' \in Nat /\ I!Copies(HeldLines, m)' \in Nat
    OBVIOUS
  <2>4. Underway(m)' = I!Copies(inbox, m)' + I!Copies(lines[Daemon], m)' + I!Copies(HeldLines, m)'
    BY DEF Underway
  <2>5. Underway(m)' = Underway(m)
    <3> DEFINE u == I!Copies(inbox, m)
               v == I!Copies(lines[Daemon], m)
               w == I!Copies(HeldLines, m)
    <3>1. PICK x \in Nat, y \in Nat : x = I!Copies(inbox, m)' /\ y = I!Copies(HeldLines, m)'
      BY <2>3
    <3>2. Underway(m)' = x + v + y BY <2>1, <2>4, <3>1
    <3>3. Underway(m) = u + v + w BY DEF Underway
    <3>4. u \in Nat /\ v \in Nat /\ w \in Nat /\ u + w = x + y BY <2>2, <2>3, <3>1
    <3> HIDE DEF u, v, w
    <3> QED BY <3>2, <3>3, <3>4
  <2> QED BY <2>5 DEF Balance
<1>11. process'[Daemon] = process[Daemon] BY <1>3, <1>4, InboxProcesses
<1>12. Lives' BY <1>11 DEF Lives
<1>13. Arrivals' BY DEF Arrivals
<1> QED BY <1>6, <1>7, <1>8, <1>9, <1>10, <1>12, <1>13

\* What was read is still in the file, until the file is emptied; then the
\* reader has it, and the file gets it back as read.
LEMMA ReaderMoves ==
    ASSUME InboxInv, NEW r \in Reader, I!ReadLines(r) \/ I!Truncate(r) \/ I!Write(r)
    PROVE  InboxInv'
<1> USE DEF InboxInv
<1>1. /\ UNCHANGED <<sending, life, queue, expiry, replay, inboxLock, shown, taken, late, crashes>>
      /\ process[r] \in {"read", "truncate", "write"}
  BY DEF I!ReadLines, I!Truncate, I!Write, I!sendVars
<1>2. r \in I!Process /\ inboxLock = r /\ process[r] \in InCritical
  BY <1>1, InboxProcesses DEF LockHeld, InCritical
<1>3. /\ inbox \in Seq(InboxLine) /\ lines[r] \in Seq(InboxLine)
      /\ lines \in [I!Process -> Seq(InboxLine)] /\ DOMAIN process = I!Process
  BY <1>2 DEF InboxTypes
<1>4. CASE I!ReadLines(r)
  <2>1. process[r] = "read" /\ inbox' = inbox /\ lines[r] = <<>>
    BY <1>4 DEF I!ReadLines, LinesKnown
  <2>2. HeldLines = <<>> BY <1>2, <2>1 DEF HeldLines
  <2>3. CASE /\ \A i \in DOMAIN inbox : inbox[i].parses
             /\ lines' = [lines EXCEPT ![r] = inbox]
             /\ process' = [process EXCEPT ![r] = "truncate"]
    <3>1. process'[r] = "truncate" BY <1>2, <1>3, <2>3
    <3>2. HeldLines' = <<>> BY <1>1, <1>2, <3>1 DEF HeldLines
    <3>3. \A m \in Mail :
            /\ (I!Copies(inbox, m) + I!Copies(HeldLines, m) = I!Copies(inbox, m)' + I!Copies(HeldLines, m)')
            /\ I!Copies(inbox, m)' \in Nat /\ I!Copies(HeldLines, m)' \in Nat
      BY <2>1, <2>2, <3>2, UnderwayCounts
    <3> QED BY <1>1, <1>2, <1>3, <2>1, <2>3, <3>3, ReaderKeeps DEF ReaderStages, InCritical
  <2>4. CASE UNCHANGED lines /\ process' = [process EXCEPT ![r] = "unlock"]
    <3>1. process'[r] = "unlock" /\ lines'[r] = <<>> BY <1>2, <1>3, <2>1, <2>4
    <3>2. HeldLines' = <<>> BY <1>1, <1>2, <3>1 DEF HeldLines
    <3>3. \A m \in Mail :
            /\ (I!Copies(inbox, m) + I!Copies(HeldLines, m) = I!Copies(inbox, m)' + I!Copies(HeldLines, m)')
            /\ I!Copies(inbox, m)' \in Nat /\ I!Copies(HeldLines, m)' \in Nat
      BY <2>1, <2>2, <3>2, UnderwayCounts
    <3>4. lines' = [lines EXCEPT ![r] = <<>>] BY <1>2, <1>3, <2>1, <2>4
    <3>5. <<>> \in Seq(InboxLine) /\ \A i \in DOMAIN <<>> : <<>>[i].parses BY NoLinesNoCopies
    <3>6. "unlock" \in ReaderStages /\ "unlock" \in InCritical /\ inbox' \in Seq(InboxLine)
          /\ process[r] # "unlock" /\ \A i \in DOMAIN inbox' : inbox'[i].ended \/ inbox' = inbox
      BY <1>3, <2>1 DEF ReaderStages, InCritical
    <3> QED BY <1>1, <1>2, <2>4, <3>3, <3>4, <3>5, <3>6, ReaderKeeps
  <2> QED BY <1>4, <2>3, <2>4 DEF I!ReadLines, I!Goto
<1>5. CASE I!Truncate(r)
  <2>1. /\ process[r] = "truncate" /\ inbox' = <<>> /\ lines' = lines
        /\ process' = [process EXCEPT ![r] = "write"] /\ lines[r] = inbox
    BY <1>5 DEF I!Truncate, I!Goto, LinesKnown
  <2>2. HeldLines = <<>> BY <1>2, <2>1 DEF HeldLines
  <2>3. process'[r] = "write" BY <1>2, <1>3, <2>1
  <2>4. HeldLines' = inbox BY <1>1, <1>2, <2>1, <2>3 DEF HeldLines
  <2>5. \A m \in Mail :
          /\ (I!Copies(inbox, m) + I!Copies(HeldLines, m) = I!Copies(inbox, m)' + I!Copies(HeldLines, m)')
          /\ I!Copies(inbox, m)' \in Nat /\ I!Copies(HeldLines, m)' \in Nat
    <3> SUFFICES ASSUME NEW m \in Mail
                 PROVE  /\ (I!Copies(inbox, m) + I!Copies(HeldLines, m) = I!Copies(inbox, m)' + I!Copies(HeldLines, m)')
                        /\ I!Copies(inbox, m)' \in Nat /\ I!Copies(HeldLines, m)' \in Nat
      OBVIOUS
    <3>1. I!Copies(inbox, m) \in Nat /\ I!Copies(<<>>, m) = 0 BY UnderwayCounts, NoLinesNoCopies
    <3>2. I!Copies(inbox, m)' = 0 BY <2>1, <3>1
    <3>3. I!Copies(HeldLines, m)' = I!Copies(inbox, m) BY <2>4
    <3>4. I!Copies(HeldLines, m) = 0 BY <2>2, <3>1
    <3> QED BY <3>1, <3>2, <3>3, <3>4
  <2>6. lines' = [lines EXCEPT ![r] = lines[r]] BY <1>2, <1>3, <2>1
  <2>7. \A i \in DOMAIN lines[r] : lines[r][i].parses BY <1>2 DEF LinesKnown
  <2>8. inbox' \in Seq(InboxLine) /\ \A i \in DOMAIN inbox' : inbox'[i].ended
    BY <2>1, NoLinesNoCopies
  <2> QED BY <1>1, <1>2, <1>3, <2>1, <2>5, <2>6, <2>7, <2>8, ReaderKeeps DEF ReaderStages, InCritical
<1>6. CASE I!Write(r)
  <2>1. /\ process[r] = "write" /\ lines' = lines /\ inbox = <<>>
        /\ process' = [process EXCEPT ![r] = "unlock"]
        /\ inbox' = I!Written(<<>>, I!MarkedRead(lines[r]))
    BY <1>6 DEF I!Write, I!Goto, LinesKnown
  <2>2. HeldLines = lines[r] BY <1>2, <2>1 DEF HeldLines
  <2>3. process'[r] = "unlock" BY <1>2, <1>3, <2>1
  <2>4. HeldLines' = lines[r] BY <1>1, <1>2, <2>1, <2>3 DEF HeldLines
  <2>5. inbox' = I!MarkedRead(lines[r])
    <3>1. I!MarkedRead(lines[r]) \in Seq(InboxLine) BY <1>3, MarkedReadCopies
    <3>2. inbox' = <<>> \o I!MarkedRead(lines[r]) BY <2>1 DEF I!Written
    <3> QED BY <3>1, <3>2, ConcatEmptySeq
  <2>6. inbox' \in Seq(InboxLine) /\ \A i \in DOMAIN inbox' : inbox'[i].ended
    BY <1>3, <2>5, MarkedReadCopies
  <2>7. \A m \in Mail :
          /\ (I!Copies(inbox, m) + I!Copies(HeldLines, m) = I!Copies(inbox, m)' + I!Copies(HeldLines, m)')
          /\ I!Copies(inbox, m)' \in Nat /\ I!Copies(HeldLines, m)' \in Nat
    <3> SUFFICES ASSUME NEW m \in Mail
                 PROVE  /\ (I!Copies(inbox, m) + I!Copies(HeldLines, m) = I!Copies(inbox, m)' + I!Copies(HeldLines, m)')
                        /\ I!Copies(inbox, m)' \in Nat /\ I!Copies(HeldLines, m)' \in Nat
      OBVIOUS
    <3>1. I!Copies(HeldLines, m) \in Nat /\ I!Copies(<<>>, m) = 0 BY UnderwayCounts, NoLinesNoCopies
    <3>2. I!Copies(inbox, m)' = 0
      <4>1. I!Copies(I!MarkedRead(lines[r]), m) = 0 BY <1>3, MarkedReadCopies
      <4> QED BY <2>5, <4>1
    <3>3. I!Copies(HeldLines, m)' = I!Copies(HeldLines, m) BY <2>2, <2>4
    <3>4. I!Copies(inbox, m) = 0 BY <2>1, <3>1
    <3> QED BY <3>1, <3>2, <3>3, <3>4
  <2>8. lines' = [lines EXCEPT ![r] = lines[r]] BY <1>2, <1>3, <2>1
  <2>9. \A i \in DOMAIN lines[r] : lines[r][i].parses BY <1>2 DEF LinesKnown
  <2> QED BY <1>1, <1>2, <1>3, <2>1, <2>6, <2>7, <2>8, <2>9, ReaderKeeps DEF ReaderStages, InCritical
<1> QED BY <1>4, <1>5, <1>6

\* The process that returns shows what it held, and holds nothing.
LEMMA ReturnKeeps == ASSUME InboxInv, NEW p \in I!Process, I!Return(p) PROVE InboxInv'
<1> USE DEF InboxInv
<1>1. /\ process[p] = "unlock" /\ inboxLock' = NoOne
      /\ shown' = [m \in Mail |-> shown[m] + I!Copies(lines[p], m)]
      /\ lines' = [lines EXCEPT ![p] = <<>>]
      /\ process' = [process EXCEPT ![p] = "idle"]
      /\ UNCHANGED <<sending, life, queue, expiry, replay, inbox, taken, late, crashes>>
  BY DEF I!Return, I!Goto, I!sendVars
<1>2. /\ inbox \in Seq(InboxLine) /\ lines[p] \in Seq(InboxLine)
      /\ lines \in [I!Process -> Seq(InboxLine)] /\ DOMAIN process = I!Process
  BY DEF InboxTypes
<1>3. inboxLock = p /\ \A q \in I!Process : q # p => process[q] \notin InCritical
  BY <1>1, InboxProcesses DEF LockHeld, InCritical
<1>4. /\ lines' \in [I!Process -> Seq(InboxLine)] /\ lines'[p] = <<>>
      /\ \A q \in I!Process : q # p => lines'[q] = lines[q]
  BY <1>1, <1>2, NoLinesNoCopies
<1>5. /\ DOMAIN process' = I!Process /\ process'[p] = "idle"
      /\ \A q \in I!Process : q # p => process'[q] = process[q]
  BY <1>1, <1>2
<1>6. \A m \in Mail : I!Copies(lines[p], m) \in Nat BY <1>2, CopiesCount
<1>7. shown' \in [Mail -> Nat] /\ \A m \in Mail : shown'[m] = shown[m] + I!Copies(lines[p], m)
  <2>1. \A m \in Mail : shown[m] \in Nat BY DEF InboxTypes
  <2>2. \A m \in Mail : shown[m] + I!Copies(lines[p], m) \in Nat BY <1>6, <2>1
  <2> QED BY <1>1, <2>2
<1>8. InboxTypes' BY <1>1, <1>4, <1>5, <1>7, InboxProcesses DEF InboxTypes, DaemonStages, ReaderStages
<1>9. LockHeld' BY <1>3, <1>5 DEF LockHeld, InCritical
<1>10. LinesKnown'
  <2>1. \A q \in I!Process : \A i \in DOMAIN lines'[q] : lines'[q][i].parses
    BY <1>4 DEF LinesKnown
  <2>2. \A q \in Reader : /\ process'[q] \in {"idle", "lock", "read"} => lines'[q] = <<>>
                          /\ process'[q] = "truncate" => lines'[q] = inbox'
                          /\ process'[q] = "write" => inbox' = <<>>
    <3> SUFFICES ASSUME NEW q \in Reader
                 PROVE  /\ process'[q] \in {"idle", "lock", "read"} => lines'[q] = <<>>
                        /\ process'[q] = "truncate" => lines'[q] = inbox'
                        /\ process'[q] = "write" => inbox' = <<>>
      OBVIOUS
    <3>1. CASE q = p BY <1>4, <1>5, <3>1
    <3>2. CASE q # p BY <1>1, <1>4, <1>5, <3>2, InboxProcesses DEF LinesKnown
    <3> QED BY <3>1, <3>2
  <2>3. process'[Daemon] \notin {"lock", "append"} => lines'[Daemon] = <<>>
    BY <1>4, <1>5, InboxProcesses DEF LinesKnown
  <2>4. \A i \in DOMAIN lines'[Daemon] : lines'[Daemon][i].ended
    BY <1>4, InboxProcesses DEF LinesKnown
  <2> QED BY <2>1, <2>2, <2>3, <2>4 DEF LinesKnown
<1>11. LinesEnded' BY <1>1 DEF LinesEnded
<1>12. Balance'
  <2> SUFFICES ASSUME NEW m \in Mail
               PROVE  /\ (Underway(m) + shown[m] <= taken[m])'
                      /\ (crashes = 0 => Underway(m) + shown[m] = taken[m])'
    BY DEF Balance
  <2> DEFINE c == I!Copies(inbox, m)
             x == I!Copies(lines[Daemon], m)
             d == I!Copies(lines[p], m)
  <2>1. c \in Nat /\ d \in Nat /\ x \in Nat BY <1>6, UnderwayCounts
  <2>2. I!Copies(<<>>, m) = 0 BY NoLinesNoCopies
  <2>3. HeldLines' = <<>> BY <1>1, InboxProcesses DEF HeldLines
  <2>4. Underway(m) = c + x + d
    <3>1. CASE p = Daemon
      <4>1. HeldLines = <<>> BY <1>3, <3>1, InboxProcesses DEF HeldLines
      <4>2. lines[p] = <<>> BY <1>1, <3>1 DEF LinesKnown
      <4> QED BY <4>1, <4>2 DEF Underway
    <3>2. CASE p # Daemon
      <4>1. p \in Reader BY <3>2, InboxProcesses
      <4>2. HeldLines = lines[p] BY <1>1, <1>3, <4>1 DEF HeldLines
      <4> QED BY <4>2 DEF Underway
    <3> QED BY <3>1, <3>2
  <2>5. Underway(m)' = c + x + 0
    <3>1. lines'[Daemon] = lines[Daemon]
      <4>1. CASE p = Daemon BY <1>1, <1>4, <4>1 DEF LinesKnown
      <4>2. CASE p # Daemon BY <1>4, <4>2, InboxProcesses
      <4> QED BY <4>1, <4>2
    <3>2. I!Copies(lines[Daemon], m)' = x BY <3>1
    <3>3. I!Copies(inbox, m)' = c BY <1>1
    <3>4. I!Copies(HeldLines, m)' = 0 BY <2>2, <2>3
    <3> QED BY <3>2, <3>3, <3>4 DEF Underway
  <2>6. /\ Underway(m) + shown[m] <= taken[m] /\ crashes' = crashes
        /\ shown'[m] = shown[m] + d /\ taken'[m] = taken[m]
        /\ crashes = 0 => Underway(m) + shown[m] = taken[m]
    BY <1>1, <1>7 DEF Balance
  <2>7. shown[m] \in Nat /\ taken[m] \in Nat BY DEF InboxTypes
  <2> HIDE DEF c, d, x
  <2> QED BY <2>1, <2>4, <2>5, <2>6, <2>7
<1>13. Lives'
  <2>1. process'[Daemon] # "down" => process[Daemon] # "down" BY <1>1, <1>5, InboxProcesses
  <2> QED BY <1>1, <2>1 DEF Lives
<1>14. Arrivals' BY <1>1 DEF Arrivals
<1> QED BY <1>8, <1>9, <1>10, <1>11, <1>12, <1>13, <1>14

\* What dies with a process is lost, never doubled.
LEMMA CrashKeeps == ASSUME InboxInv, NEW p \in I!Process, I!Crash(p) PROVE InboxInv'
<1> USE DEF InboxInv
<1>1. /\ IF p = Daemon THEN process[p] # "down" ELSE process[p] # "idle"
      /\ crashes' = crashes + 1
      /\ inboxLock' = IF inboxLock = p THEN NoOne ELSE inboxLock
      /\ process' = [process EXCEPT ![p] = IF p = Daemon THEN "down" ELSE "idle"]
      /\ lines' = [lines EXCEPT ![p] = <<>>]
      /\ replay' = IF p = Daemon THEN {} ELSE replay
      /\ queue' = IF p = Daemon THEN <<>> ELSE queue
      /\ UNCHANGED <<sending, life, expiry, shown, taken, late>>
  BY DEF I!Crash, I!Goto
<1>2. \/ process[p] = "append" /\ \E ls \in I!Remains(lines[p]) : inbox' = I!Written(inbox, ls)
      \/ process[p] = "write" /\ inbox' \in I!Remains(I!MarkedRead(lines[p]))
      \/ process[p] \notin {"append", "write"} /\ inbox' = inbox
  <2>1. inbox' \in CASE process[p] = "append" -> {I!Written(inbox, ls) : ls \in I!Remains(lines[p])}
                     [] process[p] = "write" -> I!Remains(I!MarkedRead(lines[p]))
                     [] process[p] \notin {"append", "write"} -> {inbox}
    BY DEF I!Crash
  <2>2. CASE process[p] = "append"
    <3>1. inbox' \in {I!Written(inbox, ls) : ls \in I!Remains(lines[p])} BY <2>1, <2>2
    <3> QED BY <2>2, <3>1
  <2>3. CASE process[p] = "write" BY <2>1, <2>3
  <2>4. CASE process[p] \notin {"append", "write"} BY <2>1, <2>4
  <2> QED BY <2>2, <2>3, <2>4
<1>3. /\ inbox \in Seq(InboxLine) /\ lines[p] \in Seq(InboxLine)
      /\ lines \in [I!Process -> Seq(InboxLine)] /\ DOMAIN process = I!Process
  BY DEF InboxTypes
<1>4. /\ lines' \in [I!Process -> Seq(InboxLine)] /\ lines'[p] = <<>>
      /\ \A q \in I!Process : q # p => lines'[q] = lines[q]
  BY <1>1, <1>3, NoLinesNoCopies
<1>5. /\ DOMAIN process' = I!Process /\ process'[p] = (IF p = Daemon THEN "down" ELSE "idle")
      /\ \A q \in I!Process : q # p => process'[q] = process[q]
  BY <1>1, <1>3
\* What is in the file afterwards was there, or was about to be appended.
<1>6. /\ inbox' \in Seq(InboxLine)
      /\ \A m \in Mail : I!Copies(inbox', m) <= I!Copies(inbox, m) + (IF p = Daemon THEN I!Copies(lines[Daemon], m) ELSE 0)
  <2>1. \A i \in DOMAIN lines[p] : lines[p][i].parses BY DEF LinesKnown
  <2>2. \A m \in Mail : I!Copies(inbox, m) \in Nat /\ I!Copies(lines[p], m) \in Nat
    BY <1>3, CopiesCount
  <2>3. CASE process[p] = "append" /\ \E ls \in I!Remains(lines[p]) : inbox' = I!Written(inbox, ls)
    <3>1. p = Daemon BY <2>3, InboxProcesses DEF InboxTypes, ReaderStages
    <3>2. PICK ls \in I!Remains(lines[p]) : inbox' = I!Written(inbox, ls) BY <2>3
    <3>3. ls \in Seq(InboxLine) /\ \A m \in Mail : I!Copies(ls, m) <= I!Copies(lines[p], m)
      BY <1>3, <2>1, RemainsCopies
    <3>4. /\ I!Written(inbox, ls) \in Seq(InboxLine)
          /\ \A m \in Mail : I!Copies(I!Written(inbox, ls), m) <= I!Copies(inbox, m) + I!Copies(ls, m)
      BY <1>3, <3>3, WrittenCopies
    <3>5. \A m \in Mail : I!Copies(ls, m) \in Nat /\ I!Copies(I!Written(inbox, ls), m) \in Nat
      BY <3>3, <3>4, CopiesCount
    <3>6. ASSUME NEW m \in Mail
          PROVE  I!Copies(I!Written(inbox, ls), m) <= I!Copies(inbox, m) + I!Copies(lines[p], m)
      BY <2>2, <3>3, <3>4, <3>5
    <3> QED BY <3>1, <3>2, <3>4, <3>6
  <2>4. CASE process[p] = "write" /\ inbox' \in I!Remains(I!MarkedRead(lines[p]))
    <3> DEFINE a == I!MarkedRead(lines[p])
    <3>1. /\ a \in Seq(InboxLine) /\ \A m \in Mail : I!Copies(a, m) = 0
          /\ \A i \in DOMAIN a : a[i].read
      BY <1>3, MarkedReadCopies
    <3>2. inbox' \in I!Remains(a) BY <2>4
    <3> HIDE DEF a
    <3>3. inbox' \in Seq(InboxLine) /\ \A m \in Mail : I!Copies(inbox', m) <= I!Copies(a, m)
      BY <3>1, <3>2, RemainsCopies
    <3>4. p # Daemon BY <2>4 DEF InboxTypes, DaemonStages
    <3>5. \A m \in Mail : I!Copies(inbox', m) \in Nat BY <3>3, CopiesCount
    <3> QED BY <2>2, <3>1, <3>3, <3>4, <3>5
  <2>5. CASE process[p] \notin {"append", "write"} /\ inbox' = inbox
    BY <1>3, <2>2, <2>5
  <2> QED BY <1>2, <2>3, <2>4, <2>5
<1>7. life \in Nat /\ crashes \in Nat BY DEF InboxTypes
<1>8. InboxTypes'
  <2>1. replay' \in SUBSET Mail /\ queue' \in Seq(Mail)
    BY <1>1, EmptySeq DEF InboxTypes
  <2>2. process'[Daemon] \in DaemonStages /\ \A r \in Reader : process'[r] \in ReaderStages
    BY <1>5, InboxProcesses DEF InboxTypes, DaemonStages, ReaderStages
  <2> QED BY <1>1, <1>4, <1>5, <1>6, <1>7, <2>1, <2>2 DEF InboxTypes
<1>9. LockHeld' BY <1>1, <1>5, InboxProcesses DEF LockHeld, InCritical
<1>10. inbox' = inbox \/ inboxLock = p BY <1>2, InboxProcesses DEF LockHeld, InCritical
<1>11. LinesKnown'
  <2>1. \A q \in I!Process : \A i \in DOMAIN lines'[q] : lines'[q][i].parses
    BY <1>4 DEF LinesKnown
  <2>2. ASSUME NEW q \in Reader
        PROVE  /\ process'[q] \in {"idle", "lock", "read"} => lines'[q] = <<>>
               /\ process'[q] = "truncate" => lines'[q] = inbox'
               /\ process'[q] = "write" => inbox' = <<>>
    <3>1. CASE q = p BY <1>4, <1>5, <3>1, InboxProcesses
    <3>2. CASE q # p
      <4>1. process'[q] = process[q] /\ lines'[q] = lines[q] BY <1>4, <1>5, <3>2, InboxProcesses
      <4>2. process[q] \in {"truncate", "write"} => inbox' = inbox
        BY <1>10, <3>2, InboxProcesses DEF LockHeld, InCritical
      <4> QED BY <4>1, <4>2 DEF LinesKnown
    <3> QED BY <3>1, <3>2
  <2>3. process'[Daemon] \notin {"lock", "append"} => lines'[Daemon] = <<>>
    BY <1>4, <1>5, InboxProcesses DEF LinesKnown
  <2>4. \A i \in DOMAIN lines'[Daemon] : lines'[Daemon][i].ended
    BY <1>4, InboxProcesses DEF LinesKnown
  <2> QED BY <2>1, <2>2, <2>3, <2>4 DEF LinesKnown
<1>12. crashes' # 0 BY <1>1, <1>7
<1>13. LinesEnded' BY <1>12 DEF LinesEnded
<1>14. Balance'
  <2> SUFFICES ASSUME NEW m \in Mail PROVE (Underway(m) + shown[m] <= taken[m])'
    BY <1>12 DEF Balance
  <2> DEFINE c == I!Copies(inbox, m)
             x == I!Copies(lines[Daemon], m)
             h == I!Copies(HeldLines, m)
  <2>1. c \in Nat /\ x \in Nat /\ h \in Nat BY UnderwayCounts
  <2>2. I!Copies(<<>>, m) = 0 BY NoLinesNoCopies
  <2>3. I!Copies(inbox', m) \in Nat BY <1>6, CopiesCount
  <2>4. PICK e \in Nat : e = I!Copies(inbox, m)' BY <2>3
  <2>5. e <= c + (IF p = Daemon THEN x ELSE 0) BY <1>6, <2>4
  <2>6. PICK y \in Nat : y = I!Copies(lines[Daemon], m)' /\ y = IF p = Daemon THEN 0 ELSE x
    <3>1. CASE p = Daemon BY <1>4, <2>2, <3>1
    <3>2. CASE p # Daemon
      <4>1. lines'[Daemon] = lines[Daemon] BY <1>4, <3>2, InboxProcesses
      <4> QED BY <2>1, <3>2, <4>1
    <3> QED BY <3>1, <3>2
  <2>7. PICK g \in Nat : g = I!Copies(HeldLines, m)' /\ g <= h
    <3>1. CASE inboxLock = p
      <4>1. HeldLines' = <<>> BY <1>1, <3>1, InboxProcesses DEF HeldLines
      <4>2. I!Copies(HeldLines, m)' = 0 BY <2>2, <4>1
      <4> HIDE DEF h
      <4> QED BY <2>1, <4>2
    <3>2. CASE inboxLock # p
      <4>1. HeldLines' = HeldLines BY <1>1, <1>4, <1>5, <3>2, InboxProcesses DEF HeldLines
      <4>2. I!Copies(HeldLines, m)' = h BY <4>1
      <4> HIDE DEF h
      <4> QED BY <2>1, <4>2
    <3> QED BY <3>1, <3>2
  <2>8. Underway(m)' = e + y + g BY <2>4, <2>6, <2>7 DEF Underway
  <2>9. Underway(m) = c + x + h BY DEF Underway
  <2>10. Underway(m) + shown[m] <= taken[m] /\ shown'[m] = shown[m] /\ taken'[m] = taken[m]
    BY <1>1 DEF Balance
  <2>11. shown[m] \in Nat /\ taken[m] \in Nat BY DEF InboxTypes
  <2> HIDE DEF c, x, h
  <2>12. e + y + g <= c + x + h BY <2>1, <2>5, <2>6, <2>7
  <2> QED BY <2>1, <2>8, <2>9, <2>10, <2>11, <2>12
<1>15. Lives'
  <2>1. process'[Daemon] # "down" => replay' = replay /\ process[Daemon] # "down"
    BY <1>1, <1>5, InboxProcesses
  <2> QED BY <1>1, <1>12, <2>1 DEF Lives
<1>16. Arrivals'
  <2>1. \A m \in Mail : (\E i \in DOMAIN queue' : queue'[i] = m) => \E i \in DOMAIN queue : queue[i] = m
    BY <1>1, EmptySeq
  <2> QED BY <1>1, <1>12, <2>1 DEF Arrivals
<1> QED BY <1>8, <1>9, <1>11, <1>13, <1>14, <1>15, <1>16

LEMMA InboxInit == I!Init => InboxInv
<1> SUFFICES ASSUME I!Init PROVE InboxInv OBVIOUS
<1>1. /\ sending = [m \in Mail |-> "unsent"] /\ queue = <<>> /\ life = 0 /\ crashes = 0
      /\ replay = {} /\ inbox = <<>> /\ inboxLock = NoOne
      /\ lines = [p \in I!Process |-> <<>>]
      /\ shown = [m \in Mail |-> 0] /\ taken = [m \in Mail |-> 0]
      /\ late = [m \in Mail |-> 0] /\ expiry = [m \in Mail |-> "valid"]
      /\ process = [p \in I!Process |-> IF p = Daemon THEN "down" ELSE "idle"]
  BY DEF I!Init
<1>2. InboxTypes
  <2>1. <<>> \in Seq(InboxLine) /\ <<>> \in Seq(Mail) BY EmptySeq
  <2> QED BY <1>1, <2>1, InboxProcesses DEF InboxTypes, Outcomes, ReaderStages, DaemonStages
<1>3. LockHeld BY <1>1 DEF LockHeld, InCritical
<1>4. DOMAIN <<>> = {} /\ \A p \in I!Process : lines[p] = <<>> BY <1>1
<1>5. LinesKnown BY <1>1, <1>4, InboxProcesses DEF LinesKnown
<1>6. LinesEnded BY <1>1, <1>4 DEF LinesEnded
<1>7. Balance
  <2> SUFFICES ASSUME NEW m \in Mail PROVE Underway(m) + shown[m] = 0 /\ taken[m] = 0
    BY DEF Balance
  <2>1. I!Copies(<<>>, m) = 0 BY NoLinesNoCopies
  <2>2. HeldLines = <<>> BY <1>4, InboxProcesses DEF HeldLines
  <2>3. Underway(m) = 0 + 0 + 0 BY <1>1, <1>4, <2>1, <2>2, InboxProcesses DEF Underway
  <2>4. shown[m] = 0 /\ taken[m] = 0 BY <1>1
  <2> QED BY <2>3, <2>4
<1>8. Lives
  <2>1. process[Daemon] = "down" BY <1>1, InboxProcesses
  <2>2. \A m \in Mail : taken[m] = 0 /\ late[m] = 0 BY <1>1
  <2>3. life = 0 /\ replay = {} BY <1>1
  <2> QED BY <2>1, <2>2, <2>3 DEF Lives
<1>9. Arrivals BY <1>1, <1>4 DEF Arrivals
<1> QED BY <1>2, <1>3, <1>5, <1>6, <1>7, <1>8, <1>9 DEF InboxInv

LEMMA InboxNext == InboxInv /\ [I!Next]_(I!vars) => InboxInv'
<1> SUFFICES ASSUME InboxInv, [I!Next]_(I!vars) PROVE InboxInv' OBVIOUS
<1>1. CASE UNCHANGED I!vars
  <2>1. UNCHANGED <<sending, target, life, addr, queue, expiry, replay, inbox, inboxLock,
                    process, lines, shown, taken, late, frames, crashes>>
    BY <1>1 DEF I!vars, I!sendVars
  <2>2. HeldLines' = HeldLines BY <2>1 DEF HeldLines
  <2>3. Balance' BY <2>1, <2>2, BalanceStays
  <2>4. InboxTypes' /\ LockHeld' /\ LinesKnown' /\ LinesEnded'
    BY <2>1 DEF InboxInv, InboxTypes, LockHeld, LinesKnown, LinesEnded
  <2>5. Lives' /\ Arrivals' BY <2>1 DEF InboxInv, Lives, Arrivals
  <2> QED BY <2>3, <2>4, <2>5 DEF InboxInv
<1>2. CASE \E m \in Mail : I!SendMessage(m) \/ I!PeerAddr(m) \/ I!Send(m) \/ I!Duplicate(m)
  BY <1>2, SendersKeep
<1>11. CASE \E m \in Mail : I!Expire(m) BY <1>11, ExpireKeeps
<1>3. CASE I!Start \/ I!Announce BY <1>3, DaemonStarts
<1>4. CASE I!Receive BY <1>4, ReceiveKeeps
<1>5. CASE I!AppendInbox BY <1>5, AppendKeeps
<1>6. CASE \E r \in Reader : I!StartRead(r)
  BY <1>6, ReaderWaits, InboxProcesses
<1>7. CASE \E r \in Reader : I!ReadLines(r) \/ I!Truncate(r) \/ I!Write(r)
  BY <1>7, ReaderMoves
<1>8. CASE \E p \in I!Process : I!TakeLock(p) BY <1>8, ReaderWaits
<1>9. CASE \E p \in I!Process : I!Return(p) BY <1>9, ReturnKeeps
<1>10. CASE \E p \in I!Process : I!Crash(p) BY <1>10, CrashKeeps
<1> QED BY <1>1, <1>2, <1>3, <1>4, <1>5, <1>6, <1>7, <1>8, <1>9, <1>10, <1>11 DEF I!Next

LEMMA InboxImplies == InboxInv => InboxExact
<1> SUFFICES ASSUME InboxInv, NEW m \in Mail
             PROVE  /\ I!Waiting(m) + shown[m] <= taken[m] /\ taken[m] <= life + late[m]
                    /\ taken[m] > 0 => sending[m] = "sent"
                    /\ crashes = 0 =>
                         /\ I!Waiting(m) + shown[m] = taken[m]
                         /\ sending[m] = "sent" =>
                              taken[m] > 0 \/ m \in I!ToSet(queue) \/ expiry[m] = "over"
  BY DEF InboxExact, I!InboxExact
<1>1. I!Waiting(m) = Underway(m) BY WaitingUnderway
<1>2. (\E i \in DOMAIN queue : queue[i] = m) => m \in I!ToSet(queue) BY DEF I!ToSet
<1> QED BY <1>1, <1>2 DEF InboxInv, Balance, Lives, Arrivals

\* However the daemon and the readers interleave, however often frames are
\* repeated and whoever dies where, no message is shown more often than it was
\* accepted, or accepted more often than the daemon lived and its frames were
\* handled between its expires_at and the end of the skew; and as long as nobody
\* dies, each message waits in one place or was shown, as often as it was
\* accepted (read_unread, _append_inbox, _receive_loop, send_message).
THEOREM InboxesExact == I!Spec => []InboxExact
BY InboxInit, InboxNext, InboxImplies, PTL DEF I!Spec
=============================================================================
