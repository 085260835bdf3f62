-------------------------- MODULE AuditedDecisions --------------------------
(***************************************************************************)
(* Decisions that are recorded before they are answered:                   *)
(* CapabilityIssuer.issue under an AllowlistPolicy                         *)
(* (envelope/capability_issuer.py, issuance_policy.py), decide_and_audit   *)
(* with the baseline rules of the native engine (policy_audit.py,          *)
(* policy_engine.py), admit (admission_coupling.py) and the denials of     *)
(* verify_envelope; all through one AlertingAuditSink (alerting.py).       *)
(*                                                                         *)
(* Several threads share the sink: an event gets its timestamp in record   *)
(* and reaches the sink's _append later, so timestamps arrive out of       *)
(* order.  Time is in whole seconds, as in the tokens.                     *)
(***************************************************************************)
EXTENDS Integers, Sequences, FiniteSets, FiniteSetsExt, SequencesExt

CONSTANTS
    Thread,
    Calls,              \* what is asked: records with a kind, see below
    Grants, PolicyMaxTtl,      \* AllowlistPolicy: (sub, aud, scope) and max_ttl
    IssuerSkew,         \* CapabilityIssuer.clock_skew
    AllowedCallers, LowRiskTools, StepUpTools,   \* of build_baseline_engine
    AllowedWorkloads, AcceptedVersions,          \* of the admission policy
    AlertWindow, Threshold,    \* Threshold: per kind of alert
    MaxTime, MaxDecisions, MaxFaults,    \* bounds of the model
    Nobody              \* no call

VARIABLES
    clock,
    calling,    \* per thread: the call under way
    number,     \* per thread: its number
    at,         \* per thread: `now` of issue
    stamp,      \* per thread: the event's timestamp, or -1 before record
    decisions,  \* calls so far
    log,        \* events that reached the inner sink: number and outcome
    answer,     \* per thread: what its last call was told
    bucket,     \* per kind of alert and identity: timestamps
    since,      \* history, likewise: all timestamps since the last alert
    faults      \* failures of the sink and of on_alert so far

vars == <<clock, calling, number, at, stamp, decisions, log, answer, bucket, since,
          faults>>

AlertKind == {"repeated_validation_failure", "abnormal_issuance_volume"}
Identity == {c.sub : c \in Calls}

DecisionConstants ==
    /\ \A c \in Calls :
         /\ c.kind \in {"issue", "policy", "admission", "verify"}
         /\ c.kind = "issue" => c.ttl \in Nat
    /\ PolicyMaxTtl \in Nat \ {0} /\ IssuerSkew \in Nat /\ AlertWindow \in Nat \ {0}
    /\ Threshold \in [AlertKind -> Nat \ {0}]
    /\ LowRiskTools \in Seq(ToSet(LowRiskTools))
    /\ StepUpTools \in Seq(ToSet(StepUpTools))
    /\ Nobody \notin Calls

Init ==
    /\ clock = 0 /\ decisions = 0 /\ faults = 0 /\ log = {}
    /\ answer = [t \in Thread |-> Nobody]
    /\ calling = [t \in Thread |-> Nobody]
    /\ number = [t \in Thread |-> 0]
    /\ at = [t \in Thread |-> 0]
    /\ stamp = [t \in Thread |-> -1]
    /\ bucket = [k \in AlertKind |-> [i \in Identity |-> <<>>]]
    /\ since = [k \in AlertKind |-> [i \in Identity |-> <<>>]]

-----------------------------------------------------------------------------
(* The rule engine: the first rule that matches decides, none denies.      *)

Rule(effect, tool, conditions) ==
    [effect |-> effect, action |-> "invoke_tool", resource |-> tool,
     conditions |-> conditions]

\* Condition.matches for the two operators the baseline uses: a key that is
\* absent never matches.
Holds(condition, context) ==
    condition.key \in DOMAIN context /\ context[condition.key] \in condition.values

Matches(rule, req) ==
    /\ rule.action = req.action /\ rule.resource = req.resource
    /\ \A c \in rule.conditions : Holds(c, req.context)

\* build_baseline_engine
BaselineRules ==
    LET known == [key |-> "caller", values |-> AllowedCallers]
        steppedUp == [key |-> "step_up", values |-> {"true"}]
        tool(i) == StepUpTools[(i + 1) \div 2]
    IN  [i \in 1..Len(LowRiskTools) |-> Rule("permit", LowRiskTools[i], {known})]
          \o [i \in 1..(2 * Len(StepUpTools)) |->
               IF i % 2 = 1 THEN Rule("permit", tool(i), {known, steppedUp})
                            ELSE Rule("deny", tool(i), {})]

\* Mutant of Decide: the last rule that matches decides.
DecideLast(rules, req) ==
    LET matching == {i \in DOMAIN rules : Matches(rules[i], req)}
    IN  IF matching = {} THEN "deny" ELSE rules[Max(matching)].effect

Decide(rules, req) ==
    LET matching == {i \in DOMAIN rules : Matches(rules[i], req)}
    IN  IF matching = {} THEN "deny" ELSE rules[Min(matching)].effect

-----------------------------------------------------------------------------
\* AllowlistPolicy.evaluate
IssuanceAllowed(c) ==
    [sub |-> c.sub, aud |-> c.aud, scope |-> c.scope] \in Grants /\ c.ttl <= PolicyMaxTtl

\* admit
Admitted(c) == c.version \in AcceptedVersions /\ c.sub \in AllowedWorkloads

Outcome(c) ==
    LET yes == CASE c.kind = "issue" -> IssuanceAllowed(c)
                 [] c.kind = "policy" -> Decide(BaselineRules, c) = "permit"
                 [] c.kind = "admission" -> Admitted(c)
                 [] c.kind = "verify" -> FALSE
    IN  IF yes THEN "allow" ELSE "deny"

\* The claims of the token: backdated by the skew, and as long as asked.
Token(c, when) == [iat |-> when - IssuerSkew, exp |-> when - IssuerSkew + c.ttl]

\* The decision is made, and a token signed.
Ask(t, c) ==
    /\ calling[t] = Nobody /\ decisions < MaxDecisions
    /\ calling' = [calling EXCEPT ![t] = c]
    /\ decisions' = decisions + 1
    /\ number' = [number EXCEPT ![t] = decisions']
    /\ at' = [at EXCEPT ![t] = clock]
    /\ answer' = [answer EXCEPT ![t] = Nobody]
    /\ UNCHANGED <<clock, stamp, log, bucket, since, faults>>

\* record: the event is given its time.
Record(t) ==
    /\ calling[t] # Nobody /\ stamp[t] = -1
    /\ stamp' = [stamp EXCEPT ![t] = clock]
    /\ UNCHANGED <<clock, calling, number, at, decisions, log, answer, bucket, since,
                   faults>>

\* Mutant of Purged: the end of the window is not in the window.
PurgedEarly(times, cutoff) ==
    LET kept == {i \in DOMAIN times : times[i] > cutoff}
    IN  IF kept = {} THEN <<>> ELSE SubSeq(times, Min(kept), Len(times))

\* _purge: from the left, up to the first time that is recent enough.
Purged(times, cutoff) ==
    LET kept == {i \in DOMAIN times : times[i] >= cutoff}
    IN  IF kept = {} THEN <<>> ELSE SubSeq(times, Min(kept), Len(times))

\* The kinds of alert an event counts towards.
CountsFor(c) ==
    {k \in AlertKind :
       \/ k = "repeated_validation_failure" /\ c.kind = "verify" /\ Outcome(c) = "deny"
       \/ k = "abnormal_issuance_volume" /\ c.kind = "issue" /\ Outcome(c) = "allow"}

\* observe: the bucket with this event in it, and whether that is an alert.
Filled(k, c, ts) == Append(Purged(bucket[k][c.sub], ts - AlertWindow), ts)
Alerts(c, ts) == {k \in CountsFor(c) : Len(Filled(k, c, ts)) >= Threshold[k]}

Observe(c, ts) ==
    LET counted(k, i) == k \in CountsFor(c) /\ i = c.sub
    IN  /\ bucket' = [k \in AlertKind |-> [i \in Identity |->
                        IF ~counted(k, i) THEN bucket[k][i]
                        ELSE IF k \in Alerts(c, ts) THEN <<>> ELSE Filled(k, c, ts)]]
        /\ since' = [k \in AlertKind |-> [i \in Identity |->
                        IF ~counted(k, i) THEN since[k][i]
                        ELSE IF k \in Alerts(c, ts) THEN <<>> ELSE Append(since[k][i], ts)]]

\* The caller gets its answer: a token, a decision, or the error of a denial.
Told(t) ==
    answer' = [answer EXCEPT ![t] = [number |-> number[t], call |-> calling[t],
                                     outcome |-> Outcome(calling[t]), at |-> at[t]]]

\* _append of the alerting sink: the inner sink, which may raise; then the
\* policy, and on_alert, which may raise too, when the event is already written.
AppendEvent(t) ==
    LET c == calling[t]
    IN  /\ c # Nobody /\ stamp[t] # -1
        /\ \/ /\ faults < MaxFaults /\ faults' = faults + 1
              /\ UNCHANGED <<log, answer, bucket, since>>
           \/ /\ log' = log \cup {[number |-> number[t], outcome |-> Outcome(c)]}
              /\ Observe(c, stamp[t])
              /\ \/ Told(t) /\ UNCHANGED faults
                 \/ /\ Alerts(c, stamp[t]) # {} /\ faults < MaxFaults
                    /\ faults' = faults + 1 /\ UNCHANGED answer
        /\ calling' = [calling EXCEPT ![t] = Nobody]
        /\ number' = [number EXCEPT ![t] = 0]
        /\ at' = [at EXCEPT ![t] = 0]
        /\ stamp' = [stamp EXCEPT ![t] = -1]
        /\ UNCHANGED <<clock, decisions>>

Tick ==
    /\ clock < MaxTime
    /\ clock' = clock + 1
    /\ UNCHANGED <<calling, number, at, stamp, decisions, log, answer, bucket, since,
                   faults>>

Next ==
    \/ Tick
    \/ \E t \in Thread : Record(t) \/ AppendEvent(t) \/ \E c \in Calls : Ask(t, c)

Spec == Init /\ [][Next]_vars

-----------------------------------------------------------------------------
\* Who may invoke which tool, as build_baseline_engine describes its rules.
MayInvoke(c) ==
    /\ c.action = "invoke_tool"
    /\ "caller" \in DOMAIN c.context /\ c.context["caller"] \in AllowedCallers
    /\ \/ c.resource \in ToSet(LowRiskTools)
       \/ /\ c.resource \in ToSet(StepUpTools)
          /\ "step_up" \in DOMAIN c.context /\ c.context["step_up"] = "true"

\* Whoever gets an answer finds it on record with the same outcome, whichever
\* thread's event the sink or on_alert fails for: no token, permit or admission
\* leaves without its event.  A permit is one the baseline describes, although
\* a permit and a denial match the same call; a token is current when it is
\* minted if its ttl exceeds the skew it is backdated by, and never outlives
\* the policy's maximum (CapabilityIssuer.issue, decide_and_audit, admit).
AnswersOnRecord ==
    \A a \in {answer[t] : t \in Thread} \ {Nobody} :
      /\ [number |-> a.number, outcome |-> a.outcome] \in log
      /\ a.call.kind = "policy" => ((a.outcome = "allow") <=> MayInvoke(a.call))
      /\ a.call.kind = "issue" /\ a.outcome = "allow" =>
           LET token == Token(a.call, a.at)
           IN  /\ token.exp <= a.at + PolicyMaxTtl
               /\ a.call.ttl > IssuerSkew => token.iat <= a.at /\ a.at < token.exp

\* No burst goes unnoticed: since the last alert for an identity there are
\* fewer events than the threshold in the window that ends at the newest one,
\* although timestamps arrive out of order and the buckets are purged from the
\* left only (ThresholdAlertingPolicy.observe).
NoBurstMissed ==
    \A k \in AlertKind, i \in Identity :
      LET times == since[k][i]
      IN  times # <<>> =>
            Cardinality({n \in DOMAIN times :
                           times[n] >= Max({times[m] : m \in DOMAIN times}) - AlertWindow})
              < Threshold[k]

=============================================================================
