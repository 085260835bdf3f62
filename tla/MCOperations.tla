--------------------------- MODULE MCOperations ---------------------------
(***************************************************************************)
(* Small instances of what operators run beside the verifiers: SafeMode,   *)
(* PolicyRollout, Convergence, Quarantine and InformationFlow.  They share *)
(* nothing, so a behaviour exercises one of them: `focus` says which.      *)
(***************************************************************************)
EXTENDS SafeMode

CONSTANTS Bundles, Request, Sampled, FirstPolicy, RollbackAfterDenials, Torn,
          NoBundle, MaxCrashes, Broadcasts, Policies,
          Outputs, Cells, RestrictedNoExport, Decisions, Workload, Kid, EntryId,
          Attestations, FirstKid, None, ReviewSkew, MaxReviewTtl, MaxSinkFailures,
          Actor, TenantOf, Rules, Purpose, Budgets, Segments, Findings, MaxObjects,
          MaxRetrievals, MaxMatches, Nothing

VARIABLES
    focus,
    file, stage, bundle, data, stable, candidate, denials, rolledBack, running,
    inForce, denied, crashes,
    now, policy, broadcasts, acks, timely,
    hour, queue, left, failures, kid, entry, entries, lifted,
    objects, retrieved, recorded, prompt, text, sinkFailures

P == INSTANCE PolicyRollout
C == INSTANCE Convergence WITH clock <- now
Q == INSTANCE Quarantine WITH clock <- hour

I == INSTANCE InformationFlow WITH Matches <- Findings

ASSUME RolloutAssumption == P!RolloutConstants
ASSUME ConvergenceAssumption == C!ConvergenceConstants
ASSUME QuarantineAssumption == Q!QuarantineConstants
ASSUME FlowAssumption == I!FlowConstants

-----------------------------------------------------------------------------
\* Default profiles of three kinds, and two overrides that re-observe a kind:
\* one more severe under a lesser category, one less severe under a greater.
MCKind == {"clock", "ledger", "anomaly"}

Tr(kind, category, minimum) ==
    [kind |-> kind, category |-> category, minimum |-> minimum]

MCTriggers ==
    { Tr("clock", 3, 3), Tr("clock", 0, 4), Tr("clock", 3, 1),
      Tr("ledger", 3, 4),
      Tr("anomaly", 1, 3), Tr("anomaly", 2, 2) }

Ap(authority, nbf, exp, genuine) ==
    [authority |-> authority, issued |-> nbf, nbf |-> nbf, exp |-> exp,
     genuine |-> genuine]

\* Approvals of every authority that counts; one forged, one too long.
MCApprovals ==
    { Ap(3, 0, 1, TRUE), Ap(1, 2, 3, TRUE), Ap(3, 0, 1, FALSE), Ap(3, 0, 9, TRUE) }

\* Three releases of one authority and one of another, and a forged one.
Bu(issuer, version, allows, genuine) ==
    [issuer |-> issuer, version |-> version, allows |-> allows, genuine |-> genuine]

MCBundles ==
    { Bu("ops", 1, {"r1", "r2"}, TRUE), Bu("ops", 2, {"r1"}, TRUE),
      Bu("ops", 3, {}, TRUE), Bu("sec", 1, {"r2"}, TRUE), Bu("ops", 9, {"r1"}, FALSE) }

\* A broadcast to three nodes and an urgent one; one half of the nodes, all of
\* them, and two thirds where the float product is inexact.
MCBroadcasts ==
    { [jti |-> "j1", issued_at |-> 0, fast_path |-> FALSE, expected |-> {"n1", "n2", "n3"}],
      [jti |-> "j2", issued_at |-> 1, fast_path |-> TRUE, expected |-> {"n1", "n2"}] }

Po(num, den, inexact) ==
    [num |-> num, den |-> den, inexact |-> inexact, normal |-> 2, fast_path |-> 1]

MCPolicies == {Po(1, 2, FALSE), Po(1, 1, FALSE), Po(2, 3, TRUE)}

\* An artifact that is quarantined twice, and denied under another label; one
\* that may leave, and may not where the matrix does not list its label.
Ou(id, artifact, risk, class) ==
    [id |-> id, artifact |-> artifact, risk |-> risk, class |-> class]

MCOutputs ==
    { Ou("o1", "x", "high", "internal"), Ou("o2", "x", "high", "internal"),
      Ou("o3", "x", "high", "restricted"), Ou("o4", "y", "low", "internal"),
      Ou("o5", "y", "low", "public") }

MCCells ==
    { [risk |-> "high", class |-> "internal", action |-> "quarantine"],
      [risk |-> "high", class |-> "restricted", action |-> "quarantine"],
      [risk |-> "low", class |-> "internal", action |-> "allow"] }

Re(output, verdict, nbf, exp, flaw) ==
    [record |-> output, verdict |-> verdict, iat |-> nbf, nbf |-> nbf, exp |-> exp,
     flaw |-> flaw]

\* A release, and decisions that differ from it in one respect.
MCDecisions ==
    LET o == Ou("o1", "x", "high", "internal")
    IN  { Re(o, "release", 1, 2, f) :
            f \in {"none", "malformed", "unknown_issuer", "bad_key", "signature"} }
        \cup { Re(o, "reject", 1, 2, "none"), Re(o, "release", 0, 4, "none"),
               Re(o, "release", 2, 1, "none") }

At(id, workload, newKid, nbf, exp, flaw) ==
    [id |-> id, workload |-> workload, new_kid |-> newKid, iat |-> nbf, nbf |-> nbf,
     exp |-> exp, flaw |-> flaw]

\* Attestations for each quarantine of either workload, and flawed ones.
MCAttestations ==
    { At(1, "w1", "k2", 0, 2, "none"), At(2, "w1", "k1", 0, 2, "none"),
      At(2, "w1", "k2", 1, 2, "none"), At(1, "w2", "k2", 1, 2, "none"),
      At(1, "w1", "k2", 0, 2, "signature"), At(2, "w2", "k1", 0, 4, "none") }

MCFirstKid == [w \in Workload |-> IF w = "w1" THEN "k1" ELSE "k3"]

-----------------------------------------------------------------------------
\* Two tenants; a second rule for the same caller and purpose that is wider than
\* the first; budgets that bind on class and on number.
MCTenantOf == [a |-> "x", b |-> "y"]

Ru(caller, purpose, maxClass) ==
    [caller |-> caller, purpose |-> purpose, max_class |-> maxClass]

MCRules == <<Ru("a", "support", 1), Ru("a", "support", 3), Ru("a", "audit", 3),
             Ru("b", "support", 2)>>

MCBudgets == {[max_class |-> 3, max_items |-> 1], [max_class |-> 2, max_items |-> 2]}

\* Segments of every channel and trust, with fence markers where the text is not
\* the system's own.
MCSegments ==
    {s \in [channel : {"system", "user", "tool", "retrieved"},
            trust : {"trusted", "untrusted"}, signed : BOOLEAN,
            text : {<<"word">>, <<"close", "word", "open">>}] :
       /\ s.channel = "system" => s.text = <<"word">>
       /\ s.signed => s.channel = "tool"}

\* Every stretch of four characters, found by a mild or by a severe pattern.
MCFindings ==
    {m \in [start : 0..3, end : 1..4, severity : 1..2, pattern : 1..2] :
       m.start < m.end /\ m.severity = m.pattern}

-----------------------------------------------------------------------------
rolloutVars == <<file, stage, bundle, data, stable, candidate, denials, rolledBack,
                 running, inForce, denied, crashes>>
convergenceVars == <<now, policy, broadcasts, acks, timely>>
quarantineVars == <<hour, queue, left, failures, kid, entry, entries, lifted>>
flowVars == <<objects, retrieved, recorded, prompt, text, sinkFailures>>

MCInit ==
    /\ Init /\ P!Init /\ C!Init /\ Q!Init /\ I!Init
    /\ focus \in {"safe_mode", "rollout", "convergence", "quarantine", "data", "text"}
    /\ focus = "convergence" \/ policy = Po(1, 2, FALSE)

MCNext ==
    /\ UNCHANGED focus
    /\ \/ /\ focus = "safe_mode" /\ Next
          /\ UNCHANGED <<rolloutVars, convergenceVars, quarantineVars, flowVars>>
       \/ /\ focus = "rollout" /\ P!Next
          /\ UNCHANGED <<vars, convergenceVars, quarantineVars, flowVars>>
       \/ /\ focus = "convergence" /\ C!Next
          /\ UNCHANGED <<vars, rolloutVars, quarantineVars, flowVars>>
       \/ /\ focus = "quarantine" /\ Q!Next
          /\ UNCHANGED <<vars, rolloutVars, convergenceVars, flowVars>>
       \/ /\ \/ focus = "data" /\ I!DataNext
             \/ focus = "text" /\ I!TextNext
          /\ UNCHANGED <<vars, rolloutVars, convergenceVars, quarantineVars>>

MCSpec ==
    MCInit /\ [][MCNext]_<<focus, vars, rolloutVars, convergenceVars, quarantineVars,
                          flowVars>>

\* The properties of the instances.
RolloutContained == P!RolloutContained
SloExact == C!SloExact
LeavesCleared == Q!LeavesCleared
LiftedOnce == Q!LiftedOnce
FlowBounded == I!FlowBounded
TextContained == I!TextContained

=============================================================================
