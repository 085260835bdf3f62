--------------------------- MODULE PolicyRollout ---------------------------
(***************************************************************************)
(* How a new issuance policy goes into service: a signed bundle is         *)
(* verified and passed by FileBackedRollbackGuard (policy_bundle.py), and  *)
(* becomes the candidate of a CanaryPolicy (canary_policy.py) beside the   *)
(* stable policy.                                                          *)
(*                                                                         *)
(* One process loads bundles, as the guard demands.  It may crash between  *)
(* any two steps, also in the middle of rewriting the guard's file: what   *)
(* is then in the file is a proper prefix of a JSON object, which does not *)
(* parse.                                                                  *)
(***************************************************************************)
EXTENDS Integers

CONSTANTS
    Bundles,                \* the bundles that may arrive
    Request,                \* the issuance requests (sub, aud, scope, ttl)
    Sampled,                \* those whose bucket is below canary_buckets
    FirstPolicy,            \* what the stable policy allows at first
    RollbackAfterDenials,
    Torn,                   \* the content of a file that was being written
    NoBundle,
    MaxCrashes              \* bound

Issuer == {b.issuer : b \in Bundles}

RolloutConstants ==
    /\ \A b \in Bundles : b.version \in Int /\ b.allows \subseteq Request
    /\ Sampled \subseteq Request /\ FirstPolicy \subseteq Request
    /\ RollbackAfterDenials \in Nat \ {0}

VARIABLES
    file,           \* the guard's file: a version per issuer (0: none), or Torn
    stage,          \* where the loader is in accept()
    bundle,         \* the bundle it is loading
    data,           \* the versions it is about to write
    stable,         \* the requests the stable policy allows
    candidate,      \* those the candidate allows
    denials,        \* _candidate_denials
    rolledBack,     \* _rolled_back
    running,        \* the process has a CanaryPolicy
    inForce,        \* history: the last version of each issuer that went into service
    denied,         \* history: how often the present candidate has denied
    crashes         \* history

vars == <<file, stage, bundle, data, stable, candidate, denials, rolledBack,
          running, inForce, denied, crashes>>
guardVars == <<file, stage, bundle, data, inForce>>
canaryVars == <<stable, candidate, denials, rolledBack, running, denied>>

-----------------------------------------------------------------------------
Init ==
    /\ file = [i \in Issuer |-> 0]
    /\ stage = "idle" /\ bundle = NoBundle /\ data = [i \in Issuer |-> 0]
    /\ stable = FirstPolicy /\ candidate = FirstPolicy
    /\ denials = 0 /\ rolledBack = FALSE /\ running = TRUE
    /\ inForce = [i \in Issuer |-> 0]
    /\ denied = 0 /\ crashes = 0

\* verify_bundle: shape, issuer key, signature.
VerifyBundle(b) == b.version >= 1 /\ b.genuine

\* Mutant of Contents: a file that does not parse is taken for a new one.
ContentsLenient == IF file = Torn THEN {[i \in Issuer |-> 0]} ELSE {file}

\* _load: the versions in the file; none if it does not parse, which raises.
Contents == IF file = Torn THEN {} ELSE {file}

\* accept, up to the comparison with the last version; a refusal changes nothing.
Load(b) ==
    /\ stage = "idle" /\ VerifyBundle(b)
    /\ \E last \in Contents : b.version > last[b.issuer]
    /\ stage' = "checked" /\ bundle' = b
    /\ UNCHANGED <<file, data, inForce, canaryVars, crashes>>

\* _put reads the file again; write_text truncates it first.
StartPut ==
    /\ stage = "checked"
    /\ \E last \in Contents : data' = [last EXCEPT ![bundle.issuer] = bundle.version]
    /\ stage' = "writing" /\ file' = Torn
    /\ UNCHANGED <<bundle, inForce, canaryVars, crashes>>

FinishPut ==
    /\ stage = "writing"
    /\ stage' = "accepted" /\ file' = data
    /\ UNCHANGED <<bundle, data, inForce, canaryVars, crashes>>

\* accept has returned: the policy of the bundle is the candidate of a fresh
\* CanaryPolicy.  Before that the operator may have promoted the old candidate.
Deploy(promoted) ==
    /\ stage = "accepted"
    /\ stage' = "idle" /\ bundle' = NoBundle
    /\ inForce' = [inForce EXCEPT ![bundle.issuer] = bundle.version]
    /\ stable' = IF promoted THEN candidate ELSE stable
    /\ candidate' = bundle.allows
    /\ denials' = 0 /\ denied' = 0 /\ rolledBack' = FALSE /\ running' = TRUE
    /\ UNCHANGED <<file, data, crashes>>

-----------------------------------------------------------------------------
\* _selects_candidate
SelectsCandidate(r) == ~rolledBack /\ r \in Sampled

RollsBack(count) == count >= RollbackAfterDenials

\* CanaryPolicy.evaluate.  AllowlistPolicy.evaluate, on either side, allows what
\* its bundle lists.
Evaluate(r) ==
    /\ running
    /\ LET denies == SelectsCandidate(r) /\ r \notin candidate
       IN  /\ denials' = IF denies THEN denials + 1 ELSE denials
           /\ rolledBack' = (rolledBack \/ (denies /\ RollsBack(denials + 1)))
           /\ denied' = IF denies THEN denied + 1 ELSE denied
    /\ UNCHANGED <<guardVars, stable, candidate, running, crashes>>

\* The process dies; the guard's file stays as it is.  What it issued under is
\* gone until a bundle is accepted again.
Crash ==
    /\ crashes < MaxCrashes
    /\ crashes' = crashes + 1
    /\ stage' = "idle" /\ bundle' = NoBundle /\ data' = [i \in Issuer |-> 0]
    /\ denials' = 0 /\ denied' = 0 /\ rolledBack' = FALSE /\ running' = FALSE
    /\ UNCHANGED <<file, inForce, stable, candidate>>

Next ==
    \/ \E b \in Bundles : Load(b)
    \/ StartPut
    \/ FinishPut
    \/ \E promoted \in BOOLEAN : Deploy(promoted)
    \/ \E r \in Request : Evaluate(r)
    \/ Crash

Spec == Init /\ [][Next]_vars

-----------------------------------------------------------------------------
\* The versions of an issuer that go into service only rise, over crashes at any
\* point of accept and restarts on the file they left; and a candidate denies at
\* most rollback_after_denials requests before all traffic is back on the stable
\* policy (RollbackGuard.accept, CanaryPolicy.evaluate).
RolloutContained ==
    [][/\ \A i \in Issuer : inForce'[i] # inForce[i] => inForce'[i] > inForce[i]
       /\ denied' <= RollbackAfterDenials
       /\ denied = RollbackAfterDenials => \A r \in Request : ~SelectsCandidate(r)]_vars

=============================================================================
