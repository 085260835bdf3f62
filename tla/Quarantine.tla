---------------------------- MODULE Quarantine ----------------------------
(***************************************************************************)
(* What is held back and how it comes back: outputs that the egress matrix *)
(* (envelope/egress_policy.py) quarantines until a reviewer releases them  *)
(* (reviewer_workflow.py), and workloads that are quarantined until an     *)
(* attester vouches for their rebuild (recovery_readmission.py).           *)
(*                                                                         *)
(* The queue of records and the register of quarantined workloads are the  *)
(* operator's; what enters and leaves them is decided by the code.  Signed *)
(* artifacts are those of SignedArtifact, apart from the flaws that differ *)
(* in their handling.                                                      *)
(***************************************************************************)
EXTENDS Integers, FiniteSets, Sequences, Checks

CONSTANTS
    Outputs,            \* what is produced: [id, artifact, risk, class]
    Cells,              \* the matrix: [risk, class, action], one for a pair
    RestrictedNoExport,
    Decisions,          \* the review decisions that may be presented
    Workload, Kid,
    EntryId,            \* the quarantine ids, as numbers
    Attestations,       \* the clean-room attestations that may be presented
    FirstKid,           \* FirstKid[w]: the kid of w at first
    None,
    ReviewSkew, MaxReviewTtl,       \* also those of the attestations
    MaxTime, MaxSinkFailures        \* bounds

Flaws == {"none", "malformed", "unknown_issuer", "bad_key", "signature"}

QuarantineConstants ==
    /\ \A c, d \in Cells : c.risk = d.risk /\ c.class = d.class => c = d
    /\ \A x \in Decisions \cup Attestations :
         x.iat \in Int /\ x.nbf \in Int /\ x.exp \in Int /\ x.flaw \in Flaws
    /\ \A o \in Outputs \cup {d.record : d \in Decisions} :
         o = [id |-> o.id, artifact |-> o.artifact, risk |-> o.risk, class |-> o.class]
    /\ FirstKid \in [Workload -> Kid]
    /\ None \notin Decisions /\ ReviewSkew \in Nat

VARIABLES
    clock,
    queue,      \* the outputs in quarantine
    left,       \* history: [output, decision, at, event] of every output that left
    failures,   \* how often the sink has failed
    kid,        \* kid[w]: under which w runs
    entry,      \* entry[w]: its QuarantineEntry [id, last_kid], or None
    entries,    \* how many ids were given out
    lifted      \* history: lifted[a], the ids of the entries a has lifted

vars == <<clock, queue, left, failures, kid, entry, entries, lifted>>
outputVars == <<queue, left, failures>>
workloadVars == <<kid, entry, entries, lifted>>

Init ==
    /\ clock = 0
    /\ queue = {} /\ left = {} /\ failures = 0
    /\ kid = FirstKid
    /\ entry = [w \in Workload |-> None] /\ entries = 0
    /\ lifted = [a \in Attestations |-> {}]

Tick ==
    /\ clock < MaxTime
    /\ clock' = clock + 1
    /\ UNCHANGED <<outputVars, workloadVars>>

-----------------------------------------------------------------------------
\* MatrixEgressPolicy._decide
Decide(o) ==
    LET cells == {c \in Cells : c.risk = o.risk /\ c.class = o.class}
    IN  IF (RestrictedNoExport /\ o.class = "restricted") \/ cells = {} THEN "deny"
        ELSE (CHOOSE c \in cells : TRUE).action

\* The sink records an event or raises.
Recorded(ok) ==
    \/ ok /\ UNCHANGED failures
    \/ ~ok /\ failures < MaxSinkFailures /\ failures' = failures + 1

Leaves(o, decision, event) ==
    left' = left \cup {[output |-> o, decision |-> decision, at |-> clock, event |-> event]}

\* evaluate with its audit event; when the sink raises the answer is DENY.
Egress(o) ==
    /\ o \notin queue
    /\ \E ok \in BOOLEAN :
         /\ Recorded(ok)
         /\ queue' = IF ok /\ Decide(o) = "quarantine" THEN queue \cup {o} ELSE queue
         /\ IF ok /\ Decide(o) = "allow" THEN Leaves(o, None, "ok") ELSE UNCHANGED left
    /\ UNCHANGED <<clock, workloadVars>>

-----------------------------------------------------------------------------
\* The checks that the signed artifacts share, with the reason of each.
WindowChecks(x) ==
    << <<x.iat > x.nbf \/ x.nbf > x.exp, "invalid_validity_window">>,
       <<x.exp - x.nbf > MaxReviewTtl, "ttl_exceeded">>,
       <<clock + ReviewSkew < x.nbf, "not_yet_valid">>,
       <<clock - ReviewSkew > x.exp, "expired">> >>

KeyChecks(x) ==
    << <<x.flaw = "unknown_issuer", "unknown_issuer">>,
       <<x.flaw = "bad_key", "invalid_public_key">>,
       <<x.flaw = "signature", "signature_invalid">> >>

\* Mutant of RecordDigest: the digest is that of the artifact.
RecordDigestOfArtifact(o) == <<o.artifact>>

\* record_digest: a digest of the artifact and of what is said about it.
RecordDigest(o) == <<o.id, o.artifact, o.risk, o.class>>

\* verify_decision, and the verdict that verify_release_authorization adds.  A
\* decision carries the digest of the record the reviewer saw.
ReleaseChecks(d, o) ==
    << <<d.flaw = "malformed", "malformed">>,
       <<RecordDigest(d.record) # RecordDigest(o), "record_mismatch">> >>
    \o WindowChecks(d) \o KeyChecks(d) \o << <<d.verdict # "release", "rejected">> >>

\* verify_release_authorization.  The error of a key that is not an Ed25519 key
\* is not a ReviewError and passes the handler that would record it.
Release(d, o) ==
    /\ o \in queue
    /\ LET reason == FirstFailure(ReleaseChecks(d, o))
       IN  \E ok \in BOOLEAN :
             /\ IF reason = "invalid_public_key" THEN ok /\ UNCHANGED failures ELSE Recorded(ok)
             /\ IF ok /\ reason = "ok"
                THEN queue' = queue \ {o} /\ Leaves(o, d, reason)
                ELSE UNCHANGED <<queue, left>>
    /\ UNCHANGED <<clock, workloadVars>>

-----------------------------------------------------------------------------
\* The operator quarantines a workload under a fresh id.
HoldWorkload(w) ==
    /\ entry[w] = None /\ entries < Cardinality(EntryId)
    /\ entries' = entries + 1
    /\ entry' = [entry EXCEPT ![w] = [id |-> entries + 1, last_kid |-> kid[w]]]
    /\ UNCHANGED <<clock, outputVars, kid, lifted>>

\* Mutant of ReadmissionChecks: the id of the quarantine is not compared.
ReadmissionChecksAnyEntry(a, w) ==
    << <<a.flaw = "malformed", "malformed">>,
       <<a.workload # w, "mismatch">>,
       <<a.new_kid = entry[w].last_kid, "kid_reuse">> >> \o WindowChecks(a) \o KeyChecks(a)

\* verify_readmission against the entry of w.
ReadmissionChecks(a, w) ==
    << <<a.flaw = "malformed", "malformed">>,
       <<a.id # entry[w].id, "mismatch">>, <<a.workload # w, "mismatch">>,
       <<a.new_kid = entry[w].last_kid, "kid_reuse">> >> \o WindowChecks(a) \o KeyChecks(a)

\* The grant is acted on: the workload rejoins under its new kid.
Readmit(a, w) ==
    /\ entry[w] # None
    /\ FirstFailure(ReadmissionChecks(a, w)) = "ok"
    /\ kid' = [kid EXCEPT ![w] = a.new_kid]
    /\ entry' = [entry EXCEPT ![w] = None]
    /\ lifted' = [lifted EXCEPT ![a] = @ \cup {entry[w].id}]
    /\ UNCHANGED <<clock, outputVars, entries>>

Next ==
    \/ Tick
    \/ \E o \in Outputs : Egress(o) \/ \E d \in Decisions : Release(d, o)
    \/ \E w \in Workload : HoldWorkload(w) \/ \E a \in Attestations : Readmit(a, w)

Spec == Init /\ [][Next]_vars

-----------------------------------------------------------------------------
\* An output leaves only on the record, and only if the matrix allows it, or
\* quarantined it and a reviewer then released this very record, not the same
\* artifact under another label, with a decision that was current; what the
\* matrix denies never leaves (MatrixEgressPolicy, verify_release_authorization).
LeavesCleared ==
    \A x \in left :
        /\ x.event = "ok"
        /\ \/ Decide(x.output) = "allow" /\ x.decision = None
           \/ /\ Decide(x.output) = "quarantine" /\ x.decision # None
              /\ x.decision.record = x.output /\ x.decision.verdict = "release"
              /\ x.decision.flaw = "none"
              /\ x.at \in (x.decision.nbf - ReviewSkew)..(x.decision.exp + ReviewSkew)

\* An attestation lifts one quarantine once: it is worth nothing when the workload
\* is quarantined again, however long it remains valid; and no workload in
\* quarantine comes back under the kid it was quarantined with
\* (verify_readmission).
LiftedOnce ==
    [][\A w \in Workload : entry[w] # None /\ entry'[w] = None =>
          /\ kid'[w] # entry[w].last_kid
          /\ \E a \in Attestations :
               lifted[a] = {} /\ lifted'[a] = {entry[w].id}]_vars

=============================================================================
