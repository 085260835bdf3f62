---------------------------- MODULE KeyRotation ----------------------------
(***************************************************************************)
(* RotationRegistry of envelope/key_rotation.py: plans that replace one    *)
(* signing key of a subject by another over an overlap window, and the     *)
(* keys the registry accepts.                                              *)
(***************************************************************************)
EXTENDS Integers

CONSTANTS
    Plans,      \* the plans operators may register
    MaxTime     \* bound on the clock

VARIABLES
    clock,
    plans       \* _plans; only their union is ever read, so a set

vars == <<clock, plans>>

-----------------------------------------------------------------------------
\* KeyRotationPlan.__post_init__
WellFormed(p) ==
    /\ p.old # p.new
    /\ p.overlap_start <= p.cutover_at /\ p.cutover_at <= p.overlap_end

\* current_phase
CurrentPhase(p, now) ==
    CASE now < p.overlap_start -> "pre_overlap"
      [] p.overlap_start <= now /\ now < p.cutover_at -> "overlap"
      [] p.cutover_at <= now /\ now <= p.overlap_end -> "post_cutover"
      [] p.overlap_end < now -> "complete"

\* accepted_kids
AcceptedKids(p, now) ==
    CASE CurrentPhase(p, now) = "pre_overlap" -> {p.old}
      [] CurrentPhase(p, now) = "complete" -> {p.new}
      [] CurrentPhase(p, now) \in {"overlap", "post_cutover"} -> {p.old, p.new}

\* accepted_kids_for: the union over the subject's plans, completed ones too.
AcceptedKidsFor(subject, now) ==
    UNION {AcceptedKids(p, now) : p \in {q \in plans : q.subject = subject}}

\* is_accepted, which require_accepted_kid enforces
IsAccepted(subject, kid) == kid \in AcceptedKidsFor(subject, clock)

\* _intervals_overlap, of closed intervals
IntervalsOverlap(p, q) ==
    p.overlap_start <= q.overlap_end /\ q.overlap_start <= p.overlap_end

\* The test of register.
Conflicts(p, q) ==
    /\ q.subject = p.subject
    /\ IntervalsOverlap(p, q)
    /\ {p.old, p.new} \cap {q.old, q.new} # {}

-----------------------------------------------------------------------------
Init == clock = 0 /\ plans = {}

\* A plan that conflicts with a registered one is refused.
Register(p) ==
    /\ WellFormed(p)
    /\ \A q \in plans : ~Conflicts(p, q)
    /\ plans' = plans \cup {p}
    /\ UNCHANGED clock

EvictCompleted ==
    /\ plans' = {p \in plans : p.overlap_end >= clock}
    /\ UNCHANGED clock

Tick == clock < MaxTime /\ clock' = clock + 1 /\ UNCHANGED plans

Next ==
    \/ \E p \in Plans : Register(p)
    \/ EvictCompleted
    \/ Tick

Spec == Init /\ [][Next]_vars

-----------------------------------------------------------------------------
\* What the module's documentation says of overlap_end: the old key of a plan
\* is not accepted at all after it.  The plan that brought the key in, if it is
\* still registered, accepts it as its own new key for ever.
RetiredNotAccepted ==
    \A p \in plans : clock > p.overlap_end => ~IsAccepted(p.subject, p.old)

=============================================================================
