---------------------------- MODULE Convergence ----------------------------
(***************************************************************************)
(* envelope/revocation_convergence.py: a broadcast revocation, the         *)
(* acknowledgements of the nodes that saw it, and the SLO read from them.  *)
(*                                                                         *)
(* An acknowledgement carries the time at which the node saw the           *)
(* revocation; it is recorded whenever it arrives, so it may be late, come *)
(* twice with different times, and overtake others.                        *)
(***************************************************************************)
EXTENDS Integers, FiniteSets, FiniteSetsExt

CONSTANTS
    Broadcasts,     \* the broadcasts that may be registered
    Policies,       \* the SLO policies an operator may use
    MaxTime         \* bound on the clock

VARIABLES
    clock,
    policy,         \* the SLOPolicy in use
    broadcasts,     \* _broadcasts
    acks,           \* acks[jti]: _acks[jti], a function on the nodes that acked
    timely          \* history: the <<jti, node>> of which an ack in time was recorded

vars == <<clock, policy, broadcasts, acks, timely>>

Jti == {b.jti : b \in Broadcasts}

\* target_coverage is num / den.  `inexact`: the float product of the coverage
\* and the number of nodes comes out just above the whole number it should be.
ConvergenceConstants ==
    /\ MaxTime \in Nat
    /\ \A p \in Policies :
         /\ p.num \in Nat /\ p.den \in Nat /\ 0 < p.num /\ p.num <= p.den
         /\ p.inexact \in BOOLEAN
         /\ p.normal \in Nat \ {0} /\ p.fast_path \in Nat \ {0}
    /\ \A b \in Broadcasts :
         /\ b.expected # {} /\ IsFiniteSet(b.expected)
         /\ b.issued_at \in Nat /\ b.fast_path \in BOOLEAN

-----------------------------------------------------------------------------
\* SLOPolicy.deadline_for
DeadlineFor(b) == IF b.fast_path THEN policy.fast_path ELSE policy.normal

\* coverage >= target_coverage, for so many nodes
Covers(count, b) == count * policy.den >= policy.num * Cardinality(b.expected)

\* needed: the ceiling of target_coverage * expected, in floats.
Needed(b) ==
    LET product == policy.num * Cardinality(b.expected)
        ceiling == (product + policy.den - 1) \div policy.den
    IN  IF policy.inexact /\ product % policy.den = 0 THEN ceiling + 1 ELSE ceiling

\* sorted_acks[needed - 1]: the time by which `needed` nodes had acked.
TargetTime(b) ==
    LET times == acks[b.jti]
    IN  Min({t \in {times[n] : n \in DOMAIN times} :
                Cardinality({n \in DOMAIN times : times[n] <= t}) >= Needed(b)})

\* evaluate_slo; its MEETING is what pending_broadcasts leaves out.
Status(b) ==
    LET received == Cardinality(DOMAIN acks[b.jti])
    IN  CASE Covers(received, b) /\ Needed(b) <= received ->
               IF TargetTime(b) - b.issued_at <= DeadlineFor(b)
               THEN "meeting" ELSE "missed"
          [] ~(Covers(received, b) /\ Needed(b) <= received) ->
               IF clock - b.issued_at > DeadlineFor(b) THEN "missed" ELSE "pending"

-----------------------------------------------------------------------------
Init ==
    /\ clock = 0
    /\ policy \in Policies
    /\ broadcasts = {}
    /\ acks = [j \in Jti |-> [n \in {} |-> 0]]
    /\ timely = {}

\* register_broadcast: once for each jti.
RegisterBroadcast(b) ==
    /\ \A r \in broadcasts : r.jti # b.jti
    /\ b.issued_at <= clock
    /\ broadcasts' = broadcasts \cup {b}
    /\ UNCHANGED <<clock, policy, acks, timely>>

\* Mutant of Earliest: the last ack to arrive is kept.
EarliestLast(times, n, at) ==
    [m \in DOMAIN times \cup {n} |-> IF m = n THEN at ELSE times[m]]

\* The end of record_ack: of several acks of a node the earliest is kept.
Earliest(times, n, at) ==
    [m \in DOMAIN times \cup {n} |->
        IF m = n /\ (n \notin DOMAIN times \/ at < times[n]) THEN at ELSE times[m]]

\* record_ack, for a registered broadcast and a node it expects.
RecordAck(b, n, at) ==
    /\ b \in broadcasts /\ n \in b.expected
    /\ acks' = [acks EXCEPT ![b.jti] = Earliest(@, n, at)]
    /\ timely' = IF at <= b.issued_at + DeadlineFor(b)
                 THEN timely \cup {<<b.jti, n>>} ELSE timely
    /\ UNCHANGED <<clock, policy, broadcasts>>

Tick ==
    /\ clock < MaxTime
    /\ clock' = clock + 1
    /\ UNCHANGED <<policy, broadcasts, acks, timely>>

Next ==
    \/ \E b \in Broadcasts : RegisterBroadcast(b)
    \/ \E b \in broadcasts, at \in 0..clock : \E n \in b.expected : RecordAck(b, n, at)
    \/ Tick

Spec == Init /\ [][Next]_vars

-----------------------------------------------------------------------------
\* The SLO is met exactly when enough nodes saw the revocation in time, in
\* whatever order and however often their acks arrived; so a late ack can turn
\* MISSED into MEETING, and nothing turns MEETING back (evaluate_slo).  When the
\* product is inexact the code may ask for one node more than the target.
SloExact ==
    \A b \in broadcasts :
        LET met == Covers(Cardinality({n \in b.expected : <<b.jti, n>> \in timely}), b)
        IN  /\ Status(b) = "meeting" => met
            /\ met /\ ~policy.inexact => Status(b) = "meeting"

=============================================================================
