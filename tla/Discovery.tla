----------------------------- MODULE Discovery -----------------------------
(***************************************************************************)
(* How a mesh node learns peers and chooses whom to route to: verify_record*)
(* (envelope/discovery_record.py), then DiscoveryAdmissionGate.admit       *)
(* (discovery_propagation.py), then MeshNode.learn_peer (mesh/node.py),    *)
(* and routing_table with select_neighbors (eclipse_resistance.py).        *)
(*                                                                         *)
(* The node does not call the gate itself: the one caller of the model     *)
(* does what discovery_propagation.py asks of callers.  Time may pass      *)
(* between the gate and the node.  Records arrive in any order and any     *)
(* number of times; `genuine` says that a record is well formed, that its  *)
(* issuer is trusted and that its signature verifies.                      *)
(***************************************************************************)
EXTENDS Integers, FiniteSets, FiniteSetsExt, SequencesExt, PeerAdmission

CONSTANTS
    Records,            \* the records peers publish
    Workload,           \* the identities, as numbers: they are sorted by name
    DomainOf,           \* DomainOf[w]: the trust domain of w
    AdmissionPolicy, EnvTier,       \* of the node
    RecordSkew, MaxRecordTtl,       \* DiscoveryVerificationConfig
    LimiterWindow, MaxPerWindow,    \* of the propagation limiter
    TargetCount, MaxPerTrustDomain, \* DiversityRule
    EvictionAge,        \* pins older than this are dropped
    NoRecord,
    MaxTime             \* bound on the clock

DiscoveryConstants ==
    /\ \A r \in Records : r.iss \in Workload /\ r.issued \in Int /\ r.expires \in Int
    /\ Workload \subseteq Nat
    /\ RecordSkew \in Nat /\ MaxRecordTtl \in Nat \ {0}
    /\ LimiterWindow \in Nat \ {0} /\ MaxPerWindow \in Nat \ {0}
    /\ TargetCount \in Nat \ {0} /\ MaxPerTrustDomain \in Nat \ {0}
    \* Only pins whose records have all expired are dropped.
    /\ EvictionAge \in Nat /\ EvictionAge >= MaxRecordTtl + RecordSkew

\* What pins and quotas are kept for.
Key == {<<r.iss, r.kid>> : r \in Records}
KeyOf(r) == <<r.iss, r.kid>>

VARIABLES
    clock,
    pins,       \* _highest: the greatest issued_at of the keys that have one
    events,     \* events[k]: _events, the times of the latest admissions
    cleared,    \* the record the gate has let through to the node
    peers,      \* _peers: [record, learned_at] of the workloads that are known
    admitted    \* history: admitted[k], what the gate let through, in order

vars == <<clock, pins, events, cleared, peers, admitted>>

Init ==
    /\ clock = 0
    /\ pins = [k \in {} |-> 0]
    /\ events = [k \in Key |-> <<>>]
    /\ cleared = NoRecord
    /\ peers = [w \in {} |-> NoRecord]
    /\ admitted = [k \in Key |-> <<>>]

Tick ==
    /\ clock < MaxTime
    /\ clock' = clock + 1
    /\ UNCHANGED <<pins, events, cleared, peers, admitted>>

-----------------------------------------------------------------------------
\* verify_record, at the present time.
VerifyRecord(r) ==
    /\ r.genuine
    /\ r.issued < r.expires /\ r.expires - r.issued <= MaxRecordTtl
    /\ r.issued - clock <= RecordSkew
    /\ clock - r.expires <= RecordSkew

\* DiscoveryFreshnessTracker.check
Fresher(r) == KeyOf(r) \in DOMAIN pins => r.issued > pins[KeyOf(r)]

\* _trim of the limiter: from the left, up to the first in the window, which is
\* closed at both ends.
Trimmed(times) ==
    LET n == Max({k \in 0..Len(times) : \A j \in 1..k : times[j] < clock - LimiterWindow})
    IN  SubSeq(times, n + 1, Len(times))

\* DiscoveryPropagationLimiter.check
WithinQuota(r) == Len(Trimmed(events[KeyOf(r)])) < MaxPerWindow

\* commit of the tracker; the record is fresher than its pin.
CommitPin(r) ==
    pins' = [k \in DOMAIN pins \cup {KeyOf(r)} |-> IF k = KeyOf(r) THEN r.issued ELSE pins[k]]

\* commit of the limiter
CommitEvent(r) == events' = [events EXCEPT ![KeyOf(r)] = Append(Trimmed(@), clock)]

\* The caller verifies the record and asks the gate, which commits what it
\* admits; a refusal changes nothing that is looked at again.
Admit(r) ==
    /\ cleared = NoRecord
    /\ VerifyRecord(r) /\ Fresher(r) /\ WithinQuota(r)
    /\ CommitPin(r) /\ CommitEvent(r)
    /\ admitted' = [admitted EXCEPT ![KeyOf(r)] = Append(@, [issued |-> r.issued, at |-> clock])]
    /\ cleared' = r
    /\ UNCHANGED <<clock, peers>>

\* learn_peer: verify again, admit the peer, keep it.
LearnPeer ==
    /\ cleared # NoRecord
    /\ cleared' = NoRecord
    /\ peers' = IF /\ VerifyRecord(cleared)
                   /\ AdmitPeer(AdmissionPolicy, cleared.iss, EnvTier, NoKey) = "ok"
                THEN [w \in DOMAIN peers \cup {cleared.iss} |->
                        IF w = cleared.iss
                        THEN [record |-> cleared, learned_at |-> clock] ELSE peers[w]]
                ELSE peers
    /\ UNCHANGED <<clock, pins, events, admitted>>

\* Mutant of Evicted: the comparison includes the cutoff.
EvictedAt(k, cutoff) == pins[k] <= cutoff

\* evict_older_than: what a cutoff drops.
Evicted(k, cutoff) == pins[k] < cutoff

EvictOlderThan ==
    /\ pins' = [k \in {j \in DOMAIN pins : ~Evicted(j, clock - EvictionAge)} |-> pins[k]]
    /\ UNCHANGED <<clock, events, cleared, peers, admitted>>

Next ==
    \/ Tick
    \/ \E r \in Records : Admit(r)
    \/ LearnPeer
    \/ EvictOlderThan

Spec == Init /\ [][Next]_vars

-----------------------------------------------------------------------------
\* The order of select_neighbors: latest first, then by name.
Precedes(v, w) ==
    \/ peers[v].learned_at > peers[w].learned_at
    \/ peers[v].learned_at = peers[w].learned_at /\ v < w

In(ws, d) == {w \in ws : DomainOf[w] = d}

\* Mutant of Takes: the cap counts from one.
TakesOneMore(chosen, w) ==
    /\ Cardinality(chosen) < TargetCount
    /\ Cardinality(In(chosen, DomainOf[w])) <= MaxPerTrustDomain

\* Whether w is selected after those of `chosen`.
Takes(chosen, w) ==
    /\ Cardinality(chosen) < TargetCount
    /\ Cardinality(In(chosen, DomainOf[w])) < MaxPerTrustDomain

\* select_neighbors, the greedy walk over the ordered candidates: each is judged
\* by those that were selected before it.
SelectNeighbors(candidates) ==
    CHOOSE chosen \in SUBSET candidates :
      \A w \in candidates : w \in chosen <=> Takes({v \in chosen : Precedes(v, w)}, w)

\* MeshNode.routing_table
RoutingTable == SelectNeighbors(DOMAIN peers)

-----------------------------------------------------------------------------
\* For each workload and kid, the records the gate lets through only get fresher,
\* although pins are dropped and old records come back, and in no window are
\* there more of them than the quota (discovery_propagation.py).
NoRewind ==
    \A k \in Key :
        /\ \A i, j \in DOMAIN admitted[k] :
             i < j => admitted[k][i].issued < admitted[k][j].issued
        /\ \A a \in 0..MaxTime :
             Cardinality({i \in DOMAIN admitted[k] : admitted[k][i].at \in a..(a + LimiterWindow)})
                <= MaxPerWindow

\* No trust domain fills the routing table, however many peers of it are known
\* and however recent they are; and when the others together cannot fill it, a
\* domain of which a peer is known is in it (select_neighbors, routing_table).
NotEclipsed ==
    LET known == {DomainOf[w] : w \in DOMAIN peers}
    IN  \A d \in known :
          /\ Cardinality(In(RoutingTable, d)) <= MaxPerTrustDomain
          /\ MaxPerTrustDomain * (Cardinality(known) - 1) < TargetCount
               => In(RoutingTable, d) # {}

=============================================================================
