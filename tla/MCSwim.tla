------------------------------ MODULE MCSwim ------------------------------
(* Small instances of SwimMembership for TLC.                              *)
EXTENDS SwimMembership

\* Two nodes that know each other; only their routing is gated.
PairSeeds == [n \in Node |-> Node]
NoGate == [n \in Node |-> FALSE]

CONSTANTS a, b, c

\* c is a seed of a that does not run at first; it is a stranger to b.
GateSeeds == [n \in Node |-> CASE n = a -> {b, c} [] n = b -> {a} [] n = c -> {b}]

AllGated == [n \in Node |-> TRUE]

\* a and b are admitted (b by its pinned key); c is allowlisted for another
\* tier only, so it may be in a gated table as a seed, and not by gossip.
AbPolicy == {[spiffe_id |-> a, env_tier |-> "prod", pin |-> NoPin],
             [spiffe_id |-> b, env_tier |-> "prod", pin |-> "key_b"],
             [spiffe_id |-> c, env_tier |-> "dev", pin |-> NoPin]}
ProdTiers == [n \in Node |-> "prod"]
OwnKeys == [n \in Node |-> IF n = b THEN "key_b" ELSE NoKey]

=============================================================================
