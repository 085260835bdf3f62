--------------------------- MODULE PeerAdmission ---------------------------
(***************************************************************************)
(* The deny-by-default admission decision of envelope/peer_admission.py.   *)
(*                                                                         *)
(* A policy is a set of rules [spiffe_id, env_tier, pin].  The code keeps  *)
(* the rules in a tuple and refuses two rules with the same                *)
(* (spiffe_id, env_tier), so at most one rule can match a request and the  *)
(* declaration order decides nothing: WellFormedPolicy states that and the *)
(* order is left out.                                                      *)
(*                                                                         *)
(* NoPin, NoTier and NoKey stand for Python's None.                        *)
(***************************************************************************)

CONSTANTS NoPin, NoTier, NoKey

\* PeerAdmissionPolicy.__post_init__: no duplicate (spiffe_id, env_tier).
WellFormedPolicy(policy) ==
    \A r, s \in policy :
        r.spiffe_id = s.spiffe_id /\ r.env_tier = s.env_tier => r = s

RulesForIdentity(policy, id) == {r \in policy : r.spiffe_id = id}

MatchingRules(policy, id, tier) ==
    {r \in RulesForIdentity(policy, id) : r.env_tier = tier}

\* A matching rule without a pin admits; a pinned one admits exactly its key,
\* and an absent key (NoKey) never equals a pin.
PinSatisfied(rule, key) == rule.pin = NoPin \/ rule.pin = key

\* admit_peer: the reason code of the decision; "ok" is the only allow.
AdmitPeer(policy, id, tier, key) ==
    CASE RulesForIdentity(policy, id) = {}      -> "peer_not_allowed"
      [] /\ RulesForIdentity(policy, id) # {}
         /\ MatchingRules(policy, id, tier) = {} -> "tier_mismatch"
      [] \E r \in MatchingRules(policy, id, tier) : ~PinSatisfied(r, key)
                                                -> "cert_pin_mismatch"
      [] OTHER                                  -> "ok"

=============================================================================
