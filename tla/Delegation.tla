---------------------------- MODULE Delegation ----------------------------
(***************************************************************************)
(* Delegation receipts (envelope/delegation_receipt.py): a relying party   *)
(* verifies the hops of delegation chains one after the other, in any      *)
(* order and over time, passing for the parent of a hop nothing (a root),  *)
(* the claims of a capability it accepted, or a receipt it has verified,   *)
(* as the docstring of verify_receipt asks.                                *)
(***************************************************************************)
EXTENDS SignedArtifact

CONSTANTS
    Receipts,       \* the receipts in circulation
    Capabilities,   \* the capability claims the relying party accepted
    NoParent,       \* parent = None
    MaxChainDepth, MaxReceiptTtl, MaxClockSkew,
    MaxTime         \* bound on the clock

\* ParentClaims: parent_from_capability_claims and parent_from_receipt.  A
\* capability counts as hop -1.
ParentClaims(p) ==
    IF p \in Capabilities
      THEN [jti |-> p.jti, sub |-> p.sub, aud |-> p.aud, scope |-> p.scope,
            iat |-> p.iat, exp |-> p.exp, hop |-> -1]
      ELSE [jti |-> p.jti, sub |-> p.delegate, aud |-> p.aud, scope |-> p.scope,
            iat |-> p.iat, exp |-> p.exp, hop |-> p.hop]

\* DelegationReceipt; parent_jti is NoParent for "".
ReceiptType(r) ==
    /\ r.hop \in Nat
    /\ r.iat \in Int /\ r.nbf \in Int /\ r.exp \in Int
    /\ r.genuine \in BOOLEAN

ASSUME DelegationAssumption ==
    /\ \A r \in Receipts : ReceiptType(r)
    /\ \A c \in Capabilities : c.iat \in Int /\ c.exp \in Int /\ c.jti # NoParent
    /\ Receipts \cap Capabilities = {}
    /\ NoParent \notin Receipts \cup Capabilities
    /\ MaxChainDepth \in Nat /\ MaxReceiptTtl \in Nat /\ MaxClockSkew \in Nat
    /\ MaxTime \in Nat

VARIABLES
    clock,
    verified    \* the receipts verify_receipt returned, each as
                \* [receipt, origin, depth]: the origin of the chain it was
                \* verified at the end of, and the receipts on that chain

vars == <<clock, verified>>

-----------------------------------------------------------------------------
\* _validate_shape on the hop and its parent reference; the other fields are
\* part of `genuine`.
WellFormedHop(r) == (r.hop = 0) <=> (r.parent_jti = NoParent)

\* Mutant of NotEscalating: the end of the window is not compared.
NotEscalatingOpen(r, c) ==
    /\ r.parent_jti = c.jti
    /\ c.hop >= 0 => r.hop = c.hop + 1
    /\ r.delegator = c.sub
    /\ r.scope = c.scope /\ r.aud = c.aud
    /\ c.iat <= r.iat

\* The checks of a hop against the claims c of its parent.
NotEscalating(r, c) ==
    /\ r.parent_jti = c.jti
    /\ c.hop >= 0 => r.hop = c.hop + 1
    /\ r.delegator = c.sub
    /\ r.scope = c.scope /\ r.aud = c.aud
    /\ c.iat <= r.iat /\ r.exp <= c.exp

\* _verify_receipt_inner accepts r under the parent p at time t.  Unlike the
\* other artifacts a receipt must not have an empty window.
Accepts(r, p, t) ==
    /\ r.genuine /\ WellFormedHop(r)
    /\ r.hop < MaxChainDepth
    /\ IF r.hop = 0 THEN p = NoParent
       ELSE p # NoParent /\ NotEscalating(r, ParentClaims(p))
    /\ r.nbf < r.exp /\ WellFormedWindow(r, MaxReceiptTtl)
    /\ Current(r, t, MaxClockSkew)

\* What the relying party may pass as the parent.
Parents == {NoParent} \cup Capabilities \cup {v.receipt : v \in verified}

\* The origins and depths of the chains that end in p: a capability, or the
\* root receipt itself.
Chains(r, p) ==
    IF p = NoParent THEN {[origin |-> r, depth |-> 1]}
    ELSE IF p \in Capabilities THEN {[origin |-> p, depth |-> 1]}
    ELSE {[origin |-> v.origin, depth |-> v.depth + 1] :
            v \in {w \in verified : w.receipt = p}}

-----------------------------------------------------------------------------
Init == clock = 0 /\ verified = {}

Tick ==
    /\ clock < MaxTime
    /\ clock' = clock + 1
    /\ UNCHANGED verified

\* verify_receipt.  A receipt that is refused, or whose audit event cannot be
\* recorded (AUDIT_SINK_FAILURE), is not returned and leaves no trace here.
VerifyReceipt(r, p) ==
    /\ Accepts(r, p, clock)
    /\ verified' = verified \cup
         {[receipt |-> r, origin |-> c.origin, depth |-> c.depth] : c \in Chains(r, p)}
    /\ UNCHANGED clock

Next ==
    \/ Tick
    \/ \E r \in Receipts, p \in Parents : VerifyReceipt(r, p)

Spec == Init /\ [][Next]_vars

-----------------------------------------------------------------------------
(* Properties *)

\* "No test case can produce broader privilege at child hop": whatever chain a
\* receipt was verified at the end of, it has the scope and the audience of
\* the chain's origin and lies within the origin's window.
NonEscalation ==
    \A v \in verified :
        /\ v.receipt.scope = v.origin.scope /\ v.receipt.aud = v.origin.aud
        /\ v.origin.iat <= v.receipt.iat /\ v.receipt.exp <= v.origin.exp

\* Chains do not exceed max_chain_depth, although hop_index is a number its
\* signer chose.
DepthBounded == \A v \in verified : v.depth <= MaxChainDepth

\* A hop is never accepted once the origin of its chain has expired, although
\* verify_receipt looks only at the hop before it, and that one may have been
\* verified long ago.
OriginLive ==
    \A r \in Receipts, p \in Parents :
        Accepts(r, p, clock) =>
            \A c \in Chains(r, p) : clock - MaxClockSkew <= c.origin.exp

\* What a chain as a whole keeps although verify_receipt compares each hop with
\* its immediate parent only: it narrows, it is bounded, and it ends with the
\* capability or the root receipt it starts from.
ChainSound == NonEscalation /\ DepthBounded /\ OriginLive

=============================================================================
