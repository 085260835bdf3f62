-------------------------- MODULE DelegationProofs --------------------------
(***************************************************************************)
(* For any receipts in circulation, capabilities, clock and limits, and    *)
(* for every order in which hops are verified: a chain only narrows and is *)
(* never longer than max_chain_depth.                                      *)
(***************************************************************************)
EXTENDS Delegation, TLAPS

\* A link is a verified receipt with the origin of its chain.  The hop index
\* bounds the depth: it is 0 at a root, at least 1 under a capability, and one
\* more than the parent's elsewhere.
LinkOK(v) ==
    /\ v.receipt \in Receipts /\ v.origin \in Receipts \cup Capabilities
    /\ v.depth \in Nat /\ v.depth <= v.receipt.hop + 1
    /\ v.receipt.hop < MaxChainDepth
    /\ v.receipt.scope = v.origin.scope /\ v.receipt.aud = v.origin.aud
    /\ v.origin.iat <= v.receipt.iat /\ v.receipt.exp <= v.origin.exp

Inv == clock \in Nat /\ \A v \in verified : LinkOK(v)

\* A hop accepted under a capability, or under a link, is a link: scope and
\* audience are passed on, windows are nested, and depths follow hop indices.
LEMMA HopNarrows ==
    ASSUME NEW r \in Receipts, NEW p, NEW t, Accepts(r, p, t), p # NoParent,
           p \in Receipts \cup Capabilities
    PROVE  /\ r.hop \in Nat /\ r.hop >= 1 /\ r.hop < MaxChainDepth
           /\ r.scope = p.scope /\ r.aud = p.aud
           /\ p.iat <= r.iat /\ r.exp <= p.exp
           /\ p \in Receipts => r.hop = p.hop + 1
<1>1. r.hop \in Nat BY DelegationAssumption DEF ReceiptType
<1>2. r.hop # 0 /\ NotEscalating(r, ParentClaims(p)) /\ r.hop < MaxChainDepth
  BY DEF Accepts
<1>3. r.hop >= 1 BY <1>1, <1>2
<1>4. ParentClaims(p).scope = p.scope /\ ParentClaims(p).aud = p.aud
      /\ ParentClaims(p).iat = p.iat /\ ParentClaims(p).exp = p.exp
  BY DEF ParentClaims
<1>5. p \in Receipts => ParentClaims(p).hop = p.hop /\ p.hop \in Nat
  BY DelegationAssumption DEF ParentClaims, ReceiptType
<1> QED BY <1>1, <1>2, <1>3, <1>4, <1>5 DEF NotEscalating

LEMMA InitInv == Init => Inv
BY DEF Init, Inv

LEMMA NextInv == Inv /\ [Next]_vars => Inv'
<1> SUFFICES ASSUME Inv, [Next]_vars PROVE Inv' OBVIOUS
<1>1. CASE Tick BY <1>1 DEF Inv, Tick, LinkOK
<1>2. CASE UNCHANGED vars BY <1>2 DEF Inv, vars, LinkOK
<1>3. ASSUME NEW r \in Receipts, NEW p \in Parents, VerifyReceipt(r, p) PROVE Inv'
  <2>1. Accepts(r, p, clock) /\ clock' = clock BY <1>3 DEF VerifyReceipt
  <2>2. ReceiptType(r) BY DelegationAssumption
  <2>3. ASSUME NEW c \in Chains(r, p)
        PROVE  LinkOK([receipt |-> r, origin |-> c.origin, depth |-> c.depth])
    <3>1. CASE p = NoParent
      <4>1. c = [origin |-> r, depth |-> 1] BY <3>1, <2>3 DEF Chains
      <4>2. r.hop = 0 /\ r.hop < MaxChainDepth BY <2>1, <3>1 DEF Accepts
      <4> QED BY <4>1, <4>2, <2>2 DEF LinkOK, ReceiptType
    <3>2. CASE p \in Capabilities
      <4>0. p # NoParent BY <3>2, DelegationAssumption
      <4>1. c = [origin |-> p, depth |-> 1] BY <3>2, <4>0, <2>3 DEF Chains
      <4>2. /\ r.hop \in Nat /\ r.hop >= 1 /\ r.hop < MaxChainDepth
            /\ r.scope = p.scope /\ r.aud = p.aud /\ p.iat <= r.iat /\ r.exp <= p.exp
        BY <2>1, <3>2, <4>0, HopNarrows
      <4> QED BY <4>1, <4>2, <3>2 DEF LinkOK
    <3>3. CASE p # NoParent /\ p \notin Capabilities
      <4>1. PICK v \in verified : v.receipt = p /\ c = [origin |-> v.origin, depth |-> v.depth + 1]
        BY <3>3, <2>3 DEF Chains
      <4>2. LinkOK(v) BY DEF Inv
      <4>3. p \in Receipts BY <4>1, <4>2 DEF LinkOK
      <4>4. /\ r.hop \in Nat /\ r.hop < MaxChainDepth /\ r.hop = p.hop + 1
            /\ r.scope = p.scope /\ r.aud = p.aud /\ p.iat <= r.iat /\ r.exp <= p.exp
        BY <2>1, <3>3, <4>3, HopNarrows
      <4>5. r.scope = v.origin.scope /\ r.aud = v.origin.aud BY <4>1, <4>2, <4>4 DEF LinkOK
      <4>6. v.origin.iat \in Int /\ v.origin.exp \in Int
        BY <4>2, DelegationAssumption DEF LinkOK, ReceiptType
      <4>7. p.iat \in Int /\ p.exp \in Int /\ p.hop \in Nat BY <4>3, DelegationAssumption DEF ReceiptType
      <4>8. v.origin.iat <= p.iat /\ p.exp <= v.origin.exp /\ v.depth \in Nat /\ v.depth <= p.hop + 1
        BY <4>1, <4>2 DEF LinkOK
      <4>9. v.origin.iat <= r.iat /\ r.exp <= v.origin.exp
        BY <4>4, <4>6, <4>7, <4>8, <2>2 DEF ReceiptType
      <4>10. v.depth + 1 \in Nat /\ v.depth + 1 <= r.hop + 1 BY <4>4, <4>7, <4>8
      <4>11. c.origin = v.origin /\ c.depth = v.depth + 1 BY <4>1
      <4>12. v.origin \in Receipts \cup Capabilities BY <4>2 DEF LinkOK
      <4> QED BY <4>4, <4>5, <4>9, <4>10, <4>11, <4>12 DEF LinkOK
    <3> QED BY <3>1, <3>2, <3>3
  <2>4. ASSUME NEW v \in verified' PROVE LinkOK(v)
    <3>1. CASE v \in verified BY <3>1 DEF Inv
    <3>2. CASE v \notin verified
      <4>1. PICK c \in Chains(r, p) : v = [receipt |-> r, origin |-> c.origin, depth |-> c.depth]
        BY <1>3, <3>2 DEF VerifyReceipt
      <4> QED BY <4>1, <2>3
    <3> QED BY <3>1, <3>2
  <2> QED BY <2>1, <2>4 DEF Inv, LinkOK
<1> QED BY <1>1, <1>2, <1>3 DEF Next

\* No hop of any chain carries a scope, an audience or a window broader than
\* the capability or the root receipt the chain starts from.
THEOREM ChainsOnlyNarrow == Spec => []NonEscalation
<1>1. Inv => NonEscalation BY DEF Inv, LinkOK, NonEscalation
<1> QED BY <1>1, InitInv, NextInv, PTL DEF Spec

\* A chain is never longer than max_chain_depth, under a capability included,
\* where the first hop's index may be any positive number.
THEOREM ChainsBounded == Spec => []DepthBounded
<1>1. Inv => DepthBounded
  <2> SUFFICES ASSUME Inv, NEW v \in verified PROVE v.depth <= MaxChainDepth
    BY DEF DepthBounded
  <2>1. LinkOK(v) BY DEF Inv
  <2>2. v.receipt.hop \in Nat /\ MaxChainDepth \in Nat
    BY <2>1, DelegationAssumption DEF LinkOK, ReceiptType
  <2> QED BY <2>1, <2>2 DEF LinkOK
<1> QED BY <1>1, InitInv, NextInv, PTL DEF Spec

\* A hop is refused once the capability or the root its chain starts from has
\* expired, however long ago the hops before it were verified.
THEOREM NothingOutlivesTheOrigin == Spec => []OriginLive
<1>1. Inv => OriginLive
  <2> SUFFICES ASSUME Inv, NEW r \in Receipts, NEW p \in Parents, Accepts(r, p, clock),
                      NEW c \in Chains(r, p)
               PROVE  clock - MaxClockSkew <= c.origin.exp
    BY DEF OriginLive
  <2>1. clock \in Nat /\ MaxClockSkew \in Nat /\ r.exp \in Int
    BY DelegationAssumption DEF Inv, ReceiptType
  <2>2. clock - MaxClockSkew <= r.exp BY DEF Accepts, Current
  <2>3. CASE p = NoParent BY <2>2, <2>3 DEF Chains
  <2>4. CASE p \in Capabilities
    <3>1. p # NoParent /\ p.exp \in Int BY <2>4, DelegationAssumption
    <3>2. c.origin = p BY <2>4, <3>1 DEF Chains
    <3>3. r.exp <= p.exp BY <2>4, <3>1, HopNarrows
    <3> QED BY <2>1, <2>2, <3>1, <3>2, <3>3
  <2>5. CASE p # NoParent /\ p \notin Capabilities
    <3>1. PICK v \in verified : v.receipt = p /\ c = [origin |-> v.origin, depth |-> v.depth + 1]
      BY <2>5 DEF Chains
    <3>2. LinkOK(v) BY DEF Inv
    <3>3. p \in Receipts /\ p.exp \in Int /\ v.origin.exp \in Int
      BY <3>1, <3>2, DelegationAssumption DEF LinkOK, ReceiptType
    <3>4. r.exp <= p.exp BY <2>5, <3>3, HopNarrows
    <3>5. p.exp <= v.origin.exp /\ c.origin = v.origin BY <3>1, <3>2 DEF LinkOK
    <3> QED BY <2>1, <2>2, <3>3, <3>4, <3>5
  <2> QED BY <2>3, <2>4, <2>5
<1> QED BY <1>1, InitInv, NextInv, PTL DEF Spec

\* The three together, for every set of receipts and capabilities and every
\* order in which verify_receipt sees them.
THEOREM SoundChains == Spec => []ChainSound
  BY ChainsOnlyNarrow, ChainsBounded, NothingOutlivesTheOrigin, PTL DEF ChainSound

=============================================================================
