----------------------- MODULE EnvelopeVerifierProofs -----------------------
(***************************************************************************)
(* For any number of callers, any envelopes, keys, clock and skew, and any *)
(* failures of the audit sink: a nonce is granted once while its envelope  *)
(* lives, a capability revoked before the list was read is refused, and no *)
(* nonce and no answer goes unaccounted.  And of the channel below: both   *)
(* ends know whom they deal with.                                          *)
(***************************************************************************)
EXTENDS MCEnvelope, TLAPS, SequenceTheorems, WellFoundedInduction

Stage == {"idle", "signature", "capability", "emit_cap", "read_now", "reserve", "emit", "done"}

Grant == [call : Nat, env : Envelope, at : Nat]

Types ==
    /\ clock \in Nat /\ calls \in Nat
    /\ entries \subseteq Key /\ until \in [Key -> Nat]
    /\ pc \in [Caller -> Stage]
    /\ id \in [Caller -> Nat]
    /\ env \in [Caller -> Envelope \cup {NoEnvelope}]
    /\ current \in [Caller -> Nat] /\ now \in [Caller -> Nat]
    /\ DOMAIN reason = Caller
    /\ grants \in Seq(Grant)

\* A call under way has an envelope; the clock has passed what it has read; and
\* the cache reads it after the verifier did.
Underway ==
    \A c \in Caller :
        /\ current[c] <= clock /\ now[c] <= clock
        /\ pc[c] # "idle" => env[c] \in Envelope
        /\ pc[c] = "reserve" => current[c] <= now[c]

\* Until its envelope expires, the nonce of a grant is in the cache, with an
\* expiry no earlier than the envelope's.
Held ==
    \A i \in 1..Len(grants) :
        grants[i].at < grants[i].env.expires_at /\ clock < grants[i].env.expires_at
        => /\ grants[i].env.key \in entries
           /\ grants[i].env.expires_at <= until[grants[i].env.key]

Inv == Types /\ Underway /\ Held /\ NonceExclusive

-----------------------------------------------------------------------------
LEMMA EnvelopeFields ==
    ASSUME NEW e \in Envelope
    PROVE  e.key \in Key /\ e.expires_at \in Nat /\ e.jti \in Jti
BY EnvelopeAssumption

LEMMA InitInv == Init => Inv
<1> SUFFICES ASSUME Init PROVE Inv OBVIOUS
<1>1. Types BY DEF Init, Types, Stage
<1>2. Underway BY DEF Init, Underway
<1>3. Held /\ NonceExclusive BY DEF Init, Held, NonceExclusive
<1> QED BY <1>1, <1>2, <1>3 DEF Inv

\* A step that leaves cache and grants alone keeps what is held, however the
\* clock moves on.
LEMMA HeldOn ==
    ASSUME Inv, UNCHANGED <<entries, until, grants>>, clock' \in Nat, clock <= clock'
    PROVE  Held' /\ NonceExclusive'
<1>1. ASSUME NEW i \in 1..Len(grants), clock' < grants[i].env.expires_at
      PROVE  clock < grants[i].env.expires_at
  <2>1. grants[i] \in Grant BY DEF Inv, Types
  <2>2. grants[i].env.expires_at \in Nat BY <2>1, EnvelopeFields DEF Grant
  <2> QED BY <1>1, <2>2 DEF Inv, Types
<1>2. Held' BY <1>1 DEF Inv, Held
<1>3. NonceExclusive' BY DEF Inv, NonceExclusive
<1> QED BY <1>2, <1>3

LEMMA TickInv == ASSUME Inv, Tick PROVE Inv'
<1>1. Types' BY DEF Inv, Types, Tick
<1>2. Underway' BY DEF Inv, Types, Underway, Tick
<1>3. clock' \in Nat /\ clock <= clock' BY DEF Inv, Types, Tick
<1>4. Held' /\ NonceExclusive' BY <1>3, HeldOn DEF Tick
<1> QED BY <1>1, <1>2, <1>4 DEF Inv

\* The entries of the cache after mark_if_new: nothing that is held is purged,
\* and a key that is held is refused.
LEMMA ReserveInv == ASSUME Inv, NEW c \in Caller, Reserve(c) PROVE Inv'
<1> DEFINE k == env[c].key
           e == env[c]
<1>0. Types /\ Underway /\ Held /\ NonceExclusive BY DEF Inv
<1>1. e \in Envelope /\ k \in Key /\ e.expires_at \in Nat
  BY <1>0, EnvelopeFields DEF Reserve, Underway
<1>2. /\ now[c] \in Nat /\ current[c] \in Nat /\ clock \in Nat
      /\ current[c] <= now[c] /\ now[c] <= clock
  BY <1>0 DEF Reserve, Underway, Types
<1>3. clock' = clock /\ UNCHANGED <<env, current, now, id, calls>> BY DEF Reserve
<1>4. Ttl(e, current[c]) \in Nat /\ (e.expires_at > current[c]
        => now[c] + Ttl(e, current[c]) >= e.expires_at)
  BY <1>1, <1>2 DEF Ttl
<1>5. /\ pc' \in [Caller -> Stage] /\ DOMAIN reason' = Caller
      /\ \A d \in Caller : (pc'[d] = "reserve" => pc[d] = "reserve")
                           /\ (pc'[d] # "idle" => pc[d] # "idle")
  <2>1. pc' = [pc EXCEPT ![c] = "emit"] /\ pc[c] = "reserve" BY DEF Reserve
  <2>2. reason' = reason \/ reason' = [reason EXCEPT ![c] = "replay_detected"] BY DEF Reserve
  <2> QED BY <1>0, <2>1, <2>2 DEF Types, Stage
<1>6. Underway' BY <1>0, <1>3, <1>5 DEF Underway
<1>7. ASSUME NEW i \in 1..Len(grants),
             grants[i].at < grants[i].env.expires_at, clock < grants[i].env.expires_at
      PROVE  /\ grants[i].env.key \in Purged(now[c])
             /\ grants[i].env.expires_at <= until[grants[i].env.key]
  <2>1. grants[i] \in Grant BY <1>0 DEF Types
  <2>2. grants[i].env.expires_at \in Nat /\ grants[i].env.key \in Key
    BY <2>1, EnvelopeFields DEF Grant
  <2>3. grants[i].env.key \in entries /\ grants[i].env.expires_at <= until[grants[i].env.key]
    BY <1>0, <1>7 DEF Held
  <2>4. until[grants[i].env.key] \in Nat BY <1>0, <2>2 DEF Types
  <2>5. until[grants[i].env.key] > now[c] BY <1>2, <1>7, <2>2, <2>3, <2>4
  <2> QED BY <2>3, <2>5 DEF Purged
<1>8. CASE k \in Purged(now[c])
  <2>1. entries' = Purged(now[c]) /\ until' = until /\ grants' = grants BY <1>8 DEF Reserve
  <2>2. Types' BY <1>0, <1>3, <1>5, <2>1 DEF Types, Purged
  <2>3. Held' BY <1>3, <1>7, <2>1 DEF Held
  <2>4. NonceExclusive' BY <1>0, <2>1 DEF NonceExclusive
  <2> QED BY <1>6, <2>2, <2>3, <2>4 DEF Inv
<1>9. CASE k \notin Purged(now[c])
  <2> DEFINE g == [call |-> id[c], env |-> env[c], at |-> clock]
  <2>1. /\ entries' = Purged(now[c]) \cup {k}
        /\ until' = [until EXCEPT ![k] = now[c] + Ttl(e, current[c])]
        /\ grants' = Append(grants, g)
    BY <1>9 DEF Reserve
  <2>2. g \in Grant /\ g.env = env[c] /\ g.at = clock BY <1>0, <1>1 DEF Grant, Types
  <2>3. grants \in Seq(Grant) /\ Len(grants) \in Nat BY <1>0 DEF Types
  <2> HIDE DEF g
  <2>4. /\ grants' \in Seq(Grant) /\ Len(grants') = Len(grants) + 1
        /\ grants'[Len(grants) + 1] = g
        /\ \A i \in 1..Len(grants) : grants'[i] = grants[i]
    BY <2>1, <2>2, <2>3
  <2>5. now[c] + Ttl(e, current[c]) \in Nat BY <1>2, <1>4
  <2>6. until' \in [Key -> Nat] /\ until'[k] = now[c] + Ttl(e, current[c])
        /\ \A x \in Key : x # k => until'[x] = until[x]
    BY <1>0, <1>1, <2>1, <2>5 DEF Types
  <2>7. Types' BY <1>0, <1>1, <1>3, <1>5, <2>1, <2>4, <2>6 DEF Types, Purged
  <2>8. \A i \in 1..Len(grants) : grants[i].env.key = k /\ grants[i].at < grants[i].env.expires_at
            => clock >= grants[i].env.expires_at
    <3> SUFFICES ASSUME NEW i \in 1..Len(grants), grants[i].env.key = k,
                        grants[i].at < grants[i].env.expires_at,
                        ~(clock >= grants[i].env.expires_at)
                 PROVE  FALSE OBVIOUS
    <3>1. grants[i] \in Grant BY <2>3
    <3>2. grants[i].env.expires_at \in Nat BY <3>1, EnvelopeFields DEF Grant
    <3>3. clock < grants[i].env.expires_at BY <3>2, <1>2
    <3> QED BY <1>7, <1>9, <3>3
  <2>9. ASSUME NEW i \in 1..Len(grants'),
               grants'[i].at < grants'[i].env.expires_at, clock < grants'[i].env.expires_at
        PROVE  /\ grants'[i].env.key \in entries'
               /\ grants'[i].env.expires_at <= until'[grants'[i].env.key]
    <3>1. CASE i = Len(grants) + 1
      <4>1. grants'[i].env = e BY <3>1, <2>4, <2>2
      <4>2. e.expires_at > current[c] BY <4>1, <2>9, <1>0, <1>1, <1>2 DEF Underway
      <4> QED BY <4>1, <4>2, <1>1, <1>4, <2>1, <2>6, <1>2
    <3>2. CASE i \in 1..Len(grants)
      <4>1. grants'[i] = grants[i] BY <3>2, <2>4
      <4>2. /\ grants[i].env.key \in Purged(now[c])
            /\ grants[i].env.expires_at <= until[grants[i].env.key]
        BY <3>2, <4>1, <2>9, <1>7
      <4>3. grants[i].env.key # k BY <4>2, <1>9
      <4>4. grants[i].env.key \in Key BY <4>2, <1>0 DEF Purged, Types
      <4> QED BY <4>1, <4>2, <4>3, <4>4, <2>1, <2>6
    <3> QED BY <3>1, <3>2, <2>3, <2>4
  <2>10. Held' BY <2>9, <1>3 DEF Held
  <2>11. NonceExclusive'
    <3> SUFFICES ASSUME NEW i \in 1..Len(grants'), NEW j \in 1..Len(grants'), i < j,
                        grants'[i].env.key = grants'[j].env.key,
                        grants'[i].at < grants'[i].env.expires_at
                 PROVE  grants'[j].at >= grants'[i].env.expires_at
      BY DEF NonceExclusive
    <3>1. i \in 1..Len(grants) /\ grants'[i] = grants[i] BY <2>3, <2>4
    <3>2. CASE j = Len(grants) + 1
      <4>1. grants'[j].at = clock /\ grants'[j].env = env[c] BY <3>2, <2>4, <2>2
      <4> QED BY <3>1, <4>1, <2>8
    <3>3. CASE j \in 1..Len(grants)
      <4>1. grants'[j] = grants[j] BY <3>3, <2>4
      <4> QED BY <3>1, <3>3, <4>1, <1>0 DEF NonceExclusive
    <3> QED BY <3>2, <3>3, <2>3, <2>4
  <2> QED BY <1>6, <2>7, <2>10, <2>11 DEF Inv
<1> QED BY <1>8, <1>9

LEMMA NextInv == Inv /\ [Next]_vars => Inv'
<1> SUFFICES ASSUME Inv, [Next]_vars PROVE Inv' OBVIOUS
<1>1. CASE Tick BY <1>1, TickInv
<1>2. ASSUME NEW c \in Caller, Reserve(c) PROVE Inv' BY <1>2, ReserveInv
<1>a. ASSUME UNCHANGED <<clock, entries, until, grants>>, Types', Underway' PROVE Inv'
  <2>1. clock' \in Nat /\ clock <= clock' BY <1>a DEF Inv, Types
  <2> QED BY <1>a, <2>1, HeldOn DEF Inv
<1>3. ASSUME NEW j \in Jti, Revoke(j) PROVE Inv'
  <2>1. Types' /\ Underway' BY <1>3 DEF Revoke, Inv, Types, Underway
  <2> QED BY <1>3, <1>a, <2>1 DEF Revoke
<1>4. ASSUME NEW c \in Caller, NEW e \in Envelope, Start(c, e) PROVE Inv'
  <2>1. Types' BY <1>4 DEF Start, shared, Inv, Types, Stage
  <2>2. Underway' BY <1>4 DEF Start, shared, Inv, Types, Underway
  <2> QED BY <1>4, <1>a, <2>1, <2>2 DEF Start, shared
<1>5. ASSUME NEW c \in Caller, CheckSignature(c) PROVE Inv'
  <2>1. Types' BY <1>5 DEF CheckSignature, shared, history, Inv, Types, Stage
  <2>2. Underway' BY <1>5 DEF CheckSignature, shared, history, Inv, Types, Underway
  <2> QED BY <1>5, <1>a, <2>1, <2>2 DEF CheckSignature, shared, history
<1>6. ASSUME NEW c \in Caller, CheckCapability(c) PROVE Inv'
  <2>1. Types' BY <1>6 DEF CheckCapability, shared, history, Inv, Types, Stage
  <2>2. Underway' BY <1>6 DEF CheckCapability, shared, history, Inv, Types, Underway
  <2> QED BY <1>6, <1>a, <2>1, <2>2 DEF CheckCapability, shared, history
<1>7. ASSUME NEW c \in Caller, EmitCap(c) \/ EmitCapFails(c) PROVE Inv'
  <2>1. Types' BY <1>7 DEF EmitCap, EmitCapFails, shared, history, Inv, Types, Stage
  <2>2. Underway' BY <1>7 DEF EmitCap, EmitCapFails, shared, history, Inv, Types, Underway
  <2> QED BY <1>7, <1>a, <2>1, <2>2 DEF EmitCap, EmitCapFails, shared, history
<1>8. ASSUME NEW c \in Caller, ReadNow(c) PROVE Inv'
  <2>1. Types' BY <1>8 DEF ReadNow, shared, history, Inv, Types, Stage
  <2>2. Underway' BY <1>8 DEF ReadNow, shared, history, Inv, Types, Underway
  <2> QED BY <1>8, <1>a, <2>1, <2>2 DEF ReadNow, shared, history
<1>9. ASSUME NEW c \in Caller, Emit(c) \/ EmitFails(c) PROVE Inv'
  <2>1. Types' BY <1>9 DEF Emit, EmitFails, shared, history, Inv, Types, Stage
  <2>2. Underway' BY <1>9 DEF Emit, EmitFails, shared, history, Inv, Types, Underway
  <2> QED BY <1>9, <1>a, <2>1, <2>2 DEF Emit, EmitFails, shared, history
<1>10. ASSUME NEW c \in Caller, Finish(c) PROVE Inv'
  <2>1. Types' BY <1>10 DEF Finish, shared, history, Inv, Types, Stage
  <2>2. Underway' BY <1>10 DEF Finish, shared, history, Inv, Types, Underway
  <2> QED BY <1>10, <1>a, <2>1, <2>2 DEF Finish, shared, history
<1>11. CASE UNCHANGED vars
  <2>1. Types' /\ Underway' BY <1>11 DEF vars, Inv, Types, Underway
  <2> QED BY <1>11, <1>a, <2>1 DEF vars
<1> QED BY <1>1, <1>2, <1>3, <1>4, <1>5, <1>6, <1>7, <1>8, <1>9, <1>10, <1>11 DEF Next

\* However callers race between the clock they read and the cache they update,
\* a (sender, nonce) granted before its envelope expired is granted to nobody
\* else until then (verify_envelope, InMemoryReplayCache.mark_if_new).
THEOREM NoncesExclusive == Spec => []NonceExclusive
<1>1. Inv => NonceExclusive BY DEF Inv
<1> QED BY InitInv, NextInv, <1>1, PTL DEF Spec

-----------------------------------------------------------------------------
(* What a list of checks lets pass *)

\* A set of numbers has a least one, so a list of checks a first that fails.
LEMMA LeastNatural ==
    ASSUME NEW S \in SUBSET Nat, S # {}
    PROVE  \E x \in S : \A y \in S : x <= y
<1>1. PICK x \in S : \A y \in S : ~(<<y, x>> \in OpToRel(<, Nat))
  BY NatLessThanWellFounded, WFMin
<1>2. ASSUME NEW y \in S PROVE x <= y
  <2>1. ~(<<y, x>> \in {ss \in Nat \X Nat : ss[1] < ss[2]}) BY <1>1 DEF OpToRel
  <2>2. ~(y < x) BY <2>1
  <2> QED BY <2>2
<1> QED BY <1>2

\* A list of checks finds nothing only when none fails, and what it reports is
\* the reason of one that does.
LEMMA FirstFailureFails ==
    ASSUME NEW X, NEW a \in Seq(X)
    PROVE  \/ FirstFailure(a) = "ok" /\ \A i \in 1..Len(a) : ~a[i][1]
           \/ \E i \in 1..Len(a) : a[i][1] /\ FirstFailure(a) = a[i][2]
<1>1. DOMAIN a = 1..Len(a) /\ Len(a) \in Nat OBVIOUS
<1> DEFINE failing == {j \in DOMAIN a : a[j][1]}
           first == CHOOSE j \in failing : \A k \in failing : j <= k
<1>2. CASE failing = {}
  <2>1. FirstFailure(a) = "ok" BY <1>2 DEF FirstFailure
  <2> QED BY <1>1, <1>2, <2>1
<1>3. CASE failing # {}
  <2>1. failing \in SUBSET Nat BY <1>1
  <2>2. FirstFailure(a) = a[first][2] BY <1>3 DEF FirstFailure
  <2> HIDE DEF failing
  <2>3. \E j \in failing : \A k \in failing : j <= k BY <1>3, <2>1, LeastNatural
  <2>4. first \in failing BY <2>3
  <2> HIDE DEF first
  <2>5. first \in 1..Len(a) /\ a[first][1] BY <1>1, <2>4 DEF failing
  <2> QED BY <2>2, <2>5
<1> QED BY <1>2, <1>3

\* The reasons only later steps give.
Later == {"ok", "replay_detected"}

\* verify_envelope up to the payload digest.
LEMMA EnvelopePasses ==
    ASSUME NEW e \in Envelope, NEW t
    PROVE  LET r == FirstFailure(EnvelopeChecks(e, t))
           IN  IF r = "ok" THEN e.flaw \notin StaticFlaw \cup ContentFlaw ELSE r \notin Later
<1> DEFINE x1 == <<e.flaw \in StaticFlaw, e.flaw>>
           x2 == <<e.issued_at > t + MaxClockSkew, "issued_at_in_future">>
           x3 == <<t > e.expires_at + MaxClockSkew, "envelope_expired">>
           x4 == <<e.expires_at <= e.issued_at, "invalid_validity_window">>
           x5 == <<e.expires_at > e.issued_at + MaxEnvelopeTtl, "envelope_ttl_exceeded">>
           x6 == <<e.flaw \in ContentFlaw, e.flaw>>
           a == <<x1, x2, x3, x4, x5, x6>>
           X == {x1, x2, x3, x4, x5, x6}
<1>1. EnvelopeChecks(e, t) = a BY DEF EnvelopeChecks
<1>2. /\ x1[1] = (e.flaw \in StaticFlaw) /\ x1[2] = e.flaw
      /\ x6[1] = (e.flaw \in ContentFlaw) /\ x6[2] = e.flaw
  OBVIOUS
<1>3. /\ x2[2] \notin Later /\ x3[2] \notin Later /\ x4[2] \notin Later /\ x5[2] \notin Later
  BY DEF Later
<1>4. StaticFlaw \cap Later = {} /\ ContentFlaw \cap Later = {}
  BY DEF StaticFlaw, ContentFlaw, Later
<1>5. (x1[1] => x1[2] \notin Later) /\ (x6[1] => x6[2] \notin Later) BY <1>2, <1>4
<1> HIDE DEF x1, x2, x3, x4, x5, x6
<1>6. a \in Seq(X) /\ Len(a) = 6 /\ a[1] = x1 /\ a[6] = x6 OBVIOUS
<1>7. \A x \in X : x[1] => x[2] \notin Later BY <1>3, <1>5
<1> HIDE DEF a, X
<1>8. \A i \in 1..Len(a) : a[i][1] => a[i][2] \notin Later
  <2>1. \A i \in 1..Len(a) : a[i] \in X BY <1>6, ElementOfSeq
  <2> QED BY <1>7, <2>1, Zenon
<1>9. 1 \in 1..Len(a) /\ 6 \in 1..Len(a) BY <1>6
<1>10. "ok" \in Later BY DEF Later
<1> QED BY <1>1, <1>2, <1>6, <1>8, <1>9, <1>10, FirstFailureFails, Zenon

\* key_lookup and the signature.
LEMMA SignaturePasses ==
    ASSUME NEW e \in Envelope, NEW t
    PROVE  LET r == FirstFailure(SignatureChecks(e, t))
           IN  IF r = "ok" THEN e.kid \in DOMAIN KeyNotAfter /\ e.flaw \notin SignatureFlaw
                           ELSE r \notin Later
<1> DEFINE x1 == <<e.kid \notin DOMAIN KeyNotAfter, "unknown_kid">>
           x2 == <<e.kid \in DOMAIN KeyNotAfter /\ t > KeyNotAfter[e.kid], "key_expired">>
           x3 == <<e.flaw \in SignatureFlaw, e.flaw>>
           a == <<x1, x2, x3>>
           X == {x1, x2, x3}
<1>1. SignatureChecks(e, t) = a BY DEF SignatureChecks
<1>2. /\ x1[1] = (e.kid \notin DOMAIN KeyNotAfter)
      /\ x3[1] = (e.flaw \in SignatureFlaw) /\ x3[2] = e.flaw
  OBVIOUS
<1>3. x1[2] \notin Later /\ x2[2] \notin Later BY DEF Later
<1>4. SignatureFlaw \cap Later = {} BY DEF SignatureFlaw, Later
<1>5. x3[1] => x3[2] \notin Later BY <1>2, <1>4
<1> HIDE DEF x1, x2, x3
<1>6. a \in Seq(X) /\ Len(a) = 3 /\ a[1] = x1 /\ a[3] = x3 OBVIOUS
<1>7. \A x \in X : x[1] => x[2] \notin Later BY <1>3, <1>5
<1> HIDE DEF a, X
<1>8. \A i \in 1..Len(a) : a[i][1] => a[i][2] \notin Later
  <2>1. \A i \in 1..Len(a) : a[i] \in X BY <1>6, ElementOfSeq
  <2> QED BY <1>7, <2>1, Zenon
<1>9. 1 \in 1..Len(a) /\ 3 \in 1..Len(a) BY <1>6
<1>10. "ok" \in Later BY DEF Later
<1> QED BY <1>1, <1>2, <1>6, <1>8, <1>9, <1>10, FirstFailureFails, Zenon

\* verify_capability_token.
LEMMA CapabilityPasses ==
    ASSUME NEW e \in Envelope, NEW cur, NEW t, NEW rev
    PROVE  LET r == CapabilityReason(e, cur, t, rev)
           IN  IF r = "ok" THEN /\ e.issuer \in DOMAIN IssuerNotAfter /\ e.jti \notin rev
                                /\ e.flaw \notin TokenFlaw \cup TokenSignatureFlaw
                                                   \cup InternalFlaw
                           ELSE r \notin Later
<1> DEFINE x1 == <<e.flaw \in TokenFlaw, e.flaw>>
           x2 == <<e.nbf > cur + MaxClockSkew, "capability_not_yet_valid">>
           x3 == <<cur > e.exp + MaxClockSkew, "capability_expired">>
           x4 == <<e.exp <= e.nbf, "capability_invalid_validity_window">>
           x5 == <<e.exp > e.nbf + MaxCapabilityTtl, "capability_ttl_exceeded">>
           y1 == <<e.issuer \notin DOMAIN IssuerNotAfter, "unknown_issuer_key">>
           y2 == <<e.issuer \in DOMAIN IssuerNotAfter /\ t > IssuerNotAfter[e.issuer],
                   "issuer_key_expired">>
           y3 == <<e.flaw \in TokenSignatureFlaw, e.flaw>>
           y4 == <<e.flaw \in InternalFlaw, "verifier_internal_error">>
           y5 == <<e.jti \in rev, "capability_revoked">>
           a == <<x1, x2, x3, x4, x5>>
           b == <<y1, y2, y3, y4, y5>>
           X == {x1, x2, x3, x4, x5, y1, y2, y3, y4, y5}
<1>1. CapabilityReason(e, cur, t, rev) = FirstFailure(a \o b)
  BY DEF CapabilityReason, TokenChecks, IssuerChecks
<1>2. /\ x1[1] = (e.flaw \in TokenFlaw) /\ x1[2] = e.flaw
      /\ y1[1] = (e.issuer \notin DOMAIN IssuerNotAfter)
      /\ y3[1] = (e.flaw \in TokenSignatureFlaw) /\ y3[2] = e.flaw
      /\ y4[1] = (e.flaw \in InternalFlaw) /\ y5[1] = (e.jti \in rev)
  OBVIOUS
<1>3. /\ x2[2] \notin Later /\ x3[2] \notin Later /\ x4[2] \notin Later /\ x5[2] \notin Later
      /\ y1[2] \notin Later /\ y2[2] \notin Later /\ y4[2] \notin Later /\ y5[2] \notin Later
  BY DEF Later
<1>4. TokenFlaw \cap Later = {} /\ TokenSignatureFlaw \cap Later = {}
  BY DEF TokenFlaw, TokenSignatureFlaw, Later
<1>5. (x1[1] => x1[2] \notin Later) /\ (y3[1] => y3[2] \notin Later) BY <1>2, <1>4
<1> HIDE DEF x1, x2, x3, x4, x5, y1, y2, y3, y4, y5
<1>6. /\ a \in Seq(X) /\ b \in Seq(X) /\ Len(a) = 5 /\ Len(b) = 5
      /\ a[1] = x1 /\ b[1] = y1 /\ b[3] = y3 /\ b[4] = y4 /\ b[5] = y5
  OBVIOUS
<1>7. \A x \in X : x[1] => x[2] \notin Later BY <1>3, <1>5
<1> HIDE DEF a, b, X
<1> DEFINE c == a \o b
<1>8. c \in Seq(X) /\ Len(c) = 10 /\ \A i \in 1..10 : c[i] = IF i <= 5 THEN a[i] ELSE b[i - 5]
  <2>1. /\ c \in Seq(X) /\ Len(c) = Len(a) + Len(b)
        /\ \A i \in 1..Len(a) + Len(b) : c[i] = IF i <= Len(a) THEN a[i] ELSE b[i - Len(a)]
    BY <1>6, ConcatProperties, Zenon
  <2>2. Len(a) + Len(b) = 10 BY <1>6
  <2> HIDE DEF c
  <2> QED BY <1>6, <2>1, <2>2
<1> HIDE DEF c
<1>9. c[1] = x1 /\ c[6] = y1 /\ c[8] = y3 /\ c[9] = y4 /\ c[10] = y5 BY <1>6, <1>8
<1>10. \A i \in 1..Len(c) : c[i][1] => c[i][2] \notin Later
  <2>1. \A i \in 1..Len(c) : c[i] \in X BY <1>8, ElementOfSeq
  <2> QED BY <1>7, <2>1, Zenon
<1>11. /\ 1 \in 1..Len(c) /\ 6 \in 1..Len(c) /\ 8 \in 1..Len(c) /\ 9 \in 1..Len(c)
       /\ 10 \in 1..Len(c)
  BY <1>8
<1>12. CapabilityReason(e, cur, t, rev) = FirstFailure(c) BY <1>1 DEF c
<1>13. "ok" \in Later BY DEF Later
<1>14. CASE FirstFailure(c) = "ok" /\ \A i \in 1..Len(c) : ~c[i][1]
  <2>1. ~x1[1] /\ ~y1[1] /\ ~y3[1] /\ ~y4[1] /\ ~y5[1] BY <1>9, <1>11, <1>14, Zenon
  <2> QED BY <1>2, <1>12, <1>14, <2>1, Zenon
<1>15. CASE \E i \in 1..Len(c) : c[i][1] /\ FirstFailure(c) = c[i][2]
  <2>1. FirstFailure(c) \notin Later BY <1>10, <1>15, Zenon
  <2> QED BY <1>12, <1>13, <2>1, Zenon
<1> QED BY <1>8, <1>14, <1>15, FirstFailureFails, Zenon

-----------------------------------------------------------------------------
(* Revocation *)

\* Calls are numbered, and the number of a call under way is nobody else's.
Numbered ==
    /\ calls \in Nat /\ late \subseteq 1..calls /\ accepts \subseteq 1..calls
    /\ pc \in [Caller -> Stage] /\ DOMAIN env = Caller /\ DOMAIN reason = Caller
    /\ id \in [Caller -> Nat]
    /\ \A c \in Caller :
         /\ id[c] <= calls
         /\ pc[c] = "idle" => id[c] = 0
         /\ pc[c] # "idle" => id[c] >= 1
         /\ pc[c] # "idle" => env[c] \in Envelope
         /\ pc[c] # "done" => id[c] \notin accepts
    /\ \A c, d \in Caller : pc[c] # "idle" /\ id[c] = id[d] => c = d

\* A call that came too late for its capability has failed, or is going to when
\* it reads the list.
Doomed ==
    \A c \in Caller : id[c] \in late =>
        \/ pc[c] \in {"signature", "capability"} /\ env[c].jti \in revoked
        \/ pc[c] \in {"emit_cap", "emit", "done"} /\ reason[c] # "ok"

RInv == Numbered /\ Doomed /\ RevokedNotAccepted

LEMMA InitRInv == Init => RInv
<1> SUFFICES ASSUME Init PROVE RInv OBVIOUS
<1>1. Numbered BY DEF Init, Numbered, Stage
<1>2. Doomed /\ RevokedNotAccepted BY DEF Init, Doomed, RevokedNotAccepted
<1> QED BY <1>1, <1>2 DEF RInv

LEMMA RevokeRInv == ASSUME RInv, NEW j \in Jti, Revoke(j) PROVE RInv'
<1> DEFINE hit == {d \in Caller : pc[d] \in {"signature", "capability"} /\ env[d].jti = j}
<1>1. /\ revoked' = revoked \cup {j} /\ late' = late \cup {id[c] : c \in hit}
      /\ UNCHANGED <<pc, id, env, reason, calls, accepts>>
  BY DEF Revoke
<1>2. \A c \in hit : id[c] \in 1..calls /\ id[c] \notin accepts /\ c \in Caller
                    /\ pc[c] # "idle"
                    /\ pc[c] \in {"signature", "capability"} /\ env[c].jti = j
  BY DEF RInv, Numbered
<1> HIDE DEF hit
<1>3. Numbered'
  <2>1. late \subseteq 1..calls BY DEF RInv, Numbered
  <2>2. \A n \in {id[c] : c \in hit} : n \in 1..calls BY <1>2
  <2>3. late' \subseteq 1..calls' BY <1>1, <2>1, <2>2, Zenon
  <2> QED BY <1>1, <2>3 DEF RInv, Numbered
<1>4. RevokedNotAccepted' BY <1>1, <1>2 DEF RInv, RevokedNotAccepted
<1>5. Doomed'
  <2> SUFFICES ASSUME NEW c \in Caller, id[c] \in late'
               PROVE  \/ pc[c] \in {"signature", "capability"} /\ env[c].jti \in revoked'
                      \/ pc[c] \in {"emit_cap", "emit", "done"} /\ reason[c] # "ok"
    BY <1>1 DEF Doomed
  <2>1. CASE id[c] \in late BY <2>1, <1>1 DEF RInv, Doomed
  <2>2. CASE id[c] \in {id[d] : d \in hit}
    <3>1. PICK d \in hit : id[c] = id[d] BY <2>2
    <3>2. c = d BY <3>1, <1>2 DEF RInv, Numbered
    <3> QED BY <3>1, <3>2, <1>1, <1>2
  <2> QED BY <2>1, <2>2, <1>1
<1> QED BY <1>3, <1>4, <1>5 DEF RInv

LEMMA StartRInv ==
    ASSUME RInv, NEW c \in Caller, NEW e \in Envelope, Start(c, e) PROVE RInv'
<1> DEFINE r == FirstFailure(EnvelopeChecks(e, clock))
<1>1. /\ pc[c] = "idle" /\ calls' = calls + 1
      /\ reason' = [reason EXCEPT ![c] = r]
      /\ pc' = [pc EXCEPT ![c] = IF r = "ok" THEN "signature" ELSE "emit"]
      /\ env' = [env EXCEPT ![c] = e] /\ id' = [id EXCEPT ![c] = calls + 1]
      /\ late' = (IF e.jti \in revoked THEN late \cup {calls + 1} ELSE late)
      /\ revoked' = revoked /\ accepts' = accepts
  BY DEF Start, shared
<1> HIDE DEF r
<1>2. /\ calls \in Nat /\ late \subseteq 1..calls /\ accepts \subseteq 1..calls
      /\ calls + 1 \notin late /\ calls + 1 \notin accepts
  BY DEF RInv, Numbered
<1>3. Numbered'
  <2>1. /\ calls' \in Nat /\ late' \subseteq 1..calls' /\ accepts' \subseteq 1..calls'
    BY <1>1, <1>2
  <2>2. /\ pc' \in [Caller -> Stage] /\ DOMAIN env' = Caller /\ DOMAIN reason' = Caller
        /\ id' \in [Caller -> Nat]
    BY <1>1, <1>2 DEF RInv, Numbered, Stage
  <2>3. ASSUME NEW d \in Caller
        PROVE  /\ id'[d] <= calls'
               /\ pc'[d] = "idle" => id'[d] = 0
               /\ pc'[d] # "idle" => id'[d] >= 1
               /\ pc'[d] # "idle" => env'[d] \in Envelope
               /\ pc'[d] # "done" => id'[d] \notin accepts'
    BY <1>1, <1>2 DEF RInv, Numbered
  <2>4. ASSUME NEW d \in Caller, NEW f \in Caller, pc'[d] # "idle", id'[d] = id'[f]
        PROVE  d = f
    BY <1>1, <1>2, <2>4 DEF RInv, Numbered
  <2> QED BY <2>1, <2>2, <2>3, <2>4 DEF Numbered
<1>4. Doomed'
  <2> SUFFICES ASSUME NEW d \in Caller, id'[d] \in late'
               PROVE  \/ pc'[d] \in {"signature", "capability"} /\ env'[d].jti \in revoked'
                      \/ pc'[d] \in {"emit_cap", "emit", "done"} /\ reason'[d] # "ok"
    BY DEF Doomed
  <2>1. CASE d = c
    <3>1. id'[d] = calls + 1 /\ env'[d] = e /\ reason'[d] = r
          /\ pc'[d] = IF r = "ok" THEN "signature" ELSE "emit"
      BY <2>1, <1>1 DEF RInv, Numbered
    <3>2. e.jti \in revoked BY <3>1, <1>1, <1>2
    <3> QED BY <3>1, <3>2, <1>1
  <2>2. CASE d # c
    <3>1. id'[d] = id[d] /\ env'[d] = env[d] /\ reason'[d] = reason[d] /\ pc'[d] = pc[d]
      BY <2>2, <1>1 DEF RInv, Numbered
    <3>2. id[d] \in Nat /\ id[d] <= calls BY DEF RInv, Numbered
    <3>3. id[d] # calls + 1 BY <3>2, <1>2
    <3>4. id[d] \in late BY <3>1, <3>3, <1>1
    <3> QED BY <3>1, <3>4, <1>1 DEF RInv, Doomed
  <2> QED BY <2>1, <2>2
<1>5. RevokedNotAccepted' BY <1>1, <1>2 DEF RInv, RevokedNotAccepted
<1> QED BY <1>3, <1>4, <1>5 DEF RInv

LEMMA NextRInv == RInv /\ [Next]_vars => RInv'
<1> SUFFICES ASSUME RInv, [Next]_vars PROVE RInv' OBVIOUS
<1> USE DEF RInv
<1>1. CASE Tick \/ UNCHANGED vars
  <2>1. UNCHANGED <<revoked, pc, id, env, reason, calls, accepts, late>> BY <1>1 DEF Tick, vars
  <2>2. Numbered' BY <2>1 DEF Numbered
  <2> QED BY <2>1, <2>2 DEF Doomed, RevokedNotAccepted
<1>2. ASSUME NEW j \in Jti, Revoke(j) PROVE RInv' BY <1>2, RevokeRInv
<1>3. ASSUME NEW c \in Caller, NEW e \in Envelope, Start(c, e) PROVE RInv' BY <1>3, StartRInv
<1>4. ASSUME NEW c \in Caller, CheckSignature(c) PROVE RInv'
  <2>1. Numbered' BY <1>4 DEF CheckSignature, shared, history, Numbered, Stage
  <2>2. Doomed' BY <1>4 DEF CheckSignature, shared, history, Numbered, Doomed
  <2> QED BY <1>4, <2>1, <2>2 DEF CheckSignature, history, RevokedNotAccepted
<1>5. ASSUME NEW c \in Caller, CheckCapability(c) PROVE RInv'
  <2> DEFINE r == CapabilityReason(env[c], current[c], clock, revoked)
  <2>1. /\ pc[c] = "capability" /\ reason' = [reason EXCEPT ![c] = r]
        /\ pc' = [pc EXCEPT ![c] = IF r = "verifier_internal_error"
                                   THEN "emit" ELSE "emit_cap"]
        /\ UNCHANGED <<revoked, id, env, calls, accepts, late>>
    BY <1>5 DEF CheckCapability, shared, history
  <2>2. env[c] \in Envelope BY <2>1 DEF Numbered
  <2>3. env[c].jti \in revoked => r # "ok" BY <2>2, CapabilityPasses
  <2> HIDE DEF r
  <2>4. Numbered' BY <2>1 DEF Numbered, Stage
  <2>5. Doomed' BY <2>1, <2>3 DEF Numbered, Doomed
  <2> QED BY <2>1, <2>4, <2>5 DEF RevokedNotAccepted
<1>6. ASSUME NEW c \in Caller, EmitCap(c) \/ EmitCapFails(c) PROVE RInv'
  <2>0. /\ pc[c] = "emit_cap" /\ UNCHANGED <<revoked, id, env, calls, accepts, late>>
        /\ DOMAIN reason' = DOMAIN reason
    BY <1>6 DEF EmitCap, EmitCapFails, shared, history
  <2>a. pc' = [pc EXCEPT ![c] = "emit"] \/ pc' = [pc EXCEPT ![c] = "read_now"]
    BY <1>6 DEF EmitCap, EmitCapFails
  <2>1. Numbered' BY <2>0, <2>a DEF Numbered, Stage
  <2>2. Doomed' BY <1>6 DEF EmitCap, EmitCapFails, shared, history, Numbered, Doomed
  <2> QED BY <1>6, <2>1, <2>2 DEF EmitCap, EmitCapFails, history, RevokedNotAccepted
<1>7. ASSUME NEW c \in Caller, ReadNow(c) \/ Reserve(c) PROVE RInv'
  <2>1. /\ pc[c] \in {"read_now", "reserve"}
        /\ UNCHANGED <<revoked, id, env, calls, accepts, late>>
    BY <1>7 DEF ReadNow, Reserve, shared, history
  <2>2. pc' = [pc EXCEPT ![c] = "reserve"] \/ pc' = [pc EXCEPT ![c] = "emit"]
    BY <1>7 DEF ReadNow, Reserve
  <2>3. reason' = reason \/ reason' = [reason EXCEPT ![c] = "replay_detected"]
    BY <1>7 DEF ReadNow, Reserve
  <2>4. id[c] \notin late BY <2>1 DEF Doomed
  <2>5. Numbered' BY <2>1, <2>2, <2>3 DEF Numbered, Stage
  <2>6. Doomed' BY <2>1, <2>2, <2>3, <2>4 DEF Numbered, Doomed
  <2> QED BY <2>1, <2>5, <2>6 DEF RevokedNotAccepted
<1>8. ASSUME NEW c \in Caller, Emit(c) PROVE RInv'
  <2>1. /\ pc[c] = "emit" /\ pc' = [pc EXCEPT ![c] = "done"]
        /\ accepts' = IF reason[c] = "ok" THEN accepts \cup {id[c]} ELSE accepts
        /\ UNCHANGED <<revoked, id, env, calls, late, reason>>
    BY <1>8 DEF Emit, shared
  <2>2. id[c] \in 1..calls BY <2>1 DEF Numbered
  <2>3. \A d \in Caller : pc'[d] # "done" => id[d] \notin accepts'
    BY <2>1, <2>2 DEF Numbered
  <2>4. Numbered' BY <2>1, <2>2, <2>3 DEF Numbered, Stage
  <2>5. Doomed' BY <2>1 DEF Numbered, Doomed
  <2>6. reason[c] = "ok" => id[c] \notin late BY <2>1 DEF Doomed
  <2>7. RevokedNotAccepted' BY <2>1, <2>6 DEF RevokedNotAccepted
  <2> QED BY <2>4, <2>5, <2>7
<1>9. ASSUME NEW c \in Caller, EmitFails(c) PROVE RInv'
  <2>1. Numbered' BY <1>9 DEF EmitFails, shared, history, Numbered, Stage
  <2>2. Doomed' BY <1>9 DEF EmitFails, shared, history, Numbered, Doomed
  <2> QED BY <1>9, <2>1, <2>2 DEF EmitFails, history, RevokedNotAccepted
<1>10. ASSUME NEW c \in Caller, Finish(c) PROVE RInv'
  <2>1. /\ pc[c] = "done" /\ pc' = [pc EXCEPT ![c] = "idle"]
        /\ id' = [id EXCEPT ![c] = 0] /\ env' = [env EXCEPT ![c] = NoEnvelope]
        /\ reason' = [reason EXCEPT ![c] = "ok"]
        /\ UNCHANGED <<revoked, calls, accepts, late>>
    BY <1>10 DEF Finish, shared, history
  <2>2. 0 \notin late /\ 0 \notin accepts BY DEF Numbered
  <2>3. ASSUME NEW d \in Caller, NEW f \in Caller, pc'[d] # "idle", id'[d] = id'[f] PROVE d = f
    BY <2>1, <2>3 DEF Numbered
  <2>a. /\ pc' \in [Caller -> Stage] /\ DOMAIN env' = Caller /\ DOMAIN reason' = Caller
        /\ id' \in [Caller -> Nat]
    BY <2>1 DEF Numbered, Stage
  <2>b. ASSUME NEW d \in Caller
        PROVE  /\ id'[d] <= calls'
               /\ pc'[d] = "idle" => id'[d] = 0
               /\ pc'[d] # "idle" => id'[d] >= 1
               /\ pc'[d] # "idle" => env'[d] \in Envelope
               /\ pc'[d] # "done" => id'[d] \notin accepts'
    BY <2>1, <2>2 DEF Numbered
  <2>4. Numbered' BY <2>1, <2>3, <2>a, <2>b DEF Numbered
  <2>5. Doomed' BY <2>1, <2>2 DEF Numbered, Doomed
  <2> QED BY <2>1, <2>4, <2>5 DEF RevokedNotAccepted
<1> QED BY <1>1, <1>2, <1>3, <1>4, <1>5, <1>6, <1>7, <1>8, <1>9, <1>10 DEF Next

\* A call whose capability was revoked before the list was read for it returns no
\* claims, whatever the other callers, the clock and the audit sink do
\* (verify_capability_token inside verify_envelope).
THEOREM RevokedNeverAccepted == Spec => []RevokedNotAccepted
<1>1. RInv => RevokedNotAccepted BY DEF RInv
<1> QED BY InitRInv, NextRInv, <1>1, PTL DEF Spec

-----------------------------------------------------------------------------
(* Accounting *)

Clean(e) ==
    /\ e.flaw = NoFlaw /\ e.kid \in DOMAIN KeyNotAfter /\ e.issuer \in DOMAIN IssuerNotAfter

CapEvent(r) == <<Event("capability.verify", r)>>

\* What is on record when the envelope's event is due, for the reason r.
Due(ev, r) == IF r \in Later THEN ev = CapEvent("ok") ELSE ev = <<>> \/ ev = CapEvent(r)

\* What the checks a call has behind it say of its envelope, and what it has put
\* on record.
CallRight(c) ==
    /\ pc[c] = "signature" => env[c].flaw \notin StaticFlaw \cup ContentFlaw
    /\ pc[c] = "capability" => /\ env[c].flaw \notin StaticFlaw \cup ContentFlaw \cup SignatureFlaw
                               /\ env[c].kid \in DOMAIN KeyNotAfter
    /\ pc[c] = "emit_cap" => /\ reason[c] # "replay_detected"
                             /\ reason[c] = "ok" => Clean(env[c])
    /\ pc[c] \in {"read_now", "reserve"} =>
         reason[c] = "ok" /\ Clean(env[c]) /\ emitted[c] = CapEvent("ok")
    /\ pc[c] \in {"idle", "signature", "capability", "emit_cap"} => emitted[c] = <<>>
    /\ pc[c] = "emit" => Due(emitted[c], reason[c])
    /\ pc[c] = "done" =>
         \/ reason[c] # "ok" /\ id[c] \in failures
         \/ \E ev : /\ Due(ev, reason[c])
                    /\ emitted[c] = Append(ev, Event("envelope.verify", reason[c]))

AInv == DOMAIN emitted = Caller /\ (\A c \in Caller : CallRight(c)) /\ NonceAccounted

\* A step of call c.
OnlyCall(c) ==
    \A d \in Caller : d # c =>
        /\ pc'[d] = pc[d] /\ env'[d] = env[d] /\ reason'[d] = reason[d]
        /\ emitted'[d] = emitted[d] /\ id'[d] = id[d]

\* The other calls do not notice it.
LEMMA OthersRight ==
    ASSUME AInv, NEW c \in Caller, failures \subseteq failures', CallRight(c)', OnlyCall(c)
    PROVE  \A d \in Caller : CallRight(d)'
<1>1. ASSUME NEW d \in Caller, d # c PROVE CallRight(d)'
  <2>1. /\ pc'[d] = pc[d] /\ env'[d] = env[d] /\ reason'[d] = reason[d]
        /\ emitted'[d] = emitted[d] /\ id'[d] = id[d]
    BY <1>1 DEF OnlyCall
  <2>2. CallRight(d) BY DEF AInv
  <2> QED BY <2>1, <2>2 DEF CallRight
<1> QED BY <1>1

\* A grant stays accounted for: nobody leaves the last step but through the sink.
LEMMA GrantsAccounted ==
    ASSUME Inv, AInv, grants' = grants, accepts \subseteq accepts', failures \subseteq failures',
           \A c \in Caller : pc[c] = "emit" /\ reason[c] = "ok" =>
             \/ pc'[c] = "emit" /\ reason'[c] = "ok" /\ id'[c] = id[c]
             \/ id[c] \in accepts' \cup failures'
    PROVE  NonceAccounted'
<1> SUFFICES ASSUME NEW i \in 1..Len(grants)
             PROVE  /\ Clean(grants[i].env)
                    /\ \/ grants[i].call \in accepts' \cup failures'
                       \/ \E c \in Caller : id'[c] = grants[i].call /\ pc'[c] = "emit"
                                            /\ reason'[c] = "ok"
  BY DEF NonceAccounted, Clean
<1>1. /\ Clean(grants[i].env)
      /\ \/ grants[i].call \in accepts \cup failures
         \/ \E c \in Caller : id[c] = grants[i].call /\ pc[c] = "emit" /\ reason[c] = "ok"
  BY DEF AInv, NonceAccounted, Clean
<1> QED BY <1>1

LEMMA InitAInv == Init => AInv
BY DEF Init, AInv, CallRight, NonceAccounted

\* A step before the nonce is marked.
LEMMA CheckAInv ==
    ASSUME Inv, AInv, NEW c \in Caller,
           (\E e \in Envelope : Start(c, e)) \/ CheckSignature(c) \/ CheckCapability(c)
    PROVE  AInv'
<1>1. CallRight(c) /\ DOMAIN emitted = Caller BY DEF AInv
<1>2. Types /\ Underway BY DEF Inv
<1>3. /\ pc[c] # "emit" /\ OnlyCall(c) /\ DOMAIN emitted' = Caller
      /\ UNCHANGED <<grants, accepts, failures>>
  <2>1. ASSUME NEW e \in Envelope, Start(c, e) PROVE <1>3!:
    BY <1>1, <1>2, <2>1 DEF Start, Types, OnlyCall
  <2>2. CASE CheckSignature(c) \/ CheckCapability(c)
    BY <1>1, <1>2, <2>2 DEF CheckSignature, CheckCapability, history, Types, OnlyCall
  <2> QED BY <2>1, <2>2
<1>4. CallRight(c)'
  <2>1. ASSUME NEW e \in Envelope, Start(c, e) PROVE CallRight(c)'
    <3> DEFINE r == FirstFailure(EnvelopeChecks(e, clock))
    <3>1. IF r = "ok" THEN e.flaw \notin StaticFlaw \cup ContentFlaw ELSE r \notin Later
      BY EnvelopePasses
    <3>2. /\ reason'[c] = r /\ pc'[c] = (IF r = "ok" THEN "signature" ELSE "emit")
          /\ env'[c] = e /\ emitted'[c] = <<>>
      BY <1>1, <1>2, <2>1 DEF Start, Types, CallRight
    <3> HIDE DEF r
    <3> QED BY <3>1, <3>2 DEF CallRight, Due
  <2>2. CASE CheckSignature(c)
    <3> DEFINE r == FirstFailure(SignatureChecks(env[c], clock))
    <3>1. env[c] \in Envelope /\ pc[c] = "signature" BY <1>2, <2>2 DEF CheckSignature, Underway
    <3>2. IF r = "ok" THEN env[c].kid \in DOMAIN KeyNotAfter /\ env[c].flaw \notin SignatureFlaw
          ELSE r \notin Later
      BY <3>1, SignaturePasses
    <3>3. /\ reason'[c] = r /\ pc'[c] = (IF r = "ok" THEN "capability" ELSE "emit")
          /\ env'[c] = env[c] /\ emitted'[c] = <<>>
          /\ env[c].flaw \notin StaticFlaw \cup ContentFlaw
      BY <1>1, <1>2, <2>2 DEF CheckSignature, Types, CallRight
    <3> HIDE DEF r
    <3> QED BY <3>2, <3>3 DEF CallRight, Due
  <2>3. CASE CheckCapability(c)
    <3> DEFINE r == CapabilityReason(env[c], current[c], clock, revoked)
    <3>1. env[c] \in Envelope /\ pc[c] = "capability" BY <1>2, <2>3 DEF CheckCapability, Underway
    <3>2. IF r = "ok" THEN /\ env[c].issuer \in DOMAIN IssuerNotAfter
                           /\ env[c].flaw \notin TokenFlaw \cup TokenSignatureFlaw \cup InternalFlaw
          ELSE r \notin Later
      BY <3>1, CapabilityPasses
    <3>3. /\ reason'[c] = r /\ env'[c] = env[c] /\ emitted'[c] = <<>>
          /\ pc'[c] = (IF r = "verifier_internal_error" THEN "emit" ELSE "emit_cap")
          /\ env[c].flaw \notin StaticFlaw \cup ContentFlaw \cup SignatureFlaw
          /\ env[c].kid \in DOMAIN KeyNotAfter
      BY <1>1, <1>2, <2>3 DEF CheckCapability, Types, CallRight
    <3> HIDE DEF r
    <3>4. env[c].flaw \in Flaw \cup {NoFlaw} BY <3>1, EnvelopeAssumption
    <3>5. r = "ok" => Clean(env[c]) BY <3>2, <3>3, <3>4 DEF Clean, Flaw
    <3>6. r # "replay_detected" BY <3>2 DEF Later
    <3>7. r = "verifier_internal_error" => r # "ok" OBVIOUS
    <3> QED BY <3>2, <3>3, <3>5, <3>6, <3>7 DEF CallRight, Due
  <2> QED BY <2>1, <2>2, <2>3
<1>5. \A d \in Caller : CallRight(d)'
  <2>1. failures \subseteq failures' BY <1>3
  <2> QED BY <1>3, <1>4, <2>1, OthersRight
<1>6. NonceAccounted'
  <2>1. \A d \in Caller : pc[d] = "emit" =>
          pc'[d] = "emit" /\ reason'[d] = reason[d] /\ id'[d] = id[d]
    BY <1>3 DEF OnlyCall
  <2> QED BY <1>3, <2>1, GrantsAccounted
<1> QED BY <1>3, <1>5, <1>6 DEF AInv

LEMMA EmitCapAInv ==
    ASSUME Inv, AInv, NEW c \in Caller, EmitCap(c) \/ EmitCapFails(c) \/ ReadNow(c) PROVE AInv'
<1>1. CallRight(c) /\ DOMAIN emitted = Caller BY DEF AInv
<1>2. Types /\ Underway BY DEF Inv
<1>3. /\ pc[c] # "emit" /\ OnlyCall(c) /\ DOMAIN emitted' = Caller
      /\ UNCHANGED <<grants, accepts>> /\ failures \subseteq failures'
  <2>1. CASE EmitCap(c) BY <1>1, <1>2, <2>1 DEF EmitCap, history, Types, OnlyCall
  <2>2. CASE EmitCapFails(c) BY <1>1, <1>2, <2>2 DEF EmitCapFails, history, Types, OnlyCall
  <2>3. CASE ReadNow(c) BY <1>1, <1>2, <2>3 DEF ReadNow, history, Types, OnlyCall
  <2> QED BY <2>1, <2>2, <2>3
<1>4. CallRight(c)'
  <2>1. CASE EmitCap(c)
    <3>1. /\ pc[c] = "emit_cap" /\ reason'[c] = reason[c] /\ env'[c] = env[c]
          /\ pc'[c] = (IF reason[c] = "ok" THEN "read_now" ELSE "emit")
          /\ emitted'[c] = Append(emitted[c], Event("capability.verify", reason[c]))
      BY <1>1, <1>2, <2>1 DEF EmitCap, Types
    <3>2. /\ emitted[c] = <<>> /\ reason[c] # "replay_detected"
          /\ reason[c] = "ok" => Clean(env[c])
      BY <1>1, <3>1 DEF CallRight
    <3>3. emitted'[c] = CapEvent(reason[c]) BY <3>1, <3>2 DEF CapEvent
    <3> QED BY <3>1, <3>2, <3>3 DEF CallRight, Due, Later
  <2>2. CASE EmitCapFails(c)
    <3>1. /\ pc[c] = "emit_cap" /\ reason'[c] = "audit_sink_failure" /\ pc'[c] = "emit"
          /\ emitted'[c] = emitted[c]
      BY <1>2, <2>2 DEF EmitCapFails, Types
    <3>2. emitted[c] = <<>> BY <1>1, <3>1 DEF CallRight
    <3> QED BY <3>1, <3>2 DEF CallRight, Due, Later
  <2>3. CASE ReadNow(c)
    <3>1. /\ pc[c] = "read_now" /\ pc'[c] = "reserve" /\ reason'[c] = reason[c]
          /\ env'[c] = env[c] /\ emitted'[c] = emitted[c]
      BY <1>2, <2>3 DEF ReadNow, Types
    <3> QED BY <1>1, <3>1 DEF CallRight
  <2> QED BY <2>1, <2>2, <2>3
<1>5. \A d \in Caller : CallRight(d)'
  BY <1>3, <1>4, OthersRight
<1>6. NonceAccounted'
  <2>1. \A d \in Caller : pc[d] = "emit" =>
          pc'[d] = "emit" /\ reason'[d] = reason[d] /\ id'[d] = id[d]
    BY <1>3 DEF OnlyCall
  <2> QED BY <1>3, <2>1, GrantsAccounted
<1> QED BY <1>3, <1>5, <1>6 DEF AInv

\* mark_if_new: the nonce it grants is that of an envelope that passed.
LEMMA ReserveAInv == ASSUME Inv, AInv, NEW c \in Caller, Reserve(c) PROVE AInv'
<1>1. CallRight(c) /\ DOMAIN emitted = Caller /\ NonceAccounted BY DEF AInv
<1>2. Types /\ Underway BY DEF Inv
<1>3. /\ pc[c] = "reserve" /\ pc' = [pc EXCEPT ![c] = "emit"]
      /\ reason' = reason \/ reason' = [reason EXCEPT ![c] = "replay_detected"]
      /\ UNCHANGED <<emitted, env, id, accepts, failures>>
  BY DEF Reserve
<1>4. reason[c] = "ok" /\ Clean(env[c]) /\ emitted[c] = CapEvent("ok")
  BY <1>1, <1>3 DEF CallRight
<1>5. reason'[c] \in Later /\ \A d \in Caller : d # c => reason'[d] = reason[d]
  BY <1>2, <1>3, <1>4 DEF Later, Types
<1>6. CallRight(c)'
  <2>1. pc'[c] = "emit" BY <1>2, <1>3 DEF Types
  <2> QED BY <1>3, <1>4, <1>5, <2>1 DEF CallRight, Due
<1>7. DOMAIN emitted' = Caller /\ \A d \in Caller : CallRight(d)'
  <2>1. OnlyCall(c) /\ failures \subseteq failures' BY <1>2, <1>3, <1>5 DEF OnlyCall, Types
  <2> QED BY <1>1, <1>3, <1>6, <2>1, OthersRight
<1>8. \A d \in Caller : pc[d] = "emit" =>
        pc'[d] = "emit" /\ reason'[d] = reason[d] /\ id'[d] = id[d]
  BY <1>2, <1>3, <1>5 DEF Types
<1>9. NonceAccounted'
  <2>1. CASE grants' = grants BY <1>3, <1>8, <2>1, GrantsAccounted
  <2>2. CASE grants' # grants
    <3> DEFINE g == [call |-> id[c], env |-> env[c], at |-> clock]
    <3>1. grants' = Append(grants, g) /\ reason' = reason BY <2>2 DEF Reserve
    <3>2. g \in Grant /\ g.env = env[c] /\ g.call = id[c] BY <1>2, <1>3 DEF Grant, Types, Underway
    <3> HIDE DEF g
    <3>3. /\ grants \in Seq(Grant) /\ Len(grants') = Len(grants) + 1 /\ Len(grants) \in Nat
          /\ grants'[Len(grants) + 1] = g
          /\ \A i \in 1..Len(grants) : grants'[i] = grants[i]
      BY <1>2, <3>1, <3>2 DEF Types
    <3> SUFFICES ASSUME NEW i \in 1..Len(grants')
                 PROVE  /\ Clean(grants'[i].env)
                        /\ \/ grants'[i].call \in accepts' \cup failures'
                           \/ \E d \in Caller : id'[d] = grants'[i].call /\ pc'[d] = "emit"
                                                /\ reason'[d] = "ok"
      BY DEF NonceAccounted, Clean
    <3>4. CASE i = Len(grants) + 1
      <4>1. grants'[i].env = env[c] /\ grants'[i].call = id[c] BY <3>2, <3>3, <3>4
      <4>2. pc'[c] = "emit" /\ reason'[c] = "ok" /\ id'[c] = id[c]
        BY <1>2, <1>3, <1>4, <3>1 DEF Types
      <4> QED BY <1>4, <4>1, <4>2
    <3>5. CASE i \in 1..Len(grants)
      <4>1. grants'[i] = grants[i] BY <3>3, <3>5
      <4>2. /\ Clean(grants[i].env)
            /\ \/ grants[i].call \in accepts \cup failures
               \/ \E d \in Caller : id[d] = grants[i].call /\ pc[d] = "emit" /\ reason[d] = "ok"
        BY <1>1, <3>5 DEF NonceAccounted, Clean
      <4> QED BY <1>3, <1>8, <4>1, <4>2
    <3> QED BY <3>3, <3>4, <3>5
  <2> QED BY <2>1, <2>2
<1> QED BY <1>7, <1>9 DEF AInv

\* _emit: the answer is on record, or the call is denied.
LEMMA EmitAInv ==
    ASSUME Inv, AInv, NEW c \in Caller, Emit(c) \/ EmitFails(c) \/ Finish(c) PROVE AInv'
<1>1. CallRight(c) /\ DOMAIN emitted = Caller BY DEF AInv
<1>2. Types /\ Underway BY DEF Inv
<1>3. /\ OnlyCall(c) /\ DOMAIN emitted' = Caller
      /\ grants' = grants /\ accepts \subseteq accepts' /\ failures \subseteq failures'
  <2>1. CASE Emit(c) BY <1>1, <1>2, <2>1 DEF Emit, Types, OnlyCall
  <2>2. CASE EmitFails(c) BY <1>1, <1>2, <2>2 DEF EmitFails, history, Types, OnlyCall
  <2>3. CASE Finish(c) BY <1>1, <1>2, <2>3 DEF Finish, history, Types, OnlyCall
  <2> QED BY <2>1, <2>2, <2>3
<1>4. CallRight(c)'
  <2>1. CASE Emit(c)
    <3>1. /\ pc[c] = "emit" /\ pc'[c] = "done" /\ reason'[c] = reason[c]
          /\ emitted'[c] = Append(emitted[c], Event("envelope.verify", reason[c]))
      BY <1>1, <1>2, <2>1 DEF Emit, Types
    <3>2. Due(emitted[c], reason[c]) BY <1>1, <3>1 DEF CallRight
    <3>3. \E ev : Due(ev, reason'[c]) /\ emitted'[c] = Append(ev, Event("envelope.verify", reason'[c]))
      BY <3>1, <3>2
    <3> QED BY <3>1, <3>3 DEF CallRight
  <2>2. CASE EmitFails(c)
    <3>1. /\ pc'[c] = "done" /\ reason'[c] = "audit_sink_failure" /\ id'[c] = id[c]
          /\ id[c] \in failures'
      BY <1>2, <2>2 DEF EmitFails, Types
    <3> QED BY <3>1 DEF CallRight
  <2>3. CASE Finish(c)
    <3>1. pc'[c] = "idle" /\ emitted'[c] = <<>> BY <1>1, <1>2, <2>3 DEF Finish, Types
    <3> QED BY <3>1 DEF CallRight
  <2> QED BY <2>1, <2>2, <2>3
<1>5. \A d \in Caller : CallRight(d)' BY <1>3, <1>4, OthersRight
<1>6. NonceAccounted'
  <2>1. pc[c] = "emit" /\ reason[c] = "ok" => id[c] \in accepts' \cup failures'
    BY DEF Emit, EmitFails, Finish
  <2> QED BY <1>3, <2>1, GrantsAccounted DEF OnlyCall
<1> QED BY <1>3, <1>5, <1>6 DEF AInv

LEMMA NextAInv == Inv /\ AInv /\ [Next]_vars => AInv'
<1> SUFFICES ASSUME Inv, AInv, [Next]_vars PROVE AInv' OBVIOUS
<1>1. CASE Tick \/ (\E j \in Jti : Revoke(j)) \/ UNCHANGED vars
  <2>1. UNCHANGED <<pc, id, env, reason, emitted, grants, accepts, failures>>
    BY <1>1 DEF Tick, Revoke, vars
  <2> QED BY <2>1 DEF AInv, CallRight, NonceAccounted
<1> QED BY <1>1, CheckAInv, EmitCapAInv, ReserveAInv, EmitAInv DEF Next

\* What is due, followed by the envelope's event, is what the emission table says.
LEMMA TopologyOf ==
    ASSUME NEW ev, NEW r, Due(ev, r)
    PROVE  LET w == Append(ev, Event("envelope.verify", r))
           IN  /\ r = "ok" =>
                    w = <<Event("capability.verify", "ok"), Event("envelope.verify", "ok")>>
               /\ Len(w) \in 1..2 /\ w[Len(w)] = Event("envelope.verify", r)
               /\ Len(w) = 2 => /\ w[1].type = "capability.verify"
                                /\ w[1].outcome = "deny" => w[1].reason = r
               /\ r = "replay_detected" => Len(w) = 2 /\ w[1].outcome = "allow"
<1> DEFINE v == Event("envelope.verify", r)
           k == Event("capability.verify", "ok")
           m == Event("capability.verify", r)
           w == Append(ev, v)
<1>1. /\ k.type = "capability.verify" /\ k.outcome = "allow"
      /\ m.type = "capability.verify" /\ m.reason = r
  BY DEF Event
<1>2. ev \in {<<>>, <<k>>, <<m>>} BY DEF Due, CapEvent
<1>3. r \in Later => ev = <<k>> BY DEF Due, CapEvent
<1> HIDE DEF v, k, m
<1>4. CASE ev = <<>>
  <2>1. Len(w) = 1 /\ w[1] = v BY <1>4
  <2> QED BY <1>3, <1>4, <2>1 DEF Later, v
<1>5. CASE ev = <<k>>
  <2>1. Len(w) = 2 /\ w[1] = k /\ w[2] = v BY <1>5
  <2>2. w = <<k, v>>
    <3> DEFINE X == {k, v}
               y == <<k, v>>
    <3>1. w \in Seq(X) BY <1>5
    <3>2. y \in Seq(X) /\ Len(y) = 2 /\ y[1] = k /\ y[2] = v OBVIOUS
    <3> HIDE DEF w, y, X
    <3>3. \A i \in 1..Len(w) : w[i] = y[i] BY <2>1, <3>2
    <3> QED BY <2>1, <3>1, <3>2, <3>3, SeqEqual DEF y
  <2> QED BY <1>1, <2>1, <2>2 DEF v, k
<1>6. CASE ev = <<m>> /\ ev # <<k>>
  <2>1. Len(w) = 2 /\ w[1] = m /\ w[2] = v BY <1>6
  <2> QED BY <1>1, <1>3, <1>6, <2>1 DEF Later, v
<1> QED BY <1>2, <1>4, <1>5, <1>6

\* Only an envelope that passed every check costs its nonce, and the call it cost
\* is accepted, under way or lost to the audit sink; and a finished call has on
\* record what the emission table asks for, an allow never without both its events
\* (verify_envelope, _emit, _emit_cap).
THEOREM EveryCallAccounted == Spec => []AuditedAndAccounted
<1>1. AInv => AuditedAndAccounted
  <2> SUFFICES ASSUME AInv PROVE NonceAccounted /\ AuditTopology BY DEF AuditedAndAccounted
  <2>1. ASSUME NEW c \in Caller, pc[c] = "done",
               NEW ev, Due(ev, reason[c]),
               emitted[c] = Append(ev, Event("envelope.verify", reason[c]))
        PROVE  LET w == emitted[c]
               IN  /\ reason[c] = "ok" =>
                        w = <<Event("capability.verify", "ok"), Event("envelope.verify", "ok")>>
                   /\ Len(w) \in 1..2 /\ w[Len(w)] = Event("envelope.verify", reason[c])
                   /\ Len(w) = 2 => /\ w[1].type = "capability.verify"
                                    /\ w[1].outcome = "deny" => w[1].reason = reason[c]
                   /\ reason[c] = "replay_detected" => Len(w) = 2 /\ w[1].outcome = "allow"
    BY <2>1, TopologyOf
  <2>2. AuditTopology BY <2>1 DEF AInv, CallRight, AuditTopology
  <2> QED BY <2>2 DEF AInv
<1> QED BY InitInv, NextInv, InitAInv, NextAInv, <1>1, PTL DEF Spec

-----------------------------------------------------------------------------
(* The channel *)

Cert == [id : SpiffeId, key : Process, ca : CA, nbf : Nat, exp : Nat,
         sans : {1} \cup {f.sans : f \in Foreign},
         usage : {"signature"} \cup {f.usage : f \in Foreign}]

TlsIdentity == [cert : Cert, root : CA]

Connection == [n : Nat, client : Process, server : Process,
               client_cert : Cert, client_root : CA, server_cert : Cert, server_root : CA,
               at_client : {"hello", "verify", "done"},
               at_server : {"queued", "hello", "verify", "read", "closed"},
               data : {"none", "frame", "eof", "reset"},
               told : {"nothing", "sent", "failed"}, done_at : Nat, seen_at : Nat]

Frame == [source : SpiffeId, over : Connection]

TlsTypes ==
    /\ seconds \in Nat /\ sends \in Nat /\ conn \subseteq Connection
    /\ frames \in [Process -> Seq(Frame)]
    /\ DOMAIN identity = Process /\ listening \in [Endpoint -> Process \cup {Nobody}]

\* An open transport holds a certificate for its own key, and only open ones listen.
Identified ==
    /\ \A w \in Process : identity[w] # Nobody =>
         identity[w] \in TlsIdentity /\ identity[w].cert.key = w
    /\ \A a \in Endpoint : listening[a] # Nobody => identity[listening[a]] \in TlsIdentity

\* A server reads from a client whose certificate it has verified.
Verified(c) ==
    /\ c.client_cert.sans = 1 /\ c.client_cert.usage = "signature"
    /\ c.client_cert.ca = c.server_root /\ c.seen_at <= c.client_cert.exp

\* Each end has done what its stage says.
StageRight(c) ==
    /\ c.client_cert.key = c.client
    /\ c.data = "frame" => c.told = "sent"
    /\ c.told = "sent" => /\ c.at_client = "done" /\ c.server_cert.ca = c.client_root
                          /\ c.server_cert.usage = "signature"
                          /\ c.done_at <= c.server_cert.exp
    /\ c.at_server = "read" => Verified(c)

ConnRight ==
    /\ \A c \in conn : c.n <= sends /\ StageRight(c)
    /\ \A c, d \in conn : c.n = d.n => c = d

\* A frame came over a connection that its server has left since.
FramesRight ==
    \A s \in Process : \A i \in 1..Len(frames[s]) :
        LET c == frames[s][i].over
        IN  /\ c.n <= sends /\ c.server = s /\ c.told = "sent" /\ c.client_cert.key = c.client
            /\ frames[s][i].source = c.client_cert.id /\ Verified(c)
            /\ \A d \in conn : d.n = c.n => d.at_server = "closed"
            /\ \A j \in 1..Len(frames[s]) : frames[s][j].over.n = c.n => i = j

TlsInv == TlsTypes /\ Identified /\ ConnRight /\ FramesRight

LEMMA TlsInit == T!Init => TlsInv
<1> SUFFICES ASSUME T!Init PROVE TlsInv OBVIOUS
<1>1. TlsTypes BY DEF T!Init, TlsTypes
<1>2. Identified BY DEF T!Init, Identified
<1>3. ConnRight /\ FramesRight BY DEF T!Init, ConnRight, FramesRight
<1> QED BY <1>1, <1>2, <1>3 DEF TlsInv

\* One end of connection c takes a step.
LEMMA OneEnd ==
    ASSUME TlsInv, NEW c \in conn, NEW e \in Connection, T!Become({c}, {e}),
           e.n = c.n, StageRight(e), c.at_server = "closed" => e.at_server = "closed",
           sends' = sends
    PROVE  /\ conn' \subseteq Connection /\ ConnRight'
           /\ frames' = frames => FramesRight'
<1>1. /\ conn' \subseteq (conn \ {c}) \cup {e} BY DEF T!Become
<1>2. conn \subseteq Connection /\ sends \in Nat BY DEF TlsInv, TlsTypes
<1>3. \A d \in conn' : \E x \in conn : d.n = x.n /\ (d = x \/ (d = e /\ x = c))
  BY <1>1
<1>4. ConnRight'
  <2>1. ASSUME NEW d \in conn' PROVE d.n <= sends' /\ StageRight(d)
    BY <1>3 DEF TlsInv, ConnRight
  <2>2. ASSUME NEW d \in conn', NEW x \in conn', d.n = x.n PROVE d = x
    BY <1>1, <2>2 DEF TlsInv, ConnRight
  <2> QED BY <2>1, <2>2 DEF ConnRight
<1>5. ASSUME frames' = frames PROVE FramesRight'
  BY <1>3, <1>5 DEF TlsInv, FramesRight
<1> QED BY <1>1, <1>2, <1>4, <1>5

LEMMA OpenKeeps ==
    ASSUME TlsInv, NEW w \in Process, NEW root \in CA, NEW cert \in Cert, cert.key = w,
           NEW a \in Endpoint, T!Open(w, root, cert, a)
    PROVE  TlsInv'
<1> DEFINE ident == [cert |-> cert, root |-> root]
<1>1. /\ identity[w] = Nobody /\ identity' = [identity EXCEPT ![w] = ident]
      /\ listening' = [listening EXCEPT ![a] = w]
      /\ UNCHANGED <<seconds, conn, frames, sends>>
  BY DEF T!Open
<1>2. ident \in TlsIdentity /\ ident.cert = cert BY DEF TlsIdentity
<1>3. Nobody \notin Process BY TlsAssumption DEF T!TlsConstants
<1> HIDE DEF ident
<1>4. TlsTypes' BY <1>1 DEF TlsInv, TlsTypes
<1>5. Identified'
  <2>1. ASSUME NEW v \in Process, identity'[v] # Nobody
        PROVE  identity'[v] \in TlsIdentity /\ identity'[v].cert.key = v
    BY <1>1, <1>2, <2>1 DEF TlsInv, TlsTypes, Identified
  <2>2. ASSUME NEW b \in Endpoint, listening'[b] # Nobody PROVE identity'[listening'[b]] \in TlsIdentity
    BY <1>1, <1>2, <1>3, <2>2 DEF TlsInv, TlsTypes, Identified
  <2> QED BY <2>1, <2>2 DEF Identified
<1>6. ConnRight' /\ FramesRight' BY <1>1 DEF TlsInv, ConnRight, FramesRight
<1> QED BY <1>4, <1>5, <1>6 DEF TlsInv

\* Whichever tool made the certificate, it is for the key of the one who opens.
LEMMA CertsFit ==
    ASSUME TlsInv, NEW w \in Process
    PROVE  /\ \A ca \in CA, i \in SpiffeId : T!Svid(ca, i, w) \in Cert /\ T!Svid(ca, i, w).key = w
           /\ \A f \in Foreign : f.ca \in CA /\ T!Other(f, w) \in Cert /\ T!Other(f, w).key = w
<1>1. seconds \in Nat /\ seconds + SvidTtl \in Nat /\ \A f \in Foreign : f.ca \in CA /\ f.id \in SpiffeId
  BY TlsAssumption DEF T!TlsConstants, TlsInv, TlsTypes
<1>2. ASSUME NEW ca \in CA, NEW i \in SpiffeId
      PROVE  T!Svid(ca, i, w) \in Cert /\ T!Svid(ca, i, w).key = w
  BY <1>1 DEF T!Svid, Cert
<1>3. ASSUME NEW f \in Foreign PROVE T!Other(f, w) \in Cert /\ T!Other(f, w).key = w
  BY <1>1 DEF T!Other, Cert
<1> QED BY <1>1, <1>2, <1>3

LEMMA CloseKeeps == ASSUME TlsInv, NEW w \in Process, T!Close(w) PROVE TlsInv'
<1> DEFINE served == {c \in conn : c.server = w}
<1>1. /\ identity' = [identity EXCEPT ![w] = Nobody]
      /\ listening' = [a \in Endpoint |-> IF listening[a] = w THEN Nobody ELSE listening[a]]
      /\ frames' = [frames EXCEPT ![w] = <<>>]
      /\ UNCHANGED <<seconds, sends>>
      /\ conn' \subseteq (conn \ served) \cup {T!Left(c) : c \in served}
  BY DEF T!Close, T!Become
<1>2. ASSUME NEW c \in conn
      PROVE  /\ T!Left(c) \in Connection /\ T!Left(c).n = c.n /\ StageRight(T!Left(c))
             /\ T!Left(c).at_server = "closed"
  <2>1. c \in Connection /\ StageRight(c) BY DEF TlsInv, TlsTypes, ConnRight
  <2>2. CASE c.at_client = "hello"
    <3> DEFINE l == [c EXCEPT !.at_server = "closed", !.at_client = "done", !.told = "failed"]
    <3>1. T!Left(c) = l BY <2>2 DEF T!Left
    <3>2. l \in Connection BY <2>1 DEF Connection
    <3>3. /\ l.n = c.n /\ l.at_server = "closed" /\ l.told = "failed" /\ l.data = c.data
          /\ l.client_cert = c.client_cert /\ l.client = c.client
      BY <2>1 DEF Connection
    <3>4. c.data # "frame" BY <2>1, <2>2 DEF StageRight
    <3> HIDE DEF l
    <3>5. StageRight(l) BY <2>1, <3>3, <3>4 DEF StageRight
    <3> QED BY <3>1, <3>2, <3>3, <3>5
  <2>3. CASE c.at_client # "hello"
    <3> DEFINE l == [c EXCEPT !.at_server = "closed"]
    <3>1. T!Left(c) = l BY <2>3 DEF T!Left
    <3>2. l \in Connection BY <2>1 DEF Connection
    <3>3. /\ l.n = c.n /\ l.at_server = "closed" /\ l.told = c.told /\ l.data = c.data
          /\ l.client_cert = c.client_cert /\ l.client = c.client
          /\ l.at_client = c.at_client /\ l.server_cert = c.server_cert
          /\ l.client_root = c.client_root /\ l.done_at = c.done_at
      BY <2>1 DEF Connection
    <3> HIDE DEF l
    <3>4. StageRight(l) BY <2>1, <3>3 DEF StageRight
    <3> QED BY <3>1, <3>2, <3>3, <3>4
  <2> QED BY <2>2, <2>3
<1>3. ASSUME NEW d \in conn'
      PROVE  \E c \in conn : /\ d.n = c.n /\ d \in Connection /\ StageRight(d)
                             /\ (d = c /\ c \notin served) \/ (d = T!Left(c) /\ c \in served)
                             /\ c.at_server = "closed" => d.at_server = "closed"
  <2>1. CASE d \in conn \ served BY <2>1 DEF TlsInv, TlsTypes, ConnRight
  <2>2. CASE d \in {T!Left(c) : c \in served}
    <3>1. PICK c \in served : d = T!Left(c) BY <2>2
    <3> QED BY <1>2, <3>1
  <2> QED BY <1>1, <2>1, <2>2
<1> HIDE DEF served
<1>4. TlsTypes'
  <2>1. frames' \in [Process -> Seq(Frame)] BY <1>1 DEF TlsInv, TlsTypes
  <2>2. conn' \subseteq Connection BY <1>3
  <2> QED BY <1>1, <2>1, <2>2 DEF TlsInv, TlsTypes
<1>5. Identified'
  <2>1. Nobody \notin Process BY TlsAssumption DEF T!TlsConstants
  <2>2. ASSUME NEW v \in Process, identity'[v] # Nobody
        PROVE  identity'[v] \in TlsIdentity /\ identity'[v].cert.key = v
    BY <1>1, <2>2 DEF TlsInv, TlsTypes, Identified
  <2>3. ASSUME NEW b \in Endpoint, listening'[b] # Nobody PROVE identity'[listening'[b]] \in TlsIdentity
    BY <1>1, <2>1, <2>3 DEF TlsInv, TlsTypes, Identified
  <2> QED BY <2>2, <2>3 DEF Identified
<1>6. ConnRight'
  <2>1. ASSUME NEW d \in conn' PROVE d.n <= sends' /\ StageRight(d)
    BY <1>1, <1>3 DEF TlsInv, ConnRight
  <2>2. ASSUME NEW d \in conn', NEW x \in conn', d.n = x.n PROVE d = x
    <3>1. PICK c \in conn : d.n = c.n /\ ((d = c /\ c \notin served) \/ (d = T!Left(c) /\ c \in served))
      BY <1>3
    <3>2. PICK y \in conn : x.n = y.n /\ ((x = y /\ y \notin served) \/ (x = T!Left(y) /\ y \in served))
      BY <1>3
    <3>3. c = y BY <2>2, <3>1, <3>2 DEF TlsInv, ConnRight
    <3> QED BY <3>1, <3>2, <3>3
  <2> QED BY <2>1, <2>2 DEF ConnRight
<1>7. FramesRight'
  <2>1. ASSUME NEW s \in Process
        PROVE  frames'[s] = frames[s] \/ Len(frames'[s]) = 0
    BY <1>1 DEF TlsInv, TlsTypes
  <2> QED BY <1>1, <1>3, <2>1 DEF TlsInv, FramesRight
<1> QED BY <1>4, <1>5, <1>6, <1>7 DEF TlsInv

LEMMA DialKeeps ==
    ASSUME TlsInv, NEW w \in Process, NEW a \in Endpoint, T!Dial(w, a) PROVE TlsInv'
<1> DEFINE c == [n |-> sends', client |-> w, server |-> listening[a],
                 client_cert |-> identity[w].cert, client_root |-> identity[w].root,
                 server_cert |-> identity[listening[a]].cert,
                 server_root |-> identity[listening[a]].root,
                 at_client |-> "hello", at_server |-> "queued", data |-> "none",
                 told |-> "nothing", done_at |-> 0, seen_at |-> 0]
<1>1. /\ identity[w] # Nobody /\ listening[a] \notin {Nobody, w} /\ sends' = sends + 1
      /\ conn' = conn \cup {c} /\ UNCHANGED <<seconds, identity, listening, frames>>
  BY DEF T!Dial
<1>2. sends \in Nat /\ conn \subseteq Connection BY DEF TlsInv, TlsTypes
<1>3. /\ listening[a] \in Process /\ identity[w] \in TlsIdentity /\ identity[w].cert.key = w
      /\ identity[listening[a]] \in TlsIdentity
  BY <1>1 DEF TlsInv, TlsTypes, Identified
<1>4. /\ identity[w].cert \in Cert /\ identity[w].root \in CA
      /\ identity[listening[a]].cert \in Cert /\ identity[listening[a]].root \in CA
  BY <1>3 DEF TlsIdentity
<1>5. c \in Connection
  <2> HIDE DEF TlsInv
  <2> QED BY <1>1, <1>2, <1>3, <1>4 DEF Connection
<1>6. /\ c.n = sends + 1 /\ c.client_cert.key = c.client /\ c.data = "none"
      /\ c.told = "nothing" /\ c.at_server = "queued"
  BY <1>1, <1>3
<1> HIDE DEF c
<1>7. TlsTypes' BY <1>1, <1>2, <1>5 DEF TlsInv, TlsTypes
<1>8. Identified' BY <1>1 DEF TlsInv, Identified
<1>9. \A d \in conn : d.n \in Nat /\ d.n <= sends BY <1>2 DEF TlsInv, ConnRight, Connection
<1>10. ConnRight'
  <2>1. StageRight(c) BY <1>6 DEF StageRight
  <2>2. ASSUME NEW d \in conn' PROVE d.n <= sends' /\ StageRight(d)
    BY <1>1, <1>2, <1>6, <1>9, <2>1 DEF TlsInv, ConnRight
  <2>3. ASSUME NEW d \in conn', NEW x \in conn', d.n = x.n PROVE d = x
    BY <1>1, <1>2, <1>6, <1>9, <2>3 DEF TlsInv, ConnRight
  <2> QED BY <2>2, <2>3 DEF ConnRight
<1>11. FramesRight'
  <2> SUFFICES ASSUME NEW s \in Process, NEW i \in 1..Len(frames[s])
               PROVE  /\ frames[s][i].over.n <= sends'
                      /\ \A d \in conn' : d.n = frames[s][i].over.n => d.at_server = "closed"
    BY <1>1 DEF TlsInv, FramesRight
  <2>1. frames[s] \in Seq(Frame) /\ frames[s][i] \in Frame BY DEF TlsInv, TlsTypes
  <2>2. frames[s][i].over.n \in Nat BY <2>1 DEF Frame, Connection
  <2>3. frames[s][i].over.n <= sends BY DEF TlsInv, FramesRight
  <2> QED BY <1>1, <1>2, <1>6, <2>2, <2>3 DEF TlsInv, FramesRight
<1> QED BY <1>7, <1>8, <1>10, <1>11 DEF TlsInv

\* A step that only moves one connection on.
LEMMA MoveKeeps ==
    ASSUME TlsInv, NEW c \in conn, NEW e \in Connection, T!Become({c}, {e}),
           e.n = c.n, StageRight(e), c.at_server = "closed" => e.at_server = "closed",
           UNCHANGED <<seconds, identity, listening, sends, frames>>
    PROVE  TlsInv'
<1>1. conn' \subseteq Connection /\ ConnRight' /\ FramesRight' BY OneEnd
<1>2. TlsTypes' /\ Identified' BY <1>1 DEF TlsInv, TlsTypes, Identified
<1> QED BY <1>1, <1>2 DEF TlsInv

\* The client's side of a connection.
LEMMA ClientKeeps == ASSUME TlsInv, NEW c \in conn, T!Finish(c) \/ T!Die(c) PROVE TlsInv'
<1>1. c \in Connection /\ StageRight(c) /\ seconds \in Nat BY DEF TlsInv, TlsTypes, ConnRight
<1>2. c.at_client # "done" /\ UNCHANGED <<seconds, identity, listening, sends, frames>>
  BY DEF T!Finish, T!Die
<1>3. ASSUME NEW o \in {"sent", "failed"}, NEW d \in {"frame", "eof", "reset"},
             (o = "sent") = (d = "frame"),
             o = "sent" => T!VerifySvid(c.server_cert, c.client_root, seconds),
             T!Become({c}, {T!Told(c, o, d)})
      PROVE  TlsInv'
  <2> DEFINE e == T!Told(c, o, d)
  <2>1. e \in Connection BY <1>1 DEF T!Told, Connection
  <2>2. /\ e.n = c.n /\ e.at_client = "done" /\ e.told = o /\ e.data = d /\ e.done_at = seconds
        /\ e.at_server = c.at_server /\ e.client_cert = c.client_cert /\ e.client = c.client
        /\ e.server_cert = c.server_cert /\ e.client_root = c.client_root
        /\ e.server_root = c.server_root /\ e.seen_at = c.seen_at
    BY <1>1 DEF T!Told, Connection
  <2> HIDE DEF e
  <2>3. o = "sent" => /\ c.server_cert.ca = c.client_root /\ c.server_cert.usage = "signature"
                      /\ seconds <= c.server_cert.exp
    BY <1>3 DEF T!VerifySvid
  <2>4. StageRight(e) BY <1>1, <1>3, <2>2, <2>3 DEF StageRight, Verified
  <2>5. T!Become({c}, {e}) BY <1>3 DEF e
  <2> QED BY <1>2, <2>1, <2>2, <2>4, <2>5, MoveKeeps
<1>4. \/ /\ T!VerifySvid(c.server_cert, c.client_root, seconds)
         /\ T!Become({c}, {T!Told(c, "sent", "frame")})
      \/ T!Become({c}, {T!Told(c, "failed", "eof")})
      \/ T!Become({c}, {T!Told(c, "failed", "reset")})
  BY DEF T!Finish, T!Die
<1> QED BY <1>3, <1>4

\* The server's side of it, up to the frame.
LEMMA ServerKeeps ==
    ASSUME TlsInv, NEW c \in conn, T!Accept(c) \/ T!Shake(c) \/ T!VerifyPeer(c) PROVE TlsInv'
<1>1. c \in Connection /\ StageRight(c) /\ seconds \in Nat BY DEF TlsInv, TlsTypes, ConnRight
<1>2. /\ c.at_server \in {"queued", "hello", "verify"}
      /\ UNCHANGED <<seconds, identity, listening, sends, frames>>
  BY DEF T!Accept, T!Shake, T!VerifyPeer, T!AtServer
<1>3. ASSUME NEW stage \in {"verify", "closed"}, T!Step(c, stage) PROVE TlsInv'
  <2> DEFINE e == [c EXCEPT !.at_server = stage]
  <2>1. e \in Connection BY <1>1 DEF Connection
  <2>2. /\ e.n = c.n /\ e.at_server = stage /\ e.told = c.told /\ e.data = c.data
        /\ e.client_cert = c.client_cert /\ e.client = c.client /\ e.at_client = c.at_client
        /\ e.server_cert = c.server_cert /\ e.client_root = c.client_root /\ e.done_at = c.done_at
    BY <1>1 DEF Connection
  <2> HIDE DEF e
  <2>3. StageRight(e) BY <1>1, <2>2 DEF StageRight
  <2>4. T!Become({c}, {e}) BY <1>3 DEF e, T!Step
  <2> QED BY <1>2, <2>1, <2>2, <2>3, <2>4, MoveKeeps
<1>4. ASSUME c.at_client = "hello",
             T!Become({c}, {[c EXCEPT !.at_server = "hello", !.at_client = "verify"]})
      PROVE  TlsInv'
  <2> DEFINE e == [c EXCEPT !.at_server = "hello", !.at_client = "verify"]
  <2>1. e \in Connection BY <1>1 DEF Connection
  <2>2. /\ e.n = c.n /\ e.at_server = "hello" /\ e.told = c.told /\ e.data = c.data
        /\ e.client_cert = c.client_cert /\ e.client = c.client
    BY <1>1 DEF Connection
  <2> HIDE DEF e
  <2>3. StageRight(e) BY <1>1, <1>4, <2>2 DEF StageRight
  <2>4. T!Become({c}, {e}) BY <1>4 DEF e
  <2> QED BY <1>2, <2>1, <2>2, <2>3, <2>4, MoveKeeps
<1>5. ASSUME c.at_client = "hello", T!Become({c}, {T!Left(c)}) PROVE TlsInv'
  <2> DEFINE e == [c EXCEPT !.at_server = "closed", !.at_client = "done", !.told = "failed"]
  <2>1. T!Left(c) = e BY <1>5 DEF T!Left
  <2>2. e \in Connection BY <1>1 DEF Connection
  <2>3. /\ e.n = c.n /\ e.at_server = "closed" /\ e.told = "failed" /\ e.data = c.data
        /\ e.client_cert = c.client_cert /\ e.client = c.client
    BY <1>1 DEF Connection
  <2> HIDE DEF e
  <2>4. StageRight(e) BY <1>1, <1>5, <2>3 DEF StageRight
  <2>5. T!Become({c}, {e}) BY <1>5, <2>1
  <2> QED BY <1>2, <2>2, <2>3, <2>4, <2>5, MoveKeeps
<1>6. ASSUME T!VerifySvid(c.client_cert, c.server_root, seconds),
             T!Become({c}, {[c EXCEPT !.at_server = "read", !.seen_at = seconds]})
      PROVE  TlsInv'
  <2> DEFINE e == [c EXCEPT !.at_server = "read", !.seen_at = seconds]
  <2>1. e \in Connection BY <1>1 DEF Connection
  <2>2. /\ e.n = c.n /\ e.at_server = "read" /\ e.told = c.told /\ e.data = c.data
        /\ e.client_cert = c.client_cert /\ e.client = c.client /\ e.at_client = c.at_client
        /\ e.server_cert = c.server_cert /\ e.client_root = c.client_root /\ e.done_at = c.done_at
        /\ e.server_root = c.server_root /\ e.seen_at = seconds
    BY <1>1 DEF Connection
  <2> HIDE DEF e
  <2>3. Verified(e) BY <1>6, <2>2 DEF T!VerifySvid, Verified
  <2>4. StageRight(e) BY <1>1, <2>2, <2>3 DEF StageRight
  <2>5. T!Become({c}, {e}) BY <1>6 DEF e
  <2> QED BY <1>2, <2>1, <2>2, <2>4, <2>5, MoveKeeps
<1>7. CASE T!Accept(c) BY <1>3, <1>4, <1>5, <1>7 DEF T!Accept
<1>8. CASE T!Shake(c) BY <1>3, <1>8 DEF T!Shake
<1>9. CASE T!VerifyPeer(c) BY <1>3, <1>6, <1>9 DEF T!VerifyPeer
<1> QED BY <1>7, <1>8, <1>9

\* A frame goes into the inbox, and its connection is over.
LEMMA ReadKeeps == ASSUME TlsInv, NEW c \in conn, T!Read(c) PROVE TlsInv'
<1> DEFINE e == [c EXCEPT !.at_server = "closed"]
           f == [source |-> c.client_cert.id, over |-> c]
           s == c.server
<1>1. c \in Connection /\ StageRight(c) /\ c.n <= sends BY DEF TlsInv, TlsTypes, ConnRight
<1>2. /\ c.at_server = "read" /\ T!Become({c}, {e})
      /\ UNCHANGED <<seconds, identity, listening, sends>>
      /\ frames' = IF c.data = "frame" THEN [frames EXCEPT ![s] = Append(@, f)] ELSE frames
  BY DEF T!Read, T!AtServer, T!Step
<1>3. e \in Connection BY <1>1 DEF Connection
<1>4. /\ e.n = c.n /\ e.at_server = "closed" /\ e.told = c.told /\ e.data = c.data
      /\ e.client_cert = c.client_cert /\ e.client = c.client /\ e.at_client = c.at_client
      /\ e.server_cert = c.server_cert /\ e.client_root = c.client_root /\ e.done_at = c.done_at
  BY <1>1 DEF Connection
<1>5. /\ c.server \in Process /\ c.client_cert \in Cert /\ c.n \in Nat BY <1>1 DEF Connection
<1>6. f \in Frame /\ f.over = c /\ f.source = c.client_cert.id
  <2>1. c.client_cert.id \in SpiffeId BY <1>5 DEF Cert
  <2> QED BY <1>1, <2>1 DEF Frame
<1> HIDE DEF e, f
<1>7. StageRight(e) BY <1>1, <1>4 DEF StageRight
<1>8. conn' \subseteq Connection /\ ConnRight' /\ (frames' = frames => FramesRight')
  BY <1>2, <1>3, <1>4, <1>7, OneEnd
<1>a. frames' \in [Process -> Seq(Frame)] => TlsTypes' /\ Identified'
  BY <1>2, <1>8 DEF TlsInv, TlsTypes, Identified
<1>9. CASE c.data # "frame"
  <2>1. frames' = frames BY <1>2, <1>9
  <2>2. frames \in [Process -> Seq(Frame)] BY DEF TlsInv, TlsTypes
  <2> QED BY <1>8, <1>a, <2>1, <2>2 DEF TlsInv
<1>10. CASE c.data = "frame"
  <2>1. frames[s] \in Seq(Frame) BY <1>5 DEF TlsInv, TlsTypes
  <2>2. frames' = [frames EXCEPT ![s] = Append(frames[s], f)] BY <1>2, <1>10
  <2>3. frames' \in [Process -> Seq(Frame)]
    <3>1. Append(frames[s], f) \in Seq(Frame) BY <1>6, <2>1
    <3>2. frames \in [Process -> Seq(Frame)] BY DEF TlsInv, TlsTypes
    <3> QED BY <2>2, <3>1, <3>2
  <2>4. TlsTypes' /\ Identified' BY <1>a, <2>3
  <2>5. /\ Len(frames[s]) \in Nat /\ Len(frames'[s]) = Len(frames[s]) + 1
        /\ frames'[s][Len(frames[s]) + 1] = f
        /\ \A i \in 1..Len(frames[s]) : frames'[s][i] = frames[s][i]
        /\ \A x \in Process : x # s => frames'[x] = frames[x]
    BY <1>5, <1>6, <2>1, <2>2 DEF TlsInv, TlsTypes
  <2>6. ASSUME NEW d \in conn', NEW m, d.n = m,
               m = c.n \/ \A x \in conn : x.n = m => x.at_server = "closed"
        PROVE  d.at_server = "closed"
    <3>1. d = e \/ (d \in conn /\ d # c) BY <1>2 DEF T!Become
    <3>2. d \in conn /\ d.n = c.n => d = c BY DEF TlsInv, ConnRight
    <3> QED BY <1>4, <2>6, <3>1, <3>2
  <2>7. FramesRight'
    <3> SUFFICES ASSUME NEW x \in Process, NEW i \in 1..Len(frames'[x])
                 PROVE  LET b == frames'[x][i].over
                        IN  /\ b.n <= sends /\ b.server = x /\ b.told = "sent"
                            /\ b.client_cert.key = b.client
                            /\ frames'[x][i].source = b.client_cert.id /\ Verified(b)
                            /\ \A d \in conn' : d.n = b.n => d.at_server = "closed"
                            /\ \A j \in 1..Len(frames'[x]) : frames'[x][j].over.n = b.n => i = j
      BY <1>2 DEF FramesRight
    <3>1. ASSUME NEW j \in 1..Len(frames[s]) PROVE frames[s][j].over.n # c.n
      BY <1>2, <1>5 DEF TlsInv, FramesRight
    <3>2. CASE x # s
      <4>1. frames'[x] = frames[x] BY <2>5, <3>2
      <4> QED BY <2>6, <4>1 DEF TlsInv, FramesRight
    <3>3. CASE x = s /\ i \in 1..Len(frames[s])
      <4>1. frames'[x][i] = frames[s][i] BY <2>5, <3>3
      <4>2. \A j \in 1..Len(frames'[x]) : j \in 1..Len(frames[s]) \/ j = Len(frames[s]) + 1
        BY <2>5, <3>3
      <4>3. ASSUME NEW j \in 1..Len(frames'[x]), frames'[x][j].over.n = frames[s][i].over.n
            PROVE  i = j
        <5>1. CASE j = Len(frames[s]) + 1
          <6>1. frames'[x][j].over.n = c.n BY <1>6, <2>5, <3>3, <5>1
          <6> QED BY <3>1, <3>3, <4>3, <6>1
        <5>2. CASE j \in 1..Len(frames[s])
          <6>1. frames'[x][j] = frames[s][j] BY <2>5, <3>3, <5>2
          <6> QED BY <1>5, <3>3, <4>3, <5>2, <6>1 DEF TlsInv, FramesRight
        <5> QED BY <4>2, <5>1, <5>2
      <4> QED BY <1>5, <2>6, <3>3, <4>1, <4>3, SMTT(30) DEF TlsInv, FramesRight
    <3>4. CASE x = s /\ i = Len(frames[s]) + 1
      <4>1. frames'[x][i] = f BY <2>5, <3>4
      <4>2. \A j \in 1..Len(frames'[x]) : j \in 1..Len(frames[s]) \/ j = Len(frames[s]) + 1
        BY <2>5, <3>4
      <4>3. \A j \in 1..Len(frames'[x]) : frames'[x][j].over.n = c.n => i = j
        BY <2>5, <3>1, <3>4, <4>2
      <4>4. Verified(c) /\ c.told = "sent" /\ c.client_cert.key = c.client
        BY <1>1, <1>2, <1>10 DEF StageRight
      <4> QED BY <1>1, <1>6, <2>6, <3>4, <4>1, <4>3, <4>4
    <3>5. x = s => i \in 1..Len(frames[s]) \/ i = Len(frames[s]) + 1 BY <2>5
    <3> QED BY <3>2, <3>3, <3>4, <3>5, Zenon
  <2> QED BY <1>8, <2>4, <2>7 DEF TlsInv
<1> QED BY <1>9, <1>10

LEMMA TlsNext == TlsInv /\ [T!Next]_(T!vars) => TlsInv'
<1> SUFFICES ASSUME TlsInv, [T!Next]_(T!vars) PROVE TlsInv' OBVIOUS
<1>1. CASE T!Tick \/ UNCHANGED T!vars
  <2>1. UNCHANGED <<identity, listening, conn, frames, sends>> /\ seconds' \in Nat
    BY <1>1 DEF T!Tick, T!vars, TlsInv, TlsTypes
  <2> QED BY <2>1 DEF TlsInv, TlsTypes, Identified, ConnRight, FramesRight
<1>2. ASSUME NEW w \in Process, NEW a \in Endpoint, NEW ca \in CA, NEW i \in SpiffeId,
             T!MintAndOpen(w, ca, i, a)
      PROVE  TlsInv'
  <2>1. T!Open(w, ca, T!Svid(ca, i, w), a) BY <1>2 DEF T!MintAndOpen
  <2> QED BY <2>1, CertsFit, OpenKeeps
<1>3. ASSUME NEW w \in Process, NEW a \in Endpoint, NEW f \in Foreign,
             T!Open(w, f.ca, T!Other(f, w), a)
      PROVE  TlsInv'
  BY <1>3, CertsFit, OpenKeeps
<1>4. ASSUME NEW w \in Process, T!Close(w) PROVE TlsInv' BY <1>4, CloseKeeps
<1>5. ASSUME NEW w \in Process, NEW a \in Endpoint, T!Dial(w, a) PROVE TlsInv' BY <1>5, DialKeeps
<1>6. ASSUME NEW c \in conn, T!Finish(c) \/ T!Die(c) PROVE TlsInv' BY <1>6, ClientKeeps
<1>7. ASSUME NEW c \in conn, T!Accept(c) \/ T!Shake(c) \/ T!VerifyPeer(c) PROVE TlsInv'
  BY <1>7, ServerKeeps
<1>8. ASSUME NEW c \in conn, T!Read(c) PROVE TlsInv' BY <1>8, ReadKeeps
<1> QED BY <1>1, <1>2, <1>3, <1>4, <1>5, <1>6, <1>7, <1>8 DEF T!Next

\* Whatever certificates expire, endpoints change hands and clients die between two
\* steps of a handshake, a frame in an inbox came once, from the holder of the key
\* the receiver's CA certified under the id it is filed under, and a frame was
\* written only to a process the sender's CA vouched for (TlsSocketTransport,
\* verify_svid).
THEOREM ChannelsAuthentic == T!Spec => []ChannelAuthentic
<1>1. TlsInv => ChannelAuthentic
  <2> SUFFICES ASSUME TlsInv PROVE T!ChannelAuthentic BY DEF ChannelAuthentic
  <2>1. \A s \in Process : DOMAIN frames[s] = 1..Len(frames[s]) BY DEF TlsInv, TlsTypes
  <2> QED BY <2>1 DEF TlsInv, FramesRight, ConnRight, StageRight, Verified, T!ChannelAuthentic
<1> QED BY TlsInit, TlsNext, <1>1, PTL DEF T!Spec

=============================================================================
