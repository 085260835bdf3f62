------------------------- MODULE EnvelopeVerifier -------------------------
(***************************************************************************)
(* verify_envelope of envelope/verify_envelope.py, with the capability     *)
(* check of capability_token.py, the trust stores, the revocation list,    *)
(* the replay cache and the audit sink it is given, under concurrent       *)
(* callers that share them (one Verifier, several threads).                *)
(*                                                                         *)
(* An envelope is a record: the replay key (sender, nonce), the signing    *)
(* key, the capability's issuer key and jti, both validity windows, and    *)
(* `flaw`, the first check that reads neither the clock nor shared state   *)
(* and that the envelope fails (NoFlaw if it passes all).                  *)
(*                                                                         *)
(* A call reads the clock once (`current`), the trust stores read it       *)
(* again, and the replay cache a third time before it takes its lock; the  *)
(* revocation list is read once.  Those are the steps of the model.  The   *)
(* cache is InMemoryReplayCache, whose critical section is one step        *)
(* (ReplayCache shows the lock); the audit sink is the list of events a    *)
(* call gets recorded (AuditChain shows how they are chained).             *)
(***************************************************************************)
EXTENDS Naturals, Sequences, FiniteSets, Checks

CONSTANTS
    Caller,
    Envelope,          \* the envelopes callers may present
    Key, Kid, Issuer, Jti,
    KeyNotAfter,       \* known signing keys -> not_after (trust_store)
    IssuerNotAfter,    \* known issuer keys -> not_after (issuer_trust_store)
    MaxClockSkew, MaxEnvelopeTtl, MaxCapabilityTtl,
    NoFlaw, NoEnvelope,
    MaxClock, MaxCalls, MaxSinkFailures     \* bounds

StaticFlaw == {"envelope_not_object", "envelope_too_deep",
               "missing_required_field", "invalid_field", "invalid_timestamp"}
ContentFlaw == {"payload_digest_mismatch", "envelope_not_canonicalizable"}
SignatureFlaw == {"signature_encoding_invalid", "signature_invalid"}
TokenFlaw == {"capability_malformed", "capability_binding_mismatch",
              "capability_iat_after_nbf"}
TokenSignatureFlaw == {"capability_signature_invalid"}
InternalFlaw == {"revocation_list_corrupt"}
Flaw == StaticFlaw \cup ContentFlaw \cup SignatureFlaw \cup TokenFlaw
            \cup TokenSignatureFlaw \cup InternalFlaw

ASSUME EnvelopeAssumption ==
    /\ Envelope \subseteq [key : Key, kid : Kid, issuer : Issuer, jti : Jti,
                           issued_at : Nat, expires_at : Nat,
                           nbf : Nat, exp : Nat, flaw : Flaw \cup {NoFlaw}]
    /\ NoFlaw \notin Flaw
    /\ NoEnvelope \notin Envelope

ASSUME VerifierBounds ==
    /\ MaxClockSkew \in Nat /\ MaxEnvelopeTtl \in Nat /\ MaxCapabilityTtl \in Nat
    /\ MaxClock \in Nat /\ MaxCalls \in Nat /\ MaxSinkFailures \in Nat

VARIABLES
    clock,
    revoked,      \* the jtis of the revocation list
    entries,      \* the keys in the replay cache ...
    until,        \* ... and their expiry
    pc,           \* pc[c]: the next step of the call of c
    id,           \* id[c]: the number of the call
    env,          \* env[c]: its envelope
    current,      \* current[c]: the time the call reads at its start
    now,          \* now[c]: the time the replay cache reads
    reason,       \* reason[c]: "ok" until a check fails
    emitted,      \* emitted[c]: the audit events recorded for the call
    calls,        \* history: calls started
    grants,       \* history: [call, env, at] of the nonce reservations, in order
    accepts,      \* history: the numbers of the calls that returned claims
    late,         \* history: the calls whose capability was revoked before the
                  \* revocation list was read for them
    failures      \* history: the numbers of the calls whose audit failed

vars == <<clock, revoked, entries, until, pc, id, env, current, now, reason,
          emitted, calls, grants, accepts, late, failures>>

shared == <<clock, revoked, entries, until>>
history == <<calls, grants, accepts, late>>

-----------------------------------------------------------------------------
(* The checks, in the order of the code: a sequence of <<fails, reason>>.  *)

\* From the start of verify_envelope to the payload digest: shape, static
\* fields, the four window checks at `t`, the digest.
EnvelopeChecks(e, t) ==
    << <<e.flaw \in StaticFlaw, e.flaw>>,
       <<e.issued_at > t + MaxClockSkew, "issued_at_in_future">>,
       <<t > e.expires_at + MaxClockSkew, "envelope_expired">>,
       <<e.expires_at <= e.issued_at, "invalid_validity_window">>,
       <<e.expires_at > e.issued_at + MaxEnvelopeTtl, "envelope_ttl_exceeded">>,
       <<e.flaw \in ContentFlaw, e.flaw>> >>

\* key_lookup (the trust store reads the clock itself, without skew) and the
\* signature.
SignatureChecks(e, t) ==
    << <<e.kid \notin DOMAIN KeyNotAfter, "unknown_kid">>,
       <<e.kid \in DOMAIN KeyNotAfter /\ t > KeyNotAfter[e.kid], "key_expired">>,
       <<e.flaw \in SignatureFlaw, e.flaw>> >>

\* verify_capability_token up to issuer_lookup: token shape, binding to the
\* envelope, and its window at the `cur` of the call.
TokenChecks(e, cur) ==
    << <<e.flaw \in TokenFlaw, e.flaw>>,
       <<e.nbf > cur + MaxClockSkew, "capability_not_yet_valid">>,
       <<cur > e.exp + MaxClockSkew, "capability_expired">>,
       <<e.exp <= e.nbf, "capability_invalid_validity_window">>,
       <<e.exp > e.nbf + MaxCapabilityTtl, "capability_ttl_exceeded">> >>

\* Mutant of IssuerChecks: the revocation list is not consulted.
IssuerChecksUnrevoked(e, t, revokedNow) ==
    << <<e.issuer \notin DOMAIN IssuerNotAfter, "unknown_issuer_key">>,
       <<e.issuer \in DOMAIN IssuerNotAfter /\ t > IssuerNotAfter[e.issuer],
         "issuer_key_expired">>,
       <<e.flaw \in TokenSignatureFlaw, e.flaw>>,
       <<e.flaw \in InternalFlaw, "verifier_internal_error">> >>

\* issuer_lookup at the clock `t`, the token's signature, the revocation list.
IssuerChecks(e, t, revokedNow) ==
    << <<e.issuer \notin DOMAIN IssuerNotAfter, "unknown_issuer_key">>,
       <<e.issuer \in DOMAIN IssuerNotAfter /\ t > IssuerNotAfter[e.issuer],
         "issuer_key_expired">>,
       <<e.flaw \in TokenSignatureFlaw, e.flaw>>,
       <<e.flaw \in InternalFlaw, "verifier_internal_error">>,
       <<e.jti \in revokedNow, "capability_revoked">> >>

CapabilityReason(e, cur, t, revokedNow) ==
    FirstFailure(TokenChecks(e, cur) \o IssuerChecks(e, t, revokedNow))

-----------------------------------------------------------------------------
Init ==
    /\ clock = 0
    /\ revoked = {}
    /\ entries = {}
    /\ until = [k \in Key |-> 0]
    /\ pc = [c \in Caller |-> "idle"]
    /\ id = [c \in Caller |-> 0]
    /\ env = [c \in Caller |-> NoEnvelope]
    /\ current = [c \in Caller |-> 0]
    /\ now = [c \in Caller |-> 0]
    /\ reason = [c \in Caller |-> "ok"]
    /\ emitted = [c \in Caller |-> <<>>]
    /\ calls = 0
    /\ grants = <<>>
    /\ accepts = {}
    /\ late = {}
    /\ failures = {}

Tick ==
    /\ clock < MaxClock
    /\ clock' = clock + 1
    /\ UNCHANGED <<revoked, entries, until, pc, id, env, current, now, reason,
                   emitted, calls, grants, accepts, late, failures>>

\* RevocationList.revoke: there is no way back.
Revoke(j) ==
    /\ j \notin revoked
    /\ revoked' = revoked \cup {j}
    /\ late' = late \cup {id[c] : c \in {d \in Caller : /\ pc[d] \in {"signature", "capability"}
                                                      /\ env[d].jti = j}}
    /\ UNCHANGED <<clock, entries, until, pc, id, env, current, now, reason,
                   emitted, calls, grants, accepts, failures>>

\* verify_envelope is called; `current` is read, and the checks up to the
\* payload digest run.
Start(c, e) ==
    /\ pc[c] = "idle"
    /\ calls < MaxCalls
    /\ LET r == FirstFailure(EnvelopeChecks(e, clock))
       IN  /\ reason' = [reason EXCEPT ![c] = r]
           /\ pc' = [pc EXCEPT ![c] = IF r = "ok" THEN "signature" ELSE "emit"]
    /\ env' = [env EXCEPT ![c] = e]
    /\ current' = [current EXCEPT ![c] = clock]
    /\ id' = [id EXCEPT ![c] = calls + 1]
    /\ calls' = calls + 1
    /\ late' = IF e.jti \in revoked THEN late \cup {calls + 1} ELSE late
    /\ UNCHANGED <<shared, now, emitted, grants, accepts, failures>>

\* key_lookup and _verify_ed25519_signature.
CheckSignature(c) ==
    /\ pc[c] = "signature"
    /\ LET r == FirstFailure(SignatureChecks(env[c], clock))
       IN  /\ reason' = [reason EXCEPT ![c] = r]
           /\ pc' = [pc EXCEPT ![c] = IF r = "ok" THEN "capability" ELSE "emit"]
    /\ UNCHANGED <<shared, id, env, current, now, emitted, history, failures>>

\* verify_capability_token.  An error that is not an
\* EnvelopeVerificationError skips the capability event.
CheckCapability(c) ==
    /\ pc[c] = "capability"
    /\ LET r == CapabilityReason(env[c], current[c], clock, revoked)
       IN  /\ reason' = [reason EXCEPT ![c] = r]
           /\ pc' = [pc EXCEPT ![c] = IF r = "verifier_internal_error"
                                      THEN "emit" ELSE "emit_cap"]
    /\ UNCHANGED <<shared, id, env, current, now, emitted, history, failures>>

Event(type, r) ==
    [type |-> type, outcome |-> IF r = "ok" THEN "allow" ELSE "deny", reason |-> r]

\* Bound: calls whose audit fails.
SinkMayFail(c) == Cardinality(failures \cup {id[c]}) <= MaxSinkFailures

\* _emit_cap: a sink failure turns the call into a denial, whose envelope
\* event is still attempted.
EmitCap(c) ==
    /\ pc[c] = "emit_cap"
    /\ emitted' = [emitted EXCEPT ![c] = Append(@, Event("capability.verify", reason[c]))]
    /\ pc' = [pc EXCEPT ![c] = IF reason[c] = "ok" THEN "read_now" ELSE "emit"]
    /\ UNCHANGED <<shared, id, env, current, now, reason, history, failures>>

EmitCapFails(c) ==
    /\ pc[c] = "emit_cap"
    /\ SinkMayFail(c)
    /\ failures' = failures \cup {id[c]}
    /\ reason' = [reason EXCEPT ![c] = "audit_sink_failure"]
    /\ pc' = [pc EXCEPT ![c] = "emit"]
    /\ UNCHANGED <<shared, id, env, current, now, emitted, history>>

\* mark_if_new: now = datetime.now(UTC), before the lock.
ReadNow(c) ==
    /\ pc[c] = "read_now"
    /\ now' = [now EXCEPT ![c] = clock]
    /\ pc' = [pc EXCEPT ![c] = "reserve"]
    /\ UNCHANGED <<shared, id, env, current, reason, emitted, history, failures>>

\* Mutant of Ttl: the skew is taken off the retention.
TtlLessSkew(e, cur) ==
    IF e.expires_at > cur + MaxClockSkew THEN e.expires_at - cur - MaxClockSkew ELSE 0

\* ttl = max(expires_at - current, 0)
Ttl(e, cur) == IF e.expires_at > cur THEN e.expires_at - cur ELSE 0

\* The entries left by _purge at time t.
Purged(t) == {k \in entries : until[k] > t}

\* mark_if_new under its lock: purge, check, insert.
Reserve(c) ==
    /\ pc[c] = "reserve"
    /\ LET k == env[c].key IN
       IF k \in Purged(now[c])
       THEN /\ entries' = Purged(now[c])
            /\ reason' = [reason EXCEPT ![c] = "replay_detected"]
            /\ UNCHANGED <<until, grants>>
       ELSE /\ entries' = Purged(now[c]) \cup {k}
            /\ until' = [until EXCEPT ![k] = now[c] + Ttl(env[c], current[c])]
            /\ grants' = Append(grants,
                            [call |-> id[c], env |-> env[c], at |-> clock])
            /\ UNCHANGED reason
    /\ pc' = [pc EXCEPT ![c] = "emit"]
    /\ UNCHANGED <<clock, revoked, id, env, current, now, emitted, calls,
                   accepts, late, failures>>

\* _emit, and the return of the claims or the raise.
Emit(c) ==
    /\ pc[c] = "emit"
    /\ emitted' = [emitted EXCEPT ![c] = Append(@, Event("envelope.verify", reason[c]))]
    /\ accepts' = IF reason[c] = "ok" THEN accepts \cup {id[c]} ELSE accepts
    /\ pc' = [pc EXCEPT ![c] = "done"]
    /\ UNCHANGED <<shared, id, env, current, now, reason, calls, grants, late, failures>>

\* Mutant of EmitFails: the failure of the sink is swallowed.
EmitFailsOpen(c) ==
    /\ pc[c] = "emit"
    /\ SinkMayFail(c)
    /\ failures' = failures \cup {id[c]}
    /\ pc' = [pc EXCEPT ![c] = "done"]
    /\ UNCHANGED <<shared, id, env, current, now, reason, emitted, history>>

\* The sink fails: an allow becomes a denial, the nonce stays reserved.
EmitFails(c) ==
    /\ pc[c] = "emit"
    /\ SinkMayFail(c)
    /\ failures' = failures \cup {id[c]}
    /\ reason' = [reason EXCEPT ![c] = "audit_sink_failure"]
    /\ pc' = [pc EXCEPT ![c] = "done"]
    /\ UNCHANGED <<shared, id, env, current, now, emitted, history>>

\* The caller has the result.
Finish(c) ==
    /\ pc[c] = "done"
    /\ pc' = [pc EXCEPT ![c] = "idle"]
    /\ id' = [id EXCEPT ![c] = 0]
    /\ env' = [env EXCEPT ![c] = NoEnvelope]
    /\ current' = [current EXCEPT ![c] = 0]
    /\ now' = [now EXCEPT ![c] = 0]
    /\ reason' = [reason EXCEPT ![c] = "ok"]
    /\ emitted' = [emitted EXCEPT ![c] = <<>>]
    /\ UNCHANGED <<shared, history, failures>>

Next ==
    \/ Tick
    \/ \E j \in Jti : Revoke(j)
    \/ \E c \in Caller :
          \/ \E e \in Envelope : Start(c, e)
          \/ CheckSignature(c) \/ CheckCapability(c)
          \/ EmitCap(c) \/ EmitCapFails(c)
          \/ ReadNow(c) \/ Reserve(c)
          \/ Emit(c) \/ EmitFails(c)
          \/ Finish(c)

Spec == Init /\ [][Next]_vars

-----------------------------------------------------------------------------
(* Properties.                                                             *)

\* While an envelope is unexpired, its (sender, nonce) is granted to one call
\* only: a reservation made before expires_at excludes every other until
\* then, although callers race, and although the clock read at the start of a
\* call and the one read by the cache are stale when the entry is inserted
\* and purged (verify_envelope, mark_if_new).
NonceExclusive ==
    \A i, j \in 1..Len(grants) :
        /\ i < j
        /\ grants[i].env.key = grants[j].env.key
        /\ grants[i].at < grants[i].env.expires_at
        => grants[j].at >= grants[i].env.expires_at

\* Only an envelope that passes every check consumes its nonce: a copy that
\* fails a check cannot burn the nonce of the genuine one, and a consumed
\* nonce was accepted, is being audited, or was lost to a failed audit.
NonceAccounted ==
    \A i \in 1..Len(grants) : LET g == grants[i] IN
        /\ g.env.flaw = NoFlaw
        /\ g.env.kid \in DOMAIN KeyNotAfter
        /\ g.env.issuer \in DOMAIN IssuerNotAfter
        /\ \/ g.call \in accepts \cup failures
           \/ \E c \in Caller : /\ id[c] = g.call
                                /\ pc[c] = "emit"
                                /\ reason[c] = "ok"

\* What a finished call has put in the audit log (the emission table of
\* contracts/audit-event-schema.md): an allow is never unaudited; when the
\* sink works the last event is the envelope's and carries the outcome; a
\* capability event precedes it, and denies only with the same reason.
AuditTopology ==
    \A c \in Caller : pc[c] = "done" =>
        LET ev == emitted[c] IN
        /\ reason[c] = "ok" =>
              ev = <<Event("capability.verify", "ok"), Event("envelope.verify", "ok")>>
        /\ id[c] \notin failures =>
              /\ Len(ev) \in 1..2
              /\ ev[Len(ev)] = Event("envelope.verify", reason[c])
              /\ Len(ev) = 2 => /\ ev[1].type = "capability.verify"
                                /\ ev[1].outcome = "deny" =>
                                        ev[1].reason = reason[c]
              /\ reason[c] = "replay_detected" =>
                    Len(ev) = 2 /\ ev[1].outcome = "allow"

\* Neither a nonce nor a decision goes unaccounted: the verifier spends a nonce
\* only on an envelope it goes on to accept or to lose to the audit sink, and
\* answers nothing that its audit events do not say (verify_envelope).
AuditedAndAccounted == NonceAccounted /\ AuditTopology

\* A call that starts after its capability was revoked is never accepted,
\* whatever the other callers do (revocation is monotone, and the list is
\* read before the nonce is reserved).
RevokedNotAccepted == late \cap accepts = {}

\* Replay rejection as the docs promise it: no envelope is accepted twice.
AcceptedOnce ==
    \A i, j \in 1..Len(grants) :
        /\ {grants[i].call, grants[j].call} \subseteq accepts
        /\ grants[i].env = grants[j].env
        => i = j

=============================================================================
