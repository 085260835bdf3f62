------------------------------ MODULE Session ------------------------------
(***************************************************************************)
(* Session tokens (envelope/session_token.py).  A server verifies open     *)
(* tokens with verify_session_token and resume tokens with verify_resume.  *)
(* It is the operator's code that remembers, per session, the last token   *)
(* it accepted and the iat of the open token (session_opened_at); as the   *)
(* module asks, it opens a session_id once.                                *)
(***************************************************************************)
EXTENDS Integers, Sequences, Checks

CONSTANTS
    Tokens,         \* the tokens clients may present
    Sessions, NoJti, NoToken,
    MaxClockSkew, MaxTokenTtl, MaxSessionLifetime,
    MaxTime         \* bound on the clock

\* What may be wrong with a token apart from its times and its place in the
\* chain, in the order of the checks.  "bad_key" is an issuer key that is not
\* an Ed25519 public key.
Flaws == {"none", "malformed", "unknown_issuer", "bad_key", "signature"}

SessionConstants ==
    /\ \A k \in Tokens :
         /\ k.session_id \in Sessions /\ k.seq \in Nat /\ k.jti # NoJti
         /\ k.iat \in Int /\ k.nbf \in Int /\ k.exp \in Int
         /\ k.flaw \in Flaws
    /\ NoToken \notin Tokens
    /\ MaxClockSkew \in Nat /\ MaxTokenTtl \in Nat /\ MaxSessionLifetime \in Nat
    /\ MaxTime \in Nat

VARIABLES
    clock,
    chain,      \* chain[s]: the tokens accepted in session s, in order, each
                \* as [token, at]; the last one is `previous`
    last        \* the last call: [token, session, reason, event], its outcome and
                \* the reason of the audit event it recorded

vars == <<clock, chain, last>>

Opened(s) == chain[s] # <<>>
Previous(s) == chain[s][Len(chain[s])].token
OpenedAt(s) == chain[s][1].token.iat

-----------------------------------------------------------------------------
\* _validate_shape, on the fields that are not covered by `flaw`.
WellFormed(k) == k.flaw # "malformed" /\ ((k.seq = 0) <=> (k.parent_jti = NoJti))

\* _verify_session_token_inner.
TokenChecks(k, t) ==
    << <<~WellFormed(k), "session_malformed">>,
       <<k.iat > k.nbf \/ k.nbf > k.exp, "session_invalid_validity_window">>,
       <<k.exp - k.nbf > MaxTokenTtl, "session_ttl_exceeded">>,
       <<t + MaxClockSkew < k.nbf, "session_not_yet_valid">>,
       <<t - MaxClockSkew > k.exp, "session_expired">>,
       <<k.flaw = "unknown_issuer", "session_unknown_issuer">>,
       <<k.flaw = "bad_key", "invalid_public_key">>,
       <<k.flaw = "signature", "session_signature_invalid">> >>

\* Mutant of ResumeChecks: the lifetime is counted from the previous token.
ResumeChecksRolling(k, prev, openedAt) ==
    << <<k.session_id # prev.session_id, "session_resume_session_mismatch">>,
       <<k.parent_jti # prev.jti, "session_resume_parent_mismatch">>,
       <<k.seq # prev.seq + 1, "session_resume_sequence_invalid">>,
       <<k.sub # prev.sub, "session_resume_subject_drift">>,
       <<k.aud # prev.aud, "session_resume_audience_drift">>,
       <<k.scope # prev.scope, "session_resume_scope_drift">>,
       <<k.exp - prev.iat > MaxSessionLifetime, "session_resume_lifetime_exceeded">> >>

\* _verify_resume_inner, before it verifies the token itself.
ResumeChecks(k, prev, openedAt) ==
    << <<k.session_id # prev.session_id, "session_resume_session_mismatch">>,
       <<k.parent_jti # prev.jti, "session_resume_parent_mismatch">>,
       <<k.seq # prev.seq + 1, "session_resume_sequence_invalid">>,
       <<k.sub # prev.sub, "session_resume_subject_drift">>,
       <<k.aud # prev.aud, "session_resume_audience_drift">>,
       <<k.scope # prev.scope, "session_resume_scope_drift">>,
       <<k.exp - openedAt > MaxSessionLifetime, "session_resume_lifetime_exceeded">> >>

OpenReason(k, t) == FirstFailure(TokenChecks(k, t))

ResumeReason(k, s, t) ==
    FirstFailure(ResumeChecks(k, Previous(s), OpenedAt(s)) \o TokenChecks(k, t))

\* What a call that found `reason` ends with.  _emit_verify is called for
\* "ok" and for a SessionError; a sink that raises turns either into
\* AUDIT_SINK_FAILURE.  invalid_public_key is raised as an
\* EnvelopeVerificationError, which the caller of _emit_verify lets pass.
Emitted(reason) ==
    IF reason = "invalid_public_key" THEN {[reason |-> reason, event |-> "none"]}
    ELSE {[reason |-> reason, event |-> reason],
          [reason |-> "audit_sink_failure", event |-> "none"]}

-----------------------------------------------------------------------------
Init ==
    /\ clock = 0
    /\ chain = [s \in Sessions |-> <<>>]
    /\ last = [token |-> NoToken, session |-> CHOOSE s \in Sessions : TRUE, reason |-> "ok", event |-> "ok"]

Tick ==
    /\ clock < MaxTime
    /\ clock' = clock + 1
    /\ UNCHANGED <<chain, last>>

\* The server accepts exactly what the verifier returned.
Answer(k, s, reason) ==
    \E e \in Emitted(reason) :
        /\ last' = [token |-> k, session |-> s, reason |-> e.reason, event |-> e.event]
        /\ chain' = IF e.reason = "ok"
                      THEN [chain EXCEPT ![s] = Append(@, [token |-> k, at |-> clock])]
                      ELSE chain
        /\ UNCHANGED clock

\* verify_session_token of a token that opens its session.
Open(k) ==
    /\ ~Opened(k.session_id) /\ k.seq = 0
    /\ Answer(k, k.session_id, OpenReason(k, clock))

\* verify_resume of any token against the last token of session s.
Resume(k, s) ==
    /\ Opened(s)
    /\ Answer(k, s, ResumeReason(k, s, clock))

Next ==
    \/ Tick
    \/ \E k \in Tokens : Open(k)
    \/ \E k \in Tokens, s \in Sessions : Resume(k, s)

Spec == Init /\ [][Next]_vars

-----------------------------------------------------------------------------
(* Properties *)

\* Resumes are strict: the n-th token of a session has sequence number n,
\* names its predecessor, and has the subject, audience and scope of the
\* first, so no token is accepted twice; however often a session is resumed,
\* no resume is accepted later than max_session_lifetime (and the skew) after
\* it was opened; and "an unaudited allow is not an allow", although the sink
\* is called after the token was found good (verify_session_token,
\* verify_resume).
ChainStrict ==
    /\ last.reason = "ok" => last.event = "ok"
    /\ \A s \in Sessions : \A i \in DOMAIN chain[s] :
        LET k == chain[s][i].token
        IN  /\ k.session_id = s /\ k.seq = i - 1
            /\ i > 1 => /\ k.parent_jti = chain[s][i - 1].token.jti
                        /\ chain[s][i].at <= OpenedAt(s) + MaxSessionLifetime + MaxClockSkew
            /\ \A f \in {"sub", "aud", "scope"} : k[f] = chain[s][1].token[f]

=============================================================================
