------------------------------- MODULE Sybil -------------------------------
(***************************************************************************)
(* envelope/sybil_deterrence.py: the quotas on new identities, the         *)
(* reputation of issuers with its decay, and the attestation burden.       *)
(*                                                                         *)
(* evaluate and record_admission are separate calls: a caller evaluates,   *)
(* consults its other gates, and records the admission later, with the     *)
(* time it evaluated at or the time of the call.  Several callers may be   *)
(* in between at once.                                                     *)
(***************************************************************************)
EXTENDS Integers, Sequences, FiniteSets, FiniteSetsExt

CONSTANTS
    Issuer,             \* the (issuer_iss, issuer_kid)
    TenantOf,           \* TenantOf[i]: the trust domain of i
    Caller,
    Proofs,             \* the attestation proofs that may be presented
    Window, Retention,
    MaxPerIssuer, MaxPerTenant,
    MinReputation, InitialScore, DecayInterval, DecayPerInterval, Floor, Ceiling,
    Amount,             \* of a reward or a penalty
    MinWorkUnits,
    Nothing,
    MaxTime, MaxMinted  \* bounds

SybilConstants ==
    /\ IsFiniteSet(Caller)
    /\ Window \in Nat \ {0} /\ Retention \in Nat /\ Retention >= Window
    /\ MaxPerIssuer \in Nat /\ MaxPerTenant \in Nat
    /\ DecayInterval \in Nat \ {0} /\ Amount \in Nat \ {0}
    /\ Floor <= InitialScore /\ InitialScore <= Ceiling
    /\ \A p \in Proofs : p.issuer \in Issuer /\ p.work \in Nat /\ p.intact \in BOOLEAN

VARIABLES
    clock,
    callers,    \* the callers of this behaviour
    events,     \* the deque of the ledger: [issuer, at]
    scores,     \* _scores: [score, touched] of the issuers seen
    admitting,  \* admitting[c]: the admission c has evaluated, [issuer, at]
    minted      \* history: every admission recorded

vars == <<clock, callers, events, scores, admitting, minted>>

Init ==
    /\ clock = 0
    /\ callers \in (SUBSET Caller) \ {{}}
    /\ events = <<>>
    /\ scores = [i \in {} |-> Nothing]
    /\ admitting = [c \in Caller |-> Nothing]
    /\ minted = <<>>

Tick ==
    /\ clock < MaxTime
    /\ clock' = clock + 1
    /\ UNCHANGED <<callers, events, scores, admitting, minted>>

-----------------------------------------------------------------------------
\* current_score, which _decay lowers by whole intervals since the last touch.
CurrentScore(i) ==
    IF i \notin DOMAIN scores THEN InitialScore
    ELSE LET steps == (clock - scores[i].touched) \div DecayInterval
         IN  IF steps <= 0 THEN scores[i].score
             ELSE Max({Floor, scores[i].score - steps * DecayPerInterval})

Touched(i, score) ==
    [j \in DOMAIN scores \cup {i} |->
        IF j = i THEN [score |-> score, touched |-> clock] ELSE scores[j]]

\* current_score stores the first score of an issuer, and with it the moment from
\* which it decays.
Looked(i) == IF i \in DOMAIN scores THEN scores ELSE Touched(i, InitialScore)

Reward(i) ==
    /\ scores' = Touched(i, Min({Ceiling, CurrentScore(i) + Amount}))
    /\ UNCHANGED <<clock, callers, events, admitting, minted>>

Penalize(i) ==
    /\ scores' = Touched(i, Max({Floor, CurrentScore(i) - Amount}))
    /\ UNCHANGED <<clock, callers, events, admitting, minted>>

-----------------------------------------------------------------------------
\* AttestationBurden.verify
BurdenMet(p, i) == p.issuer = i /\ p.intact /\ p.work >= MinWorkUnits

\* count_for_issuer and count_for_tenant over what the ledger still has.
CountSince(is, since) ==
    Cardinality({n \in DOMAIN events : events[n].issuer \in is /\ events[n].at >= since})

Tenants(i) == {j \in Issuer : TenantOf[j] = TenantOf[i]}

\* Mutant of QuotaFull: one more than the cap.
QuotaFullLate(count, cap) == count > cap

QuotaFull(count, cap) == count >= cap

Allows(i, p) ==
    /\ BurdenMet(p, i)
    /\ CurrentScore(i) >= MinReputation
    /\ ~QuotaFull(CountSince({i}, clock - Window), MaxPerIssuer)
    /\ ~QuotaFull(CountSince(Tenants(i), clock - Window), MaxPerTenant)

\* evaluate; only the reputation is touched, also by a refusal.
Evaluate(c, i, p) ==
    /\ c \in callers /\ admitting[c] = Nothing
    /\ scores' = Looked(i)
    /\ admitting' = IF Allows(i, p)
                    THEN [admitting EXCEPT ![c] = [issuer |-> i, at |-> clock]] ELSE admitting
    /\ UNCHANGED <<clock, callers, events, minted>>

\* Another gate refuses, and nothing is recorded.
Abandon(c) ==
    /\ admitting[c] # Nothing
    /\ admitting' = [admitting EXCEPT ![c] = Nothing]
    /\ UNCHANGED <<clock, callers, events, scores, minted>>

\* _trim: from the left, up to the first that is recent enough.
Trimmed(es, cutoff) ==
    LET n == Max({k \in 0..Len(es) : \A j \in 1..k : es[j].at < cutoff})
    IN  SubSeq(es, n + 1, Len(es))

\* record_admission
RecordAdmission(c) ==
    /\ admitting[c] # Nothing /\ Len(minted) < MaxMinted
    /\ \E at \in {admitting[c].at, clock} :
         LET e == [issuer |-> admitting[c].issuer, at |-> at]
         IN  /\ events' = Trimmed(Append(events, e), at - Retention)
             /\ minted' = Append(minted, e)
    /\ admitting' = [admitting EXCEPT ![c] = Nothing]
    /\ UNCHANGED <<clock, callers, scores>>

Next ==
    \/ Tick
    \/ \E i \in Issuer : Reward(i) \/ Penalize(i)
    \/ \E c \in Caller, i \in Issuer, p \in Proofs : Evaluate(c, i, p)
    \/ \E c \in Caller : Abandon(c) \/ RecordAdmission(c)

Spec == Init /\ [][Next]_vars

-----------------------------------------------------------------------------
MintedIn(is, from, to) ==
    Cardinality({n \in DOMAIN minted : minted[n].issuer \in is /\ minted[n].at \in from..to})

\* In no window does an issuer, or a whole tenant, mint more identities than its
\* quota and one for each further caller: check and record are separate, so
\* callers that overlap may each find the last place free (evaluate,
\* record_admission, the trimming of the ledger).
QuotaHeld ==
    LET slack == Cardinality(callers) - 1
    IN  \A i \in Issuer : \A a \in 0..MaxTime :
          /\ MintedIn({i}, a, a + Window) <= MaxPerIssuer + slack
          /\ MintedIn(Tenants(i), a, a + Window) <= MaxPerTenant + slack

=============================================================================
