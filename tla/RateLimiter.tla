---------------------------- MODULE RateLimiter ----------------------------
(***************************************************************************)
(* IdentityRateLimiter of envelope/rate_limiter.py: a sliding window of    *)
(* the times of all checks, refused ones included.                         *)
(***************************************************************************)
EXTENDS Integers, Sequences, FiniteSetsExt

CONSTANTS
    Identity,
    EffectiveLimit,     \* EffectiveLimit[i]: limit, or the override for i
    Window,
    MaxTime, MaxBucket  \* bounds on the clock and on the length of a bucket

LimiterConstants ==
    /\ EffectiveLimit \in [Identity -> Nat \ {0}]
    /\ Window \in Nat \ {0}
    /\ MaxTime \in Nat /\ MaxBucket \in Nat

VARIABLES
    clock,
    bucket,     \* bucket[i]: _buckets, the times of the checks in the window
    granted     \* history: granted[i], the times of the allowed checks since
                \* the last reset

limiterVars == <<bucket, granted>>

-----------------------------------------------------------------------------
\* Mutant of Purged: the end of the window is not in the window.
PurgedEarly(b, cutoff) ==
    LET n == Max({k \in 0..Len(b) : \A j \in 1..k : b[j] <= cutoff})
    IN  SubSeq(b, n + 1, Len(b))

\* The loop that drops what fell out of the window from the left.
Purged(b, cutoff) ==
    LET n == Max({k \in 0..Len(b) : \A j \in 1..k : b[j] < cutoff})
    IN  SubSeq(b, n + 1, Len(b))

\* The bucket after a check at t: purge, then append, whatever the outcome.
Recorded(b, t) == Append(Purged(b, t - Window), t)

Allowed(i, b) == Len(b) <= EffectiveLimit[i]

\* check(i) at the current time.  The retry_after of a refusal is advice to the
\* caller and is left out.
Check(i) ==
    LET b == Recorded(bucket[i], clock)
    IN  /\ Len(b) <= MaxBucket
        /\ bucket' = [bucket EXCEPT ![i] = b]
        /\ granted' = IF Allowed(i, b) THEN [granted EXCEPT ![i] = Append(@, clock)] ELSE granted

\* reset({i}).
Reset(i) ==
    /\ bucket' = [bucket EXCEPT ![i] = <<>>]
    /\ granted' = [granted EXCEPT ![i] = <<>>]

-----------------------------------------------------------------------------
InitLimiter ==
    /\ bucket = [i \in Identity |-> <<>>]
    /\ granted = [i \in Identity |-> <<>>]

Init == clock = 0 /\ InitLimiter

Tick ==
    /\ clock < MaxTime
    /\ clock' = clock + 1
    /\ UNCHANGED limiterVars

Next ==
    \/ Tick
    \/ \E i \in Identity : (Check(i) \/ Reset(i)) /\ UNCHANGED clock

Spec == Init /\ [][Next]_<<clock, bucket, granted>>

-----------------------------------------------------------------------------
(* Properties *)

\* In no window of the configured length, both ends included, are more checks
\* of an identity allowed than its limit.
WindowRespected ==
    \A i \in Identity : \A a \in 0..MaxTime :
        Cardinality({n \in DOMAIN granted[i] : granted[i][n] \in a..(a + Window)})
            <= EffectiveLimit[i]

=============================================================================
