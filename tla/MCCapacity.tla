---------------------------- MODULE MCCapacity ----------------------------
(***************************************************************************)
(* A small instance of Capacity, beside one of RateLimiter and one of      *)
(* Sybil: the ways a caller is turned away for load.  They share nothing,  *)
(* so a behaviour exercises one of them: `focus` says which, and for       *)
(* Capacity whether the callers of the three pools contend, or the tenants *)
(* of one of them, and whether these release under the tenant they         *)
(* acquired for.                                                           *)
(***************************************************************************)
EXTENDS Capacity

CONSTANTS Identity, EffectiveLimit, Window, MaxTime, MaxBucket,
          Issuer, TenantOf, Admitter, Proofs, MaxPerIssuer, MaxPerTenant,
          MinReputation, InitialScore, Floor, Ceiling, MinWorkUnits, Nothing, MaxMinted,
          MintWindow, Retention, MaxDay, DecayInterval, DecayPerInterval, Amount

VARIABLES
    focus,
    clock, bucket, granted,
    day, callers, events, scores, admitting, minted

L == INSTANCE RateLimiter

Y == INSTANCE Sybil WITH
       clock <- day, Caller <- Admitter, Window <- MintWindow, MaxTime <- MaxDay

ASSUME LimiterAssumption == L!LimiterConstants
ASSUME SybilAssumption == Y!SybilConstants

\* The default thresholds, and half of the headroom at a time.
MCStress == <<85, 100>>
MCSlack == <<30, 100>>
MCFraction == <<1, 2>>

\* A slack donor and two stressed recipients, of which "d" has three tenants
\* that trade burst; and a ceiling of "d" above what the floors leave.
MCPools == <<"s", "c", "d">>
MCReserved == [s |-> 1, c |-> 1, d |-> 1]
MCCeilings == {[s |-> 4, c |-> 1, d |-> 3], [s |-> 1, c |-> 1, d |-> 5]}
MCBudgets == << <<"d", "t1">>, <<"d", "t2">>, <<"d", "t3">> >>
MCReserve == [k \in Key |-> IF k[2] = "t3" THEN 1 ELSE 0]
MCBurst == [k \in Key |-> IF k[2] = "t3" THEN 3 ELSE 1]

\* One identity has an override.
MCLimit == [i \in Identity |-> IF i = "a" THEN 1 ELSE 2]

\* Two issuers of one trust domain.
MCTenantOf == [i \in Issuer |-> "home"]
MCProofs ==
    {[issuer |-> i, work |-> 1, intact |-> TRUE] : i \in Issuer}
    \cup {[issuer |-> "x", work |-> 0, intact |-> TRUE],
          [issuer |-> "x", work |-> 1, intact |-> FALSE]}

Active ==
    [pools |-> Pool \X {NoTenant}, tenants |-> Key \cup {<<"d", NoTenant>>},
     strays |-> {<<"d", "t1">>, <<"d", "t3">>, <<"d", NoTenant>>}, limiter |-> {}, sybil |-> {}]

limiterVars == <<clock, bucket, granted>>
sybilVars == <<day, callers, events, scores, admitting, minted>>

MCInit ==
    /\ Init /\ L!Init /\ Y!Init
    /\ focus \in DOMAIN Active
    /\ focus = "sybil" \/ callers = Admitter

MCNext ==
    \/ /\ IF focus = "strays" THEN Next ELSE HonestNext
       /\ \A k \in Caller : held'[k] > 0 => k \in Active[focus]
       /\ focus \notin {"limiter", "sybil"}
       /\ UNCHANGED <<focus, limiterVars, sybilVars>>
    \/ focus = "limiter" /\ L!Next /\ UNCHANGED <<focus, vars, sybilVars>>
    \/ focus = "sybil" /\ Y!Next /\ UNCHANGED <<focus, vars, limiterVars>>

MCSpec == MCInit /\ [][MCNext]_<<focus, vars, limiterVars, sybilVars>>

\* The counters are exact; those of the tenants where callers name the tenant
\* they acquired for (acquire, release).
AccountsExact == PoolAccountExact /\ (focus # "strays" => TenantAccountExact)

\* The properties of RateLimiter and Sybil.
WindowRespected == L!WindowRespected
QuotaHeld == Y!QuotaHeld

=============================================================================
