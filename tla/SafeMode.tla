----------------------------- MODULE SafeMode -----------------------------
(***************************************************************************)
(* The compound-failure engine of envelope/safe_mode_engine.py, with the   *)
(* signed approvals of envelope/signed_safe_mode.py in front of its manual *)
(* downgrade.                                                              *)
(*                                                                         *)
(* The engine keeps the current state and, for each kind of trigger, the   *)
(* trigger that is active.  A state S0..S4 is its rank in _STATE_RANK and  *)
(* a category its rank in _CATEGORY_RANK.  Every StateTransition an        *)
(* operation returns is kept in `transitions`, as the runtime that wires   *)
(* side effects to them would see it.                                      *)
(***************************************************************************)
EXTENDS Integers, Sequences, SequencesExt

CONSTANTS
    Kind,           \* the kinds of trigger
    Triggers,       \* the triggers the detectors may report
    Approvals,      \* the signed downgrade approvals in circulation
    MaxSkew,        \* max_clock_skew
    MaxTtl,         \* max_approval_ttl
    MaxTime,        \* bound on the clock
    MaxTransitions  \* bound on the transitions of a behaviour

\* _STATE_RANK and _CATEGORY_RANK
S0 == 0
State == 0..4
Category == 0..3

\* Trigger.__post_init__ refuses minimum_state S0.
Trigger == [kind : Kind, category : Category, minimum : State \ {S0}]

\* SignedDowngradeApproval; genuine: the issuer is known and the signature
\* verifies under its key.
Approval == [authority : Category, issued : Int, nbf : Int, exp : Int,
             genuine : BOOLEAN]

ASSUME SafeModeAssumption ==
    /\ Triggers \subseteq Trigger
    /\ Approvals \subseteq Approval
    /\ MaxSkew \in Nat /\ MaxTtl \in Nat
    /\ MaxTime \in Nat /\ MaxTransitions \in Nat

VARIABLES
    current,        \* the state
    active,         \* active[k]: the set holding the active trigger of kind k, if any
    transitions,    \* the StateTransitions returned so far
    clock,          \* the time, in seconds
    standing        \* history: the triggers observed since their kind was last cleared

vars == <<current, active, transitions, clock, standing>>

-----------------------------------------------------------------------------
\* self._active.values() and self._active.keys()
ActiveTriggers(act) == UNION {act[k] : k \in Kind}

ActiveKinds(act) == {k \in Kind : act[k] # {}}

\* max_state: the most severe of the states, S0 if there is none.
MaxState(states) ==
    CHOOSE s \in State :
        /\ s = S0 \/ s \in states
        /\ \A r \in states : r <= s

\* _compute_state
ComputeState(act) == MaxState({t.minimum : t \in ActiveTriggers(act)})

\* _maybe_transition: adopt the state the active triggers require; record a
\* transition when it differs.
MaybeTransition(cause, act) ==
    LET new == ComputeState(act)
    IN  /\ current' = new
        /\ transitions' =
             IF new = current THEN transitions
             ELSE Append(transitions,
                         [from |-> current, to |-> new, cause |-> cause,
                          kinds |-> ActiveKinds(act)])

\* Mutant of Supplants: the latest trigger of a kind always wins.
SupplantsAlways(trigger, existing) == TRUE

\* observe keeps the active trigger of the kind unless the new one is more
\* severe.
Supplants(trigger, existing) ==
    \A e \in existing : trigger.minimum > e.minimum

-----------------------------------------------------------------------------
Init ==
    /\ current = S0
    /\ active = [k \in Kind |-> {}]
    /\ transitions = <<>>
    /\ clock = 0
    /\ standing = {}

Tick ==
    /\ clock < MaxTime
    /\ clock' = clock + 1
    /\ UNCHANGED <<current, active, transitions, standing>>

WithinBound == Len(transitions) < MaxTransitions

\* observe
Observe(trigger) ==
    /\ WithinBound
    /\ standing' = standing \cup {trigger}
    /\ IF Supplants(trigger, active[trigger.kind])
         THEN /\ active' = [active EXCEPT ![trigger.kind] = {trigger}]
              /\ MaybeTransition("trigger", active')
         ELSE UNCHANGED <<active, current, transitions>>
    /\ UNCHANGED clock

\* clear
Clear(kind) ==
    /\ WithinBound
    /\ active[kind] # {}
    /\ active' = [active EXCEPT ![kind] = {}]
    /\ standing' = {t \in standing : t.kind # kind}
    /\ MaybeTransition("clear", active')
    /\ UNCHANGED clock

\* verify_downgrade_approval
ValidApproval(app) ==
    /\ app.issued <= app.nbf /\ app.nbf <= app.exp
    /\ app.exp - app.nbf <= MaxTtl
    /\ app.nbf <= clock + MaxSkew
    /\ clock - MaxSkew <= app.exp
    /\ app.genuine

\* The approval does not rank below any active trigger.
Authorized(authority) ==
    \A t \in ActiveTriggers(active) : t.category <= authority

\* The guards of downgrade, in order: not an elevation, authorized, and not
\* below what the active triggers require.
MayDowngrade(to, authority) ==
    /\ to <= current
    /\ Authorized(authority)
    /\ ComputeState(active) <= to

\* verified_downgrade; a refusal raises and changes nothing.
VerifiedDowngrade(to, app) ==
    /\ WithinBound
    /\ ValidApproval(app)
    /\ MayDowngrade(to, app.authority)
    /\ current' = to
    /\ transitions' =
         Append(transitions,
                [from |-> current, to |-> to, cause |-> "downgrade",
                 kinds |-> ActiveKinds(active)])
    /\ UNCHANGED <<active, clock, standing>>

Next ==
    \/ Tick
    \/ \E t \in Triggers : Observe(t)
    \/ \E k \in Kind : Clear(k)
    \/ \E to \in State, app \in Approvals : VerifiedDowngrade(to, app)

Spec == Init /\ [][Next]_vars

-----------------------------------------------------------------------------
Transition == [from : State, to : State, cause : {"trigger", "clear", "downgrade"},
               kinds : SUBSET Kind]

TypeOK ==
    /\ current \in State
    /\ active \in [Kind -> SUBSET Triggers]
    /\ transitions \in Seq(Transition)
    /\ clock \in Nat
    /\ standing \subseteq Triggers

\* "Compound failures always result in predictable state": the state is the
\* most severe minimum among everything observed since its kind was last
\* cleared, whatever the order of the observations and whatever approvals were
\* used in between.
WorstStanding ==
    /\ \A t \in standing : t.minimum <= current
    /\ current # S0 => \E t \in standing : t.minimum = current

\* Observing only raises the state, clearing only lowers it, and a manual
\* downgrade, although it is recorded as a transition, leaves it where it is.
TransitionDirections ==
    \A i \in 1..Len(transitions) :
        LET x == transitions[i]
        IN  /\ x.cause = "trigger" => x.from < x.to
            /\ x.cause = "clear" => x.to < x.from
            /\ x.cause = "downgrade" => x.to = x.from

\* The returned transitions tell the whole history: each starts where the last
\* one ended, the first from S0, the last ends in the current state, and
\* a transition leaves no kind active exactly when it ends in S0.
TransitionsLinked ==
    /\ \A i \in 1..Len(transitions) :
         /\ transitions[i].from =
              IF i = 1 THEN S0 ELSE transitions[i - 1].to
         /\ transitions[i].kinds = {} <=> transitions[i].to = S0
    /\ current = IF transitions = <<>> THEN S0
                 ELSE transitions[Len(transitions)].to

\* The transitions observe, clear and downgrade return are a faithful log.
TransitionsFaithful == TransitionDirections /\ TransitionsLinked

\* Both what SafeModeEngine is in and what it has told its callers follow from
\* what was observed and cleared.
ModeFaithful == WorstStanding /\ TransitionsFaithful

\* The state only ever falls in a step that clears a trigger: no approval, stale
\* or fresh, and no further observation relaxes it.
LoweredOnlyByClear ==
    [][current' < current => ActiveTriggers(active') # ActiveTriggers(active)
                             /\ ActiveTriggers(active') \subseteq ActiveTriggers(active)]_vars

=============================================================================
