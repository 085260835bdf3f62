-------------------------- MODULE SafeModeProofs --------------------------
(***************************************************************************)
(* Proofs about what operators run beside the verifiers, each part on its  *)
(* own: the safe-mode engine, the rollout of policies (P), the convergence *)
(* of revocations (C), quarantine (Q) and where data may go (I), for any   *)
(* constants the modules admit.                                            *)
(*                                                                         *)
(* The engine's argument: the current state is the floor the active        *)
(* triggers require, and the active trigger of a kind is the most severe   *)
(* one observed since the kind was last cleared.                           *)
(*                                                                         *)
(* Where data may go: every datum carries a class no lower than that of    *)
(* anything ingested into it, and a lineage that begins with an actor whose *)
(* tenant is one of those ingested; prompts hold data.  That the first n of *)
(* a sort and the replaced matches of a text exist goes by induction along *)
(* the order, adding elements at its end.                                  *)
(***************************************************************************)
EXTENDS MCOperations, SequenceTheorems, FiniteSetTheorems, WellFoundedInduction, TLAPS

\* max_state returns a state, S0 or one of its arguments, that none exceeds.
LEMMA MaxStateFacts ==
    ASSUME NEW states \in SUBSET State
    PROVE  /\ MaxState(states) \in State
           /\ MaxState(states) = S0 \/ MaxState(states) \in states
           /\ \A r \in states : r <= MaxState(states)
<1>1. \E s \in State : /\ s = S0 \/ s \in states
                       /\ \A r \in states : r <= s
  <2>1. CASE 4 \in states
    BY <2>1 DEF State
  <2>2. CASE 4 \notin states /\ 3 \in states
    BY <2>2 DEF State
  <2>3. CASE 4 \notin states /\ 3 \notin states /\ 2 \in states
    BY <2>3 DEF State
  <2>4. CASE 4 \notin states /\ 3 \notin states /\ 2 \notin states /\ 1 \in states
    BY <2>4 DEF State
  <2>5. CASE \A i \in 1..4 : i \notin states
    BY <2>5 DEF State, S0
  <2> QED
    BY <2>1, <2>2, <2>3, <2>4, <2>5
<1> QED
  BY <1>1 DEF MaxState

\* The active triggers of a well-formed map.
ActiveMap == {act \in [Kind -> SUBSET Triggers] :
                \A k \in Kind : \A t \in act[k] : t.kind = k}

\* _compute_state returns the least state that covers every active trigger,
\* and S0 only when none is active.
LEMMA ComputeStateFacts ==
    ASSUME NEW act \in ActiveMap
    PROVE  /\ ComputeState(act) \in State
           /\ \A k \in Kind : \A t \in act[k] : t.minimum <= ComputeState(act)
           /\ ComputeState(act) # S0 =>
                \E k \in Kind : \E t \in act[k] : t.minimum = ComputeState(act)
           /\ ActiveKinds(act) = {} <=> ComputeState(act) = S0
<1> DEFINE mins == {t.minimum : t \in ActiveTriggers(act)}
<1>1. \A k \in Kind : \A t \in act[k] : t \in Trigger
  BY SafeModeAssumption DEF ActiveMap
<1>2. mins \in SUBSET State
  BY <1>1 DEF ActiveTriggers, Trigger
<1>3. /\ ComputeState(act) \in State
      /\ ComputeState(act) = S0 \/ ComputeState(act) \in mins
      /\ \A r \in mins : r <= ComputeState(act)
  BY <1>2, MaxStateFacts DEF ComputeState
<1>4. \A k \in Kind : \A t \in act[k] : t.minimum \in mins
  BY DEF ActiveTriggers
<1>5. \A r \in mins : \E k \in Kind : \E t \in act[k] : t.minimum = r
  BY DEF ActiveTriggers
<1>6. ActiveKinds(act) = {} => ComputeState(act) = S0
  BY <1>3, <1>5 DEF ActiveKinds
<1>7. ASSUME ComputeState(act) = S0, ActiveKinds(act) # {} PROVE FALSE
  <2>1. PICK k \in Kind : act[k] # {}
    BY <1>7 DEF ActiveKinds
  <2>2. PICK t \in act[k] : t.minimum \in mins
    BY <2>1, <1>4
  <2>3. t.minimum \in State \ {S0} /\ t.minimum <= S0
    BY <1>1, <2>1, <2>2, <1>3, <1>7 DEF Trigger
  <2> QED
    BY <2>3 DEF State, S0
<1> QED
  BY <1>3, <1>4, <1>5, <1>6, <1>7

\* _compute_state is monotone: a map whose triggers cover those of another
\* requires at least as severe a state.
LEMMA ComputeStateMonotone ==
    ASSUME NEW a \in ActiveMap, NEW b \in ActiveMap,
           \A k \in Kind : \A t \in a[k] : \E u \in b[k] : t.minimum <= u.minimum
    PROVE  ComputeState(a) <= ComputeState(b)
<1>1. CASE ComputeState(a) = S0
  BY <1>1, ComputeStateFacts DEF State, S0
<1>2. CASE ComputeState(a) # S0
  <2>1. PICK k \in Kind : \E t \in a[k] : t.minimum = ComputeState(a)
    BY <1>2, ComputeStateFacts
  <2>2. PICK t \in a[k] : t.minimum = ComputeState(a)
    BY <2>1
  <2>3. PICK u \in b[k] : t.minimum <= u.minimum
    BY <2>1, <2>2
  <2>4. u.minimum <= ComputeState(b) /\ u \in Trigger
    BY <2>1, <2>3, ComputeStateFacts, SafeModeAssumption DEF ActiveMap
  <2>5. ComputeState(a) \in State /\ ComputeState(b) \in State
    BY ComputeStateFacts
  <2> QED
    BY <2>2, <2>3, <2>4, <2>5 DEF Trigger, State
<1> QED
  BY <1>1, <1>2

-----------------------------------------------------------------------------
\* The current state is the floor of the active triggers.
AtFloor == current = ComputeState(active)

\* The active trigger of a kind stands for everything observed of that kind
\* since it was last cleared.
ActiveIsWorst ==
    /\ active \in ActiveMap
    /\ \A k \in Kind : active[k] \subseteq standing
    /\ \A t \in standing : \E u \in active[t.kind] : t.minimum <= u.minimum

IInv == TypeOK /\ AtFloor /\ ActiveIsWorst

\* Replacing the trigger of one kind gives a well-formed map.
LEMMA ReplaceActive ==
    ASSUME NEW act \in ActiveMap, NEW k \in Kind, NEW set \in SUBSET Triggers,
           \A t \in set : t.kind = k
    PROVE  [act EXCEPT ![k] = set] \in ActiveMap
  BY DEF ActiveMap

\* What MaybeTransition leaves.
LEMMA MaybeTransitionFacts ==
    ASSUME TypeOK, active' \in ActiveMap,
           NEW cause \in {"trigger", "clear", "downgrade"},
           MaybeTransition(cause, active')
    PROVE  /\ current' \in State
           /\ AtFloor'
           /\ transitions' \in Seq(Transition)
<1> DEFINE new == ComputeState(active')
           x == [from |-> current, to |-> new, cause |-> cause,
                 kinds |-> ActiveKinds(active')]
<1>1. new \in State
  BY ComputeStateFacts
<1>2. x \in Transition
  BY <1>1 DEF TypeOK, Transition, ActiveKinds
<1>3. current' = new /\ transitions' \in {transitions, Append(transitions, x)}
  BY DEF MaybeTransition
<1> QED
  BY <1>1, <1>2, <1>3 DEF TypeOK, AtFloor

\* Initially nothing is active and the state is S0.
LEMMA InitIInv == Init => IInv
<1> SUFFICES ASSUME Init PROVE IInv
  OBVIOUS
<1>1. active \in ActiveMap
  BY DEF Init, ActiveMap
<1>2. ActiveKinds(active) = {}
  BY DEF Init, ActiveKinds
<1>3. AtFloor
  BY <1>1, <1>2, ComputeStateFacts DEF Init, AtFloor
<1>4. TypeOK
  BY DEF Init, TypeOK, State, S0
<1> QED
  BY <1>1, <1>3, <1>4 DEF Init, IInv, ActiveIsWorst

\* observe keeps the worst trigger of the kind.
LEMMA ObserveIInv ==
    ASSUME IInv, NEW trigger \in Triggers, Observe(trigger)
    PROVE  IInv'
<1> DEFINE k == trigger.kind
<1>0. trigger \in Trigger /\ k \in Kind /\ TypeOK
  BY SafeModeAssumption DEF Trigger, IInv
<1>1. CASE Supplants(trigger, active[k])
  <2>1. /\ active' = [active EXCEPT ![k] = {trigger}]
        /\ MaybeTransition("trigger", active')
        /\ standing' = standing \cup {trigger}
        /\ clock' = clock
    BY <1>1 DEF Observe
  <2>2. active' \in ActiveMap
    BY <1>0, <2>1, ReplaceActive DEF IInv, ActiveIsWorst
  <2>3. current' \in State /\ AtFloor' /\ transitions' \in Seq(Transition)
    BY <1>0, <2>1, <2>2, MaybeTransitionFacts
  <2>4. TypeOK'
    BY <1>0, <2>1, <2>2, <2>3 DEF TypeOK, ActiveMap
  <2>5. \A j \in Kind : active'[j] \subseteq standing'
    BY <1>0, <2>1 DEF IInv, ActiveIsWorst, TypeOK
  <2>6. ASSUME NEW t \in standing' PROVE \E u \in active'[t.kind] : t.minimum <= u.minimum
    <3>1. t \in Trigger /\ active'[k] = {trigger}
      BY <1>0, <2>1, <2>4, SafeModeAssumption DEF TypeOK
    <3>2. CASE t = trigger
      BY <3>1, <3>2 DEF Trigger, State
    <3>3. CASE t # trigger /\ t.kind = k
      <4>1. PICK u \in active[k] : t.minimum <= u.minimum
        BY <2>1, <3>3 DEF IInv, ActiveIsWorst
      <4>2. u.minimum < trigger.minimum /\ u \in Trigger
        BY <1>0, <1>1, <4>1, SafeModeAssumption DEF Supplants, TypeOK, Trigger, State
      <4> QED
        BY <1>0, <3>1, <3>3, <4>1, <4>2 DEF Trigger, State
    <3>4. CASE t # trigger /\ t.kind # k
      <4>1. t.kind \in Kind /\ active'[t.kind] = active[t.kind]
        BY <1>0, <2>1, <3>1, <3>4 DEF TypeOK, Trigger
      <4> QED
        BY <2>1, <3>4, <4>1 DEF IInv, ActiveIsWorst
    <3> QED
      BY <3>2, <3>3, <3>4
  <2> QED
    BY <2>2, <2>3, <2>4, <2>5, <2>6 DEF IInv, ActiveIsWorst
<1>2. CASE ~Supplants(trigger, active[k])
  <2>1. /\ UNCHANGED <<active, current, transitions, clock>>
        /\ standing' = standing \cup {trigger}
    BY <1>2 DEF Observe
  <2>2. PICK e \in active[k] : ~(trigger.minimum > e.minimum)
    BY <1>2 DEF Supplants
  <2>3. trigger.minimum <= e.minimum
    BY <1>0, <2>2, SafeModeAssumption DEF TypeOK, Trigger, State
  <2>4. TypeOK' /\ AtFloor'
    BY <2>1, <1>0 DEF TypeOK, IInv, AtFloor
  <2> QED
    BY <2>1, <2>2, <2>3, <2>4 DEF IInv, ActiveIsWorst
<1> QED
  BY <1>1, <1>2

\* clear forgets the kind altogether.
LEMMA ClearIInv ==
    ASSUME IInv, NEW kind \in Kind, Clear(kind)
    PROVE  IInv'
<1>1. /\ active' = [active EXCEPT ![kind] = {}]
      /\ MaybeTransition("clear", active')
      /\ standing' = {t \in standing : t.kind # kind}
      /\ clock' = clock
  BY DEF Clear
<1>2. active' \in ActiveMap
  BY <1>1, ReplaceActive DEF IInv, ActiveIsWorst
<1>3. current' \in State /\ AtFloor' /\ transitions' \in Seq(Transition)
  BY <1>1, <1>2, MaybeTransitionFacts DEF IInv
<1>4. TypeOK'
  BY <1>1, <1>2, <1>3 DEF IInv, TypeOK, ActiveMap
<1>5. \A j \in Kind : active'[j] \subseteq standing'
  BY <1>1, <1>2 DEF IInv, ActiveIsWorst, TypeOK, ActiveMap
<1>6. ASSUME NEW t \in standing' PROVE \E u \in active'[t.kind] : t.minimum <= u.minimum
  <2>1. t \in Trigger /\ t.kind # kind /\ t \in standing
    BY <1>1, SafeModeAssumption DEF IInv, TypeOK
  <2>2. active'[t.kind] = active[t.kind]
    BY <1>1, <2>1 DEF IInv, TypeOK, Trigger
  <2> QED
    BY <2>1, <2>2 DEF IInv, ActiveIsWorst
<1> QED
  BY <1>2, <1>3, <1>4, <1>5, <1>6 DEF IInv, ActiveIsWorst

\* An approval that passes every check of downgrade names the state the engine
\* is already in.
LEMMA DowngradeIsInert ==
    ASSUME IInv, NEW to \in State, NEW authority, MayDowngrade(to, authority)
    PROVE  to = current
<1>1. to <= current /\ current <= to /\ current \in State
  BY DEF IInv, AtFloor, TypeOK, MayDowngrade
<1> QED
  BY <1>1 DEF State

\* verified_downgrade keeps the engine where it is.
LEMMA DowngradeIInv ==
    ASSUME IInv, NEW to \in State, NEW app \in Approvals, VerifiedDowngrade(to, app)
    PROVE  IInv'
<1> DEFINE x == [from |-> current, to |-> to, cause |-> "downgrade",
                 kinds |-> ActiveKinds(active)]
<1>1. /\ current' = to
      /\ transitions' = Append(transitions, x)
      /\ UNCHANGED <<active, clock, standing>>
      /\ to = current
  BY DowngradeIsInert DEF VerifiedDowngrade
<1>2. x \in Transition
  BY DEF IInv, TypeOK, Transition, ActiveKinds
<1>3. TypeOK'
  BY <1>1, <1>2 DEF IInv, TypeOK
<1> QED
  BY <1>1, <1>3 DEF IInv, AtFloor, ActiveIsWorst

\* Every step preserves the invariant.
LEMMA NextIInv == IInv /\ [Next]_vars => IInv'
<1> SUFFICES ASSUME IInv, [Next]_vars PROVE IInv'
  OBVIOUS
<1>1. CASE Tick
  BY <1>1 DEF Tick, IInv, TypeOK, AtFloor, ActiveIsWorst
<1>2. CASE \E t \in Triggers : Observe(t)
  BY <1>2, ObserveIInv
<1>3. CASE \E k \in Kind : Clear(k)
  BY <1>3, ClearIInv
<1>4. CASE \E to \in State, app \in Approvals : VerifiedDowngrade(to, app)
  BY <1>4, DowngradeIInv
<1>5. CASE UNCHANGED vars
  BY <1>5 DEF vars, IInv, TypeOK, AtFloor, ActiveIsWorst
<1> QED
  BY <1>1, <1>2, <1>3, <1>4, <1>5 DEF Next

\* The engine's inductive invariant holds throughout.
LEMMA SpecIInv == Spec => []IInv
  BY InitIInv, NextIInv, PTL DEF Spec

\* Under the invariant the state is the worst of what stands.
LEMMA IInvWorst == IInv => WorstStanding
<1> SUFFICES ASSUME IInv PROVE WorstStanding
  OBVIOUS
<1>1. active \in ActiveMap /\ current = ComputeState(active) /\ current \in State
  BY DEF IInv, AtFloor, ActiveIsWorst, TypeOK
<1>2. ASSUME NEW t \in standing PROVE t.minimum <= current
  <2>1. t \in Trigger /\ t.kind \in Kind
    BY SafeModeAssumption DEF IInv, TypeOK, Trigger
  <2>2. PICK u \in active[t.kind] : t.minimum <= u.minimum
    BY DEF IInv, ActiveIsWorst
  <2>3. u.minimum <= current /\ u \in Trigger
    BY <1>1, <2>1, <2>2, ComputeStateFacts, SafeModeAssumption DEF ActiveMap
  <2> QED
    BY <1>1, <2>1, <2>2, <2>3 DEF Trigger, State
<1>3. ASSUME current # S0 PROVE \E t \in standing : t.minimum = current
  <2>1. PICK k \in Kind : \E t \in active[k] : t.minimum = current
    BY <1>1, <1>3, ComputeStateFacts
  <2> QED
    BY <2>1 DEF IInv, ActiveIsWorst
<1> QED
  BY <1>2, <1>3 DEF WorstStanding

\* The variables of the engine keep their types.
THEOREM TypeCorrect == Spec => []TypeOK
  BY SpecIInv, PTL DEF IInv

\* Compound failures give a predictable state: the most severe trigger observed
\* and not cleared since, whatever the order and the approvals used.
THEOREM PredictableState == Spec => []WorstStanding
  BY SpecIInv, IInvWorst, PTL

-----------------------------------------------------------------------------
\* observe never relaxes the state.
LEMMA ObserveRaises ==
    ASSUME IInv, NEW trigger \in Triggers, Observe(trigger)
    PROVE  current <= current'
<1> DEFINE k == trigger.kind
<1>0. trigger \in Trigger /\ k \in Kind /\ IInv'
  BY SafeModeAssumption, ObserveIInv DEF Trigger
<1>1. CASE Supplants(trigger, active[k])
  <2>1. active' = [active EXCEPT ![k] = {trigger}]
    BY <1>1 DEF Observe
  <2>2. ASSUME NEW j \in Kind, NEW t \in active[j]
        PROVE  \E u \in active'[j] : t.minimum <= u.minimum
    <3>1. t \in Trigger
      BY SafeModeAssumption DEF IInv, TypeOK
    <3>2. CASE j = k
      BY <1>0, <1>1, <2>1, <3>1, <3>2 DEF Supplants, Trigger, State, IInv, TypeOK
    <3>3. CASE j # k
      BY <2>1, <3>1, <3>3 DEF IInv, TypeOK, Trigger, State
    <3> QED
      BY <3>2, <3>3
  <2>3. ComputeState(active) <= ComputeState(active')
    BY <1>0, <2>2, ComputeStateMonotone DEF IInv, ActiveIsWorst
  <2> QED
    BY <1>0, <2>3 DEF IInv, AtFloor
<1>2. CASE ~Supplants(trigger, active[k])
  BY <1>2 DEF Observe, IInv, TypeOK, State
<1> QED
  BY <1>1, <1>2

\* clear never raises it.
LEMMA ClearLowers ==
    ASSUME IInv, NEW kind \in Kind, Clear(kind)
    PROVE  current' <= current
<1>1. active' = [active EXCEPT ![kind] = {}] /\ IInv'
  BY ClearIInv DEF Clear
<1>2. \A j \in Kind : \A t \in active'[j] : t \in active[j] /\ t.minimum <= t.minimum
  BY <1>1, SafeModeAssumption DEF IInv, TypeOK, Trigger, State
<1>3. ComputeState(active') <= ComputeState(active)
  BY <1>1, <1>2, ComputeStateMonotone DEF IInv, ActiveIsWorst
<1> QED
  BY <1>1, <1>3 DEF IInv, AtFloor

\* The step property behind LoweredOnlyByClear.
LoweredStep ==
    current' < current => /\ ActiveTriggers(active') # ActiveTriggers(active)
                          /\ ActiveTriggers(active') \subseteq ActiveTriggers(active)

\* Only clear can lower the state, and then it removes an active trigger.
LEMMA NextLowered == IInv /\ [Next]_vars => LoweredStep
<1> SUFFICES ASSUME IInv, [Next]_vars, current' < current
             PROVE  /\ ActiveTriggers(active') # ActiveTriggers(active)
                    /\ ActiveTriggers(active') \subseteq ActiveTriggers(active)
  BY DEF LoweredStep
<1>0. IInv' /\ current \in State /\ current' \in State
  BY NextIInv DEF IInv, TypeOK
<1>1. ASSUME NEW t \in Triggers, Observe(t) PROVE FALSE
  BY <1>0, <1>1, ObserveRaises DEF State
<1>2. ASSUME NEW to \in State, NEW app \in Approvals, VerifiedDowngrade(to, app) PROVE FALSE
  BY <1>0, <1>2, DowngradeIsInert DEF VerifiedDowngrade, State
<1>3. ~Tick /\ ~UNCHANGED vars
  BY <1>0 DEF Tick, vars, State
<1>4. PICK kind \in Kind : Clear(kind)
  BY <1>1, <1>2, <1>3 DEF Next
<1>5. active' = [active EXCEPT ![kind] = {}]
  BY <1>4 DEF Clear
<1>6. ActiveTriggers(active') \subseteq ActiveTriggers(active)
  BY <1>5 DEF ActiveTriggers, IInv, TypeOK
<1>7. ComputeState(active') # ComputeState(active)
  BY <1>0 DEF IInv, AtFloor, State
<1> QED
  BY <1>6, <1>7 DEF ComputeState

\* No approval and no further observation relaxes the state; only clearing a
\* trigger does.
THEOREM OnlyClearLowers == Spec => LoweredOnlyByClear
  BY SpecIInv, NextLowered, PTL DEF Spec, LoweredOnlyByClear, LoweredStep

-----------------------------------------------------------------------------
\* What one returned transition says.
Direction(x) ==
    /\ x.cause = "trigger" => x.from < x.to
    /\ x.cause = "clear" => x.to < x.from
    /\ x.cause = "downgrade" => x.to = x.from

\* A step returns no transition, or one from the current state to the next that
\* names the kinds active afterwards.
LEMMA StepTransition ==
    ASSUME IInv, [Next]_vars
    PROVE  \/ transitions' = transitions /\ current' = current
           \/ \E x \in Transition :
                /\ transitions' = Append(transitions, x)
                /\ x.from = current /\ x.to = current'
                /\ x.kinds = {} <=> x.to = S0
                /\ Direction(x)
<1>0. IInv' /\ current \in State /\ current' \in State
  BY NextIInv DEF IInv, TypeOK
<1>1. ActiveKinds(active') = {} <=> current' = S0
  BY <1>0, ComputeStateFacts DEF IInv, AtFloor, ActiveIsWorst
<1> DEFINE T(cause) == [from |-> current, to |-> current', cause |-> cause,
                        kinds |-> ActiveKinds(active')]
<1>2. \A cause \in {"trigger", "clear", "downgrade"} : T(cause) \in Transition
  BY <1>0 DEF Transition, ActiveKinds
<1>3. ASSUME NEW trigger \in Triggers, Observe(trigger)
      PROVE  \/ transitions' = transitions /\ current' = current
             \/ transitions' = Append(transitions, T("trigger")) /\ current < current'
  <2>1. CASE Supplants(trigger, active[trigger.kind])
    <3>1. MaybeTransition("trigger", active')
      BY <1>3, <2>1 DEF Observe
    <3>2. current <= current'
      BY <1>3, ObserveRaises
    <3> QED
      BY <1>0, <3>1, <3>2 DEF MaybeTransition, State
  <2>2. CASE ~Supplants(trigger, active[trigger.kind])
    BY <1>3, <2>2 DEF Observe
  <2> QED
    BY <2>1, <2>2
<1>4. ASSUME NEW kind \in Kind, Clear(kind)
      PROVE  \/ transitions' = transitions /\ current' = current
             \/ transitions' = Append(transitions, T("clear")) /\ current' < current
  <2>1. MaybeTransition("clear", active') /\ current' <= current
    BY <1>4, ClearLowers DEF Clear
  <2> QED
    BY <1>0, <2>1 DEF MaybeTransition, State
<1>5. ASSUME NEW to \in State, NEW app \in Approvals, VerifiedDowngrade(to, app)
      PROVE  transitions' = Append(transitions, T("downgrade")) /\ current' = current
  BY <1>5, DowngradeIsInert DEF VerifiedDowngrade
<1>6. ASSUME Tick \/ UNCHANGED vars
      PROVE  transitions' = transitions /\ current' = current
  BY <1>6 DEF Tick, vars
<1>7. \/ transitions' = transitions /\ current' = current
      \/ transitions' = Append(transitions, T("trigger")) /\ current < current'
      \/ transitions' = Append(transitions, T("clear")) /\ current' < current
      \/ transitions' = Append(transitions, T("downgrade")) /\ current' = current
  BY <1>3, <1>4, <1>5, <1>6 DEF Next
<1>8. ASSUME current < current' PROVE Direction(T("trigger"))
  BY <1>8 DEF Direction
<1>9. ASSUME current' < current PROVE Direction(T("clear"))
  BY <1>9 DEF Direction
<1>10. ASSUME current' = current PROVE Direction(T("downgrade"))
  BY <1>10 DEF Direction
<1>11. \A cause \in {"trigger", "clear", "downgrade"} :
         /\ T(cause).from = current /\ T(cause).to = current'
         /\ T(cause).kinds = {} <=> T(cause).to = S0
  BY <1>1
<1> HIDE DEF T
<1> QED
  BY <1>2, <1>7, <1>8, <1>9, <1>10, <1>11

\* Initially no transition was returned.
LEMMA InitTransitions == Init => TransitionDirections /\ TransitionsLinked
  BY DEF Init, TransitionDirections, TransitionsLinked

\* Each step adds at most one transition, which continues the record.
LEMMA NextTransitions ==
    IInv /\ TransitionDirections /\ TransitionsLinked /\ [Next]_vars
      => TransitionDirections' /\ TransitionsLinked'
<1> SUFFICES ASSUME IInv, TransitionDirections, TransitionsLinked, [Next]_vars
             PROVE  TransitionDirections' /\ TransitionsLinked'
  OBVIOUS
<1>1. CASE transitions' = transitions /\ current' = current
  BY <1>1 DEF TransitionDirections, TransitionsLinked
<1>2. CASE \E x \in Transition :
             /\ transitions' = Append(transitions, x)
             /\ x.from = current /\ x.to = current'
             /\ x.kinds = {} <=> x.to = S0
             /\ Direction(x)
  <2>1. PICK x \in Transition :
             /\ transitions' = Append(transitions, x)
             /\ x.from = current /\ x.to = current'
             /\ x.kinds = {} <=> x.to = S0
             /\ Direction(x)
    BY <1>2
  <2>2. /\ transitions \in Seq(Transition) /\ Len(transitions) \in Nat
        /\ Len(transitions') = Len(transitions) + 1
        /\ transitions'[Len(transitions) + 1] = x
        /\ \A i \in 1..Len(transitions) : transitions'[i] = transitions[i]
    BY <2>1 DEF IInv, TypeOK
  <2>3. TransitionDirections'
    BY <2>1, <2>2 DEF TransitionDirections, Direction
  <2>4. current' = IF transitions' = <<>> THEN S0 ELSE transitions'[Len(transitions')].to
    BY <2>1, <2>2
  <2>5. ASSUME NEW i \in 1..Len(transitions')
        PROVE  /\ transitions'[i].from = IF i = 1 THEN S0 ELSE transitions'[i - 1].to
               /\ transitions'[i].kinds = {} <=> transitions'[i].to = S0
    <3>1. CASE i \in 1..Len(transitions)
      <4>1. i # 1 => i - 1 \in 1..Len(transitions)
        BY <2>2, <3>1
      <4> QED
        BY <2>2, <3>1, <4>1 DEF TransitionsLinked
    <3>2. CASE i = Len(transitions) + 1
      <4>1. CASE i = 1
        <5>1. transitions = <<>>
          BY <2>2, <3>2, <4>1
        <5> QED
          BY <2>1, <2>2, <3>2, <4>1, <5>1 DEF TransitionsLinked
      <4>2. CASE i # 1
        <5>1. transitions # <<>> /\ i - 1 = Len(transitions) /\ i - 1 \in 1..Len(transitions)
          BY <2>2, <3>2, <4>2
        <5> QED
          BY <2>1, <2>2, <3>2, <4>2, <5>1 DEF TransitionsLinked
      <4> QED
        BY <4>1, <4>2
    <3> QED
      BY <2>2, <3>1, <3>2
  <2>6. TransitionsLinked'
    BY <2>4, <2>5 DEF TransitionsLinked
  <2> QED
    BY <2>3, <2>6
<1> QED
  BY <1>1, <1>2, StepTransition

\* The returned transitions are a faithful log of the state, and a manual
\* downgrade never appears in it as a change.
THEOREM FaithfulTransitions == Spec => []TransitionsFaithful
  BY SpecIInv, InitTransitions, NextTransitions, PTL DEF Spec, TransitionsFaithful

\* State and log together: SafeModeEngine is where its triggers put it, and the
\* transitions it returned lead there.
THEOREM FaithfulMode == Spec => []ModeFaithful
  BY PredictableState, FaithfulTransitions, PTL DEF ModeFaithful

-----------------------------------------------------------------------------
(* The rollout of policies *)

\* The versions in a file that parses, or about to be written, are those in force
\* or newer, and the one under way is newer.
GuardRight ==
    /\ inForce \in [P!Issuer -> Int]
    /\ stage \in {"idle", "checked", "writing", "accepted"}
    /\ file = Torn \/ (file \in [P!Issuer -> Int] /\ \A i \in P!Issuer : file[i] >= inForce[i])
    /\ stage # "idle" => bundle \in Bundles
    /\ stage = "checked" => bundle.version > inForce[bundle.issuer]
    /\ stage \in {"writing", "accepted"} =>
         /\ data \in [P!Issuer -> Int] /\ \A i \in P!Issuer : data[i] >= inForce[i]
         /\ data[bundle.issuer] = bundle.version /\ bundle.version > inForce[bundle.issuer]
    /\ stage = "writing" => file = Torn
    /\ stage = "accepted" => file = data

\* The counter is exact, and the switch is thrown when it is full.
CanaryRight ==
    /\ denied \in Nat /\ denials = denied /\ denied <= RollbackAfterDenials
    /\ denied = RollbackAfterDenials => rolledBack

RolloutInv == GuardRight /\ CanaryRight

LEMMA RolloutInit == P!Init => RolloutInv
<1> SUFFICES ASSUME P!Init PROVE RolloutInv OBVIOUS
<1>1. RollbackAfterDenials \in Nat /\ RollbackAfterDenials > 0
  BY RolloutAssumption DEF P!RolloutConstants
<1>2. GuardRight BY DEF P!Init, GuardRight
<1>3. CanaryRight BY <1>1 DEF P!Init, CanaryRight
<1> QED BY <1>2, <1>3 DEF RolloutInv

\* A step of the loader or the policy, and what it does to the versions in force
\* and to the count.
LEMMA RolloutStep ==
    ASSUME RolloutInv, [P!Next]_(P!vars)
    PROVE  /\ RolloutInv'
           /\ \A i \in P!Issuer : inForce'[i] # inForce[i] => inForce'[i] > inForce[i]
<1> USE DEF RolloutInv
<1>1. /\ \A b \in Bundles : b.version \in Int /\ b.issuer \in P!Issuer
      /\ RollbackAfterDenials \in Nat /\ RollbackAfterDenials > 0
  BY RolloutAssumption DEF P!RolloutConstants, P!Issuer
<1>2. ASSUME NEW b \in Bundles, P!Load(b)
      PROVE  RolloutInv' /\ inForce' = inForce
  <2>1. /\ stage' = "checked" /\ bundle' = b /\ file # Torn /\ b.version > file[b.issuer]
        /\ UNCHANGED <<file, data, inForce, denials, denied, rolledBack>>
    BY <1>2 DEF P!Load, P!Contents, P!canaryVars
  <2>2. file[b.issuer] \in Int /\ file[b.issuer] >= inForce[b.issuer] /\ inForce[b.issuer] \in Int
    BY <1>1, <2>1 DEF GuardRight
  <2>3. GuardRight' BY <1>1, <2>1, <2>2 DEF GuardRight
  <2>4. CanaryRight' BY <2>1 DEF CanaryRight
  <2> QED BY <2>1, <2>3, <2>4
<1>3. CASE P!StartPut
  <2>1. /\ stage = "checked" /\ stage' = "writing" /\ file' = Torn /\ file # Torn
        /\ data' = [file EXCEPT ![bundle.issuer] = bundle.version]
        /\ UNCHANGED <<bundle, inForce, denials, denied, rolledBack>>
    BY <1>3 DEF P!StartPut, P!Contents, P!canaryVars
  <2>2. bundle \in Bundles /\ bundle.version \in Int /\ bundle.issuer \in P!Issuer
    BY <1>1, <2>1 DEF GuardRight
  <2>3. /\ file \in [P!Issuer -> Int] /\ \A i \in P!Issuer : file[i] >= inForce[i]
        /\ inForce \in [P!Issuer -> Int] /\ bundle.version > inForce[bundle.issuer]
    BY <2>1 DEF GuardRight
  <2>4. /\ data' \in [P!Issuer -> Int] /\ data'[bundle.issuer] = bundle.version
        /\ \A i \in P!Issuer : data'[i] >= inForce[i]
    BY <2>1, <2>2, <2>3
  <2>5. GuardRight' BY <2>1, <2>2, <2>3, <2>4 DEF GuardRight
  <2>6. CanaryRight' BY <2>1 DEF CanaryRight
  <2> QED BY <2>1, <2>5, <2>6
<1>4. CASE P!FinishPut
  <2>1. /\ stage = "writing" /\ stage' = "accepted" /\ file' = data
        /\ UNCHANGED <<bundle, data, inForce, denials, denied, rolledBack>>
    BY <1>4 DEF P!FinishPut, P!canaryVars
  <2>2. GuardRight' BY <2>1 DEF GuardRight
  <2>3. CanaryRight' BY <2>1 DEF CanaryRight
  <2> QED BY <2>1, <2>2, <2>3
<1>5. ASSUME NEW promoted \in BOOLEAN, P!Deploy(promoted)
      PROVE  /\ RolloutInv'
             /\ \A i \in P!Issuer : inForce'[i] # inForce[i] => inForce'[i] > inForce[i]
  <2>1. /\ stage = "accepted" /\ stage' = "idle" /\ denials' = 0 /\ denied' = 0
        /\ inForce' = [inForce EXCEPT ![bundle.issuer] = bundle.version]
        /\ UNCHANGED <<file, data>>
    BY <1>5 DEF P!Deploy
  <2>2. /\ bundle \in Bundles /\ bundle.version \in Int /\ bundle.issuer \in P!Issuer
        /\ inForce \in [P!Issuer -> Int] /\ file = data /\ data \in [P!Issuer -> Int]
        /\ data[bundle.issuer] = bundle.version /\ bundle.version > inForce[bundle.issuer]
        /\ \A i \in P!Issuer : data[i] >= inForce[i]
    BY <1>1, <2>1 DEF GuardRight
  <2>3. /\ inForce' \in [P!Issuer -> Int] /\ inForce'[bundle.issuer] = bundle.version
        /\ \A i \in P!Issuer : i # bundle.issuer => inForce'[i] = inForce[i]
    BY <2>1, <2>2
  <2>4. \A i \in P!Issuer : file'[i] >= inForce'[i] BY <2>1, <2>2, <2>3
  <2>5. GuardRight' BY <2>1, <2>2, <2>3, <2>4 DEF GuardRight
  <2>6. CanaryRight' BY <1>1, <2>1 DEF CanaryRight
  <2> QED BY <2>2, <2>3, <2>5, <2>6
<1>6. ASSUME NEW r \in Request, P!Evaluate(r)
      PROVE  RolloutInv' /\ inForce' = inForce
  <2> DEFINE denies == P!SelectsCandidate(r) /\ r \notin candidate
  <2>1. /\ denials' = (IF denies THEN denials + 1 ELSE denials)
        /\ denied' = (IF denies THEN denied + 1 ELSE denied)
        /\ rolledBack' = (rolledBack \/ (denies /\ denials + 1 >= RollbackAfterDenials))
        /\ UNCHANGED <<file, stage, bundle, data, inForce>>
    BY <1>6 DEF P!Evaluate, P!RollsBack, P!guardVars
  <2>2. denies => ~rolledBack BY DEF P!SelectsCandidate
  <2> HIDE DEF denies
  <2>3. (rolledBack => rolledBack') /\ (denies /\ denials + 1 >= RollbackAfterDenials => rolledBack')
    BY <2>1, Zenon
  <2>4. ASSUME denies PROVE CanaryRight'
    <3>1. denied \in Nat /\ denials = denied /\ denied < RollbackAfterDenials
      BY <1>1, <2>2, <2>4 DEF CanaryRight
    <3>2. denied' = denied + 1 /\ denials' = denials + 1 BY <2>1, <2>4
    <3>3. denied' = RollbackAfterDenials => rolledBack' BY <1>1, <2>3, <2>4, <3>1, <3>2
    <3>4. denied' \in Nat /\ denials' = denied' /\ denied' <= RollbackAfterDenials
      BY <1>1, <3>1, <3>2
    <3> QED BY <3>3, <3>4, Zenon DEF CanaryRight
  <2>5. ASSUME ~denies PROVE CanaryRight'
    <3>1. denied' = denied /\ denials' = denials BY <2>1, <2>5
    <3>2. denied' \in Nat /\ denials' = denied' /\ denied' <= RollbackAfterDenials
      BY <3>1 DEF CanaryRight
    <3>3. denied' = RollbackAfterDenials => rolledBack' BY <2>3, <3>1 DEF CanaryRight
    <3> QED BY <3>2, <3>3, Zenon DEF CanaryRight
  <2>6. GuardRight' BY <2>1 DEF GuardRight
  <2> QED BY <2>1, <2>4, <2>5, <2>6
<1>7. CASE P!Crash
  <2>1. /\ stage' = "idle" /\ denials' = 0 /\ denied' = 0 /\ UNCHANGED <<file, inForce>>
    BY <1>7 DEF P!Crash
  <2>2. GuardRight' BY <2>1 DEF GuardRight
  <2>3. CanaryRight' BY <1>1, <2>1 DEF CanaryRight
  <2> QED BY <2>1, <2>2, <2>3
<1>8. CASE UNCHANGED P!vars
  <2>1. UNCHANGED <<file, stage, bundle, data, inForce, denials, denied, rolledBack>>
    BY <1>8 DEF P!vars
  <2>2. GuardRight' BY <2>1 DEF GuardRight
  <2>3. CanaryRight' BY <2>1 DEF CanaryRight
  <2> QED BY <2>1, <2>2, <2>3
<1> QED BY <1>2, <1>3, <1>4, <1>5, <1>6, <1>7, <1>8 DEF P!Next

\* Over crashes at any point of accept, also in the middle of rewriting the guard's
\* file, the versions of an issuer that go into service only rise; and a candidate
\* denies at most rollback_after_denials requests (RollbackGuard.accept,
\* CanaryPolicy.evaluate).
THEOREM RolloutsContained == P!Spec => RolloutContained
<1> DEFINE Step == /\ \A i \in P!Issuer : inForce'[i] # inForce[i] => inForce'[i] > inForce[i]
                   /\ denied' <= RollbackAfterDenials
                   /\ denied = RollbackAfterDenials => \A r \in Request : ~P!SelectsCandidate(r)
<1>1. RolloutInv /\ [P!Next]_(P!vars) => RolloutInv' BY RolloutStep
<1>2. RolloutInv /\ RolloutInv' /\ [P!Next]_(P!vars) => Step
  BY RolloutStep DEF RolloutInv, CanaryRight, P!SelectsCandidate
<1>3. P!Spec => [][Step]_(P!vars)
  <2> HIDE DEF Step
  <2> QED BY RolloutInit, <1>1, <1>2, PTL DEF P!Spec
<1> QED BY <1>3 DEF RolloutContained, P!RolloutContained

-----------------------------------------------------------------------------
(* Lists of checks *)

\* A set of numbers has a least one.
LEMMA LeastNatural ==
    ASSUME NEW N \in SUBSET Nat, N # {}
    PROVE  \E x \in N : \A y \in N : x <= y
<1>1. PICK x \in N : \A y \in N : ~(<<y, x>> \in OpToRel(<, Nat))
  BY NatLessThanWellFounded, WFMin
<1>2. ASSUME NEW y \in N PROVE x <= y
  <2>1. ~(<<y, x>> \in {ss \in Nat \X Nat : ss[1] < ss[2]}) BY <1>1 DEF OpToRel
  <2>2. ~(y < x) BY <2>1
  <2> QED BY <2>2
<1> QED BY <1>2

\* A list of checks finds nothing only when none fails, and what it reports is
\* the reason of one that does.
LEMMA FirstFailureFails ==
    ASSUME NEW X, NEW a \in Seq(X), \A x \in X : x[1] => x[2] # "ok"
    PROVE  /\ Q!FirstFailure(a) = "ok" => \A i \in 1..Len(a) : ~a[i][1]
           /\ Q!FirstFailure(a) # "ok" =>
                \E i \in 1..Len(a) : a[i][1] /\ a[i][2] = Q!FirstFailure(a)
<1> DEFINE failing == {i \in DOMAIN a : a[i][1]}
           first == CHOOSE i \in failing : \A j \in failing : i <= j
<1>1. Q!FirstFailure(a) = IF failing = {} THEN "ok" ELSE a[first][2] BY DEF Q!FirstFailure
<1>2. DOMAIN a = 1..Len(a) /\ Len(a) \in Nat OBVIOUS
<1>3. failing # {} => first \in failing
  <2> SUFFICES ASSUME failing # {} PROVE first \in failing OBVIOUS
  <2>1. failing \in SUBSET Nat BY <1>2
  <2> HIDE DEF failing
  <2>2. \E i \in failing : \A j \in failing : i <= j BY <2>1, LeastNatural
  <2> QED BY <2>2
<1> HIDE DEF first
<1>4. failing # {} => a[first] \in X /\ a[first][1] /\ first \in 1..Len(a) BY <1>2, <1>3
<1>5. failing # {} => a[first][2] # "ok" BY <1>4
<1>6. failing = {} => \A i \in 1..Len(a) : ~a[i][1] BY <1>2
<1> HIDE DEF failing
<1> QED BY <1>1, <1>4, <1>5, <1>6

\* Where a list of checks passes, both its halves do.
LEMMA PassBoth ==
    ASSUME NEW X, NEW a \in Seq(X), NEW b \in Seq(X),
           \A i \in 1..Len(a \o b) : ~(a \o b)[i][1]
    PROVE  (\A i \in 1..Len(a) : ~a[i][1]) /\ (\A i \in 1..Len(b) : ~b[i][1])
<1> DEFINE ab == a \o b
<1>1. /\ ab \in Seq(X) /\ Len(ab) = Len(a) + Len(b)
      /\ \A i \in 1..Len(a) + Len(b) : ab[i] = IF i <= Len(a) THEN a[i] ELSE b[i - Len(a)]
  BY ConcatProperties
<1>2. \A i \in 1..Len(ab) : ~ab[i][1] OBVIOUS
<1> HIDE DEF ab
<1>3. Len(a) \in Nat /\ Len(b) \in Nat OBVIOUS
<1>4. ASSUME NEW i \in 1..Len(a) PROVE ~a[i][1] BY <1>1, <1>2, <1>3
<1>5. ASSUME NEW i \in 1..Len(b) PROVE ~b[i][1]
  <2>1. /\ Len(a) + i \in 1..Len(ab) /\ ~(Len(a) + i <= Len(a)) /\ (Len(a) + i) - Len(a) = i
        /\ Len(a) + i \in 1..Len(a) + Len(b)
    BY <1>1, <1>3
  <2>2. ab[Len(a) + i] = b[i] BY <1>1, <2>1
  <2> QED BY <1>2, <2>1, <2>2
<1> QED BY <1>4, <1>5

-----------------------------------------------------------------------------
(* Quarantine *)

\* What a release says: the record is the one under review, the decision is
\* genuine, releases, and is current.
LEMMA ReleasePasses ==
    ASSUME NEW d \in Decisions, NEW o \in Outputs,
           Q!FirstFailure(Q!ReleaseChecks(d, o)) = "ok", hour \in Int
    PROVE  /\ d.record = o /\ d.verdict = "release" /\ d.flaw = "none"
           /\ hour \in (d.nbf - ReviewSkew)..(d.exp + ReviewSkew)
<1> DEFINE x1 == <<d.flaw = "malformed", "malformed">>
           x2 == <<Q!RecordDigest(d.record) # Q!RecordDigest(o), "record_mismatch">>
           y1 == <<d.iat > d.nbf \/ d.nbf > d.exp, "invalid_validity_window">>
           y2 == <<d.exp - d.nbf > MaxReviewTtl, "ttl_exceeded">>
           y3 == <<hour + ReviewSkew < d.nbf, "not_yet_valid">>
           y4 == <<hour - ReviewSkew > d.exp, "expired">>
           z1 == <<d.flaw = "unknown_issuer", "unknown_issuer">>
           z2 == <<d.flaw = "bad_key", "invalid_public_key">>
           z3 == <<d.flaw = "signature", "signature_invalid">>
           v == <<d.verdict # "release", "rejected">>
           X == {x1, x2, y1, y2, y3, y4, z1, z2, z3, v}
           a == <<x1, x2>>
           w == <<y1, y2, y3, y4>>
           k == <<z1, z2, z3>>
           b == <<v>>
<1>1. Q!FirstFailure(((a \o w) \o k) \o b) = "ok" BY DEF Q!ReleaseChecks, Q!WindowChecks, Q!KeyChecks
<1>2. /\ x1[2] # "ok" /\ x2[2] # "ok" /\ y1[2] # "ok" /\ y2[2] # "ok" /\ y3[2] # "ok"
      /\ y4[2] # "ok" /\ z1[2] # "ok" /\ z2[2] # "ok" /\ z3[2] # "ok" /\ v[2] # "ok"
  OBVIOUS
<1>3. /\ x1[1] = (d.flaw = "malformed") /\ x2[1] = (Q!RecordDigest(d.record) # Q!RecordDigest(o))
      /\ y3[1] = (hour + ReviewSkew < d.nbf) /\ y4[1] = (hour - ReviewSkew > d.exp)
      /\ z1[1] = (d.flaw = "unknown_issuer") /\ z2[1] = (d.flaw = "bad_key")
      /\ z3[1] = (d.flaw = "signature") /\ v[1] = (d.verdict # "release")
  OBVIOUS
<1> HIDE DEF x1, x2, y1, y2, y3, y4, z1, z2, z3, v
<1>4. /\ a \in Seq(X) /\ w \in Seq(X) /\ k \in Seq(X) /\ b \in Seq(X)
      /\ Len(a) = 2 /\ Len(w) = 4 /\ Len(k) = 3 /\ Len(b) = 1
      /\ a[1] = x1 /\ a[2] = x2 /\ w[3] = y3 /\ w[4] = y4
      /\ k[1] = z1 /\ k[2] = z2 /\ k[3] = z3 /\ b[1] = v
  OBVIOUS
<1>5. \A x \in X : x[2] # "ok" BY <1>2
<1> HIDE DEF a, w, k, b, X
<1>6. ASSUME \A i \in 1..Len(((a \o w) \o k) \o b) : ~(((a \o w) \o k) \o b)[i][1]
      PROVE  /\ \A i \in 1..Len(a) : ~a[i][1]
             /\ \A i \in 1..Len(w) : ~w[i][1]
             /\ \A i \in 1..Len(k) : ~k[i][1]
             /\ \A i \in 1..Len(b) : ~b[i][1]
  <2> DEFINE p == a \o w
             q == p \o k
  <2>0. a \in Seq(X) /\ w \in Seq(X) /\ k \in Seq(X) /\ b \in Seq(X) BY <1>4
  <2>1. p \in Seq(X) BY <2>0, ConcatProperties, Zenon
  <2>2. q \in Seq(X)
    <3> HIDE DEF p
    <3> QED BY <2>0, <2>1, ConcatProperties, Zenon
  <2>3. \A i \in 1..Len(q \o b) : ~(q \o b)[i][1] BY <1>6, Zenon
  <2>4. \A i \in 1..Len(b) : ~b[i][1]
    <3> HIDE DEF q
    <3> QED BY <2>0, <2>2, <2>3, PassBoth
  <2>5. \A i \in 1..Len(p \o k) : ~(p \o k)[i][1]
    <3>1. \A i \in 1..Len(q) : ~q[i][1]
      <4> HIDE DEF q
      <4> QED BY <2>0, <2>2, <2>3, PassBoth
    <3> QED BY <3>1, Zenon
  <2>6. \A i \in 1..Len(k) : ~k[i][1]
    <3> HIDE DEF p
    <3> QED BY <2>0, <2>1, <2>5, PassBoth
  <2>7. \A i \in 1..Len(a \o w) : ~(a \o w)[i][1]
    <3>1. \A i \in 1..Len(p) : ~p[i][1]
      <4> HIDE DEF p
      <4> QED BY <2>0, <2>1, <2>5, PassBoth
    <3> QED BY <3>1, Zenon
  <2>8. \A i \in 1..Len(a) : ~a[i][1] BY <2>0, <2>7, PassBoth
  <2>9. \A i \in 1..Len(w) : ~w[i][1] BY <2>0, <2>7, PassBoth
  <2> QED BY <2>4, <2>6, <2>8, <2>9, Zenon
<1> DEFINE c == ((a \o w) \o k) \o b
<1>7. c \in Seq(X) BY <1>4, ConcatProperties, Zenon
<1>8. \A i \in 1..Len(c) : ~c[i][1]
  <2> HIDE DEF c
  <2>1. Q!FirstFailure(c) = "ok" BY <1>1 DEF c
  <2>2. \A i \in 1..Len(c) : c[i] \in X BY <1>7, ElementOfSeq
  <2> QED BY <1>5, <1>7, <2>1, <2>2, FirstFailureFails
<1>9. ~x1[1] /\ ~x2[1] /\ ~y3[1] /\ ~y4[1] /\ ~z1[1] /\ ~z2[1] /\ ~z3[1] /\ ~v[1]
  <2> HIDE DEF c
  <2>1. /\ (\A i \in 1..2 : ~a[i][1]) /\ (\A i \in 1..4 : ~w[i][1])
        /\ (\A i \in 1..3 : ~k[i][1]) /\ (\A i \in 1..1 : ~b[i][1])
    BY <1>4, <1>6, <1>8 DEF c
  <2>2. ~a[1][1] /\ ~a[2][1] /\ ~w[3][1] /\ ~w[4][1] /\ ~k[1][1] /\ ~k[2][1] /\ ~k[3][1] /\ ~b[1][1]
    BY <2>1
  <2> QED BY <1>4, <2>2
<1>10. /\ ~(d.flaw = "malformed") /\ ~(Q!RecordDigest(d.record) # Q!RecordDigest(o))
       /\ ~(hour + ReviewSkew < d.nbf) /\ ~(hour - ReviewSkew > d.exp)
       /\ ~(d.flaw = "unknown_issuer") /\ ~(d.flaw = "bad_key")
       /\ ~(d.flaw = "signature") /\ ~(d.verdict # "release")
  BY <1>3, <1>9, Zenon
<1>11. /\ d.flaw \in Q!Flaws /\ d.nbf \in Int /\ d.exp \in Int /\ ReviewSkew \in Nat
       /\ d.record = [id |-> d.record.id, artifact |-> d.record.artifact,
                      risk |-> d.record.risk, class |-> d.record.class]
       /\ o = [id |-> o.id, artifact |-> o.artifact, risk |-> o.risk, class |-> o.class]
  BY QuarantineAssumption DEF Q!QuarantineConstants
<1>12. d.flaw = "none" BY <1>10, <1>11 DEF Q!Flaws
<1>13. d.record = o
  <2>1. Q!RecordDigest(d.record) = Q!RecordDigest(o) BY <1>10
  <2>2. /\ d.record.id = o.id /\ d.record.artifact = o.artifact
        /\ d.record.risk = o.risk /\ d.record.class = o.class
    BY <2>1 DEF Q!RecordDigest
  <2> QED BY <1>11, <2>2
<1>14. hour \in (d.nbf - ReviewSkew)..(d.exp + ReviewSkew) BY <1>10, <1>11
<1> QED BY <1>10, <1>12, <1>13, <1>14

\* What is held is what the matrix holds back.
OutputsRight ==
    /\ hour \in Int /\ queue \subseteq Outputs
    /\ \A o \in queue : Q!Decide(o) = "quarantine"
    /\ LeavesCleared

LEMMA OutputsNext == OutputsRight /\ [Q!Next]_(Q!vars) => OutputsRight'
<1> SUFFICES ASSUME OutputsRight, [Q!Next]_(Q!vars) PROVE OutputsRight' OBVIOUS
<1> USE DEF OutputsRight
<1>1. ASSUME hour' \in Int, UNCHANGED <<queue, left>> PROVE OutputsRight'
  BY <1>1 DEF LeavesCleared, Q!LeavesCleared, Q!Decide
<1>2. ASSUME NEW o \in Outputs, NEW dec, NEW at,
             left' = left \cup {[output |-> o, decision |-> dec, at |-> at, event |-> "ok"]},
             \/ Q!Decide(o) = "allow" /\ dec = None
             \/ /\ Q!Decide(o) = "quarantine" /\ dec # None
                /\ dec.record = o /\ dec.verdict = "release" /\ dec.flaw = "none"
                /\ at \in (dec.nbf - ReviewSkew)..(dec.exp + ReviewSkew)
      PROVE  LeavesCleared'
  <2> DEFINE y == [output |-> o, decision |-> dec, at |-> at, event |-> "ok"]
  <2>1. y.output = o /\ y.decision = dec /\ y.at = at /\ y.event = "ok" OBVIOUS
  <2> HIDE DEF y
  <2>2. left' = left \cup {y} BY <1>2 DEF y
  <2> QED BY <1>2, <2>1, <2>2 DEF LeavesCleared, Q!LeavesCleared
<1>3. ASSUME NEW o \in Outputs, Q!Egress(o) PROVE OutputsRight'
  <2>1. PICK ok \in BOOLEAN :
          /\ queue' = (IF ok /\ Q!Decide(o) = "quarantine" THEN queue \cup {o} ELSE queue)
          /\ IF ok /\ Q!Decide(o) = "allow" THEN Q!Leaves(o, None, "ok") ELSE UNCHANGED left
    BY <1>3 DEF Q!Egress
  <2>2. hour' = hour BY <1>3 DEF Q!Egress
  <2>3. queue' \subseteq Outputs /\ \A x \in queue' : Q!Decide(x) = "quarantine" BY <2>1
  <2>4. LeavesCleared'
    <3>1. CASE ok /\ Q!Decide(o) = "allow"
      <4>1. left' = left \cup {[output |-> o, decision |-> None, at |-> hour, event |-> "ok"]}
        BY <2>1, <3>1 DEF Q!Leaves
      <4> QED BY <1>2, <3>1, <4>1
    <3>2. CASE left' = left BY <3>2 DEF LeavesCleared, Q!LeavesCleared
    <3> QED BY <2>1, <3>1, <3>2
  <2> QED BY <2>2, <2>3, <2>4 DEF Q!Decide
<1>4. ASSUME NEW o \in Outputs, NEW d \in Decisions, Q!Release(d, o) PROVE OutputsRight'
  <2>1. hour' = hour /\ o \in queue BY <1>4 DEF Q!Release
  <2>2. CASE Q!FirstFailure(Q!ReleaseChecks(d, o)) = "ok" /\ queue' = queue \ {o}
             /\ Q!Leaves(o, d, "ok")
    <3>1. left' = left \cup {[output |-> o, decision |-> d, at |-> hour, event |-> "ok"]}
      BY <2>2 DEF Q!Leaves
    <3>2. /\ d.record = o /\ d.verdict = "release" /\ d.flaw = "none"
          /\ hour \in (d.nbf - ReviewSkew)..(d.exp + ReviewSkew)
      BY <2>2, ReleasePasses
    <3>3. d # None /\ Q!Decide(o) = "quarantine"
      BY <2>1, QuarantineAssumption DEF Q!QuarantineConstants
    <3>4. LeavesCleared' BY <1>2, <3>1, <3>2, <3>3
    <3> QED BY <2>1, <2>2, <3>4 DEF Q!Decide
  <2>3. CASE UNCHANGED <<queue, left>> BY <1>1, <2>1, <2>3
  <2> QED BY <1>4, <2>2, <2>3 DEF Q!Release
<1>5. CASE Q!Tick BY <1>1, <1>5 DEF Q!Tick, Q!outputVars
<1>6. ASSUME NEW w \in Workload, Q!HoldWorkload(w) PROVE OutputsRight'
  BY <1>1, <1>6 DEF Q!HoldWorkload, Q!outputVars
<1>7. ASSUME NEW w \in Workload, NEW a \in Attestations, Q!Readmit(a, w) PROVE OutputsRight'
  BY <1>1, <1>7 DEF Q!Readmit, Q!outputVars
<1>8. CASE UNCHANGED Q!vars BY <1>1, <1>8 DEF Q!vars
<1> QED BY <1>3, <1>4, <1>5, <1>6, <1>7, <1>8 DEF Q!Next

\* Nothing leaves but on the record, and what the matrix holds back only after a
\* reviewer released this very record with a decision that was current, whatever
\* labels the same artifact carries and however often the sink fails
\* (MatrixEgressPolicy.evaluate, verify_release_authorization).
THEOREM OutputsCleared == Q!Spec => []LeavesCleared
<1>1. Q!Init => OutputsRight BY DEF Q!Init, OutputsRight, LeavesCleared, Q!LeavesCleared
<1>2. OutputsRight => LeavesCleared BY DEF OutputsRight
<1> QED BY <1>1, <1>2, OutputsNext, PTL DEF Q!Spec

\* The ids of the quarantines are given out once: that of an entry is its own, and
\* no attestation has lifted it yet.
EntriesRight ==
    /\ entries \in Nat /\ DOMAIN entry = Workload /\ DOMAIN lifted = Attestations
    /\ DOMAIN kid = Workload
    /\ \A w \in Workload : entry[w] # None =>
         /\ entry[w].id \in 1..entries
         /\ \A v \in Workload : entry[v] # None /\ entry[v].id = entry[w].id => v = w
         /\ \A a \in Attestations : entry[w].id \notin lifted[a]
    /\ \A a \in Attestations : lifted[a] \subseteq {a.id} \cap (1..entries)

\* verify_readmission compares the id and the kid.
LEMMA ReadmissionPasses ==
    ASSUME NEW a \in Attestations, NEW w \in Workload,
           Q!FirstFailure(Q!ReadmissionChecks(a, w)) = "ok"
    PROVE  a.id = entry[w].id /\ a.new_kid # entry[w].last_kid
<1> DEFINE x1 == <<a.flaw = "malformed", "malformed">>
           x2 == <<a.id # entry[w].id, "mismatch">>
           x3 == <<a.workload # w, "mismatch">>
           x4 == <<a.new_kid = entry[w].last_kid, "kid_reuse">>
           y1 == <<a.iat > a.nbf \/ a.nbf > a.exp, "invalid_validity_window">>
           y2 == <<a.exp - a.nbf > MaxReviewTtl, "ttl_exceeded">>
           y3 == <<hour + ReviewSkew < a.nbf, "not_yet_valid">>
           y4 == <<hour - ReviewSkew > a.exp, "expired">>
           z1 == <<a.flaw = "unknown_issuer", "unknown_issuer">>
           z2 == <<a.flaw = "bad_key", "invalid_public_key">>
           z3 == <<a.flaw = "signature", "signature_invalid">>
           X == {x1, x2, x3, x4, y1, y2, y3, y4, z1, z2, z3}
           x == <<x1, x2, x3, x4>>
           y == <<y1, y2, y3, y4>>
           z == <<z1, z2, z3>>
<1>1. Q!FirstFailure((x \o y) \o z) = "ok" BY DEF Q!ReadmissionChecks, Q!WindowChecks, Q!KeyChecks
<1>2. /\ x1[2] # "ok" /\ x2[2] # "ok" /\ x3[2] # "ok" /\ x4[2] # "ok" /\ y1[2] # "ok"
      /\ y2[2] # "ok" /\ y3[2] # "ok" /\ y4[2] # "ok" /\ z1[2] # "ok" /\ z2[2] # "ok"
      /\ z3[2] # "ok"
  OBVIOUS
<1>3. x2[1] = (a.id # entry[w].id) /\ x4[1] = (a.new_kid = entry[w].last_kid) OBVIOUS
<1> HIDE DEF x1, x2, x3, x4, y1, y2, y3, y4, z1, z2, z3
<1>4. /\ x \in Seq(X) /\ y \in Seq(X) /\ z \in Seq(X)
      /\ Len(x) = 4 /\ x[2] = x2 /\ x[4] = x4
  OBVIOUS
<1>5. \A e \in X : e[2] # "ok" BY <1>2
<1> HIDE DEF x, y, z, X
<1>6. x \o y \in Seq(X) /\ (x \o y) \o z \in Seq(X) BY <1>4, ConcatProperties, Zenon
<1> DEFINE c == (x \o y) \o z
<1>7. \A i \in 1..Len(c) : ~c[i][1]
  <2> HIDE DEF c
  <2>1. Q!FirstFailure(c) = "ok" /\ c \in Seq(X) BY <1>1, <1>6 DEF c
  <2> QED BY <1>5, <2>1, FirstFailureFails
<1>8. \A i \in 1..Len(x \o y) : ~(x \o y)[i][1] BY <1>4, <1>6, <1>7, PassBoth
<1>9. \A i \in 1..Len(x) : ~x[i][1] BY <1>4, <1>6, <1>8, PassBoth
<1>10. ~x2[1] /\ ~x4[1] BY <1>4, <1>9
<1> QED BY <1>3, <1>10, Zenon

LEMMA EntriesStep ==
    ASSUME EntriesRight, [Q!Next]_(Q!vars)
    PROVE  /\ EntriesRight'
           /\ \A w \in Workload : entry[w] # None /\ entry'[w] = None =>
                /\ kid'[w] # entry[w].last_kid
                /\ \E a \in Attestations : lifted[a] = {} /\ lifted'[a] = {entry[w].id}
<1> DEFINE Lifts == \A w \in Workload : entry[w] # None /\ entry'[w] = None =>
                      /\ kid'[w] # entry[w].last_kid
                      /\ \E a \in Attestations : lifted[a] = {} /\ lifted'[a] = {entry[w].id}
<1>1. ASSUME UNCHANGED <<kid, entry, entries, lifted>> PROVE EntriesRight' /\ Lifts
  BY <1>1 DEF EntriesRight
<1>2. ASSUME NEW w \in Workload, Q!HoldWorkload(w) PROVE EntriesRight' /\ Lifts
  <2> DEFINE e == [id |-> entries + 1, last_kid |-> kid[w]]
  <2>1. /\ entry[w] = None /\ entries' = entries + 1 /\ entry' = [entry EXCEPT ![w] = e]
        /\ UNCHANGED <<kid, lifted>>
    BY <1>2 DEF Q!HoldWorkload
  <2>2. e.id = entries + 1 OBVIOUS
  <2> HIDE DEF e
  <2>3. entry'[w] = e /\ \A v \in Workload : v # w => entry'[v] = entry[v]
    BY <2>1 DEF EntriesRight
  <2>4. entries \in Nat /\ \A v \in Workload : entry[v] # None => entry[v].id \in 1..entries
    BY DEF EntriesRight
  <2>5. \A a \in Attestations : entries + 1 \notin lifted[a] BY <2>4 DEF EntriesRight
  <2>6. ASSUME NEW v \in Workload, entry'[v] # None
        PROVE  /\ entry'[v].id \in 1..entries'
               /\ \A u \in Workload : entry'[u] # None /\ entry'[u].id = entry'[v].id => u = v
               /\ \A a \in Attestations : entry'[v].id \notin lifted'[a]
    <3>1. CASE v = w
      <4>1. entry'[v].id = entries + 1 BY <2>2, <2>3, <3>1
      <4>2. \A u \in Workload : u # w /\ entry'[u] # None => entry'[u].id # entries + 1
        BY <2>3, <2>4
      <4> QED BY <2>1, <2>4, <2>5, <3>1, <4>1, <4>2
    <3>2. CASE v # w
      <4>1. entry'[v] = entry[v] /\ entry[v].id \in 1..entries BY <2>3, <2>4, <2>6, <3>2
      <4>2. entry'[w].id # entry[v].id BY <2>2, <2>3, <2>4, <4>1
      <4>3. \A u \in Workload : entry'[u] # None /\ entry'[u].id = entry'[v].id => u = v
        BY <2>3, <2>6, <4>1, <4>2 DEF EntriesRight
      <4>4. entry[v].id \in 1..entries' BY <2>1, <2>4, <4>1
      <4> QED BY <2>1, <2>6, <4>1, <4>3, <4>4 DEF EntriesRight
    <3> QED BY <3>1, <3>2
  <2>7. \A a \in Attestations : lifted'[a] \subseteq {a.id} \cap (1..entries')
    BY <2>1, <2>4 DEF EntriesRight
  <2>8. EntriesRight' BY <2>1, <2>4, <2>6, <2>7 DEF EntriesRight
  <2>9. Lifts BY <2>1, <2>3
  <2> QED BY <2>8, <2>9
<1>3. ASSUME NEW w \in Workload, NEW a \in Attestations, Q!Readmit(a, w)
      PROVE  EntriesRight' /\ Lifts
  <2>1. /\ entry[w] # None /\ kid' = [kid EXCEPT ![w] = a.new_kid]
        /\ entry' = [entry EXCEPT ![w] = None] /\ entries' = entries
        /\ lifted' = [lifted EXCEPT ![a] = lifted[a] \cup {entry[w].id}]
    BY <1>3 DEF Q!Readmit
  <2>2. a.id = entry[w].id /\ a.new_kid # entry[w].last_kid
    BY <1>3, ReadmissionPasses DEF Q!Readmit
  <2>3. entry'[w] = None /\ \A v \in Workload : v # w => entry'[v] = entry[v]
    BY <2>1 DEF EntriesRight
  <2>4. /\ lifted'[a] = lifted[a] \cup {entry[w].id}
        /\ \A b \in Attestations : b # a => lifted'[b] = lifted[b]
    BY <2>1 DEF EntriesRight
  <2>5. lifted[a] = {} BY <2>1, <2>2 DEF EntriesRight
  <2>6. EntriesRight' BY <2>1, <2>2, <2>3, <2>4 DEF EntriesRight
  <2>7. Lifts
    <3> SUFFICES ASSUME NEW v \in Workload, entry[v] # None, entry'[v] = None
                 PROVE  /\ kid'[v] # entry[v].last_kid
                        /\ \E b \in Attestations : lifted[b] = {} /\ lifted'[b] = {entry[v].id}
      OBVIOUS
    <3>1. v = w BY <2>3
    <3>2. kid'[w] = a.new_kid BY <2>1 DEF EntriesRight
    <3> QED BY <2>2, <2>4, <2>5, <3>1, <3>2
  <2> QED BY <2>6, <2>7
<1>4. CASE Q!Tick BY <1>1, <1>4 DEF Q!Tick, Q!workloadVars
<1>5. ASSUME NEW o \in Outputs, Q!Egress(o) \/ \E d \in Decisions : Q!Release(d, o)
      PROVE  EntriesRight' /\ Lifts
  BY <1>1, <1>5 DEF Q!Egress, Q!Release, Q!workloadVars
<1>6. CASE UNCHANGED Q!vars BY <1>1, <1>6 DEF Q!vars
<1> QED BY <1>2, <1>3, <1>4, <1>5, <1>6 DEF Q!Next

\* An attestation lifts one quarantine, once, and the workload comes back under
\* another kid, however often it is quarantined again while the attestation is
\* valid (verify_readmission).
THEOREM QuarantinesLiftedOnce == Q!Spec => LiftedOnce
<1> DEFINE Step == \A w \in Workload : entry[w] # None /\ entry'[w] = None =>
                     /\ kid'[w] # entry[w].last_kid
                     /\ \E a \in Attestations : lifted[a] = {} /\ lifted'[a] = {entry[w].id}
<1>1. Q!Init => EntriesRight
  BY QuarantineAssumption DEF Q!Init, EntriesRight, Q!QuarantineConstants
<1>2. EntriesRight /\ [Q!Next]_(Q!vars) => EntriesRight' /\ Step BY EntriesStep
<1>3. Q!Spec => [][Step]_(Q!vars)
  <2> HIDE DEF Step
  <2> QED BY <1>1, <1>2, PTL DEF Q!Spec
<1> QED BY <1>3 DEF LiftedOnce, Q!LiftedOnce

-----------------------------------------------------------------------------
(* Convergence *)

\* So many nodes reach the target when they are no fewer than its ceiling.
LEMMA CeilingCovers ==
    ASSUME NEW c \in Nat, NEW p \in Nat, NEW m \in Nat, m > 0
    PROVE  /\ (p + m - 1) \div m \in Int
           /\ c >= (p + m - 1) \div m <=> c * m >= p
<1> DEFINE q == (p + m - 1) \div m
<1>1. q \in Int /\ q * m <= p + m - 1 /\ p + m - 1 < q * m + m BY SMT
<1> HIDE DEF q
<1>2. ASSUME c >= q PROVE c * m >= p
  <2>1. c * m >= q * m BY <1>1, <1>2
  <2> QED BY <1>1, <2>1
<1>3. ASSUME c < q PROVE c * m < p
  <2>1. c * m <= (q - 1) * m BY <1>1, <1>3
  <2>2. (q - 1) * m = q * m - m BY <1>1
  <2> QED BY <1>1, <2>1, <2>2
<1>4. q \in Int /\ (c >= q <=> c * m >= p) BY <1>1, <1>2, <1>3
<1> QED BY <1>4 DEF q

LEMMA SameCardinality == ASSUME NEW S PROVE C!Cardinality(S) = Cardinality(S)
BY Zenon DEF C!Cardinality, Cardinality

LEMMA SameFinite == ASSUME NEW S PROVE C!IsFiniteSet(S) <=> IsFiniteSet(S)
BY DEF C!IsFiniteSet, IsFiniteSet

\* Of finitely many times one is the last.
LEMMA LastTime ==
    ASSUME NEW B, B # {}, NEW f, NEW top \in Nat, \A n \in B : f[n] \in 0..top
    PROVE  \E n \in B : \A m \in B : f[m] <= f[n]
<1> DEFINE N == {top - f[n] : n \in B}
<1>1. N \in SUBSET Nat /\ N # {} OBVIOUS
<1>2. \A m \in B : top - f[m] \in N OBVIOUS
<1>3. \A y \in N : \E n \in B : y = top - f[n] OBVIOUS
<1> HIDE DEF N
<1>4. PICK x \in N : \A y \in N : x <= y BY <1>1, LeastNatural
<1>5. PICK n \in B : x = top - f[n] BY <1>3, <1>4
<1>6. ASSUME NEW m \in B PROVE f[m] <= f[n]
  <2>1. top - f[n] <= top - f[m] BY <1>2, <1>4, <1>5
  <2>2. f[m] \in Nat /\ f[n] \in Nat OBVIOUS
  <2> QED BY <2>1, <2>2
<1> QED BY <1>6

\* The nodes of A that acknowledged by t, and the times by which k of them had.
AckedBy(A, f, t) == {n \in A : f[n] <= t}
TimesReached(A, f, k) == {t \in {f[n] : n \in A} : Cardinality(AckedBy(A, f, t)) >= k}

\* The time by which k of the nodes A had acknowledged is within the limit when
\* k of them acknowledged within the limit, and only then.
LEMMA TargetInTime ==
    ASSUME NEW A, IsFiniteSet(A), NEW f, NEW top \in Nat, \A n \in A : f[n] \in 0..top,
           NEW k \in Int, k > 0, NEW limit \in Int
    PROVE  /\ Cardinality(A) >= k => C!Min(TimesReached(A, f, k)) \in Nat
           /\ Cardinality(A) >= k /\ C!Min(TimesReached(A, f, k)) <= limit =>
                Cardinality(AckedBy(A, f, limit)) >= k
           /\ Cardinality(AckedBy(A, f, limit)) >= k =>
                Cardinality(A) >= k /\ C!Min(TimesReached(A, f, k)) <= limit
<1> DEFINE by(t) == AckedBy(A, f, t)
           times == TimesReached(A, f, k)
<1>1. \A B \in SUBSET A : IsFiniteSet(B) /\ Cardinality(B) \in Nat /\ Cardinality(B) <= Cardinality(A)
  BY FS_Subset, FS_CardinalityType
<1>2. ASSUME NEW B \in SUBSET A, Cardinality(B) >= k PROVE B # {}
  BY <1>2, FS_EmptySet
<1>3. \A t : by(t) \in SUBSET A BY DEF AckedBy
<1>4. ASSUME NEW B \in SUBSET A, NEW C2 \in SUBSET A, B \subseteq C2
      PROVE  Cardinality(B) <= Cardinality(C2)
  BY <1>1, <1>4, FS_Subset
<1>5. times \in SUBSET Nat /\ \A t \in times : Cardinality(by(t)) >= k BY DEF TimesReached
<1>6. \A n \in A : Cardinality(by(f[n])) >= k => f[n] \in times BY DEF TimesReached
<1>7. \A t, n : n \in by(t) <=> n \in A /\ f[n] <= t BY DEF AckedBy
<1> HIDE DEF by, times
<1>8. times # {} => C!Min(times) \in times /\ \A t \in times : C!Min(times) <= t
  <2> SUFFICES ASSUME times # {}
               PROVE  C!Min(times) \in times /\ \A t \in times : C!Min(times) <= t
    OBVIOUS
  <2>1. \E x \in times : \A y \in times : x <= y BY <1>5, LeastNatural
  <2> QED BY <2>1 DEF C!Min
\* Where a set of nodes is large enough, its last time is one of `times`.
<1>9. ASSUME NEW B \in SUBSET A, Cardinality(B) >= k PROVE \E n \in B : f[n] \in times
  <2>1. PICK n \in B : \A m \in B : f[m] <= f[n]
    <3>1. \A m \in B : f[m] \in 0..top OBVIOUS
    <3> QED BY <1>2, <1>9, <3>1, LastTime
  <2>2. B \subseteq by(f[n]) BY <1>7, <2>1
  <2>3. Cardinality(B) <= Cardinality(by(f[n])) BY <1>3, <1>4, <2>2
  <2>4. Cardinality(by(f[n])) \in Nat /\ Cardinality(B) \in Nat BY <1>1, <1>3
  <2>5. Cardinality(by(f[n])) >= k BY <1>9, <2>3, <2>4
  <2> QED BY <1>6, <2>5
<1>10. ASSUME Cardinality(A) >= k
       PROVE  /\ C!Min(times) \in Nat
              /\ C!Min(times) <= limit => Cardinality(by(limit)) >= k
  <2>1. times # {} BY <1>9, <1>10
  <2>2. C!Min(times) \in times BY <1>8, <2>1
  <2> DEFINE least == C!Min(times)
  <2> HIDE DEF least
  <2>3. least \in Nat /\ Cardinality(by(least)) >= k BY <1>5, <2>2 DEF least
  <2>4. ASSUME least <= limit PROVE Cardinality(by(limit)) >= k
    <3>1. \A n \in A : f[n] \in Int OBVIOUS
    <3>2. by(least) \subseteq by(limit) BY <1>7, <2>3, <2>4, <3>1
    <3>3. Cardinality(by(least)) <= Cardinality(by(limit)) BY <1>3, <1>4, <3>2
    <3>4. Cardinality(by(least)) \in Nat /\ Cardinality(by(limit)) \in Nat BY <1>1, <1>3
    <3> QED BY <2>3, <3>3, <3>4
  <2> QED BY <2>3, <2>4 DEF least
<1>11. ASSUME Cardinality(by(limit)) >= k
       PROVE  Cardinality(A) >= k /\ C!Min(times) <= limit
  <2>1. PICK n \in by(limit) : f[n] \in times BY <1>3, <1>9, <1>11
  <2>2. n \in A /\ f[n] <= limit BY <1>7
  <2>3. C!Min(times) <= f[n] /\ C!Min(times) \in Nat BY <1>5, <1>8, <2>1
  <2>4. f[n] \in Nat BY <2>2
  <2>5. C!Min(times) <= limit BY <2>2, <2>3, <2>4
  <2>6. Cardinality(by(limit)) \in Nat /\ Cardinality(by(limit)) <= Cardinality(A)
        /\ Cardinality(A) \in Nat
    BY <1>1, <1>3
  <2>7. Cardinality(A) >= k BY <1>11, <2>6
  <2> QED BY <2>5, <2>7
<1> QED BY <1>10, <1>11 DEF by, times

\* One broadcast of a jti; the acks of a broadcast are those of nodes it expects,
\* each with a time that has come; `timely` says whose earliest ack is in time.
ConvergenceRight ==
    /\ now \in Nat /\ policy \in Policies /\ broadcasts \subseteq Broadcasts
    /\ DOMAIN acks = C!Jti
    /\ \A b, r \in broadcasts : b.jti = r.jti => b = r
    /\ \A j \in C!Jti : (\A b \in broadcasts : b.jti # j) => DOMAIN acks[j] = {}
    /\ \A x \in timely : \E b \in broadcasts : b.jti = x[1]
    /\ \A b \in broadcasts :
         /\ DOMAIN acks[b.jti] \subseteq b.expected
         /\ \A n \in DOMAIN acks[b.jti] : acks[b.jti][n] \in 0..now
         /\ \A n \in b.expected :
              <<b.jti, n>> \in timely <=>
                n \in DOMAIN acks[b.jti] /\ acks[b.jti][n] <= b.issued_at + C!DeadlineFor(b)

LEMMA ConvergenceInit == C!Init => ConvergenceRight
<1> SUFFICES ASSUME C!Init PROVE ConvergenceRight OBVIOUS
<1>1. /\ now = 0 /\ policy \in Policies /\ broadcasts = {} /\ timely = {}
      /\ acks = [j \in C!Jti |-> [n \in {} |-> 0]]
  BY DEF C!Init
<1>2. DOMAIN acks = C!Jti /\ \A j \in C!Jti : DOMAIN acks[j] = {} BY <1>1
<1> QED BY <1>1, <1>2 DEF ConvergenceRight

LEMMA ConvergenceNext == ConvergenceRight /\ [C!Next]_(C!vars) => ConvergenceRight'
<1> SUFFICES ASSUME ConvergenceRight, [C!Next]_(C!vars) PROVE ConvergenceRight' OBVIOUS
<1> USE DEF ConvergenceRight
<1>1. /\ \A b \in Broadcasts : b.issued_at \in Nat /\ b.jti \in C!Jti
      /\ policy.normal \in Nat /\ policy.fast_path \in Nat
  BY ConvergenceAssumption DEF C!ConvergenceConstants, C!Jti
<1>2. ASSUME NEW b \in Broadcasts, C!RegisterBroadcast(b) PROVE ConvergenceRight'
  <2>1. /\ \A r \in broadcasts : r.jti # b.jti
        /\ broadcasts' = broadcasts \cup {b} /\ UNCHANGED <<now, policy, acks, timely>>
    BY <1>2 DEF C!RegisterBroadcast
  <2>2. DOMAIN acks[b.jti] = {} BY <1>1, <2>1
  <2>3. \A n : <<b.jti, n>> \notin timely
    <3> SUFFICES ASSUME NEW n, <<b.jti, n>> \in timely PROVE FALSE OBVIOUS
    <3>1. PICK r \in broadcasts : r.jti = <<b.jti, n>>[1] OBVIOUS
    <3> QED BY <2>1, <3>1
  <2>4. \A r \in broadcasts' :
          /\ DOMAIN acks[r.jti] \subseteq r.expected
          /\ \A n \in DOMAIN acks[r.jti] : acks[r.jti][n] \in 0..now
          /\ \A n \in r.expected :
               <<r.jti, n>> \in timely <=>
                 n \in DOMAIN acks[r.jti] /\ acks[r.jti][n] <= r.issued_at + C!DeadlineFor(r)
    BY <2>1, <2>2, <2>3
  <2>5. \A r, s \in broadcasts' : r.jti = s.jti => r = s BY <2>1
  <2>6. /\ \A j \in C!Jti : (\A r \in broadcasts' : r.jti # j) => DOMAIN acks[j] = {}
        /\ \A x \in timely : \E r \in broadcasts' : r.jti = x[1]
    BY <2>1
  <2> QED BY <2>1, <2>4, <2>5, <2>6 DEF C!DeadlineFor
<1>3. ASSUME NEW b \in broadcasts, NEW at \in 0..now, NEW n \in b.expected,
             C!RecordAck(b, n, at)
      PROVE  ConvergenceRight'
  <2> DEFINE times == acks[b.jti]
             after == C!Earliest(times, n, at)
             limit == b.issued_at + C!DeadlineFor(b)
  <2>1. /\ acks' = [acks EXCEPT ![b.jti] = after]
        /\ timely' = (IF at <= limit THEN timely \cup {<<b.jti, n>>} ELSE timely)
        /\ UNCHANGED <<now, policy, broadcasts>>
    BY <1>3 DEF C!RecordAck
  <2>2. b.jti \in C!Jti /\ limit \in Int BY <1>1 DEF C!DeadlineFor
  <2>3. /\ DOMAIN times \subseteq b.expected
        /\ \A m \in DOMAIN times : times[m] \in 0..now
        /\ \A m \in b.expected : <<b.jti, m>> \in timely <=> m \in DOMAIN times /\ times[m] <= limit
    OBVIOUS
  <2>4. /\ DOMAIN after = DOMAIN times \cup {n}
        /\ after[n] = IF n \notin DOMAIN times \/ at < times[n] THEN at ELSE times[n]
        /\ \A m \in DOMAIN times : m # n => after[m] = times[m]
    BY DEF C!Earliest
  <2>5. /\ DOMAIN acks' = DOMAIN acks /\ acks'[b.jti] = after
        /\ \A j \in C!Jti : j # b.jti => acks'[j] = acks[j]
    BY <2>1, <2>2
  <2> HIDE DEF after, times, limit
  <2>6. /\ DOMAIN after \subseteq b.expected
        /\ \A m \in DOMAIN after : after[m] \in 0..now
    BY <2>3, <2>4
  <2>7. after[n] <= limit <=> (n \in DOMAIN times /\ times[n] <= limit) \/ at <= limit
    <3>1. CASE n \notin DOMAIN times BY <2>4, <3>1
    <3>2. CASE n \in DOMAIN times
      <4>1. times[n] \in Int /\ at \in Int BY <2>3, <3>2
      <4>2. after[n] = IF at < times[n] THEN at ELSE times[n] BY <2>4, <3>2
      <4> QED BY <2>2, <3>2, <4>1, <4>2
    <3> QED BY <3>1, <3>2
  <2>8. \A j, m : <<j, m>> \in timely' <=> <<j, m>> \in timely \/ (j = b.jti /\ m = n /\ at <= limit)
    BY <2>1
  <2>9. ASSUME NEW m \in b.expected
        PROVE  <<b.jti, m>> \in timely' <=> m \in DOMAIN after /\ after[m] <= limit
    <3>1. CASE m = n BY <2>3, <2>4, <2>7, <2>8, <3>1
    <3>2. CASE m # n BY <2>3, <2>4, <2>8, <3>2
    <3> QED BY <3>1, <3>2
  <2>10. \A r \in broadcasts : r # b => r.jti # b.jti /\ r.jti \in C!Jti /\ acks'[r.jti] = acks[r.jti]
    BY <1>1, <2>5
  <2>11. ASSUME NEW r \in broadcasts'
         PROVE  /\ DOMAIN acks'[r.jti] \subseteq r.expected
                /\ \A m \in DOMAIN acks'[r.jti] : acks'[r.jti][m] \in 0..now
                /\ \A m \in r.expected :
                     <<r.jti, m>> \in timely' <=>
                       m \in DOMAIN acks'[r.jti] /\ acks'[r.jti][m] <= r.issued_at + C!DeadlineFor(r)
    <3>1. CASE r = b BY <2>5, <2>6, <2>9, <3>1 DEF limit
    <3>2. CASE r # b
      <4>1. r \in broadcasts /\ r.jti # b.jti /\ acks'[r.jti] = acks[r.jti] BY <2>1, <2>10, <3>2
      <4>2. \A m : <<r.jti, m>> \in timely' <=> <<r.jti, m>> \in timely BY <2>8, <4>1
      <4> QED BY <4>1, <4>2
    <3> QED BY <3>1, <3>2
  <2>12. ASSUME NEW j \in C!Jti, \A r \in broadcasts' : r.jti # j PROVE DOMAIN acks'[j] = {}
    <3>1. j # b.jti /\ \A r \in broadcasts : r.jti # j BY <2>1, <2>12
    <3> QED BY <2>5, <3>1
  <2>13. ASSUME NEW x \in timely' PROVE \E r \in broadcasts' : r.jti = x[1]
    <3>1. CASE x \in timely BY <2>1, <3>1
    <3>2. CASE x = <<b.jti, n>>
      <4>1. x[1] = b.jti BY <3>2
      <4> QED BY <2>1, <4>1
    <3> QED BY <2>1, <3>1, <3>2
  <2> QED BY <2>1, <2>5, <2>11, <2>12, <2>13 DEF C!DeadlineFor
<1>4. CASE C!Tick
  <2>1. now' = now + 1 /\ UNCHANGED <<policy, broadcasts, acks, timely>> BY <1>4 DEF C!Tick
  <2>2. now' \in Nat /\ \A b \in broadcasts : \A n \in DOMAIN acks[b.jti] : acks[b.jti][n] \in 0..now'
    <3>1. \A t \in 0..now : t \in 0..now' BY <2>1
    <3>2. now' \in Nat BY <2>1
    <3> QED BY <3>1, <3>2
  <2> QED BY <2>1, <2>2 DEF C!DeadlineFor
<1>5. CASE UNCHANGED C!vars
  <2>1. UNCHANGED <<now, policy, broadcasts, acks, timely>> BY <1>5 DEF C!vars
  <2> QED BY <2>1 DEF C!DeadlineFor
<1> QED BY <1>2, <1>3, <1>4, <1>5 DEF C!Next

\* What the registry computes for one broadcast.
LEMMA SloOfBroadcast ==
    ASSUME ConvergenceRight, NEW b \in broadcasts
    PROVE  LET met == C!Covers(C!Cardinality({n \in b.expected : <<b.jti, n>> \in timely}), b)
           IN  /\ C!Status(b) = "meeting" => met
               /\ met /\ ~policy.inexact => C!Status(b) = "meeting"
<1> USE DEF ConvergenceRight
<1> DEFINE E == b.expected
           f == acks[b.jti]
           A == DOMAIN f
           limit == b.issued_at + C!DeadlineFor(b)
           by(t) == AckedBy(A, f, t)
           k == C!Needed(b)
           p == policy.num * Cardinality(E)
           ceiling == (p + policy.den - 1) \div policy.den
           times == TimesReached(A, f, k)
           intime == {n \in b.expected : <<b.jti, n>> \in timely}
<1>1. /\ policy.num \in Nat /\ policy.den \in Nat /\ policy.num > 0 /\ policy.den > 0
      /\ policy.inexact \in BOOLEAN /\ policy.normal \in Nat /\ policy.fast_path \in Nat
      /\ b.issued_at \in Nat /\ E # {} /\ IsFiniteSet(E)
  BY ConvergenceAssumption, SameFinite DEF C!ConvergenceConstants
<1>2. limit \in Int /\ C!DeadlineFor(b) \in Int BY <1>1 DEF C!DeadlineFor
<1>3. A \subseteq E /\ \A n \in A : f[n] \in 0..now OBVIOUS
<1>4. intime = by(limit) BY <1>3 DEF AckedBy
<1>5. IsFiniteSet(A) /\ Cardinality(A) \in Nat BY <1>1, <1>3, FS_Subset, FS_CardinalityType
<1>6. Cardinality(E) \in Nat /\ Cardinality(E) > 0 BY <1>1, FS_EmptySet, FS_CardinalityType
<1>7. p \in Nat /\ p > 0
  <2> DEFINE u == policy.num
             v == Cardinality(E)
  <2>1. u \in Nat /\ v \in Nat /\ u > 0 /\ v > 0 BY <1>1, <1>6
  <2> HIDE DEF u, v
  <2>2. u * v \in Nat /\ u * v > 0 BY <2>1
  <2> QED BY <2>2 DEF u, v
<1>8. \A c \in Nat : c >= ceiling <=> c * policy.den >= p BY <1>1, <1>7, CeilingCovers
<1>9. ceiling \in Int BY <1>1, <1>7, CeilingCovers
<1>10. C!Cardinality(b.expected) = Cardinality(E) BY SameCardinality
<1>11. \A c \in Nat : C!Covers(c, b) <=> c >= ceiling
  <2>1. \A c : C!Covers(c, b) <=> c * policy.den >= p BY <1>10 DEF C!Covers
  <2> HIDE DEF p, ceiling
  <2> QED BY <1>8, <2>1
<1>12. k = ceiling \/ (policy.inexact /\ k = ceiling + 1)
  BY <1>10 DEF C!Needed
<1>13. ceiling > 0
  <2>1. ~(0 * policy.den >= p) BY <1>1, <1>7
  <2> HIDE DEF p, ceiling
  <2> QED BY <1>8, <1>9, <2>1
<1> HIDE DEF ceiling, p
<1>14. k \in Int /\ k > 0 BY <1>9, <1>12, <1>13
<1>15. C!TargetTime(b) = C!Min(times)
  <2>1. \A t : C!Cardinality(by(t)) = Cardinality(by(t)) BY SameCardinality
  <2>2. times = {t \in {f[n] : n \in A} : C!Cardinality(by(t)) >= k}
    <3> HIDE DEF k
    <3> QED BY <2>1 DEF TimesReached
  <2> QED BY <2>2 DEF C!TargetTime, AckedBy
<1> HIDE DEF k, f
<1>16. /\ Cardinality(A) >= k => C!Min(times) \in Nat
       /\ Cardinality(A) >= k /\ C!Min(times) <= limit => Cardinality(by(limit)) >= k
       /\ Cardinality(by(limit)) >= k => Cardinality(A) >= k /\ C!Min(times) <= limit
  <2>1. now \in Nat OBVIOUS
  <2> HIDE DEF A, limit, ConvergenceRight
  <2>2. IsFiniteSet(A) /\ (\A n \in A : f[n] \in 0..now) /\ k \in Int /\ k > 0 /\ limit \in Int
    BY <1>2, <1>3, <1>5, <1>14
  <2> QED BY <2>1, <2>2, TargetInTime, Zenon
<1>17. Cardinality(by(limit)) \in Nat /\ Cardinality(by(limit)) <= Cardinality(A)
  <2>1. by(limit) \in SUBSET A BY DEF AckedBy
  <2> QED BY <1>5, <2>1, FS_Subset, FS_CardinalityType
<1>18. C!Cardinality(intime) = Cardinality(by(limit)) BY <1>4, SameCardinality
<1> DEFINE c == Cardinality(by(limit))
           r == Cardinality(A)
           least == C!Min(times)
<1>19. C!Cardinality(DOMAIN acks[b.jti]) = r BY SameCardinality DEF f
<1>20. /\ C!Covers(r, b) /\ k <= r => C!Status(b) =
            IF least - b.issued_at <= C!DeadlineFor(b) THEN "meeting" ELSE "missed"
       /\ ~(C!Covers(r, b) /\ k <= r) => C!Status(b) # "meeting"
  <2> HIDE DEF r, least
  <2>1. C!Status(b) = CASE C!Covers(r, b) /\ k <= r ->
                             IF least - b.issued_at <= C!DeadlineFor(b) THEN "meeting" ELSE "missed"
                        [] ~(C!Covers(r, b) /\ k <= r) ->
                             IF now - b.issued_at > C!DeadlineFor(b) THEN "missed" ELSE "pending"
    BY <1>15, <1>19 DEF C!Status, k, least
  <2> QED BY <2>1
<1> HIDE DEF c, r, least, A, by, times, intime
<1>21. /\ c \in Nat /\ r \in Nat /\ c <= r BY <1>5, <1>17 DEF c, r
<1>22. /\ r >= k => least \in Nat
       /\ r >= k /\ least <= limit => c >= k
       /\ c >= k => r >= k /\ least <= limit
  BY <1>16 DEF c, r, least
<1>23. r >= k => (least - b.issued_at <= C!DeadlineFor(b) <=> least <= limit)
  BY <1>1, <1>2, <1>22
<1> HIDE DEF limit
<1>24. C!Status(b) = "meeting" => C!Covers(c, b)
  <2> SUFFICES ASSUME C!Status(b) = "meeting" PROVE C!Covers(c, b) OBVIOUS
  <2>1. k <= r /\ least - b.issued_at <= C!DeadlineFor(b) BY <1>20
  <2>2. c >= k BY <1>14, <1>21, <1>22, <1>23, <2>1
  <2>3. c >= ceiling BY <1>9, <1>12, <1>21, <2>2
  <2> QED BY <1>11, <1>21, <2>3
<1>25. C!Covers(c, b) /\ ~policy.inexact => C!Status(b) = "meeting"
  <2> SUFFICES ASSUME C!Covers(c, b), ~policy.inexact PROVE C!Status(b) = "meeting" OBVIOUS
  <2>1. k = ceiling BY <1>12
  <2>2. c >= k BY <1>11, <1>21, <2>1
  <2>3. r >= k /\ least <= limit BY <1>22, <2>2
  <2>4. C!Covers(r, b) BY <1>11, <1>21, <2>1, <2>3
  <2> QED BY <1>14, <1>20, <1>21, <1>23, <2>3, <2>4
<1> QED BY <1>18, <1>24, <1>25 DEF c, intime

\* The SLO of a revocation is met when enough of the expected nodes saw it in
\* time, and only then, in whatever order, however late and however often their
\* acknowledgements arrive (InMemoryConvergenceTracker.record_ack, evaluate_slo).
THEOREM SloIsExact == C!Spec => []SloExact
<1>1. ConvergenceRight => SloExact BY SloOfBroadcast DEF SloExact, C!SloExact
<1> QED BY <1>1, ConvergenceInit, ConvergenceNext, PTL DEF C!Spec

-----------------------------------------------------------------------------
(* Chains *)

\* A finite set that an order makes a chain has a last element.
LEMMA LastOfChain ==
    ASSUME NEW S, IsFiniteSet(S), NEW R,
           \A a, b, c \in S : <<a, b>> \in R /\ <<b, c>> \in R => <<a, c>> \in R,
           \A a, b \in S : a # b => <<a, b>> \in R \/ <<b, a>> \in R,
           NEW T \in SUBSET S, T # {}
    PROVE  \E l \in T : \A a \in T \ {l} : <<a, l>> \in R
<1> DEFINE HasLast(U) == \E l \in U : \A a \in U \ {l} : <<a, l>> \in R
           Sizes == {Cardinality(U) : U \in {V \in SUBSET S : V # {} /\ ~HasLast(V)}}
<1>0. SUFFICES HasLast(T) OBVIOUS
<1>1. \A U \in SUBSET S : IsFiniteSet(U) /\ Cardinality(U) \in Nat
  BY FS_Subset, FS_CardinalityType
<1>2. Sizes \in SUBSET Nat BY <1>1
<1>3. SUFFICES ASSUME ~HasLast(T) PROVE FALSE OBVIOUS
<1>4. Sizes # {} BY <1>3
<1>5. PICK n \in Sizes : \A m \in Sizes : n <= m
  <2> HIDE DEF Sizes
  <2> QED BY <1>2, <1>4, LeastNatural
<1>6. PICK U \in SUBSET S : U # {} /\ ~HasLast(U) /\ n = Cardinality(U) BY <1>5
<1>7. PICK x \in U : TRUE BY <1>6
<1>8. U \ {x} \in SUBSET S /\ Cardinality(U \ {x}) = n - 1
  <2> HIDE DEF Sizes, HasLast
  <2>1. IsFiniteSet(U) BY <1>1
  <2>2. Cardinality(U \ {x}) = Cardinality(U) - 1 BY <2>1, <1>7, FS_RemoveElement
  <2> QED BY <1>6, <2>2
<1>9. U \ {x} # {} => HasLast(U \ {x})
  <2> SUFFICES ASSUME U \ {x} # {}, ~HasLast(U \ {x}) PROVE FALSE OBVIOUS
  <2>1. Cardinality(U \ {x}) \in Sizes BY <1>8
  <2> HIDE DEF Sizes, HasLast
  <2>2. n \in Nat BY <1>2
  <2> QED BY <1>5, <1>8, <2>1, <2>2
<1>10. CASE U \ {x} = {}
  <2>1. HasLast(U) BY <1>7, <1>10
  <2> QED BY <1>6, <2>1
<1>11. CASE U \ {x} # {}
  <2>1. PICK l \in U \ {x} : \A a \in (U \ {x}) \ {l} : <<a, l>> \in R BY <1>9, <1>11
  <2>2. CASE <<x, l>> \in R
    <3>1. \A a \in U \ {l} : <<a, l>> \in R BY <2>1, <2>2
    <3> QED BY <1>6, <2>1, <3>1
  <2>3. CASE <<l, x>> \in R
    <3>1. \A a \in U \ {x} : <<a, x>> \in R BY <1>6, <1>7, <2>1, <2>3
    <3> QED BY <1>6, <1>7, <3>1
  <2> QED BY <1>6, <1>7, <2>1, <2>2, <2>3
<1> QED BY <1>10, <1>11

\* What the empty set has, and a set keeps when an element behind all of its own
\* is added, every finite chain has.
LEMMA ChainInduction ==
    ASSUME NEW S, IsFiniteSet(S), NEW R,
           \A a, b, c \in S : <<a, b>> \in R /\ <<b, c>> \in R => <<a, c>> \in R,
           \A a, b \in S : a # b => <<a, b>> \in R \/ <<b, a>> \in R,
           NEW F, {} \in F,
           \A T \in SUBSET S : \A l \in S \ T :
             T \in F /\ (\A a \in T : <<a, l>> \in R) => T \cup {l} \in F
    PROVE  S \in F
<1> DEFINE Sizes == {Cardinality(U) : U \in {V \in SUBSET S : V \notin F}}
<1>1. \A U \in SUBSET S : IsFiniteSet(U) /\ Cardinality(U) \in Nat
  BY FS_Subset, FS_CardinalityType
<1>2. Sizes \in SUBSET Nat BY <1>1
<1>3. SUFFICES ASSUME S \notin F PROVE FALSE OBVIOUS
<1>4. Sizes # {} BY <1>3
<1>5. PICK n \in Sizes : \A m \in Sizes : n <= m
  <2> HIDE DEF Sizes
  <2> QED BY <1>2, <1>4, LeastNatural
<1>6. PICK U \in SUBSET S : U \notin F /\ n = Cardinality(U) BY <1>5
<1>7. U # {} BY <1>6
<1>8. PICK l \in U : \A a \in U \ {l} : <<a, l>> \in R
  BY <1>7, LastOfChain, SMTT(30)
<1>9. U \ {l} \in SUBSET S /\ Cardinality(U \ {l}) = n - 1
  BY <1>1, <1>6, <1>8, FS_RemoveElement
<1>10. U \ {l} \in F
  <2> SUFFICES ASSUME U \ {l} \notin F PROVE FALSE OBVIOUS
  <2>1. Cardinality(U \ {l}) \in Sizes BY <1>9
  <2> HIDE DEF Sizes
  <2>2. n \in Nat BY <1>2
  <2> QED BY <1>5, <1>9, <2>1, <2>2
<1>11. (U \ {l}) \cup {l} \in F
  <2>1. l \in S \ (U \ {l}) BY <1>8
  <2> QED BY <1>8, <1>9, <1>10, <2>1
<1>12. (U \ {l}) \cup {l} = U BY <1>8
<1> QED BY <1>6, <1>11, <1>12

-----------------------------------------------------------------------------
(* Where data may go: redaction *)

Match == [start : Nat, end : Nat, severity : Nat, pattern : Nat]

\* The order of redact is a strict total order.
LEMMA PrecedesFacts ==
    ASSUME NEW a \in Match, NEW b \in Match
    PROVE  /\ ~(I!Precedes(a, b) /\ I!Precedes(b, a))
           /\ a # b => I!Precedes(a, b) \/ I!Precedes(b, a)
           /\ I!Precedes(a, b) => a.start <= b.start
<1>1. a.start \in Nat /\ a.end \in Nat /\ a.severity \in Nat /\ a.pattern \in Nat
  BY DEF Match
<1>2. b.start \in Nat /\ b.end \in Nat /\ b.severity \in Nat /\ b.pattern \in Nat
  BY DEF Match
<1>3. a.start = b.start /\ a.end = b.end /\ a.severity = b.severity /\ a.pattern = b.pattern => a = b
  BY DEF Match
<1>4. ~(I!Precedes(a, b) /\ I!Precedes(b, a)) BY <1>1, <1>2 DEF I!Precedes
<1>5. a # b => I!Precedes(a, b) \/ I!Precedes(b, a) BY <1>1, <1>2, <1>3 DEF I!Precedes
<1>6. I!Precedes(a, b) => a.start <= b.start BY <1>1, <1>2 DEF I!Precedes
<1> QED BY <1>4, <1>5, <1>6

LEMMA PrecedesTransitive ==
    ASSUME NEW a \in Match, NEW b \in Match, NEW c \in Match,
           I!Precedes(a, b), I!Precedes(b, c)
    PROVE  I!Precedes(a, c)
BY DEF I!Precedes, Match

\* What redact replaces: a match unless one that precedes it, and is replaced,
\* ends behind its start.
Greedy(K, matches) ==
    \A m \in matches : m \in K <=> \A k \in K : I!Precedes(k, m) => k.end <= m.start

LEMMA ReplacedFacts ==
    ASSUME NEW matches \in SUBSET Match, IsFiniteSet(matches)
    PROVE  I!Replaced(matches) \in SUBSET matches /\ Greedy(I!Replaced(matches), matches)
<1> DEFINE R == {p \in matches \X matches : I!Precedes(p[1], p[2])}
           F == {T \in SUBSET matches : \E K \in SUBSET T : Greedy(K, T)}
<1>1. \A a, b \in matches : <<a, b>> \in R <=> I!Precedes(a, b) OBVIOUS
<1>2. \A a, b, c \in matches : <<a, b>> \in R /\ <<b, c>> \in R => <<a, c>> \in R
  BY <1>1, PrecedesTransitive
<1>3. \A a, b \in matches : a # b => <<a, b>> \in R \/ <<b, a>> \in R
  BY <1>1, PrecedesFacts
<1>4. {} \in F BY DEF Greedy
<1>5. ASSUME NEW T \in SUBSET matches, NEW l \in matches \ T,
             T \in F, \A a \in T : <<a, l>> \in R
      PROVE  T \cup {l} \in F
  <2>1. PICK K \in SUBSET T : Greedy(K, T) BY <1>5
  <2>2. \A a \in T : ~I!Precedes(l, a) /\ a # l
    <3>1. \A a \in T : I!Precedes(a, l) BY <1>1, <1>5
    <3> HIDE DEF R
    <3> QED BY <3>1, PrecedesFacts
  <2>3. ~I!Precedes(l, l) BY PrecedesFacts
  <2>4. SUFFICES \E J \in SUBSET (T \cup {l}) : Greedy(J, T \cup {l}) BY <1>5
  <2> HIDE DEF R, F
  <2>5. CASE \A k \in K : I!Precedes(k, l) => k.end <= l.start
    <3>1. K \cup {l} \in SUBSET (T \cup {l}) OBVIOUS
    <3>2. ASSUME NEW m \in T
          PROVE  m \in K \cup {l} <=>
                   \A k \in K \cup {l} : I!Precedes(k, m) => k.end <= m.start
      BY <2>1, <2>2 DEF Greedy
    <3>3. \A k \in K \cup {l} : I!Precedes(k, l) => k.end <= l.start BY <2>3, <2>5
    <3>4. Greedy(K \cup {l}, T \cup {l}) BY <3>2, <3>3 DEF Greedy
    <3> QED BY <3>1, <3>4
  <2>6. CASE ~\A k \in K : I!Precedes(k, l) => k.end <= l.start
    <3>1. l \notin K OBVIOUS
    <3>2. Greedy(K, T \cup {l}) BY <2>1, <2>6, <3>1 DEF Greedy
    <3> QED BY <3>2
  <2> QED BY <2>5, <2>6
<1>6. matches \in F
  <2> HIDE DEF R, F
  <2> QED BY <1>2, <1>3, <1>4, <1>5, ChainInduction
<1>7. \E K \in SUBSET matches : Greedy(K, matches) BY <1>6
<1> QED BY <1>7 DEF I!Replaced, Greedy

\* Of every match the first character is gone, and all of one that overlaps none.
LEMMA Redacted ==
    ASSUME NEW matches \in SUBSET Match, IsFiniteSet(matches),
           \A m \in matches : m.start < m.end, NEW m \in matches
    PROVE  /\ m.start \in I!Redact(matches)
           /\ (\A o \in matches \ {m} : o.end <= m.start \/ m.end <= o.start) =>
                m.start..(m.end - 1) \subseteq I!Redact(matches)
<1> DEFINE K == I!Replaced(matches)
<1>1. K \in SUBSET matches /\ Greedy(K, matches) BY ReplacedFacts
<1>2. \A k \in K : k.start..(k.end - 1) \subseteq I!Redact(matches) BY DEF I!Redact
<1> HIDE DEF K
<1>3. \A k \in matches : k.start \in Nat /\ k.end \in Nat /\ k.start < k.end BY DEF Match
<1>4. CASE m \in K
  <2>1. m.start..(m.end - 1) \subseteq I!Redact(matches) BY <1>2, <1>4
  <2>2. m.start \in m.start..(m.end - 1) BY <1>3
  <2> QED BY <2>1, <2>2
<1>5. CASE m \notin K
  <2>1. PICK k \in K : I!Precedes(k, m) /\ ~(k.end <= m.start) BY <1>1, <1>5 DEF Greedy
  <2>2. k \in matches /\ k # m BY <1>1, <1>5
  <2>3. k.start <= m.start BY <2>1, <2>2, PrecedesFacts
  <2>4. m.start \in k.start..(k.end - 1) BY <1>3, <2>1, <2>2, <2>3
  <2>5. m.start \in I!Redact(matches) BY <1>2, <2>4
  <2>6. ~(m.end <= k.start) BY <1>3, <2>2, <2>3
  <2> QED BY <2>1, <2>2, <2>5, <2>6
<1> QED BY <1>4, <1>5

-----------------------------------------------------------------------------
(* Where data may go: isolation *)

Flattens(g, seqs, n) ==
    g = [i \in 1..n |-> IF i = 1 THEN seqs[i] ELSE g[i - 1] \o seqs[i]]

LEMMA FlattenNone == I!FlattenSeq(<<>>) = <<>>
BY DEF I!FlattenSeq

LEMMA FlattenOne == ASSUME NEW a PROVE I!FlattenSeq(<<a>>) = a
<1> DEFINE flat == CHOOSE g : Flattens(g, <<a>>, 1)
           given == [i \in 1..1 |-> a]
<1>1. Len(<<a>>) = 1 /\ <<a>>[1] = a OBVIOUS
<1>2. I!FlattenSeq(<<a>>) = flat[1] BY <1>1 DEF I!FlattenSeq, Flattens
<1>3. Flattens(given, <<a>>, 1)
  <2>1. given = [i \in 1..1 |-> IF i = 1 THEN <<a>>[i] ELSE given[i - 1] \o <<a>>[i]]
    OBVIOUS
  <2> QED BY <2>1, Zenon DEF Flattens
<1>4. Flattens(flat, <<a>>, 1) BY <1>3
<1> HIDE DEF flat, given
<1>5. \A i \in 1..1 : flat[i] = IF i = 1 THEN <<a>>[i] ELSE flat[i - 1] \o <<a>>[i]
  BY <1>4, Zenon DEF Flattens
<1>6. 1 \in 1..1 OBVIOUS
<1>7. flat[1] = <<a>>[1] BY <1>5, <1>6, Zenon
<1> QED BY <1>1, <1>2, <1>7

LEMMA FlattenTwo == ASSUME NEW a, NEW b PROVE I!FlattenSeq(<<a, b>>) = a \o b
<1> DEFINE flat == CHOOSE g : Flattens(g, <<a, b>>, 2)
           given == [i \in 1..2 |-> IF i = 1 THEN a ELSE a \o b]
<1>1. Len(<<a, b>>) = 2 /\ <<a, b>>[1] = a /\ <<a, b>>[2] = b OBVIOUS
<1>2. I!FlattenSeq(<<a, b>>) = flat[2] BY <1>1 DEF I!FlattenSeq, Flattens
<1>3. 1 \in 1..2 /\ 2 \in 1..2 /\ 2 - 1 = 1 /\ \A i \in 1..2 : i = 1 \/ i = 2 OBVIOUS
<1>4. Flattens(given, <<a, b>>, 2)
  <2>1. given[1] = a /\ given[2] = a \o b OBVIOUS
  <2>2. \A i \in 1..2 : given[i] = IF i = 1 THEN <<a, b>>[i] ELSE given[i - 1] \o <<a, b>>[i]
    <3> HIDE DEF given
    <3>1. given[1] = IF 1 = 1 THEN <<a, b>>[1] ELSE given[1 - 1] \o <<a, b>>[1]
      BY <1>1, <2>1, Zenon
    <3>2. ~(2 = 1) OBVIOUS
    <3>3. given[2] = IF 2 = 1 THEN <<a, b>>[2] ELSE given[2 - 1] \o <<a, b>>[2]
      BY <1>1, <1>3, <2>1, <3>2, Zenon
    <3> QED BY <1>3, <3>1, <3>3, Zenon
  <2>3. given = [i \in 1..2 |-> given[i]] OBVIOUS
  <2> HIDE DEF given
  <2>4. given = [i \in 1..2 |-> IF i = 1 THEN <<a, b>>[i] ELSE given[i - 1] \o <<a, b>>[i]]
    BY <2>2, <2>3, Zenon
  <2> QED BY <2>4, Zenon DEF Flattens
<1>5. Flattens(flat, <<a, b>>, 2) BY <1>4
<1> HIDE DEF flat, given
<1>6. \A i \in 1..2 : flat[i] = IF i = 1 THEN <<a, b>>[i] ELSE flat[i - 1] \o <<a, b>>[i]
  BY <1>5, Zenon DEF Flattens
<1>7. flat[1] = <<a, b>>[1] BY <1>3, <1>6, Zenon
<1>8. ~(2 = 1) OBVIOUS
<1>9. flat[2] = flat[2 - 1] \o <<a, b>>[2] BY <1>3, <1>6, <1>8, Zenon
<1> QED BY <1>1, <1>2, <1>3, <1>7, <1>9, Zenon

LEMMA SameCount == ASSUME NEW S PROVE I!Cardinality(S) = Cardinality(S)
BY Zenon DEF I!Cardinality, Cardinality

Marks == [mark : {"word", "open", "close"}, trust : {"trusted", "untrusted"}]

\* A segment of an isolated prompt: words of the system, or a fence with words.
Plain(a) == \A i \in DOMAIN a : a[i].mark = "word" /\ a[i].trust = "trusted"

Fence(a) ==
    /\ Len(a) >= 2 /\ a[1].mark = "open" /\ a[Len(a)].mark = "close"
    /\ \A i \in 2..(Len(a) - 1) : a[i].mark = "word"

LEMMA FencedShape ==
    ASSUME NEW seg \in Segments, I!Admissible(seg)
    PROVE  /\ I!Fenced(seg) \in Seq(Marks)
           /\ Plain(I!Fenced(seg)) \/ Fence(I!Fenced(seg))
<1>1. /\ seg.channel \in {"system", "user", "retrieved", "tool"}
      /\ seg.trust \in {"trusted", "untrusted"}
      /\ seg.text \in Seq({"word", "open", "close"})
      /\ seg.channel = "system" => seg.text \in Seq({"word"})
  BY FlowAssumption DEF I!FlowConstants
<1>2. CASE seg.channel = "system"
  <2>1. seg.trust = "trusted" BY <1>2 DEF I!Admissible
  <2> DEFINE a == [i \in DOMAIN seg.text |-> I!Mark(seg.text[i], seg)]
  <2>2. I!Fenced(seg) = a BY <1>2 DEF I!Fenced
  <2>3. seg.text \in Seq({"word"}) BY <1>1, <1>2
  <2>4. DOMAIN a = 1..Len(seg.text) /\ Len(seg.text) \in Nat BY <2>3
  <2>5. \A i \in DOMAIN a : a[i] \in Marks /\ a[i].mark = "word" /\ a[i].trust = "trusted"
    BY <2>1, <2>3 DEF I!Mark, Marks
  <2>6. a = [i \in 1..Len(seg.text) |-> a[i]] BY <2>4
  <2>7. a \in Seq(Marks)
    <3> HIDE DEF a
    <3>1. PICK n \in Nat : n = Len(seg.text) BY <2>4
    <3>2. a \in [1..n -> Marks] BY <2>4, <2>5, <2>6, <3>1
    <3> QED BY <3>2
  <2> QED BY <2>2, <2>5, <2>7 DEF Plain
<1>3. CASE seg.channel # "system"
  <2> DEFINE words == I!Escape(seg.text)
             mid == [i \in DOMAIN words |-> I!Mark(words[i], seg)]
             open == I!Mark("open", seg)
             close == I!Mark("close", seg)
             n == Len(seg.text)
             fence == <<open>> \o mid \o <<close>>
  <2>1. I!Fenced(seg) = fence BY <1>3 DEF I!Fenced
  <2>2. open \in Marks /\ close \in Marks /\ open.mark = "open" /\ close.mark = "close"
    BY <1>1 DEF I!Mark, Marks
  <2>3. n \in Nat /\ DOMAIN seg.text = 1..n BY <1>1
  <2>4. DOMAIN mid = 1..n BY <2>3 DEF I!Escape
  <2>5. \A i \in 1..n : mid[i] \in Marks /\ mid[i].mark = "word"
    BY <1>1, <2>3 DEF I!Escape, I!Mark, Marks
  <2>6. mid = [i \in 1..n |-> mid[i]] BY <2>4
  <2> HIDE DEF mid, open, close, n
  <2>7. mid \in Seq(Marks) /\ Len(mid) = n BY <2>3, <2>4, <2>5, <2>6
  <2>8. /\ fence \in Seq(Marks) /\ Len(fence) = n + 2
        /\ fence[1] = open /\ fence[n + 2] = close
        /\ \A i \in 2..(n + 1) : fence[i] = mid[i - 1]
    BY <2>2, <2>3, <2>7
  <2> HIDE DEF fence
  <2>9. \A i \in 2..(n + 1) : fence[i].mark = "word"
    <3> TAKE i \in 2..(n + 1)
    <3>1. i - 1 \in 1..n BY <2>3
    <3> QED BY <2>5, <2>8, <3>1
  <2>10. (n + 2) - 1 = n + 1 /\ n + 2 >= 2 BY <2>3
  <2>11. Fence(fence) BY <2>2, <2>8, <2>9, <2>10 DEF Fence
  <2> QED BY <2>1, <2>8, <2>11
<1> QED BY <1>2, <1>3

\* The positions of a mark in front of n.
MarksAt(word, marks, n) == {i \in 1..(n - 1) : marks[i].mark = word}

LEMMA DepthCounts ==
    ASSUME NEW marks, NEW n
    PROVE  I!Depth(marks, n) =
             Cardinality(MarksAt("open", marks, n)) - Cardinality(MarksAt("close", marks, n))
BY SameCount, Zenon DEF I!Depth, MarksAt

LEMMA DepthOfOne ==
    ASSUME NEW a \in Seq(Marks), Plain(a) \/ Fence(a),
           NEW n \in 1..Len(a), a[n].mark = "word", a[n].trust = "untrusted"
    PROVE  I!Depth(a, n) = 1
<1>1. Len(a) \in Nat /\ DOMAIN a = 1..Len(a) OBVIOUS
<1>2. Fence(a) BY <1>1 DEF Plain
<1>3. n # 1 /\ n # Len(a) BY <1>2 DEF Fence
<1>4. 1 \in 1..(n - 1) /\ \A i \in 1..(n - 1) : i = 1 \/ i \in 2..(Len(a) - 1)
  <2>1. PICK l \in Nat : l = Len(a) BY <1>1
  <2>2. n \in 1..l /\ n # 1 BY <1>3, <2>1
  <2>3. 1 \in 1..(n - 1) /\ \A i \in 1..(n - 1) : i = 1 \/ i \in 2..(l - 1) BY <2>2
  <2> QED BY <2>1, <2>3, Zenon
<1>5. a[1].mark = "open" /\ \A i \in 1..(n - 1) : i = 1 \/ a[i].mark = "word"
  BY <1>2, <1>4 DEF Fence
<1>6. MarksAt("open", a, n) = {1} BY <1>4, <1>5 DEF MarksAt
<1>7. MarksAt("close", a, n) = {} BY <1>5 DEF MarksAt
<1>8. Cardinality({1}) = 1 /\ Cardinality({}) = 0 BY FS_Singleton, FS_EmptySet
<1>9. I!Depth(a, n) = Cardinality({1}) - Cardinality({})
  BY <1>6, <1>7, DepthCounts, Zenon
<1> QED BY <1>8, <1>9

LEMMA DepthOfTwo ==
    ASSUME NEW a \in Seq(Marks), Plain(a) \/ Fence(a),
           NEW b \in Seq(Marks), Plain(b) \/ Fence(b),
           NEW n \in 1..Len(a \o b),
           (a \o b)[n].mark = "word", (a \o b)[n].trust = "untrusted"
    PROVE  I!Depth(a \o b, n) = 1
<1> DEFINE ab == a \o b
           la == Len(a)
           lb == Len(b)
<1>1. la \in Nat /\ lb \in Nat /\ DOMAIN a = 1..la /\ DOMAIN b = 1..lb OBVIOUS
<1>2. /\ ab \in Seq(Marks) /\ Len(ab) = la + lb
      /\ \A i \in 1..la : ab[i] = a[i]
      /\ \A i \in (la + 1)..(la + lb) : ab[i] = b[i - la]
  OBVIOUS
<1>3. n \in 1..(la + lb) /\ ab[n].mark = "word" /\ ab[n].trust = "untrusted" BY <1>2
<1> HIDE DEF ab, la, lb
<1>0. SUFFICES I!Depth(ab, n) = 1 BY DEF ab
<1>4. CASE n <= la
  <2>1. n \in 1..la BY <1>1, <1>3, <1>4
  <2>2. a[n].mark = "word" /\ a[n].trust = "untrusted" BY <1>2, <1>3, <2>1
  <2>3. I!Depth(a, n) = 1 BY <2>1, <2>2, DepthOfOne DEF la
  <2>4. \A i \in 1..(n - 1) : ab[i] = a[i] BY <1>1, <1>2, <2>1
  <2>5. MarksAt("open", ab, n) = MarksAt("open", a, n) /\ MarksAt("close", ab, n) = MarksAt("close", a, n)
    BY <2>4 DEF MarksAt
  <2> QED BY <2>3, <2>5, DepthCounts
<1>5. CASE n > la
  <2>1. n - la \in 1..lb /\ ab[n] = b[n - la] BY <1>1, <1>2, <1>3, <1>5
  <2>2. Fence(b) BY <1>1, <1>3, <2>1 DEF Plain
  <2>3. b[1].mark = "open" /\ b[lb].mark = "close" /\ lb >= 2
        /\ \A i \in 2..(lb - 1) : b[i].mark = "word"
    BY <2>2 DEF Fence, lb
  <2>4. n - la # 1 /\ n - la # lb BY <1>3, <2>1, <2>3
  <2>5. n \in (la + 2)..(la + lb - 1) BY <1>1, <1>5, <2>1, <2>4
  <2>6. ab[la + 1].mark = "open"
    <3>1. la + 1 \in (la + 1)..(la + lb) /\ (la + 1) - la = 1 BY <1>1, <2>3
    <3> QED BY <1>2, <2>3, <3>1
  <2>7. \A i \in (la + 2)..(n - 1) : ab[i].mark = "word"
    <3> TAKE i \in (la + 2)..(n - 1)
    <3>1. i \in (la + 1)..(la + lb) /\ i - la \in 2..(lb - 1) BY <1>1, <2>5
    <3> QED BY <1>2, <2>3, <3>1
  <2>8. \A i \in 1..(n - 1) : i \in 1..la \/ i = la + 1 \/ i \in (la + 2)..(n - 1)
    BY <1>1, <2>5
  <2>9. la + 1 \in 1..(n - 1) /\ \A i \in 1..la : i \in 1..(n - 1) /\ i # la + 1
    BY <1>1, <2>5
  <2>10. CASE Plain(a)
    <3>1. \A i \in 1..la : ab[i].mark = "word" BY <1>1, <1>2, <2>10 DEF Plain
    <3>2. MarksAt("open", ab, n) = {la + 1} BY <2>6, <2>7, <2>8, <2>9, <3>1 DEF MarksAt
    <3>3. MarksAt("close", ab, n) = {} BY <2>6, <2>7, <2>8, <2>9, <3>1 DEF MarksAt
    <3>4. Cardinality({la + 1}) = 1 /\ Cardinality({}) = 0 BY FS_Singleton, FS_EmptySet
    <3>5. I!Depth(ab, n) = Cardinality({la + 1}) - Cardinality({})
      BY <3>2, <3>3, DepthCounts, Zenon
    <3> QED BY <3>4, <3>5
  <2>11. CASE Fence(a)
    <3>1. /\ la >= 2 /\ ab[1].mark = "open" /\ ab[la].mark = "close"
          /\ \A i \in 2..(la - 1) : ab[i].mark = "word"
      BY <1>1, <1>2, <2>11 DEF Fence, la
    <3>2. \A i \in 1..la : i = 1 \/ i = la \/ i \in 2..(la - 1) BY <1>1
    <3>3. 1 \in 1..la /\ la \in 1..la /\ 1 # la BY <1>1, <3>1
    <3>4. MarksAt("open", ab, n) = {1} \cup {la + 1}
      BY <2>6, <2>7, <2>8, <2>9, <3>1, <3>2, <3>3 DEF MarksAt
    <3>5. MarksAt("close", ab, n) = {la}
      BY <2>6, <2>7, <2>8, <2>9, <3>1, <3>2, <3>3 DEF MarksAt
    <3>6. la + 1 \notin {1} BY <1>1, <3>1
    <3>7. IsFiniteSet({1}) /\ Cardinality({1}) = 1 /\ Cardinality({la}) = 1
      BY FS_Singleton
    <3>8. Cardinality({1} \cup {la + 1}) = Cardinality({1}) + 1
      BY <3>6, <3>7, FS_AddElement, Zenon
    <3>9. I!Depth(ab, n) = Cardinality({1} \cup {la + 1}) - Cardinality({la})
      BY <3>4, <3>5, DepthCounts, Zenon
    <3> QED BY <3>7, <3>8, <3>9
  <2> QED BY <2>10, <2>11
<1> QED BY <1>1, <1>3, <1>4, <1>5

LEMMA SameIsFinite == ASSUME NEW S PROVE I!IsFiniteSet(S) <=> IsFiniteSet(S)
BY DEF I!IsFiniteSet, IsFiniteSet

\* What a text is made from: one or two admissible segments, or findings.
MadeOf(t) ==
    \/ /\ t.matches = {}
       /\ \/ \E s \in Segments : I!Admissible(s) /\ t.segments = <<s>>
          \/ \E s, u \in Segments :
               I!Admissible(s) /\ I!Admissible(u) /\ t.segments = <<s, u>>
    \/ t.segments = <<>> /\ t.matches \in SUBSET Findings

TextMade == text # Nothing => MadeOf(text)

LEMMA TextMadeContained == TextMade => I!TextContained
<1> SUFFICES ASSUME text # Nothing, MadeOf(text) PROVE I!TextContained
  BY DEF TextMade, I!TextContained
<1> DEFINE fenced == [i \in DOMAIN text.segments |-> I!Fenced(text.segments[i])]
           marks == I!FlattenSeq(fenced)
           Inside(ms) == \A n \in DOMAIN ms :
             ms[n].mark = "word" /\ ms[n].trust = "untrusted" => I!Depth(ms, n) = 1
           found == text.matches
<1>1. Inside(marks)
  <2>1. CASE text.segments = <<>>
    <3>1. fenced = <<>> BY <2>1
    <3>2. marks = <<>> BY <3>1, FlattenNone, Zenon
    <3> HIDE DEF marks
    <3> QED BY <3>2
  <2>2. ASSUME NEW s \in Segments, I!Admissible(s), text.segments = <<s>> PROVE Inside(marks)
    <3>1. PICK a : a = I!Fenced(s) OBVIOUS
    <3>2. a \in Seq(Marks) /\ (Plain(a) \/ Fence(a)) BY <2>2, <3>1, FencedShape
    <3>3. fenced = <<a>>
      <4>1. text.segments = <<s>> BY <2>2
      <4>2. DOMAIN text.segments = 1..1 /\ text.segments[1] = s BY <4>1
      <4> QED BY <3>1, <4>2
    <3>4. marks = a BY <3>3, FlattenOne, Zenon
    <3> HIDE DEF marks
    <3>5. DOMAIN a = 1..Len(a) BY <3>2
    <3>6. Inside(a) BY <3>2, <3>5, DepthOfOne
    <3> QED BY <3>4, <3>6, Zenon
  <2>3. ASSUME NEW s \in Segments, NEW u \in Segments, I!Admissible(s), I!Admissible(u),
               text.segments = <<s, u>>
        PROVE  Inside(marks)
    <3>1. PICK a : a = I!Fenced(s) OBVIOUS
    <3>2. PICK b : b = I!Fenced(u) OBVIOUS
    <3>3. a \in Seq(Marks) /\ (Plain(a) \/ Fence(a)) BY <2>3, <3>1, FencedShape
    <3>4. b \in Seq(Marks) /\ (Plain(b) \/ Fence(b)) BY <2>3, <3>2, FencedShape
    <3>5. fenced = <<a, b>>
      <4>1. text.segments = <<s, u>> BY <2>3
      <4>2. /\ DOMAIN text.segments = 1..2
            /\ text.segments[1] = s /\ text.segments[2] = u
        BY <4>1
      <4> QED BY <3>1, <3>2, <4>2
    <3>6. marks = a \o b BY <3>5, FlattenTwo, Zenon
    <3> HIDE DEF marks
    <3>7. DOMAIN (a \o b) = 1..Len(a \o b) BY <3>3, <3>4
    <3>8. Inside(a \o b) BY <3>3, <3>4, <3>7, DepthOfTwo
    <3> QED BY <3>6, <3>8, Zenon
  <2> QED BY <2>1, <2>2, <2>3 DEF MadeOf
<1>2. ASSUME NEW m \in found
      PROVE  /\ m.start \in I!Redact(found)
             /\ (\A o \in found \ {m} : o.end <= m.start \/ m.end <= o.start) =>
                  m.start..(m.end - 1) \subseteq I!Redact(found)
  <2>1. found \in SUBSET Findings BY <1>2 DEF MadeOf
  <2>2. /\ IsFiniteSet(Findings) /\ Findings \subseteq Match
        /\ \A x \in Findings : x.start < x.end
    BY FlowAssumption, SameIsFinite DEF I!FlowConstants, Match
  <2>3. IsFiniteSet(found) BY <2>1, <2>2, FS_Subset
  <2>4. found \in SUBSET Match /\ \A x \in found : x.start < x.end BY <2>1, <2>2
  <2> HIDE DEF found
  <2> QED BY <1>2, <2>3, <2>4, Redacted
<1> QED BY <1>1, <1>2 DEF I!TextContained

LEMMA TextInit == I!Init => TextMade
BY DEF I!Init, TextMade

LEMMA TextStep == TextMade /\ [I!Next]_(I!vars) => TextMade'
<1> SUFFICES ASSUME TextMade, [I!Next]_(I!vars) PROVE TextMade'
  OBVIOUS
<1>1. CASE UNCHANGED text BY <1>1 DEF TextMade, MadeOf
<1>2. ASSUME NEW s \in Segments, I!Isolate(<<s>>) PROVE TextMade'
  <2>1. I!Admissible(s) /\ text' = [segments |-> <<s>>, matches |-> {}]
    <3>1. DOMAIN <<s>> = 1..1 /\ <<s>>[1] = s /\ 1 \in 1..1 OBVIOUS
    <3> QED BY <1>2, <3>1 DEF I!Isolate
  <2>2. MadeOf(text') BY <2>1 DEF MadeOf
  <2> QED BY <2>2 DEF TextMade
<1>3. ASSUME NEW s \in Segments, NEW u \in Segments, I!Isolate(<<s, u>>) PROVE TextMade'
  <2>1. I!Admissible(s) /\ I!Admissible(u) /\ text' = [segments |-> <<s, u>>, matches |-> {}]
    <3>1. /\ DOMAIN <<s, u>> = 1..2 /\ <<s, u>>[1] = s /\ <<s, u>>[2] = u
          /\ 1 \in 1..2 /\ 2 \in 1..2
      OBVIOUS
    <3> QED BY <1>3, <3>1 DEF I!Isolate
  <2>2. MadeOf(text') BY <2>1 DEF MadeOf
  <2> QED BY <2>2 DEF TextMade
<1>4. ASSUME NEW n \in 0..MaxMatches, NEW matches \in I!kSubset(n, Findings), I!Scan(matches)
      PROVE  TextMade'
  <2>1. matches \in SUBSET Findings BY <1>4 DEF I!kSubset
  <2>2. text' = [segments |-> <<>>, matches |-> matches] BY <1>4 DEF I!Scan
  <2>3. MadeOf(text') BY <2>1, <2>2 DEF MadeOf
  <2> QED BY <2>3 DEF TextMade
<1>5. CASE I!DataNext
  <2>1. UNCHANGED text
    BY <1>5 DEF I!DataNext, I!Classify, I!Derive, I!Combine, I!NewObject, I!Retrieve, I!Compose
  <2> QED BY <1>1, <2>1
<1>6. CASE I!TextNext BY <1>2, <1>3, <1>4, <1>6 DEF I!TextNext
<1>7. CASE UNCHANGED I!vars BY <1>1, <1>7 DEF I!vars
<1> QED BY <1>5, <1>6, <1>7 DEF I!Next

\* Text stays where it was put, and secrets do not survive whole: every word that
\* nobody vouches for is inside exactly one fence, and of every match the first
\* character is gone, all of it where nothing overlaps
\* (assemble_isolated_prompt, ScanResult.redact).
THEOREM TextsContained == I!Spec => []TextContained
<1>1. I!Spec => []TextMade BY TextInit, TextStep, PTL DEF I!Spec
<1>2. TextMade => TextContained BY TextMadeContained DEF TextContained
<1> QED BY <1>1, <1>2, PTL

-----------------------------------------------------------------------------
(* Where data may go: labels *)

\* A bounded set of numbers has a greatest one.
LEMMA GreatestNumber ==
    ASSUME NEW top \in Nat, NEW N \in SUBSET (0..top), N # {}
    PROVE  I!Max(N) \in N /\ \A y \in N : y <= I!Max(N)
<1> DEFINE B == {top - y : y \in N}
<1>1. B \in SUBSET Nat /\ B # {} OBVIOUS
<1>2. \A y \in N : top - y \in B OBVIOUS
<1>3. \A z \in B : \E y \in N : z = top - y OBVIOUS
<1> HIDE DEF B
<1>4. PICK z \in B : \A w \in B : z <= w BY <1>1, LeastNatural
<1>5. PICK x \in N : z = top - x BY <1>3
<1>6. \A y \in N : x >= y
  <2> TAKE y \in N
  <2>1. top - x <= top - y BY <1>2, <1>4, <1>5
  <2>2. x \in 0..top /\ y \in 0..top OBVIOUS
  <2> QED BY <2>1, <2>2
<1>7. I!Max(N) \in N /\ \A y \in N : I!Max(N) >= y BY <1>6, Zenon DEF I!Max
<1>8. I!Max(N) \in 0..top /\ \A y \in N : y \in 0..top BY <1>7
<1> QED BY <1>7, <1>8

LEMMA LesserOfTwo ==
    ASSUME NEW a \in Nat, NEW b \in Nat
    PROVE  (a <= b => I!Min({a, b}) = a) /\ (b <= a => I!Min({a, b}) = b)
BY DEF I!Min

\* A datum: what was ingested into it is within its class, and some of it is of
\* the tenant of the first actor.
Datum(d) ==
    /\ d.class \in 0..3
    /\ d.lineage \in Seq(Actor) /\ Len(d.lineage) >= 1
    /\ IsFiniteSet(d.origins)
    /\ \A o \in d.origins : o.class \in 0..3 /\ o.class <= d.class
    /\ \E o \in d.origins : o.tenant = TenantOf[d.lineage[1]]

\* Data with labels of their own.
Labelled(D) ==
    /\ IsFiniteSet(D)
    /\ \A d \in D : Datum(d) /\ d.label \in Nat
    /\ \A d, e \in D : d.label = e.label => d = e

\* The first n of the sort of compose exist.
LEMMA FirstFacts ==
    ASSUME NEW kept, Labelled(kept), NEW n \in Nat
    PROVE  /\ I!First(n, kept) \in SUBSET kept
           /\ \A a \in I!First(n, kept), b \in kept \ I!First(n, kept) : a.class <= b.class
           /\ kept \ I!First(n, kept) # {} => Cardinality(I!First(n, kept)) = n
<1> DEFINE R == {p \in kept \X kept : I!Before(p[1], p[2])}
           Foremost(S, T, k) == /\ S \in SUBSET T /\ Cardinality(S) = k
                                /\ \A a \in S, b \in T \ S : I!Before(a, b)
           F == {T \in SUBSET kept : \A k \in 0..Cardinality(T) : \E S : Foremost(S, T, k)}
<1>1. \A a \in kept : a.class \in Nat /\ a.label \in Nat BY DEF Labelled, Datum
<1>2. \A a, b \in kept : <<a, b>> \in R <=> I!Before(a, b) OBVIOUS
<1>3. \A a, b, c \in kept : I!Before(a, b) /\ I!Before(b, c) => I!Before(a, c)
  BY <1>1 DEF I!Before
<1>4. \A a, b \in kept : a # b => I!Before(a, b) \/ I!Before(b, a)
  BY <1>1 DEF I!Before, Labelled
<1>5. {} \in F
  <2>1. Cardinality({}) = 0 /\ 0..0 = {0} BY FS_EmptySet
  <2>2. Foremost({}, {}, 0) BY <2>1
  <2> HIDE DEF Foremost
  <2> QED BY <2>1, <2>2
<1>6. \A T \in SUBSET kept : IsFiniteSet(T) /\ Cardinality(T) \in Nat
  BY FS_Subset, FS_CardinalityType DEF Labelled
<1>7. ASSUME NEW T \in SUBSET kept, NEW l \in kept \ T, T \in F, \A a \in T : <<a, l>> \in R
      PROVE  T \cup {l} \in F
  <2>1. \A a \in T : I!Before(a, l) BY <1>2, <1>7
  <2>2. \A k \in 0..Cardinality(T) : \E S : Foremost(S, T, k) BY <1>7
  <2> HIDE DEF R
  <2>3. IsFiniteSet(T) /\ Cardinality(T) \in Nat BY <1>6
  <2>4. Cardinality(T \cup {l}) = Cardinality(T) + 1 BY <2>3, <1>7, FS_AddElement
  <2>5. ASSUME NEW k \in 0..Cardinality(T \cup {l}) PROVE \E S : Foremost(S, T \cup {l}, k)
    <3>1. CASE k = Cardinality(T \cup {l})
      <4>1. Foremost(T \cup {l}, T \cup {l}, k) BY <3>1
      <4> QED BY <4>1
    <3>2. CASE k # Cardinality(T \cup {l})
      <4>1. k \in 0..Cardinality(T) BY <2>3, <2>4, <3>2
      <4>2. PICK S : Foremost(S, T, k) BY <2>2, <4>1
      <4>3. \A a \in S, b \in (T \cup {l}) \ S : I!Before(a, b) BY <2>1, <4>2
      <4>4. Foremost(S, T \cup {l}, k) BY <4>2, <4>3
      <4> QED BY <4>4
    <3> QED BY <3>1, <3>2
  <2> QED BY <2>5, <1>7
<1>8. kept \in F
  <2>1. \A a, b, c \in kept : <<a, b>> \in R /\ <<b, c>> \in R => <<a, c>> \in R
    BY <1>2, <1>3
  <2>2. \A a, b \in kept : a # b => <<a, b>> \in R \/ <<b, a>> \in R BY <1>2, <1>4
  <2>3. IsFiniteSet(kept) BY DEF Labelled
  <2> HIDE DEF R, F, Foremost
  <2> QED BY <1>5, <1>7, <2>1, <2>2, <2>3, ChainInduction
<1> DEFINE c == Cardinality(kept)
           m == I!Min({n, c})
           S == I!First(n, kept)
<1>9. c \in Nat BY <1>6
<1>10. m \in 0..c /\ (m = n \/ m = c) BY <1>9, LesserOfTwo
<1>11. \E U : Foremost(U, kept, m)
  <2> HIDE DEF Foremost, m
  <2> QED BY <1>8, <1>10
<1>12. S = CHOOSE U \in SUBSET kept :
             Cardinality(U) = m /\ \A a \in U, b \in kept \ U : I!Before(a, b)
  BY SameCount, Zenon DEF I!First
<1>13. Foremost(S, kept, m)
  <2> HIDE DEF S, m
  <2> QED BY <1>11, <1>12
<1>14. kept \ S # {} => m # c
  <2> HIDE DEF S, m
  <2>1. IsFiniteSet(kept) BY DEF Labelled
  <2>2. Cardinality(S) = Cardinality(kept) => S = kept BY <1>13, <2>1, FS_Subset
  <2> QED BY <1>13, <2>2
<1>15. \A a \in S, b \in kept \ S : a.class <= b.class
  <2> HIDE DEF S, m
  <2> QED BY <1>1, <1>13 DEF I!Before
<1> HIDE DEF m
<1> QED BY <1>10, <1>13, <1>14, <1>15

\* A rule that was found is one of the rules.
LEMMA RuleFound ==
    ASSUME NEW caller, NEW purpose, I!FirstRule(caller, purpose) # 0
    PROVE  Rules[I!FirstRule(caller, purpose)].max_class \in 0..3
<1> DEFINE N == {i \in 1..Len(Rules) : Rules[i].caller = caller /\ Rules[i].purpose = purpose}
<1>1. I!FirstRule(caller, purpose) = IF N # {} THEN I!Min(N) ELSE 0
  BY DEF I!FirstRule, I!SelectInSeq
<1>2. N \in SUBSET Nat OBVIOUS
<1>3. Rules \in Seq([caller : Actor, purpose : Purpose, max_class : 0..3])
  BY FlowAssumption DEF I!FlowConstants, I!Class
<1>4. \A i \in N : Rules[i].max_class \in 0..3
  <2>1. \A i \in 1..Len(Rules) :
          Rules[i] \in [caller : Actor, purpose : Purpose, max_class : 0..3]
    BY <1>3, ElementOfSeq
  <2> QED BY <2>1
<1> HIDE DEF N
<1>5. N # {} BY <1>1
<1>6. \E x \in N : \A y \in N : x <= y BY <1>2, <1>5, LeastNatural
<1>7. I!Min(N) \in N BY <1>6, Zenon DEF I!Min
<1> QED BY <1>1, <1>4, <1>5, <1>7

\* What an allowed retrieval hands out.
LEMMA AllowedFacts ==
    ASSUME NEW caller, NEW purpose, NEW d, Datum(d), I!Allows(caller, purpose, d), NEW o \in d.origins
    PROVE  /\ o.class <= Rules[I!FirstRule(caller, purpose)].max_class
           /\ I!Cardinality({p.tenant : p \in d.origins}) = 1 => o.tenant = TenantOf[caller]
<1>1. Rules[I!FirstRule(caller, purpose)].max_class \in 0..3 BY RuleFound DEF I!Allows
<1>2. ~(d.class > Rules[I!FirstRule(caller, purpose)].max_class)
  BY DEF I!Allows, I!IsMoreRestrictive
<1>3. d.class \in 0..3 /\ o.class \in 0..3 /\ o.class <= d.class BY DEF Datum
<1>4. o.class <= Rules[I!FirstRule(caller, purpose)].max_class BY <1>1, <1>2, <1>3
<1>5. ASSUME I!Cardinality({p.tenant : p \in d.origins}) = 1 PROVE o.tenant = TenantOf[caller]
  <2> DEFINE T == {p.tenant : p \in d.origins}
  <2>1. IsFiniteSet(T)
    <3> DEFINE tenant == [p \in d.origins |-> p.tenant]
    <3>1. tenant \in Surjection(d.origins, T) BY DEF Surjection
    <3>2. IsFiniteSet(d.origins) BY DEF Datum
    <3> HIDE DEF tenant, T
    <3> QED BY <3>1, <3>2, FS_Surjection
  <2>2. o.tenant \in T /\ TenantOf[d.lineage[1]] \in T BY DEF Datum
  <2>3. Cardinality(T) = 1 BY <1>5, SameCount, Zenon
  <2> HIDE DEF T
  <2>4. PICK x : T = {x} BY <2>1, <2>3, FS_Singleton
  <2> QED BY <2>2, <2>4 DEF I!Allows
<1> QED BY <1>4, <1>5

\* A prompt within its budget.
Composed(p) ==
    /\ \A d \in p.items : Datum(d) /\ ~(d.class > p.budget.max_class)
    /\ p.budget.max_class \in 0..3
    /\ \A d \in p.left_out : /\ Datum(d) /\ Cardinality(p.items) = p.budget.max_items
                              /\ \A a \in p.items : a.class <= d.class

FlowRight ==
    /\ Labelled(objects) /\ \A d \in objects : d.label <= Cardinality(objects)
    /\ \A r \in retrieved :
         r \in recorded /\ r.data \in objects /\ I!Allows(r.caller, r.purpose, r.data)
    /\ prompt # Nothing => Composed(prompt)

LEMMA ComposedBounded ==
    ASSUME NEW p, Composed(p)
    PROVE  /\ \A d \in p.items : \A o \in d.origins :
                o.class <= p.budget.max_class /\ o.class <= I!RealizedMaxClass(p)
           /\ \A d \in p.left_out :
                /\ I!Cardinality(p.items) = p.budget.max_items
                /\ d.class >= I!RealizedMaxClass(p)
<1> DEFINE N == {d.class : d \in p.items}
<1>1. N \in SUBSET (0..3) BY DEF Composed, Datum
<1>2. I!RealizedMaxClass(p) = IF p.items = {} THEN 0 ELSE I!Max(N) BY DEF I!RealizedMaxClass
<1>3. \A d \in p.items : d.class \in N OBVIOUS
<1>4. \A y \in N : \E d \in p.items : y = d.class OBVIOUS
<1>5. p.items # {} => N # {} OBVIOUS
<1> HIDE DEF N
<1>6. N # {} => I!Max(N) \in N /\ \A y \in N : y <= I!Max(N) BY <1>1, GreatestNumber
<1>7. ASSUME NEW d \in p.items, NEW o \in d.origins
      PROVE  o.class <= p.budget.max_class /\ o.class <= I!RealizedMaxClass(p)
  <2>1. d.class \in 0..3 /\ o.class \in 0..3 /\ o.class <= d.class BY DEF Composed, Datum
  <2>2. p.budget.max_class \in 0..3 /\ ~(d.class > p.budget.max_class) BY DEF Composed
  <2>3. I!RealizedMaxClass(p) = I!Max(N) BY <1>2
  <2>4. I!Max(N) \in 0..3 /\ d.class <= I!Max(N) BY <1>1, <1>3, <1>5, <1>6
  <2> QED BY <2>1, <2>2, <2>3, <2>4
<1>8. ASSUME NEW d \in p.left_out
      PROVE  I!Cardinality(p.items) = p.budget.max_items /\ d.class >= I!RealizedMaxClass(p)
  <2>1. Cardinality(p.items) = p.budget.max_items BY DEF Composed
  <2>2. I!Cardinality(p.items) = p.budget.max_items BY <2>1, SameCount, Zenon
  <2>3. d.class \in 0..3 /\ \A a \in p.items : a.class <= d.class BY DEF Composed, Datum
  <2>4. CASE p.items = {} BY <1>2, <2>2, <2>3, <2>4
  <2>5. CASE p.items # {}
    <3>1. I!RealizedMaxClass(p) = I!Max(N) BY <1>2, <2>5
    <3>2. I!Max(N) \in N BY <1>5, <1>6, <2>5
    <3>3. I!Max(N) <= d.class /\ I!Max(N) \in 0..3 BY <1>1, <1>4, <2>3, <3>2
    <3> QED BY <2>2, <2>3, <3>1, <3>3
  <2> QED BY <2>4, <2>5
<1> QED BY <1>7, <1>8

LEMMA FlowRightBounded == FlowRight => I!FlowBounded
<1> SUFFICES ASSUME FlowRight PROVE I!FlowBounded OBVIOUS
<1>1. ASSUME NEW r \in retrieved
      PROVE  /\ r \in recorded
             /\ \A o \in r.data.origins :
                  /\ o.class <= Rules[I!FirstRule(r.caller, r.purpose)].max_class
                  /\ I!Cardinality({p.tenant : p \in r.data.origins}) = 1 =>
                       o.tenant = TenantOf[r.caller]
  <2>1. r \in recorded /\ Datum(r.data) /\ I!Allows(r.caller, r.purpose, r.data)
    BY DEF FlowRight, Labelled
  <2>2. ASSUME NEW o \in r.data.origins
        PROVE  /\ o.class <= Rules[I!FirstRule(r.caller, r.purpose)].max_class
               /\ I!Cardinality({p.tenant : p \in r.data.origins}) = 1 =>
                    o.tenant = TenantOf[r.caller]
    BY <2>1, AllowedFacts
  <2> QED BY <2>1, <2>2
<1>2. prompt # Nothing => Composed(prompt) BY DEF FlowRight
<1> QED BY <1>1, <1>2, ComposedBounded DEF I!FlowBounded

\* A new datum, under the next label, keeps what is right.
LEMMA NewObjectRight ==
    ASSUME FlowRight, NEW class \in 0..3, NEW lineage \in Seq(Actor), Len(lineage) >= 1,
           NEW origins, IsFiniteSet(origins),
           \A o \in origins : o.class \in 0..3 /\ o.class <= class,
           \E o \in origins : o.tenant = TenantOf[lineage[1]],
           I!NewObject(class, lineage, origins)
    PROVE  FlowRight'
<1> DEFINE n == Cardinality(objects)
           d == [label |-> n + 1, class |-> class, lineage |-> lineage, origins |-> origins]
<1>1. objects' = objects \cup {d} /\ UNCHANGED <<retrieved, recorded, prompt>>
  BY SameCount DEF I!NewObject
<1>2. IsFiniteSet(objects) /\ n \in Nat BY FS_CardinalityType DEF FlowRight, Labelled
<1>3. d.label = n + 1 /\ Datum(d) BY DEF Datum
<1>4. \A e \in objects : Datum(e) /\ e.label \in Nat /\ e.label <= n
  BY DEF FlowRight, Labelled
<1> HIDE DEF d, n
<1>5. d \notin objects BY <1>2, <1>3, <1>4
<1>6. IsFiniteSet(objects') /\ Cardinality(objects') = n + 1
  BY <1>1, <1>2, <1>5, FS_AddElement DEF n
<1>7. \A e \in objects' : e = d \/ e \in objects BY <1>1
<1>8. \A e \in objects' : Datum(e) /\ e.label \in Nat /\ e.label <= n + 1
  BY <1>2, <1>3, <1>4, <1>7
<1>9. \A e, f \in objects' : e.label = f.label => e = f
  <2>1. \A e, f \in objects : e.label = f.label => e = f BY DEF FlowRight, Labelled
  <2>2. \A e \in objects : e.label # n + 1 BY <1>2, <1>4
  <2> QED BY <1>3, <1>7, <2>1, <2>2
<1>10. Labelled(objects') BY <1>6, <1>8, <1>9 DEF Labelled
<1>11. \A e \in objects' : e.label <= Cardinality(objects') BY <1>6, <1>8
<1>12. \A r \in retrieved' :
         r \in recorded' /\ r.data \in objects' /\ I!Allows(r.caller, r.purpose, r.data)
  BY <1>1 DEF FlowRight
<1>13. prompt' # Nothing => Composed(prompt') BY <1>1 DEF FlowRight
<1> QED BY <1>10, <1>11, <1>12, <1>13 DEF FlowRight

LEMMA ClassifyRight ==
    ASSUME FlowRight, NEW actor \in Actor, NEW class \in I!Class, I!Classify(actor, class)
    PROVE  FlowRight'
<1> DEFINE o == [class |-> class, tenant |-> TenantOf[actor]]
           lineage == <<actor>>
           origins == {o}
<1>1. I!NewObject(class, lineage, origins) BY DEF I!Classify
<1>2. lineage \in Seq(Actor) /\ Len(lineage) >= 1 /\ lineage[1] = actor OBVIOUS
<1>3. IsFiniteSet(origins) BY FS_Singleton
<1>4. class \in 0..3 BY DEF I!Class
<1>5. o.class = class /\ o.tenant = TenantOf[actor] OBVIOUS
<1> HIDE DEF o, lineage
<1>6. \A p \in origins : p.class \in 0..3 /\ p.class <= class BY <1>4, <1>5
<1>7. \E p \in origins : p.tenant = TenantOf[lineage[1]] BY <1>2, <1>5
<1> HIDE DEF origins
<1> QED BY <1>1, <1>2, <1>3, <1>4, <1>6, <1>7, NewObjectRight

LEMMA DeriveRight ==
    ASSUME FlowRight, NEW parent \in objects, NEW actor \in Actor, NEW class \in I!Class,
           I!Derive(parent, actor, class)
    PROVE  FlowRight'
<1> DEFINE lineage == Append(parent.lineage, actor)
<1>1. I!NewObject(class, lineage, parent.origins) /\ ~(parent.class > class)
  BY DEF I!Derive, I!IsMoreRestrictive
<1>2. Datum(parent) BY DEF FlowRight, Labelled
<1>3. parent.lineage \in Seq(Actor) /\ Len(parent.lineage) >= 1 BY <1>2 DEF Datum
<1>4. lineage \in Seq(Actor) /\ Len(lineage) >= 1 /\ lineage[1] = parent.lineage[1]
  BY <1>3
<1> HIDE DEF lineage
<1>5. class \in 0..3 BY DEF I!Class
<1>6. \A o \in parent.origins : o.class \in 0..3 /\ o.class <= class
  BY <1>1, <1>2, <1>5 DEF Datum
<1>7. IsFiniteSet(parent.origins) /\ \E o \in parent.origins : o.tenant = TenantOf[lineage[1]]
  BY <1>2, <1>4 DEF Datum
<1> QED BY <1>1, <1>4, <1>5, <1>6, <1>7, NewObjectRight

LEMMA CombineRight ==
    ASSUME FlowRight, NEW c \in objects, NEW d \in objects, NEW actor \in Actor,
           I!Combine(<<c, d>>, actor)
    PROVE  FlowRight'
<1> DEFINE parents == <<c, d>>
           class == I!MaxClass(parents)
           both == I!FlattenSeq([i \in DOMAIN parents |-> parents[i].lineage])
           lineage == Append(both, actor)
           origins == UNION {parents[i].origins : i \in DOMAIN parents}
<1>1. I!NewObject(class, lineage, origins) BY DEF I!Combine
<1>2. Datum(c) /\ Datum(d) BY DEF FlowRight, Labelled
<1>3. DOMAIN parents = 1..2 /\ 1..2 = {1, 2} /\ parents[1] = c /\ parents[2] = d OBVIOUS
<1> HIDE DEF parents
<1>4. class \in 0..3 /\ c.class <= class /\ d.class <= class
  <2> DEFINE N == {parents[i].class : i \in DOMAIN parents}
  <2>1. class = I!Max(N) BY DEF I!MaxClass
  <2>2. N = {c.class, d.class} BY <1>3
  <2>3. N \in SUBSET (0..3) /\ N # {} BY <1>2, <2>2 DEF Datum
  <2> HIDE DEF N, class
  <2>4. I!Max(N) \in N /\ \A y \in N : y <= I!Max(N) BY <2>3, GreatestNumber
  <2> QED BY <2>1, <2>2, <2>3, <2>4
<1>5. lineage \in Seq(Actor) /\ Len(lineage) >= 1 /\ lineage[1] = c.lineage[1]
  <2>1. [i \in DOMAIN parents |-> parents[i].lineage] = <<c.lineage, d.lineage>> BY <1>3
  <2>2. both = c.lineage \o d.lineage BY <2>1, FlattenTwo, Zenon
  <2> HIDE DEF both
  <2>3. /\ c.lineage \in Seq(Actor) /\ Len(c.lineage) >= 1
        /\ d.lineage \in Seq(Actor)
    BY <1>2 DEF Datum
  <2>4. PICK a \in Seq(Actor), b \in Seq(Actor) : a = c.lineage /\ b = d.lineage BY <2>3
  <2>5. a \o b \in Seq(Actor) /\ Len(a \o b) >= 1 /\ (a \o b)[1] = a[1]
    <3>1. Len(a) >= 1 BY <2>3, <2>4
    <3> QED BY <3>1
  <2>6. both \in Seq(Actor) /\ Len(both) >= 1 /\ both[1] = c.lineage[1]
    BY <2>2, <2>4, <2>5, Zenon
  <2> HIDE DEF lineage
  <2>7. PICK l : l = both OBVIOUS
  <2>8. Append(l, actor) \in Seq(Actor) /\ Len(Append(l, actor)) >= 1
        /\ Append(l, actor)[1] = l[1]
    BY <2>6, <2>7
  <2> QED BY <2>6, <2>7, <2>8, Zenon DEF lineage
<1>6. origins = c.origins \cup d.origins BY <1>3
<1> HIDE DEF class, lineage, origins
<1>7. IsFiniteSet(origins) BY <1>2, <1>6, FS_Union DEF Datum
<1>8. \A o \in origins : o.class \in 0..3 /\ o.class <= class
  <2>1. c.class \in 0..3 /\ d.class \in 0..3 BY <1>2 DEF Datum
  <2> QED BY <1>2, <1>4, <1>6, <2>1 DEF Datum
<1>9. \E o \in origins : o.tenant = TenantOf[lineage[1]] BY <1>2, <1>5, <1>6 DEF Datum
<1> QED BY <1>1, <1>4, <1>5, <1>7, <1>8, <1>9, NewObjectRight

LEMMA RetrieveRight ==
    ASSUME FlowRight, NEW caller \in Actor, NEW purpose \in Purpose, NEW d \in objects,
           I!Retrieve(caller, purpose, d)
    PROVE  FlowRight'
<1> DEFINE event == [caller |-> caller, purpose |-> purpose, data |-> d]
<1>1. /\ I!Allows(caller, purpose, d) /\ UNCHANGED <<objects, prompt>>
      /\ \/ recorded' = recorded \cup {event} /\ retrieved' = retrieved \cup {event}
         \/ UNCHANGED <<recorded, retrieved>>
  BY DEF I!Retrieve
<1>2. event.caller = caller /\ event.purpose = purpose /\ event.data = d OBVIOUS
<1> HIDE DEF event
<1>3. \A r \in retrieved' :
        r \in recorded' /\ r.data \in objects' /\ I!Allows(r.caller, r.purpose, r.data)
  BY <1>1, <1>2 DEF FlowRight
<1> QED BY <1>1, <1>3 DEF FlowRight

LEMMA ComposeRight ==
    ASSUME FlowRight, NEW caller \in Actor, NEW purpose \in Purpose, NEW budget \in Budgets,
           I!Compose(I!Got(caller, purpose), budget)
    PROVE  FlowRight'
<1> DEFINE got == I!Got(caller, purpose)
           over == {d \in got : I!IsMoreRestrictive(d.class, budget.max_class)}
           kept == got \ over
           items == I!First(budget.max_items, kept)
<1>1. /\ prompt' = [budget |-> budget, items |-> items, over |-> over, left_out |-> kept \ items]
      /\ UNCHANGED <<objects, retrieved, recorded>>
  BY DEF I!Compose
<1>2. got \in SUBSET objects BY DEF I!Got, FlowRight
<1>3. \A d \in kept : ~(d.class > budget.max_class) BY DEF I!IsMoreRestrictive
<1>4. budget.max_class \in 0..3 /\ budget.max_items \in Nat
  BY FlowAssumption DEF I!FlowConstants, I!Class
<1>5. Labelled(kept)
  <2>1. kept \in SUBSET objects BY <1>2
  <2> HIDE DEF kept
  <2> QED BY <2>1, FS_Subset DEF FlowRight, Labelled
<1> HIDE DEF kept, over
<1>6. /\ items \in SUBSET kept
      /\ \A a \in items, b \in kept \ items : a.class <= b.class
      /\ kept \ items # {} => Cardinality(items) = budget.max_items
  BY <1>4, <1>5, FirstFacts
<1> HIDE DEF items
<1>7. /\ prompt'.items = items /\ prompt'.left_out = kept \ items
      /\ prompt'.budget = budget
  BY <1>1
<1>8. \A d \in kept : Datum(d) BY <1>5 DEF Labelled
<1>9. Composed(prompt') BY <1>3, <1>4, <1>6, <1>7, <1>8 DEF Composed
<1> QED BY <1>1, <1>9 DEF FlowRight

LEMMA FlowInit == I!Init => FlowRight
<1> SUFFICES ASSUME I!Init PROVE FlowRight OBVIOUS
<1>1. objects = {} /\ retrieved = {} /\ prompt = Nothing BY DEF I!Init
<1> QED BY <1>1, FS_EmptySet DEF FlowRight, Labelled

LEMMA FlowStep == FlowRight /\ [I!Next]_(I!vars) => FlowRight'
<1> SUFFICES ASSUME FlowRight, [I!Next]_(I!vars) PROVE FlowRight'
  OBVIOUS
<1>1. CASE UNCHANGED <<objects, retrieved, recorded, prompt>> BY <1>1 DEF FlowRight
<1>2. CASE I!DataNext
  BY <1>2, ClassifyRight, DeriveRight, CombineRight, RetrieveRight, ComposeRight DEF I!DataNext
<1>3. CASE I!TextNext
  <2>1. UNCHANGED <<objects, retrieved, recorded, prompt>>
    BY <1>3 DEF I!TextNext, I!Isolate, I!Scan
  <2> QED BY <1>1, <2>1
<1>4. CASE UNCHANGED I!vars BY <1>1, <1>4 DEF I!vars
<1> QED BY <1>2, <1>3, <1>4 DEF I!Next

\* Labels only tighten along any derivation, so that limits on a label are limits
\* on the data: what a caller got is on record and within the class of its rule,
\* and a prompt within its budget (derive, combine, AllowlistRetrievalPolicy,
\* compose).
THEOREM FlowIsBounded == I!Spec => []FlowBounded
<1>1. I!Spec => []FlowRight BY FlowInit, FlowStep, PTL DEF I!Spec
<1>2. FlowRight => FlowBounded BY FlowRightBounded DEF FlowBounded
<1> QED BY <1>1, <1>2, PTL

=============================================================================
