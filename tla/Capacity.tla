----------------------------- MODULE Capacity -----------------------------
(***************************************************************************)
(* Capacity budgets (envelope/capacity_budgets.py) and the rebalancer that *)
(* moves their limits (envelope/capacity_rebalancer.py).                   *)
(*                                                                         *)
(* Callers acquire and release units of a pool, possibly for a tenant; an  *)
(* operator drafts a rebalancing decision, reviews it and applies it later,*)
(* or evaluates and applies in one call.  Pools and tenant budgets are     *)
(* both "units" with a limit (ceiling, burst), a floor (reserved, reserve) *)
(* and a use (in flight), and the rebalancer treats both alike.            *)
(*                                                                         *)
(* The floats of the rebalancer are fractions <<numerator, denominator>>.  *)
(***************************************************************************)
EXTENDS Integers, Sequences, SequencesExt

CONSTANTS
    Pools,          \* BudgetController.pools, in declaration order
    Budgets,        \* tenant_budgets: the keys <<pool, tenant>>, in order
    Reserved,       \* BudgetPool.reserved, per pool
    Reserve,        \* TenantBudget.reserve, per key
    Ceilings,       \* BudgetPool.ceiling as constructed: the configurations
    InitBurst,      \* TenantBudget.burst as constructed
    Total,          \* total_capacity
    Cost,           \* the costs callers charge
    StressThreshold, SlackThreshold, TransferFraction, CascadeMin

Pool == {Pools[i] : i \in DOMAIN Pools}
Key == {Budgets[i] : i \in DOMAIN Budgets}

\* The tenant argument of a caller outside every tenant budget (or None), and
\* the pairs <<pool, tenant>> callers name.
NoTenant == "none"
Caller == Key \cup (Pool \X {NoTenant})

\* What the counts f come to over S: one for each unit of each member.
SumOver(f, S) == Cardinality(UNION {{x} \X (1..f[x]) : x \in S})

\* sum(op.reserved for op in self.pools if op.name != pool)
OthersReserved(pool) == SumOver(Reserved, Pool \ {pool})
MaxForPool(pool) == Total - OthersReserved(pool)

\* The checks of BudgetPool, TenantBudget and BudgetController on construction.
\* The sum of the reserved capacities is within Total iff each pool's is within
\* what the others leave.
ASSUME CapacityAssumption ==
    /\ Total \in Nat /\ Cost \subseteq Nat \ {0}
    /\ Pools \in Seq(Pool) /\ \A i, j \in DOMAIN Pools : Pools[i] = Pools[j] => i = j
    /\ Budgets \in Seq(Key) /\ \A i, j \in DOMAIN Budgets : Budgets[i] = Budgets[j] => i = j
    /\ Reserved \in [Pool -> Nat] /\ \A p \in Pool : Reserved[p] <= MaxForPool(p)
    /\ \A c \in Ceilings : /\ c \in [Pool -> Nat]
                           /\ \A p \in Pool : Reserved[p] <= c[p]
    /\ Reserve \in [Key -> Nat] /\ InitBurst \in [Key -> Nat]
    /\ \A k \in Key : /\ k = <<k[1], k[2]>> /\ k[1] \in Pool
                      /\ Reserve[k] <= InitBurst[k]

\* Those of CapacityRebalancer.
ASSUME RebalancerAssumption ==
    /\ CascadeMin \in Nat \ {0}
    /\ \A f \in {StressThreshold, SlackThreshold, TransferFraction} :
         f[1] \in Nat \ {0} /\ f[2] \in Nat \ {0} /\ f[1] <= f[2]
    /\ SlackThreshold[1] * StressThreshold[2] < StressThreshold[1] * SlackThreshold[2]

VARIABLES
    ceiling, burst,     \* the limits, moved by the rebalancer
    inPool, inTenant,   \* _in_flight_pool, _in_flight_tenant
    draft,              \* the RebalanceDecisions under review: none or one
    held                \* history: units granted to <<pool, tenant>> and not returned

limits == <<ceiling, burst>>
uses == <<inPool, inTenant, held>>
vars == <<ceiling, burst, inPool, inTenant, draft, held>>

-----------------------------------------------------------------------------
(* BudgetController *)

\* Mutant of Admits: one shared total instead of a floor per pool.
AdmitsByTotal(pool, cost, tenant) ==
    /\ inPool[pool] + cost <= ceiling[pool]
    /\ SumOver(inPool, Pool) + cost <= Total

\* acquire: every check, in the order that matters only for the reason given.
Admits(pool, cost, tenant) ==
    /\ inPool[pool] + cost <= ceiling[pool]
    /\ inPool[pool] + cost > Reserved[pool] => inPool[pool] + cost <= MaxForPool(pool)
    /\ <<pool, tenant>> \in Key =>
         inTenant[<<pool, tenant>>] + cost <= burst[<<pool, tenant>>]

\* Adding delta to the count of key, if there is a budget for it.
Charged(counts, key, delta) ==
    [k \in DOMAIN counts |-> IF k = key THEN counts[k] + delta ELSE counts[k]]

Acquire(pool, cost, tenant) ==
    /\ Admits(pool, cost, tenant)
    /\ inPool' = Charged(inPool, pool, cost)
    /\ inTenant' = Charged(inTenant, <<pool, tenant>>, cost)
    /\ held' = Charged(held, <<pool, tenant>>, cost)
    /\ UNCHANGED <<limits, draft>>

\* Mutant of Release: only the pool is credited.
ReleasePoolOnly(pool, cost, tenant) ==
    /\ cost <= inPool[pool]
    /\ inPool' = Charged(inPool, pool, -cost)
    /\ UNCHANGED <<inTenant, limits, draft>>

\* release.  The pool has been credited by the time the tenant's count is
\* found too small, and the error leaves that credit in place.
Release(pool, cost, tenant) ==
    /\ cost <= inPool[pool]
    /\ inPool' = Charged(inPool, pool, -cost)
    /\ inTenant' = IF <<pool, tenant>> \in Key /\ cost > inTenant[<<pool, tenant>>]
                     THEN inTenant
                     ELSE Charged(inTenant, <<pool, tenant>>, -cost)
    /\ UNCHANGED <<limits, draft>>

\* A caller returns what it holds ...
ReleaseHeld(pool, cost, tenant) ==
    /\ cost <= held[<<pool, tenant>>]
    /\ Release(pool, cost, tenant)
    /\ held' = Charged(held, <<pool, tenant>>, -cost)

\* ... or returns it naming another tenant of the pool, or none.
ReleaseStray(pool, cost, tenant) ==
    \E k \in Caller :
        /\ k[1] = pool /\ k[2] # tenant /\ cost <= held[k]
        /\ Release(pool, cost, tenant)
        /\ held' = Charged(held, k, -cost)

\* Mutant of CeilingAccepted: what is in flight is not looked at again.
CeilingAcceptedStale(c) ==
    /\ c.unit \in Pool /\ c.new \in Nat
    /\ Reserved[c.unit] <= c.new
    /\ c.new + OthersReserved(c.unit) <= Total

\* adjust_ceiling accepts the change c = [unit, old, new].
CeilingAccepted(c) ==
    /\ c.unit \in Pool /\ c.new \in Nat
    /\ Reserved[c.unit] <= c.new
    /\ inPool[c.unit] <= c.new
    /\ c.new + OthersReserved(c.unit) <= Total

\* adjust_tenant_burst accepts the change c.
BurstAccepted(c) ==
    /\ c.unit \in Key /\ c.new \in Nat
    /\ Reserve[c.unit] <= c.new
    /\ inTenant[c.unit] <= c.new

-----------------------------------------------------------------------------
(* CapacityRebalancer: signals and the transfer *)

\* utilization >= stress_threshold, utilization <= slack_threshold; a unit
\* without capacity has utilization 0.
Stressed(use, limit) ==
    limit > 0 /\ use * StressThreshold[2] >= StressThreshold[1] * limit
Slack(use, limit) ==
    limit = 0 \/ use * SlackThreshold[2] <= SlackThreshold[1] * limit

\* max, min
AtLeast(a, b) == IF a < b THEN b ELSE a
AtMost(a, b) == IF a < b THEN a ELSE b

\* _allocate_transfer: the donors and their donations, taken from their
\* headroom; and the recipients' shares, in proportion to their excess or,
\* when nobody exceeds its limit, evenly, the first ones taking the rest.
\* Units are known by their places in an order.
Donation(headroom) == (headroom * TransferFraction[1]) \div TransferFraction[2]

\* Mutant of Shares: every recipient gets the rounded-up share.
SharesUp(excess, total) ==
    LET n == Cardinality(DOMAIN excess)
    IN  [i \in DOMAIN excess |-> (total + n - 1) \div n]

Shares(excess, total) ==
    LET some == DOMAIN excess
        n == Cardinality(some)
        sum == SumOver(excess, some)
        part == [i \in some |-> (total * excess[i]) \div sum]
        top == CHOOSE i \in some :
                 \A j \in some : excess[j] < excess[i] \/ (excess[j] = excess[i] /\ i <= j)
        place(i) == Cardinality({j \in some : j <= i})
    IN  IF sum > 0
          THEN [part EXCEPT ![top] = @ + total - SumOver(part, some)]
          ELSE [i \in some |-> (total \div n) + IF place(i) <= total % n THEN 1 ELSE 0]

Change(u, old, new) == [unit |-> u, old |-> old, new |-> new]

\* The changes drafted for the units of `order` at the places `among` when they
\* cascade: at least CascadeMin stressed ones and a slack one.  First what the
\* donors give, then what the recipients get, up to their cap; a change that
\* changes nothing stands for none.
Transfer(order, among, use, limit, floor, cap) ==
    LET stressed == {i \in among : Stressed(use[order[i]], limit[order[i]])}
        slack == {i \in among : Slack(use[order[i]], limit[order[i]])}
        base(u) == AtLeast(floor[u], use[u])
        gives == [i \in slack |-> Donation(AtLeast(0, limit[order[i]] - base(order[i])))]
        takes == Shares([i \in stressed |-> AtLeast(0, use[order[i]] - limit[order[i]])],
                        SumOver(gives, slack))
        given(i, u) == IF i \in slack /\ gives[i] > 0
                         THEN AtLeast(limit[u] - gives[i], base(u)) ELSE limit[u]
        taken(i, u) == IF i \in stressed /\ takes[i] > 0
                         THEN AtMost(limit[u] + takes[i], cap[u]) ELSE limit[u]
    IN  IF /\ Cardinality(stressed) >= CascadeMin
           /\ slack # {}
           /\ SumOver(gives, slack) > 0
          THEN [i \in DOMAIN order |-> Change(order[i], limit[order[i]], given(i, order[i]))]
               \o [i \in DOMAIN order |-> Change(order[i], limit[order[i]], taken(i, order[i]))]
          ELSE <<>>

\* evaluate = _evaluate_pools and _evaluate_tenants: ceilings move across
\* pools, bursts only among the tenants of a pool, and have no cap but what
\* there is to give.
CeilingChanges ==
    Transfer(Pools, DOMAIN Pools, inPool, ceiling, Reserved, [p \in Pool |-> MaxForPool(p)])

PoolBudgets(pool) == {i \in DOMAIN Budgets : Budgets[i][1] = pool}
Uncapped == [k \in Key |-> burst[k] + SumOver(burst, Key)]
BurstChanges ==
    FlattenSeq([p \in DOMAIN Pools |->
        Transfer(Budgets, PoolBudgets(Pools[p]), inTenant, burst, Reserve, Uncapped)])

Decision == [ceilings |-> CeilingChanges, bursts |-> BurstChanges]

Moving(changes) == {i \in DOMAIN changes : changes[i].new # changes[i].old}
IsNoop(d) == Moving(d.ceilings) = {} /\ Moving(d.bursts) = {}

\* apply: shrinks before grows, stopping at the first change refused; the
\* changes that landed stay, and the bursts are not reached if a ceiling is
\* refused.  The changes of a decision that move have different units, and a
\* change is accepted or refused on its own unit's account.
Shrinks(c) == c.new < c.old

Earlier(changes, j, i) ==
    \/ Shrinks(changes[j]) /\ ~Shrinks(changes[i])
    \/ (Shrinks(changes[j]) <=> Shrinks(changes[i])) /\ j < i

Landed(changes, accepted) ==
    {i \in Moving(changes) \cap accepted :
        \A j \in Moving(changes) : Earlier(changes, j, i) => j \in accepted}

Adjusted(limit, changes, landed) ==
    [u \in DOMAIN limit |->
        IF \E i \in landed : changes[i].unit = u
          THEN changes[CHOOSE i \in landed : changes[i].unit = u].new
          ELSE limit[u]]

Apply(d) ==
    LET cs == d.ceilings
        bs == d.bursts
        landed == Landed(cs, {i \in DOMAIN cs : CeilingAccepted(cs[i])})
    IN  /\ ceiling' = Adjusted(ceiling, cs, landed)
        /\ burst' = IF landed = Moving(cs)
                      THEN Adjusted(burst, bs, Landed(bs, {i \in DOMAIN bs : BurstAccepted(bs[i])}))
                      ELSE burst

-----------------------------------------------------------------------------
(* The operator *)

\* evaluate, with the decision kept for review.
Draft ==
    /\ draft = {}
    /\ ~IsNoop(Decision)
    /\ draft' = {Decision}
    /\ UNCHANGED <<limits, uses>>

\* apply, on whatever the controller has become since.
ApplyDraft ==
    \E d \in draft :
        /\ Apply(d)
        /\ draft' = {}
        /\ UNCHANGED uses

\* evaluate_and_apply
EvaluateAndApply ==
    /\ ~IsNoop(Decision)
    /\ Apply(Decision)
    /\ UNCHANGED <<uses, draft>>

Init ==
    /\ ceiling \in Ceilings
    /\ burst = InitBurst
    /\ inPool = [p \in Pool |-> 0]
    /\ inTenant = [k \in Key |-> 0]
    /\ draft = {}
    /\ held = [k \in Caller |-> 0]

\* Every caller names the tenant it acquired for ...
HonestNext ==
    \/ \E k \in Caller, cost \in Cost :
         \/ Acquire(k[1], cost, k[2])
         \/ ReleaseHeld(k[1], cost, k[2])
    \/ Draft
    \/ ApplyDraft
    \/ EvaluateAndApply

\* ... or some do not.
Next ==
    \/ HonestNext
    \/ \E k \in Caller, cost \in Cost : ReleaseStray(k[1], cost, k[2])

Spec == Init /\ [][Next]_vars

-----------------------------------------------------------------------------
(* Properties *)

\* The limits and the uses are what the two classes declare.
TypeOK ==
    /\ ceiling \in [Pool -> Nat] /\ burst \in [Key -> Nat]
    /\ inPool \in [Pool -> Nat] /\ inTenant \in [Key -> Nat]
    /\ held \in [Caller -> Nat]

\* "Invariants preserved on every apply" (capacity_rebalancer.py): no ceiling
\* or burst falls below its floor or below what is in flight, although a
\* decision is applied to a controller that has moved on since the decision
\* was drafted.
NoRetroactiveOvercommit ==
    /\ \A p \in Pool : Reserved[p] <= ceiling[p] /\ inPool[p] <= ceiling[p]
    /\ \A k \in Key : Reserve[k] <= burst[k] /\ inTenant[k] <= burst[k]

\* A pool is always granted what keeps it within its reserved capacity,
\* whatever the other pools hold and the rebalancer has done (acquire).
FloorAdmitted ==
    \A p \in Pool, c \in Cost :
        inPool[p] + c <= Reserved[p] => Admits(p, c, NoTenant)

\* No pool alone takes more than the other pools' reserved capacity leaves.
FloorGuard == \A p \in Pool : inPool[p] + OthersReserved(p) <= Total

\* The pool counters are exactly what the callers still hold, even when a
\* release names the wrong tenant and raises halfway (acquire, release).
PoolAccountExact ==
    \A p \in Pool :
        inPool[p] = SumOver(held, {k \in Caller : k[1] = p})

\* So are the tenant counters, when every caller names the tenant it acquired
\* for: no sequence of grants, refusals and rebalances leaks a tenant's burst.
TenantAccountExact == \A k \in Key : inTenant[k] = held[k]

\* A fresh rebalance creates no capacity: the ceilings together do not grow,
\* and in each pool the bursts together stay the same.
TransferConserves ==
    [][EvaluateAndApply =>
         /\ SumOver(ceiling', Pool) <= SumOver(ceiling, Pool)
         /\ \A pool \in Pool :
              LET own == {k \in Key : k[1] = pool}
              IN  SumOver(burst', own) = SumOver(burst, own)]_vars

\* "Even when a security-critical pool is idle, no other pool can burst into
\* its reserved capacity": what the other pools hold together leaves the
\* reserved capacity of p within the total (acquire).
ReservedHeldAside ==
    \A p \in Pool :
        SumOver(inPool, Pool \ {p}) + Reserved[p] <= Total

=============================================================================
