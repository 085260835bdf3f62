--------------------------- MODULE RouterProofs ---------------------------
(***************************************************************************)
(* Proofs about the mesh's message layer: for any mesh and its Router, and *)
(* for any senders, registries, servers and clients (the instances K, D    *)
(* and F of MCTransport).                                                  *)
(*                                                                         *)
(* Forwarding: whoever forwarded a message under way, or delivered one,    *)
(* remembers its id; and a message has spent one unit of TTL for each node *)
(* on its trail.                                                           *)
(***************************************************************************)
EXTENDS MCTransport, SequenceTheorems, FiniteSetTheorems, WellFoundedInduction, TLAPS

\* What holds of a message under way when the nodes remember `s`.
Travelled(msg, s) ==
    /\ \A i \in 1..Len(msg.trail) : msg.id \in s[msg.trail[i]]
    /\ \A i, j \in 1..Len(msg.trail) : msg.trail[i] = msg.trail[j] => i = j
    /\ msg.ttl + Len(msg.trail) = DefaultTtl
    /\ msg.ttl >= 1

\* Every delivery is remembered by the node that made it.
DeliveriesSeen ==
    \A i \in 1..Len(delivered) : delivered[i][2] \in seen[delivered[i][1]]

IInv ==
    /\ TypeOK
    /\ \A msg \in inflight : Travelled(msg, seen)
    /\ DeliveriesSeen
    /\ DeliveredOnce

\* Nothing is forgotten when a node remembers one more id.
LEMMA TravelledGrows ==
    ASSUME NEW msg \in RoutedMessage, NEW s \in [Node -> SUBSET MsgId],
           NEW t \in [Node -> SUBSET MsgId], \A n \in Node : s[n] \subseteq t[n],
           Travelled(msg, s)
    PROVE  Travelled(msg, t)
<1>1. \A i \in 1..Len(msg.trail) : msg.trail[i] \in Node
  BY DEF RoutedMessage
<1> QED
  BY <1>1 DEF Travelled

\* A node that has not seen the id is not on the trail, so forwarding keeps the
\* trail free of repetitions, and pays for the hop.
LEMMA ForwardedTravels ==
    ASSUME TypeOK, NEW msg \in inflight, Travelled(msg, seen), MarkSeen(msg),
           Forwards(msg.to, msg)
    PROVE  /\ Forwarded(msg.to, msg) \in RoutedMessage
           /\ Travelled(Forwarded(msg.to, msg), seen')
<1> DEFINE n == msg.to
           f == Forwarded(n, msg)
<1>1. /\ msg \in RoutedMessage /\ n \in Node /\ msg.dest \in Node /\ msg.id \in MsgId
      /\ msg.trail \in Seq(Node) /\ msg.ttl \in Int /\ Len(msg.trail) \in Nat
  BY DEF TypeOK, RoutedMessage
<1>2. nextHop[n][msg.dest] \in Node
  BY <1>1, RouterAssumption DEF TypeOK, Forwards
<1>3. /\ f.to = nextHop[n][msg.dest] /\ f.dest = msg.dest /\ f.id = msg.id
      /\ f.ttl = msg.ttl - 1 /\ f.trail = Append(msg.trail, n)
  BY DEF Forwarded
<1>4. f \in RoutedMessage
  BY <1>1, <1>2 DEF Forwarded, RoutedMessage
<1>5. /\ Len(f.trail) = Len(msg.trail) + 1
      /\ f.trail[Len(msg.trail) + 1] = n
      /\ \A i \in 1..Len(msg.trail) : f.trail[i] = msg.trail[i]
  BY <1>1, <1>3
<1>6. \A i \in 1..Len(msg.trail) : msg.trail[i] # n /\ msg.trail[i] \in Node
  BY <1>1 DEF Travelled, MarkSeen
<1>7. /\ msg.id \in seen'[n]
      /\ \A x \in Node : seen[x] \subseteq seen'[x]
  BY <1>1 DEF MarkSeen, TypeOK
<1>8. \A i \in 1..Len(f.trail) : f.id \in seen'[f.trail[i]]
  <2> HIDE DEF f, n
  <2> SUFFICES ASSUME NEW i \in 1..Len(f.trail) PROVE f.id \in seen'[f.trail[i]] OBVIOUS
  <2>1. CASE i = Len(msg.trail) + 1 BY <1>3, <1>5, <1>7, <2>1
  <2>2. CASE i # Len(msg.trail) + 1
    <3>1. i \in 1..Len(msg.trail) BY <1>1, <1>5, <2>2
    <3>2. f.trail[i] = msg.trail[i] /\ msg.id \in seen[msg.trail[i]] /\ msg.trail[i] \in Node
      BY <1>5, <1>6, <3>1 DEF Travelled
    <3> QED BY <1>3, <1>7, <3>2
  <2> QED BY <2>1, <2>2
<1>9. \A i, j \in 1..Len(f.trail) : f.trail[i] = f.trail[j] => i = j
  <2>1. \A i, j \in 1..Len(msg.trail) : msg.trail[i] = msg.trail[j] => i = j
    BY DEF Travelled
  <2> HIDE DEF f, n
  <2> SUFFICES ASSUME NEW i \in 1..Len(f.trail), NEW j \in 1..Len(f.trail),
                      f.trail[i] = f.trail[j]
               PROVE  i = j
    OBVIOUS
  <2>2. /\ i \in 1..Len(msg.trail) \/ i = Len(msg.trail) + 1
        /\ j \in 1..Len(msg.trail) \/ j = Len(msg.trail) + 1
    BY <1>1, <1>5
  <2>3. CASE i \in 1..Len(msg.trail) /\ j \in 1..Len(msg.trail)
    BY <1>5, <2>1, <2>3
  <2>4. CASE i \in 1..Len(msg.trail) /\ j = Len(msg.trail) + 1
    BY <1>5, <1>6, <2>4
  <2>5. CASE i = Len(msg.trail) + 1 /\ j \in 1..Len(msg.trail)
    BY <1>5, <1>6, <2>5
  <2> QED
    BY <2>2, <2>3, <2>4, <2>5
<1>10. f.ttl + Len(f.trail) = DefaultTtl /\ f.ttl >= 1
  <2>1. msg.ttl + Len(msg.trail) = DefaultTtl /\ msg.ttl - 1 > 0
    BY DEF Travelled, Forwards
  <2>2. \A t, l \in Int : /\ t + l = DefaultTtl => (t - 1) + (l + 1) = DefaultTtl
                          /\ t - 1 > 0 => t - 1 >= 1
    OBVIOUS
  <2>3. msg.ttl \in Int /\ Len(msg.trail) \in Int
    BY <1>1
  <2>4. f.ttl = msg.ttl - 1 /\ Len(f.trail) = Len(msg.trail) + 1
    BY <1>3, <1>5
  <2>5. (msg.ttl - 1) + (Len(msg.trail) + 1) = DefaultTtl /\ msg.ttl - 1 >= 1
    BY <2>1, <2>2, <2>3
  <2> HIDE DEF f
  <2> QED
    BY <2>4, <2>5
<1> QED
  BY <1>4, <1>8, <1>9, <1>10 DEF Travelled

\* Initially nothing is under way.
LEMMA InitIInv == Init => IInv
  BY RouterAssumption DEF Init, IInv, TypeOK, DeliveriesSeen, DeliveredOnce

\* Receiving a message leaves only messages that were under way or are sent now.
LEMMA NetworkFacts ==
    ASSUME TypeOK, NEW msg, NEW sent, Network(msg, sent)
    PROVE  inflight' \subseteq inflight \cup sent /\ duplicates' \in Nat
  BY DEF Network, TypeOK

\* handle preserves the invariant.
LEMMA HandleIInv ==
    ASSUME IInv, NEW msg \in inflight, Handle(msg)
    PROVE  IInv'
<1> DEFINE n == msg.to
<1>0. TypeOK /\ msg \in RoutedMessage /\ n \in Node /\ msg.id \in MsgId
  BY DEF IInv, TypeOK, RoutedMessage
<1>1. CASE DropDuplicate(msg)
  <2>1. /\ inflight' \subseteq inflight /\ duplicates' \in Nat
        /\ UNCHANGED <<seen, nextHop, routable, delivered, originated, changes>>
    BY <1>0, <1>1, NetworkFacts DEF DropDuplicate
  <2>2. TypeOK'
    BY <1>0, <2>1 DEF TypeOK
  <2> QED
    BY <2>1, <2>2 DEF IInv, DeliveriesSeen, DeliveredOnce
<1>2. ASSUME MarkSeen(msg)
      PROVE  /\ seen' \in [Node -> SUBSET MsgId]
             /\ \A x \in Node : seen[x] \subseteq seen'[x]
             /\ msg.id \in seen'[n] /\ msg.id \notin seen[n]
             /\ UNCHANGED <<nextHop, routable, originated, changes>>
             /\ \A m \in inflight : Travelled(m, seen')
  <2>1. /\ seen' \in [Node -> SUBSET MsgId]
        /\ \A x \in Node : seen[x] \subseteq seen'[x]
        /\ msg.id \in seen'[n] /\ msg.id \notin seen[n]
        /\ UNCHANGED <<nextHop, routable, originated, changes>>
    BY <1>0, <1>2 DEF MarkSeen, TypeOK
  <2>2. \A m \in inflight : m \in RoutedMessage /\ Travelled(m, seen)
    BY DEF IInv, TypeOK
  <2> QED
    BY <1>0, <2>1, <2>2, TravelledGrows DEF TypeOK
<1>3. ASSUME \A x \in Node : seen[x] \subseteq seen'[x], delivered' = delivered
      PROVE  DeliveriesSeen' /\ DeliveredOnce'
  <2>1. \A i \in 1..Len(delivered) : delivered[i][1] \in Node
    BY <1>0 DEF TypeOK
  <2> QED
    BY <1>3, <2>1 DEF IInv, DeliveriesSeen, DeliveredOnce
<1>4. CASE Deliver(msg)
  <2>1. /\ MarkSeen(msg) /\ inflight' \subseteq inflight /\ duplicates' \in Nat
        /\ delivered' = Append(delivered, <<n, msg.id>>)
    BY <1>0, <1>4, NetworkFacts DEF Deliver
  <2>2. TypeOK'
    BY <1>0, <1>2, <2>1 DEF TypeOK
  <2>3. /\ delivered \in Seq(Node \X MsgId) /\ Len(delivered) \in Nat
        /\ Len(delivered') = Len(delivered) + 1
        /\ delivered'[Len(delivered) + 1] = <<n, msg.id>>
        /\ \A i \in 1..Len(delivered) :
             delivered'[i] = delivered[i] /\ delivered[i] \in Node \X MsgId
    BY <1>0, <2>1 DEF TypeOK
  <2>4. DeliveriesSeen'
    BY <1>0, <1>2, <2>1, <2>3 DEF IInv, DeliveriesSeen
  <2>5. \A i \in 1..Len(delivered) : delivered[i] # <<n, msg.id>>
    BY <1>2, <2>1 DEF IInv, DeliveriesSeen
  <2>6. DeliveredOnce'
    BY <2>3, <2>5 DEF IInv, DeliveredOnce
  <2> QED
    BY <1>2, <2>1, <2>2, <2>4, <2>6 DEF IInv
<1>5. CASE Forward(msg)
  <2> DEFINE f == Forwarded(n, msg)
  <2>1. /\ MarkSeen(msg) /\ inflight' \subseteq inflight \cup {f} /\ duplicates' \in Nat
        /\ delivered' = delivered
    BY <1>0, <1>5, NetworkFacts DEF Forward
  <2>2. f \in RoutedMessage /\ Travelled(f, seen')
    BY <1>0, <1>5, <2>1, ForwardedTravels DEF IInv, Forward
  <2>3. TypeOK'
    BY <1>0, <1>2, <2>1, <2>2 DEF TypeOK
  <2>4. \A m \in inflight' : Travelled(m, seen')
    BY <1>2, <2>1, <2>2
  <2> QED
    BY <1>2, <1>3, <2>1, <2>3, <2>4 DEF IInv
<1>6. CASE Drop(msg)
  <2>1. /\ MarkSeen(msg) /\ inflight' \subseteq inflight /\ duplicates' \in Nat
        /\ delivered' = delivered
    BY <1>0, <1>6, NetworkFacts DEF Drop
  <2>2. TypeOK'
    BY <1>0, <1>2, <2>1 DEF TypeOK
  <2> QED
    BY <1>2, <1>3, <2>1, <2>2 DEF IInv
<1> QED
  BY <1>1, <1>4, <1>5, <1>6 DEF Handle

\* originate starts a trail with the whole TTL.
LEMMA OriginateIInv ==
    ASSUME IInv, NEW n \in Node, NEW dest \in Node, NEW m \in MsgId,
           Originate(n, dest, m)
    PROVE  IInv'
<1> DEFINE msg == [to |-> nextHop[n][dest], dest |-> dest, id |-> m,
                   ttl |-> DefaultTtl, trail |-> <<>>]
<1>1. /\ inflight' = inflight \cup {msg}
      /\ originated' = [originated EXCEPT ![m] = @ + 1]
      /\ UNCHANGED <<seen, nextHop, routable, delivered, duplicates, changes>>
  BY DEF Originate
<1>2. nextHop[n][dest] \in Node
  BY RouterAssumption DEF IInv, TypeOK, Originate
<1>3. msg \in RoutedMessage
  BY <1>2, RouterAssumption DEF RoutedMessage
<1>4. Travelled(msg, seen)
  BY RouterAssumption DEF Travelled
<1>5. TypeOK'
  BY <1>1, <1>3 DEF IInv, TypeOK
<1> QED
  BY <1>1, <1>4, <1>5 DEF IInv, DeliveriesSeen, DeliveredOnce

\* Every step preserves the invariant.
LEMMA NextIInv == IInv /\ [Next]_vars => IInv'
<1> SUFFICES ASSUME IInv, [Next]_vars PROVE IInv'
  OBVIOUS
<1>1. CASE \E n, dest \in Node, m \in MsgId : Originate(n, dest, m)
  BY <1>1, OriginateIInv
<1>2. CASE \E msg \in inflight : Handle(msg)
  BY <1>2, HandleIInv
<1>3. CASE \E msg \in inflight : Lose(msg)
  BY <1>3 DEF Lose, IInv, TypeOK, DeliveriesSeen, DeliveredOnce
<1>4. CASE Change
  BY <1>4 DEF Change, IInv, TypeOK, DeliveriesSeen, DeliveredOnce
<1>5. CASE UNCHANGED vars
  BY <1>5 DEF vars, IInv, TypeOK, DeliveriesSeen, DeliveredOnce
<1> QED
  BY <1>1, <1>2, <1>3, <1>4, <1>5 DEF Next

\* The invariant holds throughout.
LEMMA SpecIInv == Spec => []IInv
  BY InitIInv, NextIInv, PTL DEF Spec

\* The variables of the mesh keep their types.
THEOREM TypeCorrect == Spec => []TypeOK
  BY SpecIInv, PTL DEF IInv

\* A node delivers a msg_id at most once, whatever is resent or duplicated.
THEOREM AtMostOnce == Spec => []DeliveredOnce
  BY SpecIInv, PTL DEF IInv

\* The invariant bounds every trail and keeps it free of repetitions.
LEMMA IInvLoopSafe == IInv => LoopSafe
<1> SUFFICES ASSUME IInv, NEW msg \in inflight
             PROVE  /\ \A i, j \in 1..Len(msg.trail) :
                         msg.trail[i] = msg.trail[j] => i = j
                    /\ Len(msg.trail) < DefaultTtl
  BY DEF LoopSafe
<1>1. msg.ttl \in Int /\ Len(msg.trail) \in Nat /\ Travelled(msg, seen)
  BY DEF IInv, TypeOK, RoutedMessage
<1> QED
  BY <1>1, RouterAssumption DEF Travelled

\* No routing loop amplifies a message: every node forwards it at most once, and
\* it makes fewer than DefaultTtl hops, for all tables and all their changes.
THEOREM LoopsDoNotAmplify == Spec => []LoopSafe
  BY SpecIInv, IInvLoopSafe, PTL

\* The mesh is safe under duplicates, retries and loops of any kind.
THEOREM SafeRouting == Spec => []RoutingSafe
  BY AtMostOnce, LoopsDoNotAmplify, PTL DEF RoutingSafe


-----------------------------------------------------------------------------
(* Discovery: of what a node still remembers of an author, the newest      *)
(* sequence number is the gate, whatever it evicted.                       *)

\* A set of numbers has a least one.
LEMMA LeastNatural ==
    ASSUME NEW N \in SUBSET Nat, N # {}
    PROVE  \E x \in N : \A y \in N : x <= y
<1>1. PICK x \in N : \A y \in N : ~(<<y, x>> \in OpToRel(<, Nat))
  BY NatLessThanWellFounded, WFMin
<1>2. ASSUME NEW y \in N PROVE x <= y
  <2>1. ~(<<y, x>> \in {ss \in Nat \X Nat : ss[1] < ss[2]}) BY <1>1 DEF OpToRel
  <2>2. ~(y < x) BY <2>1
  <2> QED BY <2>2
<1> QED BY <1>2

\* A set of numbers that has a bound has a greatest one.
LEMMA GreatestNatural ==
    ASSUME NEW N \in SUBSET Nat, N # {}, NEW top \in Nat, \A x \in N : x <= top
    PROVE  \E x \in N : \A y \in N : x >= y
<1> DEFINE M == {top - x : x \in N}
<1>0. PICK x0 \in N : TRUE OBVIOUS
<1>1. M \in SUBSET Nat /\ M # {}
  <2>1. top - x0 \in M OBVIOUS
  <2>2. \A x \in N : top - x \in Nat OBVIOUS
  <2> QED BY <2>1, <2>2
<1>2. (\A y \in N : top - y \in M) /\ (\A z \in M : \E x \in N : z = top - x) OBVIOUS
<1> HIDE DEF M
<1>3. PICK z \in M : \A y \in M : z <= y BY <1>1, LeastNatural
<1>4. PICK x \in N : z = top - x BY <1>2
<1>5. ASSUME NEW y \in N PROVE x >= y
  <2>1. top - x <= top - y BY <1>2, <1>3, <1>4
  <2>2. x \in Nat /\ y \in Nat OBVIOUS
  <2> QED BY <2>1, <2>2
<1> QED BY <1>5

\* The trim drops a prefix, all of it before the window.
LEMMA TrimmedSuffix ==
    ASSUME NEW b \in Seq(Int), clock \in Int
    PROVE  LET p == D!Trimmed(b)
           IN  /\ p \in Seq(Int)
               /\ \E e \in Nat : /\ Len(b) = e + Len(p)
                                 /\ \A n \in 1..Len(p) : p[n] = b[e + n]
                                 /\ \A n \in 1..e : b[n] < clock - LimiterWindow
<1> DEFINE old == {k \in 0..Len(b) : \A j \in 1..k : b[j] < clock - LimiterWindow}
           e == D!Max(old)
           p == D!Trimmed(b)
<1>1. Len(b) \in Nat OBVIOUS
<1>2. e \in old
  <2>1. old \in SUBSET Nat /\ old # {} /\ \A x \in old : x <= Len(b)
    <3>1. 0 \in old BY <1>1
    <3> QED BY <1>1, <3>1
  <2> HIDE DEF old
  <2>2. \E x \in old : \A y \in old : x >= y BY <1>1, <2>1, GreatestNatural
  <2> QED BY <2>2 DEF D!Max
<1>3. p = SubSeq(b, e + 1, Len(b)) BY DEF D!Trimmed
<1>4. e \in 0..Len(b) /\ \A n \in 1..e : b[n] < clock - LimiterWindow BY <1>2
<1> HIDE DEF e, p
<1>5. /\ SubSeq(b, e + 1, Len(b)) \in Seq(Int)
      /\ Len(SubSeq(b, e + 1, Len(b))) = Len(b) - e
      /\ \A n \in 1..(Len(b) - e) : SubSeq(b, e + 1, Len(b))[n] = b[e + n]
  <2>1. SubSeq(b, e + 1, Len(b)) \in Seq(Int) BY <1>1, <1>4
  <2>2. Len(SubSeq(b, e + 1, Len(b))) = Len(b) - e BY <1>1, <1>4
  <2>3. \A n \in 1..(Len(b) - e) : SubSeq(b, e + 1, Len(b))[n] = b[(e + 1) + n - 1] BY <1>1, <1>4
  <2>4. \A n \in 1..(Len(b) - e) : (e + 1) + n - 1 = e + n BY <1>1, <1>4
  <2> QED BY <2>1, <2>2, <2>3, <2>4
<1>6. e \in Nat /\ Len(b) = e + Len(p) BY <1>1, <1>3, <1>4, <1>5
<1>7. p \in Seq(Int) /\ \A n \in 1..Len(p) : p[n] = b[e + n] BY <1>3, <1>5
<1> QED BY <1>4, <1>6, <1>7 DEF p

\* What the gate let through of one key.
Pass == [issued : Int, at : Nat]

\* The queue q of the limiter has the latest of the passes h; those it dropped are
\* out of every window to come.
Tracks(q, h, t) ==
    \E d \in Nat :
      /\ Len(h) = d + Len(q)
      /\ \A n \in 1..Len(q) : q[n] = h[d + n].at
      /\ \A n \in 1..d : h[n].at < t - LimiterWindow

InWindow(h, a) == {i \in DOMAIN h : h[i].at \in a..(a + LimiterWindow)}

HeldToQuota(h) ==
    \A a \in Nat : /\ IsFiniteSet(InWindow(h, a)) /\ Cardinality(InWindow(h, a)) \in Nat
                   /\ Cardinality(InWindow(h, a)) <= MaxPerWindow

Rising(h) == \A i, j \in 1..Len(h) : i < j => h[i].issued < h[j].issued

\* The pin is the last pass, or was dropped when every record as old had expired.
PinFor(k, ps, h, t) ==
    Len(h) > 0 => IF k \in DOMAIN ps THEN ps[k] = h[Len(h)].issued
                                     ELSE h[Len(h)].issued < t - EvictionAge

GateInv ==
    /\ clock \in Nat /\ DOMAIN events = D!Key /\ DOMAIN admitted = D!Key
    /\ \A k \in D!Key :
         /\ events[k] \in Seq(Int) /\ admitted[k] \in Seq(Pass)
         /\ Tracks(events[k], admitted[k], clock)
         /\ HeldToQuota(admitted[k]) /\ Rising(admitted[k])
         /\ PinFor(k, pins, admitted[k], clock)

\* Time alone changes none of it.
LEMMA LaterGate ==
    ASSUME NEW q \in Seq(Int), NEW h \in Seq(Pass), NEW t \in Nat, NEW k, NEW ps,
           Tracks(q, h, t), PinFor(k, ps, h, t)
    PROVE  Tracks(q, h, t + 1) /\ PinFor(k, ps, h, t + 1)
<1>1. LimiterWindow \in Nat /\ EvictionAge \in Nat
  BY DiscoveryAssumption DEF D!DiscoveryConstants
<1>2. \A n \in 1..Len(h) : h[n].at \in Nat /\ h[n].issued \in Int
  <2>1. \A n \in 1..Len(h) : h[n] \in Pass BY ElementOfSeq
  <2> QED BY <2>1 DEF Pass
<1>3. Tracks(q, h, t + 1)
  <2>1. PICK d \in Nat : /\ Len(h) = d + Len(q)
                         /\ \A n \in 1..Len(q) : q[n] = h[d + n].at
                         /\ \A n \in 1..d : h[n].at < t - LimiterWindow
    BY DEF Tracks
  <2>2. Len(q) \in Nat OBVIOUS
  <2>3. \A n \in 1..d : h[n].at < (t + 1) - LimiterWindow BY <1>1, <1>2, <2>1, <2>2
  <2> QED BY <2>1, <2>3 DEF Tracks
<1>4. PinFor(k, ps, h, t + 1)
  <2> SUFFICES ASSUME Len(h) > 0, k \notin DOMAIN ps
               PROVE  h[Len(h)].issued < (t + 1) - EvictionAge
    BY DEF PinFor
  <2>1. h[Len(h)].issued < t - EvictionAge BY DEF PinFor
  <2>2. Len(h) \in 1..Len(h) OBVIOUS
  <2>3. h[Len(h)].issued \in Int BY <1>2, <2>2
  <2> QED BY <1>1, <2>1, <2>3
<1> QED BY <1>3, <1>4

\* A queue and the passes of a key after the pass x.
PassedBy(q, h, x, t) ==
    /\ q \in Seq(Int) /\ h \in Seq(Pass) /\ Tracks(q, h, t)
    /\ HeldToQuota(h) /\ Rising(h) /\ Len(h) > 0 /\ h[Len(h)] = x

\* One more pass, where the limiter had room and the record is fresh.
LEMMA PassKeeps ==
    ASSUME NEW q \in Seq(Int), NEW h \in Seq(Pass), clock \in Nat, NEW k, NEW ps,
           Tracks(q, h, clock), HeldToQuota(h), Rising(h), PinFor(k, ps, h, clock),
           Len(D!Trimmed(q)) < MaxPerWindow, NEW x \in Pass, x.at = clock,
           k \in DOMAIN ps => x.issued > ps[k], x.issued >= clock - EvictionAge
    PROVE  PassedBy(Append(D!Trimmed(q), clock), Append(h, x), x, clock)
<1> DEFINE p == D!Trimmed(q)
           q2 == Append(p, clock)
           h2 == Append(h, x)
           N == Len(h)
<1>1. LimiterWindow \in Nat /\ EvictionAge \in Nat /\ MaxPerWindow \in Nat
  BY DiscoveryAssumption DEF D!DiscoveryConstants
<1>2. /\ N \in Nat /\ x.issued \in Int
      /\ \A n \in 1..N : h[n].at \in Nat /\ h[n].issued \in Int
  <2>1. \A n \in 1..N : h[n] \in Pass BY ElementOfSeq
  <2> QED BY <2>1 DEF Pass
<1>3. PICK d \in Nat : /\ N = d + Len(q)
                       /\ \A n \in 1..Len(q) : q[n] = h[d + n].at
                       /\ \A n \in 1..d : h[n].at < clock - LimiterWindow
  BY DEF Tracks
<1>4. /\ p \in Seq(Int)
      /\ \E e \in Nat : /\ Len(q) = e + Len(p) /\ \A n \in 1..Len(p) : p[n] = q[e + n]
                        /\ \A n \in 1..e : q[n] < clock - LimiterWindow
  <2>1. clock \in Int OBVIOUS
  <2> QED BY ONLY <2>1, q \in Seq(Int), TrimmedSuffix, Zenon DEF p
<1>5. Len(p) < MaxPerWindow OBVIOUS
<1> HIDE DEF p
<1>6. PICK e \in Nat : /\ Len(q) = e + Len(p) /\ \A n \in 1..Len(p) : p[n] = q[e + n]
                       /\ \A n \in 1..e : q[n] < clock - LimiterWindow
  BY <1>4
<1>7. Len(p) \in Nat /\ Len(q) \in Nat BY <1>4
<1>8. /\ q2 \in Seq(Int) /\ Len(q2) = Len(p) + 1 /\ q2[Len(p) + 1] = clock
      /\ \A n \in 1..Len(p) : q2[n] = p[n]
  BY <1>4
<1>9. /\ h2 \in Seq(Pass) /\ Len(h2) = N + 1 /\ h2[N + 1] = x
      /\ \A n \in 1..N : h2[n] = h[n]
  BY AppendProperties
<1>10. DOMAIN h = 1..N /\ DOMAIN h2 = 1..(N + 1) BY <1>9
<1> HIDE DEF q2, h2, N
<1> DEFINE m == d + e
<1>11. m \in Nat /\ N = m + Len(p) BY <1>2, <1>3, <1>6, <1>7
<1>12. ASSUME NEW n \in 1..m PROVE h[n].at < clock - LimiterWindow /\ n \in 1..N
  <2>1. n \in 1..N BY <1>7, <1>11
  <2>2. CASE n \in 1..d BY <1>3, <2>1, <2>2
  <2>3. CASE n \notin 1..d
    <3>1. n - d \in 1..e /\ n - d \in 1..Len(q) /\ d + (n - d) = n BY <1>6, <1>7, <2>3
    <3>2. q[n - d] = h[n].at BY <1>3, <3>1
    <3>3. q[n - d] < clock - LimiterWindow BY <1>6, <3>1
    <3> QED BY <2>1, <3>2, <3>3
  <2> QED BY <2>2, <2>3
<1>13. ASSUME NEW n \in 1..Len(p) PROVE p[n] = h[m + n].at /\ m + n \in 1..N
  <2>1. e + n \in 1..Len(q) /\ d + (e + n) = m + n /\ m + n \in 1..N BY <1>6, <1>7, <1>11
  <2> QED BY <1>3, <1>6, <2>1
<1>14. Tracks(q2, h2, clock)
  <2>1. Len(h2) = m + Len(q2) BY <1>7, <1>8, <1>9, <1>11
  <2>2. ASSUME NEW n \in 1..Len(q2) PROVE q2[n] = h2[m + n].at
    <3>1. CASE n = Len(p) + 1
      <4>1. m + n = N + 1 BY <1>7, <1>11, <3>1
      <4> QED BY <1>8, <1>9, <3>1, <4>1
    <3>2. CASE n # Len(p) + 1
      <4>1. n \in 1..Len(p) BY <1>7, <1>8, <3>2
      <4> QED BY <1>8, <1>9, <1>13, <4>1
    <3> QED BY <3>1, <3>2
  <2>3. \A n \in 1..m : h2[n].at < clock - LimiterWindow BY <1>9, <1>12
  <2> HIDE DEF m
  <2> QED BY <1>11, <2>1, <2>2, <2>3 DEF Tracks
<1> HIDE DEF m
<1>15. HeldToQuota(h2)
  <2> SUFFICES ASSUME NEW a \in Nat
               PROVE  /\ IsFiniteSet(InWindow(h2, a)) /\ Cardinality(InWindow(h2, a)) \in Nat
                      /\ Cardinality(InWindow(h2, a)) <= MaxPerWindow
    BY DEF HeldToQuota
  <2> DEFINE W == InWindow(h, a)
             W2 == InWindow(h2, a)
  <2>1. IsFiniteSet(W) /\ Cardinality(W) \in Nat /\ Cardinality(W) <= MaxPerWindow
    BY DEF HeldToQuota
  <2>2. ASSUME NEW n \in 1..N PROVE n \in W2 <=> n \in W
    <3>1. n \in DOMAIN h /\ n \in DOMAIN h2 BY <1>2, <1>10
    <3>2. h2[n] = h[n] BY <1>9
    <3> QED BY <3>1, <3>2, Zenon DEF InWindow
  <2>3. N + 1 \in W2 <=> clock \in a..(a + LimiterWindow) BY <1>2, <1>9, <1>10 DEF InWindow
  <2>4. W \subseteq 1..N /\ W2 \subseteq 1..(N + 1) /\ N + 1 \notin W BY <1>2, <1>10 DEF InWindow
  <2>last. \A n \in 1..(N + 1) : n \in 1..N \/ n = N + 1 BY <1>2
  <2>5. \A n \in W : a <= h[n].at BY <1>10 DEF InWindow
  <2> HIDE DEF W, W2
  <2>6. CASE clock \notin a..(a + LimiterWindow)
    <3>1. W2 = W BY <2>last, Zenon, <2>2, <2>3, <2>4, <2>6
    <3> QED BY <2>1, <3>1 DEF W, W2
  <2>7. CASE clock \in a..(a + LimiterWindow)
    <3>1. W2 = W \cup {N + 1} BY <2>last, Zenon, <2>2, <2>3, <2>4, <2>7
    <3>2. W \subseteq (m + 1)..(m + Len(p))
      <4> SUFFICES ASSUME NEW n \in W PROVE n \in (m + 1)..(m + Len(p)) OBVIOUS
      <4>1. n \in 1..N /\ a <= h[n].at /\ h[n].at \in Nat BY <1>2, <2>4, <2>5
      <4>2. ~(n \in 1..m)
        <5> SUFFICES ASSUME n \in 1..m PROVE FALSE OBVIOUS
        <5>1. h[n].at < clock - LimiterWindow BY <1>12
        <5> QED BY <1>1, <2>7, <4>1, <5>1
      <4> QED BY <1>7, <1>11, <4>1, <4>2
    <3>3. /\ IsFiniteSet((m + 1)..(m + Len(p)))
          /\ Cardinality((m + 1)..(m + Len(p))) = Len(p)
      <4>1. m + 1 \in Int /\ m + Len(p) \in Int BY <1>7, <1>11
      <4>2. /\ IsFiniteSet((m + 1)..(m + Len(p)))
            /\ Cardinality((m + 1)..(m + Len(p))) =
                 IF m + 1 > m + Len(p) THEN 0 ELSE (m + Len(p)) - (m + 1) + 1
        BY <4>1, FS_Interval
      <4> QED BY <1>7, <1>11, <4>2
    <3>4. Cardinality(W) <= Len(p) BY <3>2, <3>3, FS_Subset
    <3>5. IsFiniteSet(W2) /\ Cardinality(W2) = Cardinality(W) + 1
      BY <2>1, <2>4, <3>1, FS_AddElement
    <3>6. Cardinality(W2) \in Nat /\ Cardinality(W2) <= MaxPerWindow
      BY <1>1, <1>5, <1>7, <2>1, <3>4, <3>5
    <3> QED BY <3>5, <3>6 DEF W2
  <2> QED BY <2>6, <2>7
<1>16. Rising(h2)
  <2>1. ASSUME N > 0 PROVE h[N].issued < x.issued
    <3>1. N \in 1..N /\ h[N].issued \in Int BY <1>2, <2>1
    <3>2. CASE k \in DOMAIN ps
      <4>1. ps[k] = h[N].issued BY <2>1, <3>2 DEF PinFor, N
      <4> QED BY <1>2, <3>1, <3>2, <4>1
    <3>3. CASE k \notin DOMAIN ps
      <4>1. h[N].issued < clock - EvictionAge BY <2>1, <3>3 DEF PinFor, N
      <4> QED BY <1>1, <1>2, <3>1, <4>1
    <3> QED BY <3>2, <3>3
  <2> SUFFICES ASSUME NEW i \in 1..(N + 1), NEW j \in 1..(N + 1), i < j
               PROVE  h2[i].issued < h2[j].issued
    BY <1>9 DEF Rising
  <2>2. i \in 1..N BY <1>2
  <2>3. \A a, b \in 1..N : a < b => h[a].issued < h[b].issued BY DEF Rising, N
  <2>4. CASE j = N + 1
    <3>1. h[i].issued < x.issued
      <4>1. N > 0 /\ N \in 1..N BY <1>2, <2>2
      <4>2. CASE i = N BY <2>1, <4>1, <4>2
      <4>3. CASE i # N
        <5>1. h[i].issued < h[N].issued BY <1>2, <2>2, <2>3, <4>1, <4>3
        <5> QED BY <1>2, <2>1, <2>2, <4>1, <5>1
      <4> QED BY <4>2, <4>3
    <3> QED BY <1>9, <2>2, <2>4, <3>1
  <2>5. CASE j # N + 1
    <3>1. j \in 1..N BY <1>2, <2>5
    <3> QED BY <1>9, <2>2, <2>3, <3>1
  <2> QED BY <2>4, <2>5
<1>17. Len(h2) > 0 /\ h2[Len(h2)] = x BY <1>2, <1>9
<1>18. PassedBy(q2, h2, x, clock)
  BY <1>8, <1>9, <1>14, <1>15, <1>16, <1>17, Zenon DEF PassedBy
<1> QED BY <1>18 DEF q2, h2, p

LEMMA GateInit ==
    ASSUME D!Init
    PROVE  GateInv
<1>1. MaxPerWindow \in Nat BY DiscoveryAssumption DEF D!DiscoveryConstants
<1>2. /\ clock = 0 /\ DOMAIN events = D!Key /\ DOMAIN admitted = D!Key
      /\ \A k \in D!Key : events[k] = <<>> /\ admitted[k] = <<>>
  BY DEF D!Init
<1>3. /\ \A Z : <<>> \in Seq(Z)
      /\ Len(<<>>) = 0 /\ DOMAIN <<>> = {}
  OBVIOUS
<1>4. Tracks(<<>>, <<>>, 0)
  <2>1. Len(<<>>) = 0 + Len(<<>>) OBVIOUS
  <2> QED BY <1>3, <2>1 DEF Tracks
<1>5. HeldToQuota(<<>>)
  <2>1. \A a : InWindow(<<>>, a) = {} BY <1>3 DEF InWindow
  <2>2. IsFiniteSet({}) /\ Cardinality({}) = 0 BY FS_EmptySet
  <2>3. 0 \in Nat /\ 0 <= MaxPerWindow BY <1>1
  <2> HIDE DEF InWindow
  <2> QED BY <2>1, <2>2, <2>3 DEF HeldToQuota
<1>6. Rising(<<>>) /\ \A k : PinFor(k, pins, <<>>, 0) BY <1>3 DEF Rising, PinFor
<1> QED BY <1>2, <1>3, <1>4, <1>5, <1>6 DEF GateInv

\* The gate with record r admitted.
LEMMA AdmitKeepsGate ==
    ASSUME GateInv, NEW r \in Records, D!Admit(r)
    PROVE  GateInv'
<1> DEFINE k0 == D!KeyOf(r)
           x == [issued |-> r.issued, at |-> clock]
           q2 == Append(D!Trimmed(events[k0]), clock)
           h2 == Append(admitted[k0], x)
<1>1. /\ LimiterWindow \in Nat /\ EvictionAge \in Nat /\ MaxPerWindow \in Nat
      /\ RecordSkew \in Nat /\ MaxRecordTtl \in Nat
      /\ EvictionAge >= MaxRecordTtl + RecordSkew
      /\ r.issued \in Int /\ r.expires \in Int
  BY DiscoveryAssumption DEF D!DiscoveryConstants
<1>2. k0 \in D!Key BY DEF D!KeyOf, D!Key
<1>3. /\ clock \in Nat /\ DOMAIN events = D!Key /\ DOMAIN admitted = D!Key
      /\ \A k \in D!Key :
           /\ events[k] \in Seq(Int) /\ admitted[k] \in Seq(Pass)
           /\ Tracks(events[k], admitted[k], clock)
           /\ HeldToQuota(admitted[k]) /\ Rising(admitted[k])
           /\ PinFor(k, pins, admitted[k], clock)
  BY DEF GateInv
<1>4. x \in Pass /\ x.at = clock /\ x.issued = r.issued BY <1>1, <1>3 DEF Pass
<1>5. x.issued >= clock - EvictionAge
  <2>1. r.expires - r.issued <= MaxRecordTtl /\ clock - r.expires <= RecordSkew
    BY DEF D!Admit, D!VerifyRecord
  <2> QED BY <1>1, <1>3, <1>4, <2>1
<1>6. k0 \in DOMAIN pins => x.issued > pins[k0] BY <1>4 DEF D!Admit, D!Fresher
<1>7. Len(D!Trimmed(events[k0])) < MaxPerWindow BY DEF D!Admit, D!WithinQuota
<1>8. clock' = clock BY DEF D!Admit
<1>9. events' = [events EXCEPT ![k0] = q2] BY DEF D!Admit, D!CommitEvent
<1>10. admitted' = [admitted EXCEPT ![k0] = h2] BY DEF D!Admit
<1>11. pins' = [k \in DOMAIN pins \cup {k0} |-> IF k = k0 THEN r.issued ELSE pins[k]]
  BY DEF D!Admit, D!CommitPin
<1>12. /\ q2 \in Seq(Int) /\ h2 \in Seq(Pass) /\ Tracks(q2, h2, clock)
       /\ HeldToQuota(h2) /\ Rising(h2) /\ Len(h2) > 0 /\ h2[Len(h2)] = x
  <2> HIDE DEF k0, x
  <2>1. /\ events[k0] \in Seq(Int) /\ admitted[k0] \in Seq(Pass)
        /\ Tracks(events[k0], admitted[k0], clock) /\ HeldToQuota(admitted[k0])
        /\ Rising(admitted[k0]) /\ PinFor(k0, pins, admitted[k0], clock)
    BY <1>2, <1>3
  <2>2. PassedBy(q2, h2, x, clock)
    BY <1>3, <1>4, <1>5, <1>6, <1>7, <2>1, PassKeeps, Zenon
  <2> QED BY <2>2, Zenon DEF PassedBy
<1> HIDE DEF k0, x, q2, h2
<1>13. /\ DOMAIN events' = D!Key /\ DOMAIN admitted' = D!Key
       /\ events'[k0] = q2 /\ admitted'[k0] = h2
       /\ \A k \in D!Key : k # k0 => events'[k] = events[k] /\ admitted'[k] = admitted[k]
  BY <1>2, <1>3, <1>9, <1>10
<1>14. /\ k0 \in DOMAIN pins' /\ pins'[k0] = r.issued
       /\ \A k : k # k0 => /\ (k \in DOMAIN pins' <=> k \in DOMAIN pins)
                           /\ (k \in DOMAIN pins => pins'[k] = pins[k])
  BY <1>11
<1>15. PinFor(k0, pins', h2, clock) BY <1>4, <1>12, <1>14 DEF PinFor
<1>16. ASSUME NEW k \in D!Key, k # k0 PROVE PinFor(k, pins', admitted[k], clock)
  <2>1. PinFor(k, pins, admitted[k], clock) BY <1>3
  <2> QED BY <1>14, <1>16, <2>1 DEF PinFor
<1>17. ASSUME NEW k \in D!Key
       PROVE  /\ events'[k] \in Seq(Int) /\ admitted'[k] \in Seq(Pass)
              /\ Tracks(events'[k], admitted'[k], clock)
              /\ HeldToQuota(admitted'[k]) /\ Rising(admitted'[k])
              /\ PinFor(k, pins', admitted'[k], clock)
  <2>1. CASE k = k0 BY <1>12, <1>13, <1>15, <2>1, Zenon
  <2>2. CASE k # k0 BY <1>3, <1>13, <1>16, <2>2, Zenon
  <2> QED BY <2>1, <2>2
<1> QED BY <1>3, <1>8, <1>13, <1>17, Zenon DEF GateInv

\* Pins are dropped only when their records have all expired.
LEMMA EvictKeepsGate ==
    ASSUME GateInv, D!EvictOlderThan
    PROVE  GateInv'
<1>1. EvictionAge \in Nat BY DiscoveryAssumption DEF D!DiscoveryConstants
<1>2. UNCHANGED <<clock, events, admitted>> BY DEF D!EvictOlderThan
<1>3. pins' = [k \in {j \in DOMAIN pins : ~(pins[j] < clock - EvictionAge)} |-> pins[k]]
  BY DEF D!EvictOlderThan, D!Evicted
<1>4. ASSUME NEW k \in D!Key PROVE PinFor(k, pins', admitted[k], clock)
  <2>1. PinFor(k, pins, admitted[k], clock) BY DEF GateInv
  <2>2. (k \in DOMAIN pins' => k \in DOMAIN pins /\ pins'[k] = pins[k])
        /\ (k \notin DOMAIN pins' => k \notin DOMAIN pins \/ pins[k] < clock - EvictionAge)
    BY <1>3
  <2> QED BY <2>1, <2>2 DEF PinFor
<1> QED BY <1>2, <1>4 DEF GateInv

LEMMA TickKeepsGate ==
    ASSUME GateInv, D!Tick
    PROVE  GateInv'
<1>1. clock \in Nat /\ clock' = clock + 1 /\ UNCHANGED <<events, admitted, pins>>
  BY DEF GateInv, D!Tick
<1>2. ASSUME NEW k \in D!Key
      PROVE  /\ Tracks(events[k], admitted[k], clock + 1)
             /\ PinFor(k, pins, admitted[k], clock + 1)
  <2>1. /\ events[k] \in Seq(Int) /\ admitted[k] \in Seq(Pass)
        /\ Tracks(events[k], admitted[k], clock) /\ PinFor(k, pins, admitted[k], clock)
    BY DEF GateInv
  <2> QED BY <1>1, <2>1, LaterGate, Zenon
<1>3. clock + 1 \in Nat BY <1>1
<1> QED BY <1>1, <1>2, <1>3 DEF GateInv

\* For any records, in any order and number, any quota, window and ages, and
\* evictions at any time (DiscoveryAdmissionGate.admit, evict_older_than): the gate
\* lets through only fresher records of a key, and never more than the quota in a
\* window.
THEOREM NothingRewinds == D!Spec => []NoRewind
<1>1. D!Init => GateInv BY GateInit
<1>2. GateInv /\ [D!Next]_D!vars => GateInv'
  <2> SUFFICES ASSUME GateInv, [D!Next]_D!vars PROVE GateInv' OBVIOUS
  <2>1. CASE D!Tick BY <2>1, TickKeepsGate
  <2>2. ASSUME NEW r \in Records, D!Admit(r) PROVE GateInv' BY <2>2, AdmitKeepsGate
  <2>3. CASE D!LearnPeer
    <3>1. UNCHANGED <<clock, pins, events, admitted>> BY <2>3 DEF D!LearnPeer
    <3> QED BY <3>1 DEF GateInv
  <2>4. CASE D!EvictOlderThan BY <2>4, EvictKeepsGate
  <2>5. CASE UNCHANGED D!vars
    <3>1. UNCHANGED <<clock, pins, events, admitted>> BY <2>5 DEF D!vars
    <3> QED BY <3>1 DEF GateInv
  <2> QED BY <2>1, <2>2, <2>3, <2>4, <2>5 DEF D!Next
<1>3. GateInv => NoRewind
  <2> SUFFICES ASSUME GateInv, NEW k \in D!Key
               PROVE  /\ \A i, j \in DOMAIN admitted[k] :
                           i < j => admitted[k][i].issued < admitted[k][j].issued
                      /\ \A a \in 0..MaxTime : D!Cardinality(InWindow(admitted[k], a)) <= MaxPerWindow
    BY DEF NoRewind, D!NoRewind, InWindow
  <2>1. /\ admitted[k] \in Seq(Pass) /\ HeldToQuota(admitted[k]) /\ Rising(admitted[k])
    BY DEF GateInv
  <2>2. DOMAIN admitted[k] = 1..Len(admitted[k]) BY <2>1
  <2>3. \A S : D!Cardinality(S) = Cardinality(S) BY Zenon DEF D!Cardinality, Cardinality
  <2>4. \A a \in 0..MaxTime : a \in Nat OBVIOUS
  <2>5. \A a \in 0..MaxTime : D!Cardinality(InWindow(admitted[k], a)) <= MaxPerWindow
    BY <2>1, <2>3, <2>4, Zenon DEF HeldToQuota
  <2>6. \A i, j \in DOMAIN admitted[k] :
          i < j => admitted[k][i].issued < admitted[k][j].issued
    BY <2>1, <2>2 DEF Rising
  <2> QED BY <2>5, <2>6
<1> QED BY <1>1, <1>2, <1>3, PTL DEF D!Spec

-----------------------------------------------------------------------------
(* The routing table: the greedy walk exists for every finite set of peers,*)
(* and no set of domains that leaves room can keep another out of it.      *)

\* The order of select_neighbors, by when each was learned and then by name.
Before(age, v, w) == age[v] > age[w] \/ (age[v] = age[w] /\ v < w)

\* `chosen` is what the walk over C selects.
Selects(age, C, chosen) ==
    /\ chosen \in SUBSET C
    /\ \A w \in C : w \in chosen <=> D!Takes({v \in chosen : Before(age, v, w)}, w)

\* A finite set of candidates with the times they were learned at.
Candidates(C, age) == C \in SUBSET Nat /\ IsFiniteSet(C) /\ \A w \in C : age[w] \in Nat

LastIn(age, C, m) == m \in C /\ \A v \in C \ {m} : Before(age, v, m)

\* One of the candidates comes last.
LEMMA OneIsLast ==
    ASSUME NEW C, NEW age, Candidates(C, age), C # {}
    PROVE  \E m \in C : LastIn(age, C, m)
<1> DEFINE Bad(T) == T # {} /\ ~\E m \in T : LastIn(age, T, m)
           Sizes == {n \in Nat : \E T \in SUBSET C : Bad(T) /\ Cardinality(T) = n}
<1>1. SUFFICES ASSUME Bad(C) PROVE FALSE OBVIOUS
<1>2. \A T \in SUBSET C : IsFiniteSet(T) /\ Cardinality(T) \in Nat
  BY FS_Subset, FS_CardinalityType DEF Candidates
<1>3. C \in SUBSET C /\ Cardinality(C) \in Nat BY <1>2
<1>4. Cardinality(C) \in Sizes BY <1>1, <1>3
<1>5. Sizes \in SUBSET Nat /\ Sizes # {} BY <1>4
<1>6. PICK n \in Sizes : \A k \in Sizes : n <= k BY <1>5, LeastNatural
<1>7. PICK T \in SUBSET C : Bad(T) /\ Cardinality(T) = n OBVIOUS
<1>8. PICK c \in T : TRUE BY <1>7
<1>9. IsFiniteSet(T \ {c}) /\ Cardinality(T \ {c}) = n - 1 /\ T \ {c} \in SUBSET C
  BY <1>2, <1>7, <1>8, FS_RemoveElement
<1>10. ~Bad(T \ {c})
  <2>1. SUFFICES ASSUME Bad(T \ {c}) PROVE FALSE OBVIOUS
  <2>2. Cardinality(T \ {c}) \in Sizes BY <1>2, <1>9, <2>1
  <2> HIDE DEF Sizes
  <2> QED BY <1>5, <1>6, <1>9, <2>2
<1>11. \A v \in T : v \in Nat /\ age[v] \in Nat BY DEF Candidates
<1>12. CASE T \ {c} = {}
  <2>1. LastIn(age, T, c) BY <1>8, <1>12 DEF LastIn
  <2> QED BY <1>7, <1>8, <2>1
<1>13. CASE T \ {c} # {}
  <2>1. PICK m \in T \ {c} : LastIn(age, T \ {c}, m) BY <1>10, <1>13
  <2>2. CASE Before(age, c, m)
    <3>1. LastIn(age, T, m) BY <2>1, <2>2 DEF LastIn
    <3> QED BY <1>7, <2>1, <3>1
  <2>3. CASE ~Before(age, c, m)
    <3>1. Before(age, m, c) BY <1>8, <1>11, <2>1, <2>3 DEF Before
    <3>2. ASSUME NEW v \in T \ {c} PROVE Before(age, v, c)
      <4>1. v = m \/ Before(age, v, m) BY <2>1 DEF LastIn
      <4> QED BY <1>8, <1>11, <2>1, <3>1, <4>1 DEF Before
    <3>3. LastIn(age, T, c) BY <1>8, <3>2 DEF LastIn
    <3> QED BY <1>7, <1>8, <3>3
  <2> QED BY <2>2, <2>3
<1> QED BY <1>12, <1>13

\* The walk selects some set, whatever the candidates.
LEMMA WalkExists ==
    ASSUME NEW C, NEW age, Candidates(C, age)
    PROVE  \E chosen \in SUBSET C : Selects(age, C, chosen)
<1> DEFINE Bad(T) == ~\E chosen \in SUBSET T : Selects(age, T, chosen)
           Sizes == {n \in Nat : \E T \in SUBSET C : Bad(T) /\ Cardinality(T) = n}
<1>1. SUFFICES ASSUME Bad(C) PROVE FALSE OBVIOUS
<1>2. \A T \in SUBSET C : IsFiniteSet(T) /\ Cardinality(T) \in Nat
  BY FS_Subset, FS_CardinalityType DEF Candidates
<1>3. C \in SUBSET C /\ Cardinality(C) \in Nat BY <1>2
<1>4. Cardinality(C) \in Sizes BY <1>1, <1>3
<1>5. Sizes \in SUBSET Nat /\ Sizes # {} BY <1>4
<1>6. PICK n \in Sizes : \A k \in Sizes : n <= k BY <1>5, LeastNatural
<1>7. PICK T \in SUBSET C : Bad(T) /\ Cardinality(T) = n OBVIOUS
<1>8. T # {}
  <2>1. Selects(age, {}, {}) BY DEF Selects
  <2> QED BY <1>7, <2>1
<1>9. Candidates(T, age) BY <1>2 DEF Candidates
<1>10. PICK m \in T : LastIn(age, T, m) BY <1>8, <1>9, OneIsLast
<1>11. IsFiniteSet(T \ {m}) /\ Cardinality(T \ {m}) = n - 1 /\ T \ {m} \in SUBSET C
  BY <1>2, <1>7, FS_RemoveElement
<1>12. ~Bad(T \ {m})
  <2>1. SUFFICES ASSUME Bad(T \ {m}) PROVE FALSE OBVIOUS
  <2>2. Cardinality(T \ {m}) \in Sizes BY <1>2, <1>11, <2>1
  <2> HIDE DEF Sizes
  <2> QED BY <1>5, <1>6, <1>11, <2>2
<1>13. PICK old \in SUBSET (T \ {m}) : Selects(age, T \ {m}, old) BY <1>12
<1>14. PICK new : new = IF D!Takes(old, m) THEN old \cup {m} ELSE old OBVIOUS
<1>15. \A v \in T : v \in Nat /\ age[v] \in Nat BY DEF Candidates
<1>16. \A w \in T \ {m} : Before(age, w, m) BY <1>10 DEF LastIn
<1>17. \A w \in T : ~Before(age, m, w) BY <1>15, <1>16 DEF Before
<1>18. \A w \in T : {v \in new : Before(age, v, w)} = {v \in old : Before(age, v, w)}
  BY <1>14, <1>17
<1>19. {v \in old : Before(age, v, m)} = old BY <1>13, <1>16
<1>20. ASSUME NEW w \in T
       PROVE  w \in new <=> D!Takes({v \in new : Before(age, v, w)}, w)
  <2>1. CASE w = m
    <3>1. {v \in new : Before(age, v, w)} = old BY <1>18, <1>19, <2>1
    <3>2. w \in new <=> D!Takes(old, m) BY <1>13, <1>14, <2>1
    <3> QED BY <2>1, <3>1, <3>2
  <2>2. CASE w # m
    <3>1. w \in old <=> D!Takes({v \in old : Before(age, v, w)}, w)
      BY <1>13, <2>2 DEF Selects
    <3>2. w \in new <=> w \in old BY <1>14, <2>2
    <3> QED BY <1>18, <3>1, <3>2
  <2> QED BY <2>1, <2>2
<1>21. new \in SUBSET T BY <1>13, <1>14
<1>22. Selects(age, T, new) BY <1>20, <1>21 DEF Selects
<1> QED BY <1>7, <1>21, <1>22

\* The instance counts as this module does.
LEMMA SameCount == \A S : D!Cardinality(S) = Cardinality(S)
<1> QED BY Zenon DEF D!Cardinality, Cardinality

\* What the walk selects of one domain stays within its cap.
LEMMA WithinCap ==
    ASSUME NEW C, NEW age, Candidates(C, age), NEW chosen, Selects(age, C, chosen), NEW d
    PROVE  /\ IsFiniteSet(D!In(chosen, d))
           /\ Cardinality(D!In(chosen, d)) <= MaxPerTrustDomain
<1> DEFINE X == D!In(chosen, d)
<1>0. MaxPerTrustDomain \in Nat \ {0} BY DiscoveryAssumption DEF D!DiscoveryConstants
<1>1. X \in SUBSET C /\ X \in SUBSET chosen /\ chosen \in SUBSET C BY DEF D!In, Selects
<1>2. IsFiniteSet(X) BY <1>1, FS_Subset DEF Candidates
<1>3. CASE X = {}
  <2>1. Cardinality(X) = 0 BY <1>3, FS_EmptySet
  <2> QED BY <1>0, <1>2, <2>1
<1>4. CASE X # {}
  <2>1. Candidates(X, age) BY <1>1, <1>2 DEF Candidates
  <2>2. PICK w \in X : LastIn(age, X, w) BY <1>4, <2>1, OneIsLast
  <2>3. w \in chosen /\ w \in C /\ DomainOf[w] = d BY <1>1 DEF D!In
  <2> DEFINE B == {v \in chosen : Before(age, v, w)}
  <2>4. D!Takes(B, w) BY <2>3 DEF Selects
  <2>5. D!Cardinality(D!In(B, d)) < MaxPerTrustDomain BY <2>3, <2>4 DEF D!Takes
  <2>6. ~Before(age, w, w)
    <3>1. age[w] \in Nat /\ w \in Nat BY <2>3 DEF Candidates
    <3> QED BY <3>1 DEF Before
  <2>7. D!In(B, d) = X \ {w} BY <2>2, <2>6 DEF LastIn, D!In
  <2>8. Cardinality(X \ {w}) = Cardinality(X) - 1 BY <1>2, FS_RemoveElement
  <2>9. Cardinality(X) \in Nat BY <1>2, FS_CardinalityType
  <2>10. D!Cardinality(D!In(B, d)) = Cardinality(X \ {w}) BY <2>7, SameCount, Zenon
  <2> HIDE DEF X, B
  <2>11. Cardinality(X) - 1 < MaxPerTrustDomain BY <2>5, <2>8, <2>10
  <2>12. Cardinality(X) <= MaxPerTrustDomain BY <1>0, <2>9, <2>11
  <2> QED BY <1>2, <2>12 DEF X
<1> QED BY <1>3, <1>4

LEMMA OneMoreTimes == \A a, b \in Nat : a * (b + 1) = a * b + a /\ a * b \in Nat
<1> QED OBVIOUS

\* A set whose members of each domain are within the cap.
LEMMA CapTimesDomains ==
    ASSUME NEW S, IsFiniteSet(S), NEW Ds, IsFiniteSet(Ds), NEW cap \in Nat,
           \A v \in S : DomainOf[v] \in Ds,
           \A d \in Ds : Cardinality(D!In(S, d)) <= cap
    PROVE  Cardinality(S) <= cap * Cardinality(Ds)
<1> DEFINE Of(T) == {v \in S : DomainOf[v] \in T}
           Bad(T) == ~(Cardinality(Of(T)) <= cap * Cardinality(T))
           Sizes == {n \in Nat : \E T \in SUBSET Ds : Bad(T) /\ Cardinality(T) = n}
<1>1. Of(Ds) = S OBVIOUS
<1>2. SUFFICES ASSUME Bad(Ds) PROVE FALSE BY <1>1
<1>3. \A T \in SUBSET Ds : /\ IsFiniteSet(T) /\ Cardinality(T) \in Nat
                           /\ IsFiniteSet(Of(T)) /\ Cardinality(Of(T)) \in Nat
  <2>1. ASSUME NEW T \in SUBSET Ds PROVE Of(T) \in SUBSET S OBVIOUS
  <2> QED BY <2>1, FS_Subset, FS_CardinalityType
<1>4. Ds \in SUBSET Ds /\ Cardinality(Ds) \in Nat BY <1>3
<1>5. Cardinality(Ds) \in Sizes BY <1>2, <1>4
<1>6. Sizes \in SUBSET Nat /\ Sizes # {} BY <1>5
<1>7. PICK n \in Sizes : \A k \in Sizes : n <= k BY <1>6, LeastNatural
<1>8. PICK T \in SUBSET Ds : Bad(T) /\ Cardinality(T) = n OBVIOUS
<1>9. T # {}
  <2>1. ASSUME T = {} PROVE FALSE
    <3>1. Of(T) = {} BY <2>1
    <3>2. Cardinality(Of(T)) = 0 /\ Cardinality(T) = 0 BY <2>1, <3>1, FS_EmptySet
    <3>3. cap * 0 = 0 OBVIOUS
    <3> QED BY <1>8, <3>2, <3>3
  <2> QED BY <2>1
<1>10. PICK d \in T : TRUE BY <1>9
<1> DEFINE U == T \ {d}
<1>11. IsFiniteSet(U) /\ Cardinality(U) = n - 1 /\ U \in SUBSET Ds
  BY <1>3, <1>8, FS_RemoveElement
<1>12. ~Bad(U)
  <2>1. SUFFICES ASSUME Bad(U) PROVE FALSE OBVIOUS
  <2>2. Cardinality(U) \in Sizes BY <1>3, <1>11, <2>1
  <2> HIDE DEF Sizes, U, Bad
  <2> QED BY <1>6, <1>7, <1>11, <2>2
<1>13. Of(T) = Of(U) \cup D!In(S, d) BY DEF D!In
<1>14. D!In(S, d) \in SUBSET S BY DEF D!In
<1>15. IsFiniteSet(D!In(S, d)) /\ Cardinality(D!In(S, d)) \in Nat
  BY <1>14, FS_Subset, FS_CardinalityType
<1>16. Of(U) \cap D!In(S, d) = {} BY DEF D!In
<1>17. Cardinality(Of(T)) = Cardinality(Of(U)) + Cardinality(D!In(S, d))
  <2>1. Cardinality(Of(U) \cap D!In(S, d)) = 0 BY <1>16, FS_EmptySet
  <2>2. IsFiniteSet(Of(U)) /\ Cardinality(Of(U)) \in Nat BY <1>3, <1>11
  <2>3. Cardinality(Of(U) \cup D!In(S, d)) =
          Cardinality(Of(U)) + Cardinality(D!In(S, d)) - Cardinality(Of(U) \cap D!In(S, d))
    BY <1>15, <2>2, FS_Union
  <2> HIDE DEF Of, U
  <2> QED BY <1>13, <1>15, <2>1, <2>2, <2>3
<1>18. /\ Cardinality(Of(U)) <= cap * (n - 1) /\ Cardinality(D!In(S, d)) <= cap
       /\ ~(Cardinality(Of(T)) <= cap * n)
  BY <1>8, <1>11, <1>12
<1>19. Cardinality(Of(U)) \in Nat /\ Cardinality(U) \in Nat /\ n \in Nat BY <1>3, <1>11
<1> HIDE DEF Of, U, Bad, Sizes
<1>20. n - 1 \in Nat /\ (n - 1) + 1 = n BY <1>11, <1>19
<1>21. cap * ((n - 1) + 1) = cap * (n - 1) + cap /\ cap * (n - 1) \in Nat
  BY <1>20, OneMoreTimes
<1>22. cap * n = cap * (n - 1) + cap BY <1>20, <1>21, Zenon
<1> DEFINE p == cap * (n - 1)
           q == cap * n
<1>23. /\ p \in Nat /\ q = p + cap /\ Cardinality(Of(U)) <= p
       /\ Cardinality(D!In(S, d)) <= cap /\ ~(Cardinality(Of(T)) <= q)
  BY <1>18, <1>21, <1>22
<1> HIDE DEF p, q
<1> QED BY <1>15, <1>17, <1>19, <1>23

\* A domain that has a candidate is selected from, unless the others fill the table.
LEMMA NoneLeftOut ==
    ASSUME NEW C, NEW age, Candidates(C, age), NEW chosen, Selects(age, C, chosen),
           NEW known, known = {DomainOf[w] : w \in C}, NEW d \in known,
           D!In(chosen, d) = {},
           MaxPerTrustDomain * (D!Cardinality(known) - 1) < TargetCount
    PROVE  FALSE
<1>0. MaxPerTrustDomain \in Nat \ {0} /\ TargetCount \in Nat
  BY DiscoveryAssumption DEF D!DiscoveryConstants
<1>1. PICK w \in C : DomainOf[w] = d OBVIOUS
<1> DEFINE B == {v \in chosen : Before(age, v, w)}
<1>2. w \notin chosen BY <1>1 DEF D!In
<1>3. ~D!Takes(B, w) BY <1>2 DEF Selects
<1>4. D!In(B, DomainOf[w]) = {} BY <1>1 DEF D!In
<1>5. D!Cardinality(D!In(B, DomainOf[w])) = 0 BY <1>4, SameCount, FS_EmptySet
<1>6. chosen \in SUBSET C /\ IsFiniteSet(C) BY DEF Selects, Candidates
<1>7. IsFiniteSet(chosen) /\ Cardinality(chosen) \in Nat BY <1>6, FS_Subset, FS_CardinalityType
<1>8. /\ B \in SUBSET chosen /\ Cardinality(B) <= Cardinality(chosen)
      /\ Cardinality(B) \in Nat
  BY <1>7, FS_Subset, FS_CardinalityType
<1>9. D!Cardinality(B) = Cardinality(B) BY SameCount
<1> HIDE DEF B
<1>10. TargetCount <= Cardinality(B) BY <1>0, <1>3, <1>5, <1>8, <1>9 DEF D!Takes
<1>11. IsFiniteSet(known)
  <2> DEFINE f == [v \in C |-> DomainOf[v]]
  <2>1. f \in Surjection(C, known) BY DEF Surjection
  <2> QED BY <1>6, <2>1, FS_Surjection
<1>12. /\ IsFiniteSet(known \ {d}) /\ Cardinality(known \ {d}) = Cardinality(known) - 1
       /\ Cardinality(known \ {d}) \in Nat
  BY <1>11, FS_RemoveElement, FS_CardinalityType
<1>13. \A v \in chosen : DomainOf[v] \in known \ {d} BY <1>6 DEF D!In
<1>14. \A e \in known \ {d} : Cardinality(D!In(chosen, e)) <= MaxPerTrustDomain BY WithinCap
<1>15. Cardinality(chosen) <= MaxPerTrustDomain * Cardinality(known \ {d})
  BY <1>0, <1>7, <1>12, <1>13, <1>14, CapTimesDomains
<1>16. D!Cardinality(known) = Cardinality(known) BY SameCount
<1>17. MaxPerTrustDomain * Cardinality(known \ {d}) < TargetCount BY <1>12, <1>16, Zenon
<1>18. PICK p : p = MaxPerTrustDomain * Cardinality(known \ {d}) OBVIOUS
<1>19. p \in Nat BY <1>0, <1>12, <1>18, OneMoreTimes
<1> QED BY <1>0, <1>7, <1>8, <1>10, <1>15, <1>17, <1>18, <1>19

\* The peers a node knows are finitely many, and each was learned at some time.
PeersInv ==
    /\ clock \in Nat
    /\ cleared \in Records \cup {NoRecord}
    /\ DOMAIN peers \in SUBSET Nat /\ IsFiniteSet(DOMAIN peers)
    /\ \A w \in DOMAIN peers : peers[w].learned_at \in Nat

LEMMA PeersStep ==
    ASSUME PeersInv, [D!Next]_D!vars
    PROVE  PeersInv'
<1>1. CASE D!Tick BY <1>1 DEF D!Tick, PeersInv
<1>2. ASSUME NEW r \in Records, D!Admit(r) PROVE PeersInv' BY <1>2 DEF D!Admit, PeersInv
<1>3. CASE D!LearnPeer
  <2>1. /\ clock' = clock /\ cleared' = NoRecord /\ cleared \in Records
        /\ clock \in Nat
    BY <1>3 DEF D!LearnPeer, PeersInv
  <2>2. cleared.iss \in Nat BY <2>1, DiscoveryAssumption DEF D!DiscoveryConstants
  <2>3. CASE peers' = peers BY <2>1, <2>3 DEF PeersInv
  <2>4. CASE peers' = [w \in DOMAIN peers \cup {cleared.iss} |->
                         IF w = cleared.iss
                         THEN [record |-> cleared, learned_at |-> clock] ELSE peers[w]]
    <3>1. DOMAIN peers' = DOMAIN peers \cup {cleared.iss} BY <2>4
    <3>2. IsFiniteSet(DOMAIN peers \cup {cleared.iss}) BY FS_AddElement DEF PeersInv
    <3>3. \A w \in DOMAIN peers' : peers'[w].learned_at \in Nat BY <2>1, <2>4, <3>1 DEF PeersInv
    <3>4. DOMAIN peers' \in SUBSET Nat /\ IsFiniteSet(DOMAIN peers')
      BY <2>2, <3>1, <3>2 DEF PeersInv
    <3> QED BY <2>1, <3>3, <3>4 DEF PeersInv
  <2> QED BY <1>3, <2>3, <2>4 DEF D!LearnPeer
<1>4. CASE D!EvictOlderThan BY <1>4 DEF D!EvictOlderThan, PeersInv
<1>5. CASE UNCHANGED D!vars BY <1>5 DEF D!vars, PeersInv
<1> QED BY <1>1, <1>2, <1>3, <1>4, <1>5 DEF D!Next

\* What the routing table holds is what the walk selects.
LEMMA TableSelected ==
    ASSUME PeersInv
    PROVE  \E age : /\ Candidates(DOMAIN peers, age)
                    /\ Selects(age, DOMAIN peers, D!RoutingTable)
<1> DEFINE C == DOMAIN peers
           age == [w \in C |-> peers[w].learned_at]
           Fits(chosen) == \A w \in C : w \in chosen <=> D!Takes({v \in chosen : D!Precedes(v, w)}, w)
<1>1. Candidates(C, age) BY DEF PeersInv, Candidates
<1>2. PICK some \in SUBSET C : Selects(age, C, some) BY <1>1, WalkExists
<1>3. \A v, w \in C : Before(age, v, w) <=> D!Precedes(v, w) BY DEF Before, D!Precedes
<1>4. \A chosen \in SUBSET C : \A w \in C :
        {v \in chosen : Before(age, v, w)} = {v \in chosen : D!Precedes(v, w)}
  BY <1>3
<1>5. \A chosen \in SUBSET C : Fits(chosen) <=> Selects(age, C, chosen)
  <2> SUFFICES ASSUME NEW chosen \in SUBSET C PROVE Fits(chosen) <=> Selects(age, C, chosen)
    OBVIOUS
  <2> HIDE DEF age, C
  <2> QED BY <1>4 DEF Selects
<1>6. D!RoutingTable = CHOOSE chosen \in SUBSET C : Fits(chosen)
  BY DEF D!RoutingTable, D!SelectNeighbors
<1>7. \E chosen \in SUBSET C : Fits(chosen) BY <1>2, <1>5
<1> HIDE DEF Fits
<1>8. D!RoutingTable \in SUBSET C /\ Fits(D!RoutingTable) BY <1>6, <1>7
<1>9. Selects(age, C, D!RoutingTable) BY <1>5, <1>8
<1> QED BY <1>1, <1>9

\* For any records, peers learned in any order and any quotas of the rule
\* (MeshNode.routing_table, select_neighbors): no trust domain has more neighbors than
\* its cap, and one that is known has a neighbor unless the others fill the table.
THEOREM NoneEclipsed == D!Spec => []NotEclipsed
<1>1. D!Init => PeersInv
  <2> SUFFICES ASSUME D!Init PROVE PeersInv OBVIOUS
  <2>1. DOMAIN peers = {} BY DEF D!Init
  <2>2. clock = 0 /\ cleared = NoRecord BY DEF D!Init
  <2> QED BY <2>1, <2>2, FS_EmptySet DEF PeersInv
<1>2. PeersInv /\ [D!Next]_D!vars => PeersInv' BY PeersStep
<1>3. PeersInv => NotEclipsed
  <2> SUFFICES ASSUME PeersInv PROVE NotEclipsed OBVIOUS
  <2>1. PICK age : /\ Candidates(DOMAIN peers, age)
                   /\ Selects(age, DOMAIN peers, D!RoutingTable)
    BY TableSelected
  <2>2. PICK table : table = D!RoutingTable OBVIOUS
  <2>3. PICK known : known = {DomainOf[w] : w \in DOMAIN peers} OBVIOUS
  <2>4. ASSUME NEW d \in known PROVE D!Cardinality(D!In(table, d)) <= MaxPerTrustDomain
    BY <2>1, <2>2, WithinCap, SameCount
  <2>5. ASSUME NEW d \in known, MaxPerTrustDomain * (D!Cardinality(known) - 1) < TargetCount,
               D!In(table, d) = {}
        PROVE  FALSE
    BY <2>1, <2>2, <2>3, <2>5, NoneLeftOut
  <2> QED BY <2>2, <2>3, <2>4, <2>5 DEF NotEclipsed, D!NotEclipsed
<1> QED BY <1>1, <1>2, <1>3, PTL DEF D!Spec

-----------------------------------------------------------------------------
(* The registry: a name that no two processes served at once belongs to    *)
(* the one that is up, from its first write on.                            *)

\* A name that no two processes ever served at once has at most one process up;
\* its manifest is truncated while that process announces itself, and is its own
\* from then on until it stops.
RegistryInv ==
    /\ DOMAIN status = Instance /\ DOMAIN manifest = Server /\ DOMAIN writing = Server
    /\ \A i \in Instance : NameOf[i] \notin overlapped =>
         /\ F!Up(i) => \A j \in Instance : F!Up(j) /\ NameOf[j] = NameOf[i] => j = i
         /\ status[i] = "announcing" => manifest[NameOf[i]] = Empty /\ i \in writing[NameOf[i]]
         /\ status[i] = "serving" => manifest[NameOf[i]] = i

LEMMA RegistryInit ==
    ASSUME F!Init
    PROVE  RegistryInv
<1>1. /\ DOMAIN status = Instance /\ DOMAIN manifest = Server /\ DOMAIN writing = Server
      /\ \A i \in Instance : status[i] = "new"
  BY DEF F!Init
<1> QED BY <1>1 DEF RegistryInv, F!Up

\* A process starts where none of its name is up, or the two overlap.
LEMMA StartKeepsRegistry ==
    ASSUME RegistryInv, NEW p \in Instance, F!Start(p)
    PROVE  RegistryInv'
<1> DEFINE n == NameOf[p]
<1>1. n \in Server BY FederationAssumption DEF F!FederationConstants
<1>2. /\ status[p] = "new" /\ status' = [status EXCEPT ![p] = "announcing"]
      /\ manifest' = [manifest EXCEPT ![n] = Empty]
      /\ writing' = [writing EXCEPT ![n] = @ \cup {p}]
      /\ overlapped' = overlapped \cup {NameOf[j] : j \in {k \in Instance :
                                           F!Up(k) /\ NameOf[k] = NameOf[p]}}
  BY DEF F!Start, F!OpenManifest
<1>3. DOMAIN status' = Instance /\ DOMAIN manifest' = Server /\ DOMAIN writing' = Server
  BY <1>2 DEF RegistryInv
<1>4. status'[p] = "announcing" /\ \A j \in Instance : j # p => status'[j] = status[j]
  BY <1>2 DEF RegistryInv
<1>5. /\ manifest'[n] = Empty /\ p \in writing'[n]
      /\ \A m \in Server : m # n => manifest'[m] = manifest[m] /\ writing'[m] = writing[m]
  BY <1>1, <1>2 DEF RegistryInv
<1>6. /\ \A m : m \notin overlapped' => m \notin overlapped
      /\ n \notin overlapped' => \A k \in Instance : ~(F!Up(k) /\ NameOf[k] = n)
  BY <1>2
<1>7. F!Up(p)' /\ ~F!Up(p) /\ \A j \in Instance : j # p => F!Up(j)' = F!Up(j)
  BY <1>2, <1>4 DEF F!Up
<1>8. ASSUME NEW i \in Instance, NameOf[i] \notin overlapped'
      PROVE  /\ F!Up(i)' => \A j \in Instance : F!Up(j)' /\ NameOf[j] = NameOf[i] => j = i
             /\ status'[i] = "announcing" => manifest'[NameOf[i]] = Empty /\ i \in writing'[NameOf[i]]
             /\ status'[i] = "serving" => manifest'[NameOf[i]] = i
  <2>1. CASE i = p BY <1>4, <1>5, <1>6, <1>7, <1>8, <2>1
  <2>2. CASE i # p /\ NameOf[i] = n
    <3>1. ~F!Up(i) /\ ~F!Up(i)' BY <1>6, <1>7, <1>8, <2>2
    <3>2. status[i] # "announcing" /\ status[i] # "serving" BY <3>1 DEF F!Up
    <3> QED BY <1>4, <2>2, <3>1, <3>2
  <2>3. CASE NameOf[i] # n
    <3>1. NameOf[i] \in Server BY FederationAssumption DEF F!FederationConstants
    <3>2. i # p BY <2>3
    <3>3. NameOf[i] \notin overlapped BY <1>6, <1>8
    <3> QED BY <1>4, <1>5, <1>7, <2>3, <3>1, <3>2, <3>3 DEF RegistryInv
  <2> QED BY <2>1, <2>2, <2>3
<1> QED BY <1>3, <1>8 DEF RegistryInv

\* A process that is up moves on, writes what it announced or goes down; of its
\* own name alone it changes the manifest.
LEMMA OwnKeepsRegistry ==
    ASSUME RegistryInv, NEW p \in Instance,
           F!Announce(p) \/ F!Stop(p) \/ F!Unlink(p) \/ F!Crash(p)
    PROVE  RegistryInv'
<1> DEFINE n == NameOf[p]
<1>1. n \in Server BY FederationAssumption DEF F!FederationConstants
<1>2. /\ F!Up(p) /\ overlapped' = overlapped
      /\ \A j \in Instance : j # p => status'[j] = status[j]
      /\ DOMAIN status' = Instance
  <2>1. CASE F!Announce(p) BY <2>1 DEF F!Announce, F!Up, RegistryInv
  <2>2. CASE F!Stop(p) BY <2>2 DEF F!Stop, F!Up, RegistryInv
  <2>3. CASE F!Unlink(p) BY <2>3 DEF F!Unlink, F!Up, RegistryInv
  <2>4. CASE F!Crash(p) BY <2>4 DEF F!Crash, F!Up, RegistryInv
  <2> QED BY <2>1, <2>2, <2>3, <2>4
<1>3. /\ DOMAIN manifest' = Server /\ DOMAIN writing' = Server
      /\ \A m \in Server : m # n => manifest'[m] = manifest[m] /\ writing'[m] = writing[m]
  <2>1. CASE F!Announce(p) BY <2>1 DEF F!Announce, RegistryInv
  <2>2. CASE F!Stop(p) BY <2>2 DEF F!Stop, F!registryVars, RegistryInv
  <2>3. CASE F!Unlink(p) BY <2>3 DEF F!Unlink, RegistryInv
  <2>4. CASE F!Crash(p) BY <2>4 DEF F!Crash, RegistryInv
  <2> QED BY <2>1, <2>2, <2>3, <2>4
<1>4. /\ status'[p] # "announcing"
      /\ status'[p] = "serving" /\ n \notin overlapped => manifest'[n] = p
  <2>1. CASE F!Announce(p)
    <3>1. status[p] = "announcing" /\ status'[p] = "serving"
      BY <2>1 DEF F!Announce, RegistryInv
    <3>2. ASSUME n \notin overlapped PROVE manifest'[n] = p
      <4>1. manifest[n] = Empty /\ p \in writing[n] BY <3>1, <3>2 DEF RegistryInv
      <4>2. manifest' = [manifest EXCEPT ![n] = p] BY <2>1, <4>1 DEF F!Announce
      <4> QED BY <1>1, <4>2 DEF RegistryInv
    <3> QED BY <3>1, <3>2
  <2>2. CASE F!Stop(p) BY <2>2 DEF F!Stop, RegistryInv
  <2>3. CASE F!Unlink(p) BY <2>3 DEF F!Unlink, RegistryInv
  <2>4. CASE F!Crash(p) BY <2>4 DEF F!Crash, RegistryInv
  <2> QED BY <2>1, <2>2, <2>3, <2>4
<1>5. \A j \in Instance : F!Up(j)' => F!Up(j) BY <1>2 DEF F!Up
<1>6. ASSUME NEW i \in Instance, NameOf[i] \notin overlapped
      PROVE  /\ F!Up(i)' => \A j \in Instance : F!Up(j)' /\ NameOf[j] = NameOf[i] => j = i
             /\ status'[i] = "announcing" => manifest'[NameOf[i]] = Empty /\ i \in writing'[NameOf[i]]
             /\ status'[i] = "serving" => manifest'[NameOf[i]] = i
  <2>1. F!Up(i)' => \A j \in Instance : F!Up(j)' /\ NameOf[j] = NameOf[i] => j = i
    BY <1>5, <1>6 DEF RegistryInv
  <2>2. CASE i = p BY <1>4, <1>6, <2>1, <2>2
  <2>3. CASE i # p /\ NameOf[i] = n
    <3>1. ~F!Up(i) BY <1>2, <1>6, <2>3 DEF RegistryInv
    <3>2. status'[i] # "announcing" /\ status'[i] # "serving" BY <1>2, <2>3, <3>1 DEF F!Up
    <3> QED BY <2>1, <3>2
  <2>4. CASE NameOf[i] # n
    <3>1. NameOf[i] \in Server BY FederationAssumption DEF F!FederationConstants
    <3>2. i # p BY <2>4
    <3> QED BY <1>2, <1>3, <1>6, <2>1, <2>4, <3>1, <3>2 DEF RegistryInv
  <2> QED BY <2>2, <2>3, <2>4
<1> QED BY <1>2, <1>3, <1>6 DEF RegistryInv

\* For any servers, names, clients and calls, with starts, closes, crashes and
\* restarts in any order (ToolServer.__init__ and close, WorkspaceServerNode): a
\* server that is up is registered under its own address unless two processes of
\* its name were up at once.
THEOREM RegistriesTruthful == F!Spec => []RegistryTruthful
<1>1. F!Init => RegistryInv BY RegistryInit
<1>2. RegistryInv /\ [F!Next]_F!vars => RegistryInv'
  <2> SUFFICES ASSUME RegistryInv, [F!Next]_F!vars PROVE RegistryInv' OBVIOUS
  <2>1. ASSUME UNCHANGED <<status, manifest, writing, overlapped>> PROVE RegistryInv'
    BY <2>1 DEF RegistryInv, F!Up
  <2>2. ASSUME NEW p \in Instance, F!Start(p) PROVE RegistryInv'
    BY <2>2, StartKeepsRegistry
  <2>3. ASSUME NEW p \in Instance, F!Announce(p) \/ F!Stop(p) \/ F!Unlink(p) \/ F!Crash(p)
        PROVE  RegistryInv'
    BY <2>3, OwnKeepsRegistry
  <2>4. ASSUME NEW p, F!Reset(p) PROVE RegistryInv'
    BY <2>1, <2>4 DEF F!Reset, F!registryVars
  <2>5. ASSUME NEW p \in Instance, F!Handle(p) \/ F!Reply(p) PROVE RegistryInv'
    BY <2>1, <2>5 DEF F!Handle, F!Reply, F!registryVars
  <2>6. ASSUME NEW c, NEW m, NEW tool, NEW id, F!Resolve(c, m, tool, id) PROVE RegistryInv'
    BY <2>1, <2>6 DEF F!Resolve, F!registryVars
  <2>7. ASSUME NEW m, F!Edit(m) PROVE RegistryInv'
    BY <2>1, <2>7 DEF F!Edit, F!registryVars
  <2>8. ASSUME NEW c, F!Send(c) \/ F!Receive(c) \/ F!TimeOut(c) PROVE RegistryInv'
    BY <2>1, <2>8 DEF F!Send, F!Receive, F!TimeOut, F!registryVars
  <2>9. CASE UNCHANGED F!vars BY <2>1, <2>9 DEF F!vars
  <2> QED
    BY <2>2, <2>3, <2>4, <2>5, <2>6, <2>7, <2>8, <2>9
    DEF F!Next, F!Steps, F!Call, F!Poll
<1>3. RegistryInv => RegistryTruthful BY DEF RegistryInv, RegistryTruthful, F!RegistryTruthful
<1> QED BY <1>1, <1>2, <1>3, PTL DEF F!Spec

-----------------------------------------------------------------------------
(* The pooled transport: a frame is two pieces on a stream, written under  *)
(* the sender's lock, so that no stream holds two frames interleaved, and  *)
(* what was delivered or lost is not sent again.                           *)

\* A stream is made of frames, one after the other, each its first piece and then
\* its second; at its end a first piece may wait for its second.
Shaped(st) ==
    /\ Len(st) > 0 => st[1][2] = 1
    /\ \A k \in 1..Len(st) :
         k > 1 => IF st[k - 1][2] = 1 THEN st[k][2] = 2 /\ st[k][1] = st[k - 1][1]
                                      ELSE st[k][2] = 1

\* No first piece waits at its end.
Whole(st) == Len(st) > 0 => st[Len(st)][2] = 2

Pieces == Seq(Frame \X {1, 2})

Sockets == [to : Dest \cup {NoOne}, state : {"new", "open", "closed"}, broken : BOOLEAN,
            stream : Pieces]

SendCalls == [pc : {"idle", "get", "first", "rest", "drop", "sent", "failed"},
              frame : Frame \cup {NoOne}, attempt : Nat, conn : 0..MaxConns]

PoolTypes ==
    /\ out \in Seq(K!Conn) /\ sock \in [K!Conn -> Sockets] /\ opened \in 0..MaxConns
    /\ call \in [Sender -> SendCalls] /\ received \in [Dest -> Seq(Frame)]
    /\ todo \in SUBSET Frame

\* The pool is bounded, has one open connection per destination and all that are
\* open; those not opened yet are untouched.
PoolKept ==
    /\ Len(out) <= MaxConnections
    /\ \A i \in 1..Len(out) : sock[out[i]].state = "open"
    /\ \A i, j \in 1..Len(out) : sock[out[i]].to = sock[out[j]].to => i = j
    /\ \A c \in K!Conn : sock[c].state = "open" => \E i \in 1..Len(out) : out[i] = c
    /\ \A c \in K!Conn : c > opened => sock[c].state = "new" /\ sock[c].stream = <<>>

\* One send at a time, of a frame of its own, over a connection to where it goes.
SendsSerial ==
    \A s \in Sender : call[s].pc # "idle" =>
      /\ sendLock = s /\ call[s].frame \in Frame \ todo
      /\ call[s].pc \in {"first", "rest"} =>
           /\ call[s].conn \in K!Conn /\ sock[call[s].conn].to = DestOf[call[s].frame]
           /\ call[s].conn <= opened

StreamsShaped ==
    \A c \in K!Conn :
      /\ Shaped(sock[c].stream)
      /\ \A k \in 1..Len(sock[c].stream) : DestOf[sock[c].stream[k][1]] = sock[c].to

\* The second piece of f is at k in the stream of c.
EndsAt(f, c, k) ==
    /\ k \in 1..Len(sock[c].stream)
    /\ sock[c].stream[k][2] = 2 /\ sock[c].stream[k][1] = f

Arrived(f) == \E d \in Dest : \E i \in 1..Len(received[d]) : received[d][i] = f

\* f has not been written to its end.
Unsent(f) ==
    \/ f \in todo
    \/ \E s \in Sender : /\ call[s].pc \in {"get", "first", "rest", "drop", "failed"}
                         /\ call[s].frame = f

\* A frame is completed once: in one stream, or in one inbox.
FramesOnce ==
    /\ \A f \in Frame, c1, c2 \in K!Conn, k1, k2 \in Nat :
         EndsAt(f, c1, k1) /\ EndsAt(f, c2, k2) => c1 = c2 /\ k1 = k2
    /\ \A f \in Frame, c \in K!Conn, k \in Nat : EndsAt(f, c, k) => ~Arrived(f) /\ ~Unsent(f)
    /\ \A f \in Frame : Arrived(f) => ~Unsent(f)
    /\ \A d \in Dest : \A i \in 1..Len(received[d]) : DestOf[received[d][i]] = d
    /\ \A d \in Dest : \A i, j \in 1..Len(received[d]) : received[d][i] = received[d][j] => i = j

\* A connection that can be written to ends with a first piece only while the send
\* that wrote it goes on to write the second, or to drop the connection.
PiecesFollow ==
    /\ \A c \in K!Conn :
         sock[c].state = "open" /\ ~sock[c].broken /\ ~Whole(sock[c].stream) =>
           \E s \in Sender :
             \/ call[s].pc = "rest" /\ call[s].conn = c
             \/ call[s].pc = "drop" /\ sock[c].to = DestOf[call[s].frame]
    /\ \A s \in Sender :
         LET c == call[s].conn
         IN  call[s].pc = "rest" /\ sock[c].state = "open" /\ ~sock[c].broken =>
               /\ Len(sock[c].stream) > 0
               /\ sock[c].stream[Len(sock[c].stream)][1] = call[s].frame
               /\ sock[c].stream[Len(sock[c].stream)][2] = 1

PoolInv ==
    /\ PoolTypes /\ PoolKept /\ SendsSerial /\ StreamsShaped /\ FramesOnce /\ PiecesFollow

LEMMA PoolConstantFacts ==
    /\ MaxConnections \in Nat /\ MaxConnections >= 1 /\ MaxConns \in Nat
    /\ NoOne \notin Sender /\ \A f \in Frame : DestOf[f] \in Dest
  BY PoolAssumption DEF K!PoolConstants

\* While a send is under way the other callers are idle.
LEMMA OthersIdle ==
    ASSUME PoolInv, NEW s \in Sender, call[s].pc # "idle", NEW t \in Sender, t # s
    PROVE  call[t].pc = "idle"
  BY DEF PoolInv, SendsSerial

\* What is written and read stays as it is when the streams do.
LEMMA StreamsStay ==
    ASSUME PoolInv, received' = received,
           \A c \in K!Conn : /\ sock'[c].stream = sock[c].stream
                             /\ sock'[c].to = sock[c].to \/ sock[c].stream = <<>>,
           \A f \in Frame : Unsent(f)' => Unsent(f)
    PROVE  StreamsShaped' /\ FramesOnce'
<1>1. \A f \in Frame, c \in K!Conn, k \in Nat : EndsAt(f, c, k)' = EndsAt(f, c, k)
  BY DEF EndsAt
<1>2. \A f \in Frame : Arrived(f)' = Arrived(f) BY DEF Arrived
<1>3. StreamsShaped'
  <2> SUFFICES ASSUME NEW c \in K!Conn
               PROVE  /\ Shaped(sock'[c].stream)
                      /\ \A k \in 1..Len(sock'[c].stream) :
                           DestOf[sock'[c].stream[k][1]] = sock'[c].to
    BY DEF StreamsShaped
  <2>1. /\ Shaped(sock[c].stream)
        /\ \A k \in 1..Len(sock[c].stream) : DestOf[sock[c].stream[k][1]] = sock[c].to
    BY DEF PoolInv, StreamsShaped
  <2>2. sock[c].stream = <<>> => 1..Len(sock[c].stream) = {} OBVIOUS
  <2> QED BY <2>1, <2>2
<1>4. FramesOnce'
  <2>1. FramesOnce BY DEF PoolInv
  <2>2. \A f \in Frame, c1, c2 \in K!Conn, k1, k2 \in Nat :
          EndsAt(f, c1, k1)' /\ EndsAt(f, c2, k2)' => c1 = c2 /\ k1 = k2
    BY <1>1, <2>1 DEF FramesOnce
  <2>3. \A f \in Frame, c \in K!Conn, k \in Nat :
          EndsAt(f, c, k)' => ~Arrived(f)' /\ ~Unsent(f)'
    BY <1>1, <1>2, <2>1 DEF FramesOnce
  <2>4. \A f \in Frame : Arrived(f)' => ~Unsent(f)' BY <1>2, <2>1 DEF FramesOnce
  <2>5. /\ \A d \in Dest : \A i \in 1..Len(received'[d]) : DestOf[received'[d][i]] = d
        /\ \A d \in Dest : \A i, j \in 1..Len(received'[d]) :
             received'[d][i] = received'[d][j] => i = j
    BY <2>1 DEF FramesOnce
  <2> QED BY <2>2, <2>3, <2>4, <2>5 DEF FramesOnce
<1> QED BY <1>3, <1>4

LEMMA PoolInit ==
    ASSUME K!Init
    PROVE  PoolInv
<1> USE PoolConstantFacts DEF K!Init
<1>1. \A c \in K!Conn : /\ sock[c].to = NoOne /\ sock[c].state = "new"
                        /\ sock[c].broken = FALSE /\ sock[c].stream = <<>>
  OBVIOUS
<1>2. \A s \in Sender : call[s].pc = "idle" BY DEF K!Idle
<1>3. \A d \in Dest : received[d] = <<>> OBVIOUS
<1>4. PoolTypes
  <2>1. call \in [Sender -> SendCalls] BY DEF K!Idle, SendCalls
  <2>2. sock \in [K!Conn -> Sockets] BY DEF Sockets, Pieces
  <2>3. received \in [Dest -> Seq(Frame)] OBVIOUS
  <2>4. out \in Seq(K!Conn) /\ opened \in 0..MaxConns /\ todo \in SUBSET Frame OBVIOUS
  <2> QED BY ONLY <2>1, <2>2, <2>3, <2>4 DEF PoolTypes
<1>5. PoolKept BY <1>1 DEF PoolKept
<1>6. SendsSerial BY <1>2 DEF SendsSerial
<1>7. StreamsShaped BY <1>1 DEF StreamsShaped, Shaped
<1>8. FramesOnce
  <2>1. \A f \in Frame, c \in K!Conn, k \in Nat : ~EndsAt(f, c, k) BY <1>1 DEF EndsAt
  <2>2. \A f \in Frame : ~Arrived(f) BY <1>3 DEF Arrived
  <2>3. \A d \in Dest : 1..Len(received[d]) = {} BY <1>3
  <2> QED BY <2>1, <2>2, <2>3 DEF FramesOnce
<1>9. PiecesFollow BY <1>1, <1>2 DEF PiecesFollow
<1> QED BY <1>4, <1>5, <1>6, <1>7, <1>8, <1>9 DEF PoolInv

LEMMA SendKeepsPool ==
    ASSUME PoolInv, NEW s \in Sender, NEW f \in Frame, K!Send(s, f)
    PROVE  PoolInv'
<1>1. /\ call[s].pc = "idle" /\ f \in todo /\ sendLock = NoOne /\ sendLock' = s
      /\ todo' = todo \ {f}
      /\ call' = [call EXCEPT ![s] = [pc |-> "get", frame |-> f, attempt |-> 1, conn |-> 0]]
      /\ UNCHANGED <<out, sock, opened, received>>
  BY DEF K!Send, K!Idle
<1>2. call \in [Sender -> SendCalls] BY DEF PoolInv, PoolTypes
<1>3. /\ call'[s].pc = "get" /\ call'[s].frame = f
      /\ \A t \in Sender : t # s => call'[t] = call[t]
  BY <1>1, <1>2
<1>4. \A t \in Sender : call[t].pc = "idle"
  BY <1>1, PoolConstantFacts DEF PoolInv, SendsSerial
<1>5. PoolTypes'
  <2>1. call' \in [Sender -> SendCalls] BY <1>1, <1>2, PoolConstantFacts DEF SendCalls
  <2> QED BY <1>1, <2>1 DEF PoolInv, PoolTypes
<1>6. PoolKept' BY <1>1 DEF PoolInv, PoolKept
<1>7. SendsSerial' BY <1>1, <1>3, <1>4 DEF SendsSerial
<1>8. \A g \in Frame : Unsent(g)' => Unsent(g) BY <1>1, <1>3, <1>4 DEF Unsent
<1>9. StreamsShaped' /\ FramesOnce' BY <1>1, <1>8, StreamsStay
<1>10. PiecesFollow' BY <1>1, <1>3, <1>4 DEF PoolInv, PiecesFollow
<1> QED BY <1>5, <1>6, <1>7, <1>9, <1>10 DEF PoolInv

\* The steps of a send that change neither the pool nor a socket.
LEMMA MovesKeepPool ==
    ASSUME PoolInv, NEW s \in Sender, K!Refused(s) \/ K!WriteFails(s) \/ K!Return(s)
    PROVE  PoolInv'
<1>0. call \in [Sender -> SendCalls] /\ SendsSerial BY DEF PoolInv, PoolTypes
<1>1. /\ UNCHANGED <<out, sock, opened, received, todo>>
      /\ call[s].pc # "idle" /\ call' \in [Sender -> SendCalls]
      /\ \A t \in Sender : t # s => call'[t] = call[t] /\ call[t].pc = "idle"
      /\ \/ call'[s].pc = "idle" /\ call[s].pc \in {"sent", "failed"}
         \/ /\ call'[s].pc = "drop" /\ call[s].pc \in {"get", "first", "rest"}
            /\ call'[s].frame = call[s].frame /\ sendLock' = sendLock
  <2>1. CASE K!Refused(s)
    BY <1>0, <2>1, OthersIdle DEF K!Refused, SendCalls
  <2>2. CASE K!WriteFails(s)
    BY <1>0, <2>2, OthersIdle DEF K!WriteFails, SendCalls
  <2>3. CASE K!Return(s)
    BY <1>0, <2>3, OthersIdle, PoolConstantFacts DEF K!Return, K!Idle, SendCalls
  <2> QED BY <2>1, <2>2, <2>3
<1>2. PoolTypes' BY <1>1 DEF PoolInv, PoolTypes
<1>3. PoolKept' BY <1>1 DEF PoolInv, PoolKept
<1>4. SendsSerial' BY <1>0, <1>1 DEF SendsSerial
<1>5. \A g \in Frame : Unsent(g)' => Unsent(g) BY <1>1 DEF Unsent
<1>6. StreamsShaped' /\ FramesOnce' BY <1>1, <1>5, StreamsStay
<1>7. PiecesFollow'
  <2>1. PiecesFollow BY DEF PoolInv
  <2>2. ASSUME NEW c \in K!Conn, sock[c].state = "open", ~sock[c].broken, ~Whole(sock[c].stream)
        PROVE  call'[s].pc = "drop" /\ sock[c].to = DestOf[call'[s].frame]
    <3>1. call[s].pc = "rest" /\ call[s].conn = c
      BY <1>1, <2>1, <2>2 DEF PiecesFollow
    <3> QED BY <1>0, <1>1, <3>1 DEF SendsSerial
  <2>3. \A t \in Sender : call'[t].pc # "rest" BY <1>1
  <2> QED BY <1>1, <2>2, <2>3 DEF PiecesFollow
<1> QED BY <1>2, <1>3, <1>4, <1>6, <1>7 DEF PoolInv

\* r is q without what it has at i.
Without(r, q, i) ==
    /\ Len(q) \in Nat /\ Len(r) = Len(q) - 1
    /\ \A k \in 1..Len(r) : r[k] = IF k < i THEN q[k] ELSE q[k + 1]

LEMMA RemoveAtFacts ==
    ASSUME NEW S, NEW q \in Seq(S), NEW i \in 1..Len(q)
    PROVE  K!RemoveAt(q, i) \in Seq(S) /\ Without(K!RemoveAt(q, i), q, i)
<1> DEFINE a == SubSeq(q, 1, i - 1)
           b == SubSeq(q, i + 1, Len(q))
<1>1. Len(q) \in Nat OBVIOUS
<1>2. a \in Seq(S) /\ Len(a) = i - 1 /\ \A k \in 1..(i - 1) : a[k] = q[k]
  <2>1. a \in Seq(S) BY <1>1
  <2>2. Len(a) = i - 1 BY <1>1
  <2>3. \A k \in 1..(i - 1) : a[k] = q[k] BY <1>1
  <2> QED BY <2>1, <2>2, <2>3
<1>3. b \in Seq(S) /\ Len(b) = Len(q) - i /\ \A k \in 1..(Len(q) - i) : b[k] = q[i + k]
  <2>1. b \in Seq(S) BY <1>1
  <2>2. Len(b) = Len(q) - i BY <1>1
  <2>3. \A k \in 1..(Len(q) - i) : b[k] = q[(i + 1) + k - 1] BY <1>1
  <2>4. \A k \in 1..(Len(q) - i) : (i + 1) + k - 1 = i + k BY <1>1
  <2> QED BY <2>1, <2>2, <2>3, <2>4
<1>4. K!RemoveAt(q, i) = a \o b BY DEF K!RemoveAt
<1> HIDE DEF a, b
<1>5. /\ a \o b \in Seq(S) /\ Len(a \o b) = Len(a) + Len(b)
      /\ \A k \in 1..(Len(a) + Len(b)) :
           (a \o b)[k] = IF k <= Len(a) THEN a[k] ELSE b[k - Len(a)]
  BY <1>2, <1>3, ConcatProperties, Zenon
<1>6. Len(a \o b) = Len(q) - 1 BY <1>1, <1>2, <1>3, <1>5
<1>7. ASSUME NEW k \in 1..(Len(q) - 1) PROVE (a \o b)[k] = IF k < i THEN q[k] ELSE q[k + 1]
  <2>1. k \in 1..(Len(a) + Len(b)) BY <1>1, <1>2, <1>3
  <2>2. CASE k < i
    <3>1. k <= Len(a) /\ k \in 1..(i - 1) BY <1>1, <1>2, <2>2
    <3> QED BY <1>2, <1>5, <2>1, <2>2, <3>1
  <2>3. CASE ~(k < i)
    <3>1. ~(k <= Len(a)) /\ k - Len(a) \in 1..(Len(q) - i) /\ i + (k - Len(a)) = k + 1
      BY <1>1, <1>2, <2>3
    <3> QED BY <1>3, <1>5, <2>1, <2>3, <3>1
  <2> QED BY <2>2, <2>3
<1> QED BY <1>1, <1>4, <1>5, <1>6, <1>7 DEF Without

\* All of q but what it has at i is left in r, and once if it was there once.
LeftOf(r, q, i) ==
    /\ \A k \in 1..Len(r) : \E m \in 1..Len(q) : m # i /\ r[k] = q[m]
    /\ \A m \in 1..Len(q) : m # i => \E k \in 1..Len(r) : r[k] = q[m]
    /\ (\A m, n \in 1..Len(q) : q[m] = q[n] => m = n)
         => \A k, l \in 1..Len(r) : r[k] = r[l] => k = l

LEMMA WithoutFacts ==
    ASSUME NEW q, NEW r, NEW i \in 1..Len(q), Without(r, q, i), Len(r) \in Nat
    PROVE  LeftOf(r, q, i)
<1>1. Len(q) \in Nat /\ Len(r) = Len(q) - 1 BY DEF Without
<1>2. \A k \in 1..Len(r) : r[k] = IF k < i THEN q[k] ELSE q[k + 1] BY DEF Without
<1>3. ASSUME NEW k \in 1..Len(r) PROVE \E m \in 1..Len(q) : m # i /\ r[k] = q[m]
  <2>1. CASE k < i
    <3>1. k \in 1..Len(q) /\ k # i BY <1>1, <2>1
    <3> QED BY <1>2, <2>1, <3>1
  <2>2. CASE ~(k < i)
    <3>1. k + 1 \in 1..Len(q) /\ k + 1 # i BY <1>1, <2>2
    <3> QED BY <1>2, <2>2, <3>1
  <2> QED BY <2>1, <2>2
<1>4. ASSUME NEW m \in 1..Len(q), m # i PROVE \E k \in 1..Len(r) : r[k] = q[m]
  <2>1. CASE m < i
    <3>1. m \in 1..Len(r) BY <1>1, <2>1
    <3> QED BY <1>2, <2>1, <3>1
  <2>2. CASE m > i
    <3>1. m - 1 \in 1..Len(r) /\ ~(m - 1 < i) /\ (m - 1) + 1 = m BY <1>1, <2>2
    <3> QED BY <1>2, <3>1
  <2> QED BY <1>1, <1>4, <2>1, <2>2
<1>5. ASSUME \A m, n \in 1..Len(q) : q[m] = q[n] => m = n,
             NEW k \in 1..Len(r), NEW l \in 1..Len(r), r[k] = r[l]
      PROVE  k = l
  <2> DEFINE at(x) == IF x < i THEN x ELSE x + 1
  <2>1. at(k) \in 1..Len(q) /\ at(l) \in 1..Len(q) BY <1>1
  <2>2. r[k] = q[at(k)] /\ r[l] = q[at(l)] BY <1>2
  <2>3. at(k) = at(l) BY <1>5, <2>1, <2>2
  <2> QED BY <1>1, <2>3
<1> QED BY <1>3, <1>4, <1>5 DEF LeftOf

\* The pool has no connection twice.
LEMMA PoolDistinct ==
    ASSUME PoolInv
    PROVE  /\ out \in Seq(K!Conn) /\ Len(out) \in Nat
           /\ \A i \in 1..Len(out) : out[i] \in K!Conn
           /\ \A i, j \in 1..Len(out) : out[i] = out[j] => i = j
<1>1. out \in Seq(K!Conn) BY DEF PoolInv, PoolTypes
<1>2. \A i \in 1..Len(out) : out[i] \in K!Conn BY <1>1, ElementOfSeq
<1>3. \A i, j \in 1..Len(out) : out[i] = out[j] => i = j BY DEF PoolInv, PoolKept
<1> QED BY <1>1, <1>2, <1>3

LEMMA ReuseKeepsPool ==
    ASSUME PoolInv, NEW s \in Sender, K!Reuse(s)
    PROVE  PoolInv'
<1>0. call \in [Sender -> SendCalls] /\ SendsSerial BY DEF PoolInv, PoolTypes
<1>1. PICK i \in 1..Len(out) : /\ sock[out[i]].to = DestOf[call[s].frame]
                               /\ out' = Append(K!RemoveAt(out, i), out[i])
                               /\ call' = [call EXCEPT ![s].pc = "first", ![s].conn = out[i]]
  BY DEF K!Reuse, K!Pooled, K!Target, K!Got
<1>2. call[s].pc = "get" /\ UNCHANGED <<sock, opened, sendLock, received, todo>>
  BY DEF K!Reuse
<1>3. /\ out \in Seq(K!Conn) /\ Len(out) \in Nat
      /\ \A j \in 1..Len(out) : out[j] \in K!Conn
      /\ \A j, k \in 1..Len(out) : out[j] = out[k] => j = k
  BY PoolDistinct
<1> DEFINE r == K!RemoveAt(out, i)
           c == out[i]
<1>4. r \in Seq(K!Conn) /\ Without(r, out, i) BY <1>3, RemoveAtFacts
<1>5. out' = Append(r, c) /\ c \in K!Conn BY <1>1, <1>3
<1> HIDE DEF r
<1>6. Len(r) \in Nat /\ Len(r) = Len(out) - 1 BY <1>4 DEF Without
<1>7. /\ \A k \in 1..Len(r) : \E m \in 1..Len(out) : m # i /\ r[k] = out[m]
      /\ \A m \in 1..Len(out) : m # i => \E k \in 1..Len(r) : r[k] = out[m]
      /\ \A k, l \in 1..Len(r) : r[k] = r[l] => k = l
  <2>1. LeftOf(r, out, i) BY <1>4, <1>6, WithoutFacts, Zenon
  <2> QED BY <1>3, <2>1 DEF LeftOf
<1>8. /\ out' \in Seq(K!Conn) /\ Len(out') = Len(r) + 1 /\ out'[Len(r) + 1] = c
      /\ \A k \in 1..Len(r) : out'[k] = r[k]
  BY <1>4, <1>5
<1>9. /\ call' \in [Sender -> SendCalls] /\ call'[s].pc = "first" /\ call'[s].conn = c
      /\ call'[s].frame = call[s].frame
      /\ \A t \in Sender : t # s => call'[t] = call[t] /\ call[t].pc = "idle"
  <2>1. c \in 0..MaxConns BY <1>5, PoolConstantFacts DEF K!Conn
  <2>2. \A t \in Sender : t # s => call[t].pc = "idle" BY <1>2, OthersIdle
  <2> HIDE DEF c
  <2> QED BY <1>0, <1>1, <2>1, <2>2 DEF SendCalls, c
<1>10. PoolTypes' BY <1>2, <1>8, <1>9 DEF PoolInv, PoolTypes
<1>11. PoolKept'
  <2>1. PoolKept BY DEF PoolInv
  <2>2. Len(out') <= MaxConnections BY <1>6, <1>8, <2>1 DEF PoolKept
  <2>3. \A k \in 1..Len(out') : k \in 1..Len(r) \/ k = Len(r) + 1 BY <1>6, <1>8
  <2>4. ASSUME NEW k \in 1..Len(out')
        PROVE  \E m \in 1..Len(out) : /\ out'[k] = out[m]
                                      /\ m = i <=> k = Len(r) + 1
    <3>1. CASE k \in 1..Len(r)
      <4>1. k # Len(r) + 1 BY <1>6, <3>1
      <4>2. PICK m \in 1..Len(out) : m # i /\ r[k] = out[m] BY <1>7, <3>1
      <4>3. out'[k] = out[m] BY <1>8, <3>1, <4>2
      <4> QED BY <4>1, <4>2, <4>3
    <3>2. CASE k = Len(r) + 1 BY <1>8, <3>2
    <3> QED BY <2>3, <3>1, <3>2
  <2>5. \A k \in 1..Len(out') : sock[out'[k]].state = "open" BY <2>1, <2>4 DEF PoolKept
  <2>6. ASSUME NEW k \in 1..Len(out'), NEW l \in 1..Len(out'),
               sock[out'[k]].to = sock[out'[l]].to
        PROVE  k = l
    <3>1. PICK m \in 1..Len(out) : out'[k] = out[m] /\ (m = i <=> k = Len(r) + 1) BY <2>4
    <3>2. PICK n \in 1..Len(out) : out'[l] = out[n] /\ (n = i <=> l = Len(r) + 1) BY <2>4
    <3>3. m = n BY <2>1, <2>6, <3>1, <3>2 DEF PoolKept
    <3>4. CASE k = Len(r) + 1 BY <3>1, <3>2, <3>3, <3>4
    <3>5. CASE k # Len(r) + 1
      <4>1. k \in 1..Len(r) /\ l \in 1..Len(r) BY <2>3, <3>1, <3>2, <3>3, <3>5
      <4> QED BY <1>7, <1>8, <3>1, <3>2, <3>3, <4>1
    <3> QED BY <3>4, <3>5
  <2>7. ASSUME NEW d \in K!Conn, sock[d].state = "open"
        PROVE  \E k \in 1..Len(out') : out'[k] = d
    <3>1. PICK m \in 1..Len(out) : out[m] = d BY <2>1, <2>7 DEF PoolKept
    <3>2. CASE m = i
      <4>1. Len(r) + 1 \in 1..Len(out') BY <1>6, <1>8
      <4> QED BY <1>8, <3>1, <3>2, <4>1
    <3>3. CASE m # i
      <4>1. PICK k \in 1..Len(r) : r[k] = out[m] BY <1>7, <3>3
      <4>2. k \in 1..Len(out') BY <1>6, <1>8
      <4> QED BY <1>8, <3>1, <4>1, <4>2
    <3> QED BY <3>2, <3>3
  <2>8. \A d \in K!Conn : d > opened => sock[d].state = "new" /\ sock[d].stream = <<>>
    BY <2>1 DEF PoolKept
  <2> QED BY <1>2, <2>2, <2>5, <2>6, <2>7, <2>8 DEF PoolKept
<1>12. SendsSerial'
  <2>1. sock[c].state = "open" BY DEF PoolInv, PoolKept
  <2>2. c <= opened
    <3>1. opened \in Nat /\ c \in Nat
      BY <1>5, PoolConstantFacts DEF PoolInv, PoolTypes, K!Conn
    <3>2. ~(c > opened) BY <1>5, <2>1 DEF PoolInv, PoolKept
    <3> HIDE DEF c
    <3> QED BY <3>1, <3>2
  <2> QED BY <1>0, <1>1, <1>2, <1>5, <1>9, <2>2 DEF SendsSerial
<1>13. \A g \in Frame : Unsent(g)' => Unsent(g) BY <1>2, <1>9 DEF Unsent
<1>14. StreamsShaped' /\ FramesOnce' BY <1>2, <1>13, StreamsStay
<1>15. PiecesFollow' BY <1>2, <1>9 DEF PoolInv, PiecesFollow
<1> QED BY <1>10, <1>11, <1>12, <1>14, <1>15 DEF PoolInv

LEMMA ConnectKeepsPool ==
    ASSUME PoolInv, NEW s \in Sender, K!Connect(s)
    PROVE  PoolInv'
<1> DEFINE N == Len(out)
           c == opened + 1
           all == Append(out, c)
           extra == IF Len(all) > MaxConnections THEN Len(all) - MaxConnections ELSE 0
           gone == {all[i] : i \in 1..extra}
           dest == DestOf[call[s].frame]
<1>1. /\ call[s].pc = "get" /\ opened < MaxConns /\ \A i \in 1..N : sock[out[i]].to # dest
      /\ out' = SubSeq(all, extra + 1, Len(all))
      /\ sock' = [K!Closed(gone) EXCEPT ![c] = [@ EXCEPT !.to = dest, !.state = "open"]]
      /\ opened' = c /\ call' = [call EXCEPT ![s].pc = "first", ![s].conn = c]
      /\ UNCHANGED <<sendLock, received, todo>>
  BY DEF K!Connect, K!Pooled, K!Target, K!Got
<1>2. /\ call \in [Sender -> SendCalls] /\ sock \in [K!Conn -> Sockets]
      /\ SendsSerial /\ PoolKept /\ opened \in 0..MaxConns
  BY DEF PoolInv, PoolTypes
<1>3. /\ out \in Seq(K!Conn) /\ N \in Nat
      /\ \A j \in 1..N : out[j] \in K!Conn
      /\ \A j, k \in 1..N : out[j] = out[k] => j = k
  BY PoolDistinct
<1>4. c \in K!Conn /\ c \in 0..MaxConns /\ c > opened /\ opened \in Nat
  BY <1>1, <1>2, PoolConstantFacts DEF K!Conn
<1>5. call[s].frame \in Frame /\ dest \in Dest
  BY <1>1, <1>2, PoolConstantFacts DEF SendsSerial
<1>6. sock[c].state = "new" /\ sock[c].stream = <<>> BY <1>2, <1>4 DEF PoolKept
<1>7. /\ all \in Seq(K!Conn) /\ Len(all) = N + 1 /\ all[N + 1] = c
      /\ \A i \in 1..N : all[i] = out[i]
  BY <1>3, <1>4, AppendProperties
<1>8. /\ N <= MaxConnections /\ \A i \in 1..N : sock[out[i]].state = "open"
      /\ \A i, j \in 1..N : sock[out[i]].to = sock[out[j]].to => i = j
  BY <1>2 DEF PoolKept
<1> HIDE DEF c, all, N, dest
<1>9. /\ extra \in 0..N /\ extra \in Nat /\ (N + 1) - extra \in Nat
      /\ (N + 1) - extra <= MaxConnections
  BY <1>3, <1>7, <1>8, PoolConstantFacts
<1>10. \A d : d \in gone <=> \E i \in 1..extra : out[i] = d
  <2>1. \A i \in 1..extra : i \in 1..N BY <1>3, <1>9
  <2> HIDE DEF extra
  <2> QED BY <1>7, <2>1
<1> HIDE DEF extra, gone
<1>11. \A i \in 1..N : out[i] # c BY <1>6, <1>8
<1>12. c \notin gone
  <2>1. \A i \in 1..extra : i \in 1..N BY <1>3, <1>9
  <2> QED BY <1>10, <1>11, <2>1
<1>13. /\ sock' \in [K!Conn -> Sockets]
       /\ sock'[c].to = dest /\ sock'[c].state = "open" /\ sock'[c].stream = <<>>
       /\ \A d \in K!Conn : d # c =>
            /\ sock'[d].to = sock[d].to /\ sock'[d].stream = sock[d].stream
            /\ sock'[d].broken = sock[d].broken
            /\ sock'[d].state = IF d \in gone THEN "closed" ELSE sock[d].state
  <2> DEFINE cl == K!Closed(gone)
  <2>1. /\ cl \in [K!Conn -> Sockets] /\ cl[c] = sock[c]
        /\ \A d \in K!Conn : /\ cl[d].to = sock[d].to /\ cl[d].stream = sock[d].stream
                             /\ cl[d].broken = sock[d].broken
                             /\ cl[d].state = IF d \in gone THEN "closed" ELSE sock[d].state
    BY <1>2, <1>4, <1>12 DEF K!Closed, Sockets
  <2> HIDE DEF cl
  <2>2. sock' = [cl EXCEPT ![c] = [cl[c] EXCEPT !.to = dest, !.state = "open"]]
    BY <1>1 DEF cl
  <2>3. /\ [cl[c] EXCEPT !.to = dest, !.state = "open"] \in Sockets
        /\ [cl[c] EXCEPT !.to = dest, !.state = "open"].to = dest
        /\ [cl[c] EXCEPT !.to = dest, !.state = "open"].state = "open"
        /\ [cl[c] EXCEPT !.to = dest, !.state = "open"].stream = cl[c].stream
    BY <1>4, <1>5, <2>1 DEF Sockets
  <2>4. sock'[c] = [cl[c] EXCEPT !.to = dest, !.state = "open"]
        /\ \A d \in K!Conn : d # c => sock'[d] = cl[d]
    BY <1>4, <2>1, <2>2
  <2>5. sock' \in [K!Conn -> Sockets] BY <1>4, <2>1, <2>2, <2>3
  <2> QED BY <1>6, <2>1, <2>3, <2>4, <2>5
<1>14. /\ out' \in Seq(K!Conn) /\ Len(out') = (N + 1) - extra
       /\ \A k \in 1..((N + 1) - extra) : out'[k] = all[extra + k]
  <2>1. out' = SubSeq(all, extra + 1, N + 1) BY <1>1, <1>7
  <2>2. extra + 1 \in 1..(N + 2) /\ N + 1 <= Len(all) BY <1>3, <1>7, <1>9
  <2>3. SubSeq(all, extra + 1, N + 1) \in Seq(K!Conn) BY <1>3, <1>7, <1>9
  <2>4. Len(SubSeq(all, extra + 1, N + 1)) = (N + 1) - extra BY <1>3, <1>7, <1>9
  <2>5. \A k \in 1..((N + 1) - extra) :
          SubSeq(all, extra + 1, N + 1)[k] = all[(extra + 1) + k - 1]
    BY <1>3, <1>7, <1>9
  <2>6. \A k \in 1..((N + 1) - extra) : (extra + 1) + k - 1 = extra + k BY <1>3, <1>9
  <2> QED BY <2>1, <2>3, <2>4, <2>5, <2>6
<1>15. /\ call' \in [Sender -> SendCalls] /\ call'[s].pc = "first" /\ call'[s].conn = c
       /\ call'[s].frame = call[s].frame
       /\ \A t \in Sender : t # s => call'[t] = call[t] /\ call[t].pc = "idle"
  <2>1. \A t \in Sender : t # s => call[t].pc = "idle" BY <1>1, OthersIdle
  <2> QED BY <1>1, <1>2, <1>4, <2>1 DEF SendCalls
<1>16. PoolTypes' BY <1>1, <1>4, <1>13, <1>14, <1>15 DEF PoolInv, PoolTypes
<1>17. \A k \in 1..Len(out') :
         \/ k = (N + 1) - extra /\ out'[k] = c
         \/ extra + k \in 1..N /\ out'[k] = out[extra + k] /\ out[extra + k] \notin gone
  <2> SUFFICES ASSUME NEW k \in 1..Len(out')
               PROVE  \/ k = (N + 1) - extra /\ out'[k] = c
                      \/ extra + k \in 1..N /\ out'[k] = out[extra + k]
                         /\ out[extra + k] \notin gone
    OBVIOUS
  <2>1. out'[k] = all[extra + k] BY <1>14
  <2>2. CASE k = (N + 1) - extra
    <3>1. extra + k = N + 1 BY <1>3, <1>9, <2>2
    <3> QED BY <1>7, <2>1, <2>2, <3>1
  <2>3. CASE k # (N + 1) - extra
    <3>1. extra + k \in 1..N BY <1>3, <1>9, <1>14, <2>3
    <3>2. \A i \in 1..extra : i \in 1..N /\ i # extra + k BY <1>3, <1>9, <1>14
    <3>3. out[extra + k] \notin gone BY <1>3, <1>10, <3>1, <3>2
    <3> QED BY <1>7, <2>1, <3>1, <3>3
  <2> QED BY <2>2, <2>3
<1>18. PoolKept'
  <2>1. Len(out') <= MaxConnections BY <1>9, <1>14
  <2>2. ASSUME NEW k \in 1..Len(out') PROVE sock'[out'[k]].state = "open"
    <3>1. CASE out'[k] = c BY <1>13, <3>1
    <3>2. CASE extra + k \in 1..N /\ out'[k] = out[extra + k] /\ out[extra + k] \notin gone
      <4>1. PICK i \in 1..N : out'[k] = out[i] /\ out[i] \notin gone BY <3>2
      <4>2. out[i] \in K!Conn /\ out[i] # c /\ sock[out[i]].state = "open"
        BY <1>3, <1>8, <1>11, <4>1
      <4>3. sock'[out[i]].state = "open" BY <1>13, <4>1, <4>2
      <4> QED BY <4>1, <4>3
    <3> QED BY <1>17, <3>1, <3>2
  <2>3. ASSUME NEW k \in 1..Len(out'), NEW l \in 1..Len(out'),
               sock'[out'[k]].to = sock'[out'[l]].to
        PROVE  k = l
    <3>1. \A m \in 1..Len(out') : m # (N + 1) - extra =>
            /\ extra + m \in 1..N /\ sock'[out'[m]].to = sock[out[extra + m]].to
            /\ sock'[out'[m]].to # dest
      <4> SUFFICES ASSUME NEW m \in 1..Len(out'), m # (N + 1) - extra
                   PROVE  /\ extra + m \in 1..N
                          /\ sock'[out'[m]].to = sock[out[extra + m]].to
                          /\ sock'[out'[m]].to # dest
        OBVIOUS
      <4>1. extra + m \in 1..N /\ out'[m] = out[extra + m] BY <1>17
      <4>2. out[extra + m] \in K!Conn /\ out[extra + m] # c BY <1>3, <1>11, <4>1
      <4>3. sock'[out'[m]].to = sock[out[extra + m]].to BY <1>13, <4>1, <4>2
      <4>4. sock[out[extra + m]].to # dest BY <1>1, <4>1
      <4> QED BY <4>1, <4>3, <4>4
    <3>2. \A m \in 1..Len(out') : m = (N + 1) - extra => sock'[out'[m]].to = dest
      <4>1. (N + 1) - extra \notin {m \in 1..Len(out') : extra + m \in 1..N} BY <1>3, <1>9
      <4> QED BY <1>13, <1>17, <4>1
    <3>3. CASE k = (N + 1) - extra BY <2>3, <3>1, <3>2, <3>3
    <3>4. CASE k # (N + 1) - extra
      <4>1. l # (N + 1) - extra BY <2>3, <3>1, <3>2, <3>4
      <4>2. extra + k = extra + l BY <1>8, <2>3, <3>1, <3>4, <4>1
      <4> QED BY <1>9, <4>2
    <3> QED BY <3>3, <3>4
  <2>4. ASSUME NEW d \in K!Conn, sock'[d].state = "open"
        PROVE  \E k \in 1..Len(out') : out'[k] = d
    <3>1. CASE d = c
      <4>1. (N + 1) - extra \in 1..Len(out') /\ extra + ((N + 1) - extra) = N + 1
        BY <1>3, <1>9, <1>14
      <4>2. out'[(N + 1) - extra] = c BY <1>7, <1>14, <4>1
      <4> QED BY <3>1, <4>1, <4>2
    <3>2. CASE d # c
      <4>1. sock[d].state = "open" /\ d \notin gone BY <1>13, <2>4, <3>2
      <4>2. PICK m \in 1..N : out[m] = d BY <1>2, <4>1 DEF PoolKept, N
      <4>3. m \notin 1..extra BY <1>10, <4>1, <4>2
      <4>4. m - extra \in 1..Len(out') /\ extra + (m - extra) = m BY <1>3, <1>9, <1>14, <4>3
      <4>5. out'[m - extra] = all[m] BY <1>14, <4>4
      <4> QED BY <1>7, <4>2, <4>4, <4>5
    <3> QED BY <3>1, <3>2
  <2>5. ASSUME NEW d \in K!Conn, d > c
        PROVE  sock'[d].state = "new" /\ sock'[d].stream = <<>>
    <3>1. d > opened /\ d # c BY <1>4, <2>5 DEF K!Conn, c
    <3>2. sock[d].state = "new" /\ sock[d].stream = <<>> BY <1>2, <3>1 DEF PoolKept
    <3>3. d \notin gone
      <4>1. \A i \in 1..extra : i \in 1..N BY <1>3, <1>9
      <4> QED BY <1>8, <1>10, <3>2, <4>1
    <3> QED BY <1>13, <3>1, <3>2, <3>3
  <2> QED BY <1>1, <2>1, <2>2, <2>3, <2>4, <2>5 DEF PoolKept
<1>19. SendsSerial'
  <2>1. sock'[c].to = DestOf[call[s].frame] BY <1>13 DEF dest
  <2>2. c <= c BY <1>4
  <2> QED BY <1>1, <1>2, <1>4, <1>15, <2>1, <2>2 DEF SendsSerial
<1>20. \A g \in Frame : Unsent(g)' => Unsent(g) BY <1>1, <1>15 DEF Unsent
<1>21. StreamsShaped' /\ FramesOnce'
  <2>1. \A d \in K!Conn : /\ sock'[d].stream = sock[d].stream
                          /\ sock'[d].to = sock[d].to \/ sock[d].stream = <<>>
    BY <1>6, <1>13
  <2> QED BY <1>1, <1>20, <2>1, StreamsStay
<1>22. PiecesFollow'
  <2>1. ASSUME NEW d \in K!Conn, sock'[d].state = "open", ~sock'[d].broken
        PROVE  Whole(sock'[d].stream)
    <3>1. CASE d = c BY <1>13, <3>1 DEF Whole
    <3>2. CASE d # c
      <4>1. sock[d].state = "open" /\ ~sock[d].broken /\ sock'[d].stream = sock[d].stream
        BY <1>13, <2>1, <3>2
      <4>2. \A t \in Sender : call[t].pc \notin {"rest", "drop"} BY <1>1, <1>15
      <4> QED BY <4>1, <4>2 DEF PoolInv, PiecesFollow
    <3> QED BY <3>1, <3>2
  <2>2. \A t \in Sender : call'[t].pc # "rest" BY <1>15
  <2> QED BY <2>1, <2>2 DEF PiecesFollow
<1> QED BY <1>16, <1>18, <1>19, <1>21, <1>22 DEF PoolInv

LEMMA DropKeepsPool ==
    ASSUME PoolInv, NEW s \in Sender, K!Drop(s)
    PROVE  PoolInv'
<1> DEFINE dest == DestOf[call[s].frame]
<1>1. /\ call[s].pc = "drop" /\ UNCHANGED <<opened, sendLock, received, todo>>
      /\ \/ \E i \in 1..Len(out) : /\ sock[out[i]].to = dest /\ out' = K!RemoveAt(out, i)
                                   /\ sock' = K!Closed({out[i]})
         \/ (\A i \in 1..Len(out) : sock[out[i]].to # dest) /\ UNCHANGED <<out, sock>>
  BY DEF K!Drop, K!Dropped, K!Pooled, K!Target
<1>2. /\ call \in [Sender -> SendCalls] /\ sock \in [K!Conn -> Sockets]
      /\ SendsSerial /\ PoolKept
  BY DEF PoolInv, PoolTypes
<1>3. /\ out \in Seq(K!Conn) /\ Len(out) \in Nat
      /\ \A j \in 1..Len(out) : out[j] \in K!Conn
      /\ \A j, k \in 1..Len(out) : out[j] = out[k] => j = k
  BY PoolDistinct
<1>4. /\ call' \in [Sender -> SendCalls] /\ call'[s].pc \in {"get", "failed"}
      /\ call'[s].frame = call[s].frame
      /\ \A t \in Sender : t # s => call'[t] = call[t] /\ call[t].pc = "idle"
  <2>1. \A t \in Sender : t # s => call[t].pc = "idle" BY <1>1, OthersIdle
  <2>2. call[s] \in SendCalls BY <1>2
  <2>3. PICK pc \in {"get", "failed"} :
          call' = [call EXCEPT ![s].pc = pc, ![s].attempt = call[s].attempt + 1]
    BY DEF K!Drop
  <2>4. call[s].attempt + 1 \in Nat BY <2>2 DEF SendCalls
  <2> QED BY <1>2, <2>1, <2>2, <2>3, <2>4 DEF SendCalls
<1>5. /\ out' \in Seq(K!Conn) /\ sock' \in [K!Conn -> Sockets]
      /\ \A d \in K!Conn : /\ sock'[d].to = sock[d].to /\ sock'[d].stream = sock[d].stream
                           /\ sock'[d].broken = sock[d].broken
                           /\ sock'[d].state = "open" => sock[d].state = "open"
                           /\ sock[d].state = "new" => sock'[d].state = "new"
                           /\ sock[d].to = dest => sock'[d].state # "open"
      /\ PoolKept'
  <2>1. CASE \E i \in 1..Len(out) : /\ sock[out[i]].to = dest /\ out' = K!RemoveAt(out, i)
                                    /\ sock' = K!Closed({out[i]})
    <3>0. PICK i \in 1..Len(out) : /\ sock[out[i]].to = dest /\ out' = K!RemoveAt(out, i)
                                   /\ sock' = K!Closed({out[i]})
      BY <2>1
    <3>1. /\ sock' \in [K!Conn -> Sockets]
          /\ \A d \in K!Conn :
               /\ sock'[d].to = sock[d].to /\ sock'[d].stream = sock[d].stream
               /\ sock'[d].broken = sock[d].broken
               /\ sock'[d].state = IF d = out[i] THEN "closed" ELSE sock[d].state
      BY <1>2, <3>0 DEF K!Closed, Sockets
    <3>2. out' \in Seq(K!Conn) /\ Without(out', out, i) BY <1>3, <3>0, RemoveAtFacts
    <3>3. Len(out') \in Nat /\ Len(out') = Len(out) - 1 BY <3>2 DEF Without
    <3>4. LeftOf(out', out, i) BY <3>2, <3>3, WithoutFacts, Zenon
    <3>5. /\ \A k \in 1..Len(out') : \E m \in 1..Len(out) : m # i /\ out'[k] = out[m]
          /\ \A m \in 1..Len(out) : m # i => \E k \in 1..Len(out') : out'[k] = out[m]
          /\ \A k, l \in 1..Len(out') : out'[k] = out'[l] => k = l
      BY <1>3, <3>4 DEF LeftOf
    <3>6. sock[out[i]].state = "open" /\ out[i] \in K!Conn BY <1>2, <1>3 DEF PoolKept
    <3>7. PoolKept'
      <4>1. Len(out') <= MaxConnections
        BY <1>2, <1>3, <3>3, PoolConstantFacts DEF PoolKept
      <4>2. \A k \in 1..Len(out') : \E m \in 1..Len(out) :
              /\ out'[k] = out[m] /\ out[m] # out[i] /\ out[m] \in K!Conn
        BY <1>3, <3>5
      <4>3. \A k \in 1..Len(out') : sock'[out'[k]].state = "open"
        BY <1>2, <3>1, <4>2 DEF PoolKept
      <4>4. ASSUME NEW k \in 1..Len(out'), NEW l \in 1..Len(out'),
                   sock'[out'[k]].to = sock'[out'[l]].to
            PROVE  k = l
        <5>1. PICK m \in 1..Len(out) : out'[k] = out[m] /\ out[m] \in K!Conn BY <4>2
        <5>2. PICK n \in 1..Len(out) : out'[l] = out[n] /\ out[n] \in K!Conn BY <4>2
        <5>3. m = n BY <1>2, <3>1, <4>4, <5>1, <5>2 DEF PoolKept
        <5> QED BY <3>5, <5>1, <5>2, <5>3
      <4>5. ASSUME NEW d \in K!Conn, sock'[d].state = "open"
            PROVE  \E k \in 1..Len(out') : out'[k] = d
        <5>1. d # out[i] /\ sock[d].state = "open" BY <3>1, <4>5
        <5>2. PICK m \in 1..Len(out) : out[m] = d BY <1>2, <5>1 DEF PoolKept
        <5> QED BY <3>5, <5>1, <5>2
      <4>6. \A d \in K!Conn : d > opened => sock'[d].state = "new" /\ sock'[d].stream = <<>>
        <5> SUFFICES ASSUME NEW d \in K!Conn, d > opened
                     PROVE  sock'[d].state = "new" /\ sock'[d].stream = <<>>
          OBVIOUS
        <5>1. sock[d].state = "new" /\ sock[d].stream = <<>> BY <1>2 DEF PoolKept
        <5> QED BY <3>1, <3>6, <5>1
      <4> QED BY <1>1, <4>1, <4>3, <4>4, <4>5, <4>6 DEF PoolKept
    <3>8. ASSUME NEW d \in K!Conn, sock[d].to = dest PROVE sock'[d].state # "open"
      <4>1. sock[d].state = "open" => d = out[i] BY <1>2, <3>0, <3>8 DEF PoolKept
      <4> QED BY <3>1, <4>1
    <3> QED BY <3>1, <3>2, <3>6, <3>7, <3>8
  <2>2. CASE (\A i \in 1..Len(out) : sock[out[i]].to # dest) /\ UNCHANGED <<out, sock>>
    <3>1. PoolKept' BY <1>1, <1>2, <2>2 DEF PoolKept
    <3>2. \A d \in K!Conn : sock[d].to = dest => sock[d].state # "open"
      BY <1>2, <2>2 DEF PoolKept
    <3> QED BY <1>2, <1>3, <2>2, <3>1, <3>2
  <2> QED BY <1>1, <2>1, <2>2
<1>6. PoolTypes' BY <1>1, <1>4, <1>5 DEF PoolInv, PoolTypes
<1>7. SendsSerial' BY <1>1, <1>2, <1>4 DEF SendsSerial
<1>8. \A g \in Frame : Unsent(g)' => Unsent(g) BY <1>1, <1>4 DEF Unsent
<1>9. StreamsShaped' /\ FramesOnce' BY <1>1, <1>5, <1>8, StreamsStay
<1>10. PiecesFollow'
  <2>1. ASSUME NEW d \in K!Conn, sock'[d].state = "open", ~sock'[d].broken
        PROVE  Whole(sock'[d].stream)
    <3>1. sock[d].state = "open" /\ ~sock[d].broken /\ sock[d].to # dest BY <1>5, <2>1
    <3>2. \A t \in Sender : call[t].pc # "rest" /\ (call[t].pc = "drop" => t = s)
      BY <1>1, <1>4
    <3>3. Whole(sock[d].stream) BY <3>1, <3>2 DEF PoolInv, PiecesFollow
    <3> QED BY <1>5, <3>3
  <2>2. \A t \in Sender : call'[t].pc # "rest" BY <1>4
  <2> QED BY <2>1, <2>2 DEF PiecesFollow
<1> QED BY <1>5, <1>6, <1>7, <1>9, <1>10 DEF PoolInv

LEMMA CloseKeepsPool ==
    ASSUME PoolInv, K!Close
    PROVE  PoolInv'
<1>1. /\ out' = <<>> /\ sock' = K!Closed(K!ToSet(out))
      /\ UNCHANGED <<opened, sendLock, call, received, todo>>
  BY DEF K!Close
<1>2. call \in [Sender -> SendCalls] /\ sock \in [K!Conn -> Sockets] /\ PoolKept
  BY DEF PoolInv, PoolTypes
<1>3. /\ out \in Seq(K!Conn) /\ DOMAIN out = 1..Len(out) BY PoolDistinct
<1>4. \A d : d \in K!ToSet(out) <=> \E i \in 1..Len(out) : out[i] = d
  BY <1>3 DEF K!ToSet
<1>5. /\ sock' \in [K!Conn -> Sockets]
      /\ \A d \in K!Conn :
           /\ sock'[d].to = sock[d].to /\ sock'[d].stream = sock[d].stream
           /\ sock'[d].broken = sock[d].broken
           /\ sock'[d].state = IF d \in K!ToSet(out) THEN "closed" ELSE sock[d].state
  <2> DEFINE gone == K!ToSet(out)
  <2>1. sock' = K!Closed(gone) BY <1>1
  <2> HIDE DEF gone
  <2>2. /\ sock' \in [K!Conn -> Sockets]
        /\ \A d \in K!Conn :
             /\ sock'[d].to = sock[d].to /\ sock'[d].stream = sock[d].stream
             /\ sock'[d].broken = sock[d].broken
             /\ sock'[d].state = IF d \in gone THEN "closed" ELSE sock[d].state
    BY <1>2, <2>1 DEF K!Closed, Sockets
  <2> QED BY <2>2 DEF gone
<1>6. \A d \in K!Conn : sock'[d].state # "open" BY <1>2, <1>4, <1>5 DEF PoolKept
<1>7. PoolTypes' BY <1>1, <1>5 DEF PoolInv, PoolTypes
<1>8. PoolKept'
  <2>1. Len(out') = 0 BY <1>1
  <2>2. \A d \in K!Conn : d > opened => sock'[d].state = "new" /\ sock'[d].stream = <<>>
    BY <1>2, <1>4, <1>5 DEF PoolKept
  <2> QED BY <1>1, <1>6, <2>1, <2>2, PoolConstantFacts DEF PoolKept
<1>9. SendsSerial' BY <1>1, <1>5 DEF PoolInv, SendsSerial
<1>10. \A g \in Frame : Unsent(g)' => Unsent(g) BY <1>1 DEF Unsent
<1>11. StreamsShaped' /\ FramesOnce' BY <1>1, <1>5, <1>10, StreamsStay
<1>12. PiecesFollow'
  <2>1. \A t \in Sender : call[t].pc = "rest" => call[t].conn \in K!Conn
    BY DEF PoolInv, SendsSerial
  <2> QED BY <1>1, <1>6, <2>1 DEF PiecesFollow
<1> QED BY <1>7, <1>8, <1>9, <1>11, <1>12 DEF PoolInv

\* Nothing completed becomes completed twice when nothing is added.
LEMMA NothingAdded ==
    ASSUME PoolInv, received' = received,
           \A f \in Frame, c \in K!Conn, k \in Nat : EndsAt(f, c, k)' => EndsAt(f, c, k),
           \A f \in Frame : Unsent(f)' => Unsent(f)
    PROVE  FramesOnce'
<1>1. FramesOnce BY DEF PoolInv
<1>2. \A f \in Frame : Arrived(f)' = Arrived(f) BY DEF Arrived
<1>3. \A f \in Frame, c1, c2 \in K!Conn, k1, k2 \in Nat :
        EndsAt(f, c1, k1)' /\ EndsAt(f, c2, k2)' => c1 = c2 /\ k1 = k2
  BY <1>1 DEF FramesOnce
<1>4. \A f \in Frame, c \in K!Conn, k \in Nat :
        EndsAt(f, c, k)' => ~Arrived(f)' /\ ~Unsent(f)'
  BY <1>1, <1>2 DEF FramesOnce
<1>5. \A f \in Frame : Arrived(f)' => ~Unsent(f)' BY <1>1, <1>2 DEF FramesOnce
<1>6. /\ \A d \in Dest : \A i \in 1..Len(received'[d]) : DestOf[received'[d][i]] = d
      /\ \A d \in Dest : \A i, j \in 1..Len(received'[d]) :
           received'[d][i] = received'[d][j] => i = j
  BY <1>1 DEF FramesOnce
<1> QED BY <1>3, <1>4, <1>5, <1>6 DEF FramesOnce

\* st2 is st with the piece <<f, n>> at its end.
OneMore(st2, st, f, n) ==
    /\ st2 \in Pieces /\ Len(st) \in Nat /\ Len(st2) = Len(st) + 1
    /\ \A k \in 1..Len(st) : st2[k] = st[k]
    /\ st2[Len(st) + 1][1] = f /\ st2[Len(st) + 1][2] = n

LEMMA AppendPiece ==
    ASSUME NEW st \in Pieces, NEW f \in Frame, NEW n \in {1, 2}
    PROVE  OneMore(Append(st, <<f, n>>), st, f, n)
<1> DEFINE p == <<f, n>>
<1>1. p \in Frame \X {1, 2} /\ p[1] = f /\ p[2] = n OBVIOUS
<1> HIDE DEF p
<1>2. /\ Append(st, p) \in Seq(Frame \X {1, 2}) /\ Len(Append(st, p)) = Len(st) + 1
      /\ Append(st, p)[Len(st) + 1] = p /\ \A k \in 1..Len(st) : Append(st, p)[k] = st[k]
  BY <1>1, AppendProperties DEF Pieces
<1>3. Len(st) \in Nat BY DEF Pieces
<1> QED BY <1>1, <1>2, <1>3 DEF OneMore, Pieces, p

\* A piece after the one it follows.
LEMMA ShapedMore ==
    ASSUME NEW st, NEW st2, NEW f, NEW n, OneMore(st2, st, f, n), Shaped(st),
           IF n = 1 THEN Whole(st)
           ELSE n = 2 /\ Len(st) > 0 /\ st[Len(st)][1] = f /\ st[Len(st)][2] = 1
    PROVE  Shaped(st2)
<1>1. /\ Len(st) \in Nat /\ Len(st2) = Len(st) + 1
      /\ \A k \in 1..Len(st) : st2[k] = st[k]
      /\ st2[Len(st) + 1][1] = f /\ st2[Len(st) + 1][2] = n
  BY DEF OneMore
<1>2. st2[1][2] = 1
  <2>1. CASE Len(st) = 0 BY <1>1, <2>1
  <2>2. CASE Len(st) > 0
    <3>1. 1 \in 1..Len(st) BY <1>1, <2>2
    <3> QED BY <1>1, <2>2, <3>1 DEF Shaped
  <2> QED BY <1>1, <2>1, <2>2
<1>3. ASSUME NEW k \in 1..Len(st2), k > 1
      PROVE  IF st2[k - 1][2] = 1 THEN st2[k][2] = 2 /\ st2[k][1] = st2[k - 1][1]
                                  ELSE st2[k][2] = 1
  <2>1. k - 1 \in 1..Len(st) /\ st2[k - 1] = st[k - 1] BY <1>1, <1>3
  <2>2. CASE k \in 1..Len(st) BY <1>1, <1>3, <2>1, <2>2 DEF Shaped
  <2>3. CASE k \notin 1..Len(st)
    <3>1. k = Len(st) + 1 /\ k - 1 = Len(st) /\ Len(st) > 0 BY <1>1, <1>3, <2>3
    <3> QED BY <1>1, <2>1, <3>1 DEF Whole
  <2> QED BY <2>2, <2>3
<1> QED BY <1>2, <1>3 DEF Shaped

LEMMA WriteKeepsPool ==
    ASSUME PoolInv, NEW s \in Sender, NEW from, NEW n \in {1, 2}, NEW to,
           K!WritePiece(s, from, n, to),
           \/ from = "first" /\ n = 1 /\ to = "rest"
           \/ from = "rest" /\ n = 2 /\ to = "sent"
    PROVE  PoolInv'
<1> DEFINE c == call[s].conn
           f == call[s].frame
           st == sock[c].stream
<1>0. /\ call \in [Sender -> SendCalls] /\ sock \in [K!Conn -> Sockets]
      /\ SendsSerial /\ PoolKept /\ StreamsShaped /\ FramesOnce /\ PiecesFollow
  BY DEF PoolInv, PoolTypes
<1>1. /\ call[s].pc = from /\ sock[c].state = "open"
      /\ UNCHANGED <<out, opened, sendLock, received, todo>>
      /\ call' = [call EXCEPT ![s].pc = to]
      /\ sock' = [sock EXCEPT ![c].stream =
                    IF sock[c].broken THEN st ELSE Append(st, <<f, n>>)]
  BY DEF K!WritePiece
<1>2. c \in K!Conn /\ sock[c].to = DestOf[f] /\ f \in Frame \ todo /\ c <= opened
  BY <1>0, <1>1 DEF SendsSerial
<1>3. st \in Pieces /\ Shaped(st) BY <1>0, <1>2 DEF Sockets, StreamsShaped
<1>4. /\ call' \in [Sender -> SendCalls] /\ call'[s].pc = to /\ call'[s].conn = c
      /\ call'[s].frame = f
      /\ \A t \in Sender : t # s => call'[t] = call[t] /\ call[t].pc = "idle"
  <2>1. \A t \in Sender : t # s => call[t].pc = "idle" BY <1>1, OthersIdle
  <2> QED BY <1>0, <1>1, <2>1 DEF SendCalls
<1>5. ASSUME NEW d \in K!Conn, d # c, sock[d].state = "open", ~sock[d].broken
      PROVE  Whole(sock[d].stream)
  BY <1>0, <1>1, <1>4, <1>5 DEF PiecesFollow
<1>6. \A g \in Frame : Unsent(g)' => Unsent(g) BY <1>1, <1>4 DEF Unsent
<1>7. CASE sock[c].broken
  <2>1. sock' = sock
    <3>1. sock' = [sock EXCEPT ![c].stream = st] BY <1>1, <1>7
    <3> QED BY <1>0, <1>2, <3>1 DEF Sockets
  <2>2. PoolTypes' BY <1>0, <1>1, <1>4, <2>1 DEF PoolInv, PoolTypes
  <2>3. PoolKept' BY <1>0, <1>1, <2>1 DEF PoolKept
  <2>4. SendsSerial' BY <1>0, <1>1, <1>2, <1>4, <2>1 DEF SendsSerial
  <2>5. StreamsShaped' /\ FramesOnce' BY <1>1, <1>6, <2>1, StreamsStay
  <2>6. PiecesFollow'
    <3>1. \A d \in K!Conn : sock[d].state = "open" /\ ~sock[d].broken => Whole(sock[d].stream)
      BY <1>5, <1>7
    <3>2. \A t \in Sender : call'[t].pc = "rest" => call'[t].conn = c BY <1>4
    <3> QED BY <1>7, <2>1, <3>1, <3>2 DEF PiecesFollow
  <2> QED BY <2>2, <2>3, <2>4, <2>5, <2>6 DEF PoolInv
<1>8. CASE ~sock[c].broken
  <2> DEFINE st2 == Append(st, <<f, n>>)
  <2>1. sock' = [sock EXCEPT ![c].stream = st2] BY <1>1, <1>8
  <2>2. OneMore(st2, st, f, n) BY <1>2, <1>3, AppendPiece
  <2>3. IF n = 1 THEN Whole(st)
        ELSE n = 2 /\ Len(st) > 0 /\ st[Len(st)][1] = f /\ st[Len(st)][2] = 1
    BY <1>0, <1>1, <1>2, <1>4, <1>8 DEF PiecesFollow
  <2>4. Shaped(st2)
    <3> HIDE DEF st, st2, f
    <3> QED BY <1>3, <2>2, <2>3, ShapedMore
  <2>5. /\ st2 \in Pieces /\ Len(st) \in Nat /\ Len(st2) = Len(st) + 1
        /\ \A k \in 1..Len(st) : st2[k] = st[k]
        /\ st2[Len(st) + 1][1] = f /\ st2[Len(st) + 1][2] = n
    <3> HIDE DEF st2
    <3> QED BY <2>2 DEF OneMore
  <2> HIDE DEF st2
  <2>6. /\ sock' \in [K!Conn -> Sockets] /\ sock'[c].stream = st2
        /\ \A d \in K!Conn :
             /\ d # c => sock'[d].stream = sock[d].stream
             /\ sock'[d].to = sock[d].to /\ sock'[d].state = sock[d].state
             /\ sock'[d].broken = sock[d].broken
    BY <1>0, <1>2, <2>1, <2>5 DEF Sockets
  <2>7. PoolTypes' BY <1>0, <1>1, <1>4, <2>6 DEF PoolInv, PoolTypes
  <2>8. PoolKept'
    <3>1. \A d \in K!Conn : d > opened => d # c BY <1>0, <1>1 DEF PoolKept
    <3>2. \A i \in 1..Len(out) : out[i] \in K!Conn BY PoolDistinct
    <3>3. /\ Len(out) <= MaxConnections
          /\ \A i \in 1..Len(out) : sock'[out[i]].state = "open"
          /\ \A i, j \in 1..Len(out) : sock'[out[i]].to = sock'[out[j]].to => i = j
      BY <1>0, <2>6, <3>2 DEF PoolKept
    <3>4. \A d \in K!Conn : sock'[d].state = "open" => \E i \in 1..Len(out) : out[i] = d
      BY <1>0, <2>6 DEF PoolKept
    <3>5. \A d \in K!Conn : d > opened => sock'[d].state = "new" /\ sock'[d].stream = <<>>
      BY <1>0, <2>6, <3>1 DEF PoolKept
    <3> QED BY <1>1, <3>3, <3>4, <3>5 DEF PoolKept
  <2>9. SendsSerial' BY <1>0, <1>1, <1>2, <1>4, <2>6 DEF SendsSerial
  <2>10. StreamsShaped'
    <3>1. ASSUME NEW k \in 1..Len(st2) PROVE DestOf[st2[k][1]] = sock[c].to
      <4>1. CASE k \in 1..Len(st) BY <1>0, <1>2, <2>5, <4>1 DEF StreamsShaped
      <4>2. CASE k \notin 1..Len(st)
        <5>0. Len(st2) = Len(st) + 1 /\ Len(st) \in Nat BY <2>5
        <5>1. k = Len(st) + 1
          <6> HIDE DEF st
          <6> QED BY <4>2, <5>0
        <5> QED BY <1>2, <2>5, <5>1
      <4> QED BY <4>1, <4>2
    <3>2. ASSUME NEW d \in K!Conn
          PROVE  /\ Shaped(sock'[d].stream)
                 /\ \A k \in 1..Len(sock'[d].stream) :
                      DestOf[sock'[d].stream[k][1]] = sock'[d].to
      <4>1. CASE d = c BY <2>4, <2>6, <3>1, <4>1
      <4>2. CASE d # c BY <1>0, <2>6, <4>2 DEF StreamsShaped
      <4> QED BY <4>1, <4>2
    <3> QED BY <3>2 DEF StreamsShaped
  <2>11. \A g \in Frame, d \in K!Conn, k \in Nat :
           EndsAt(g, d, k)' => EndsAt(g, d, k) \/ (g = f /\ d = c /\ k = Len(st) + 1 /\ n = 2)
    <3> SUFFICES ASSUME NEW g \in Frame, NEW d \in K!Conn, NEW k \in Nat, EndsAt(g, d, k)'
                 PROVE  EndsAt(g, d, k) \/ (g = f /\ d = c /\ k = Len(st) + 1 /\ n = 2)
      OBVIOUS
    <3>1. k \in 1..Len(sock'[d].stream) /\ sock'[d].stream[k][2] = 2 /\ sock'[d].stream[k][1] = g
      BY DEF EndsAt
    <3>2. CASE d # c BY <2>6, <3>1, <3>2 DEF EndsAt
    <3>3. CASE d = c /\ k \in 1..Len(st) BY <2>5, <2>6, <3>1, <3>3 DEF EndsAt
    <3>4. CASE d = c /\ k \notin 1..Len(st)
      <4>0. Len(sock'[d].stream) = Len(st) + 1 BY <2>5, <2>6, <3>4
      <4>1. k = Len(st) + 1
        <5> HIDE DEF st
        <5> QED BY <2>5, <3>1, <3>4, <4>0
      <4> QED BY <2>5, <2>6, <3>1, <3>4, <4>1
    <3> QED BY <3>2, <3>3, <3>4
  <2>12. FramesOnce'
    <3>1. CASE n = 1
      <4>1. \A g \in Frame, d \in K!Conn, k \in Nat : EndsAt(g, d, k)' => EndsAt(g, d, k)
        BY <2>11, <3>1
      <4> QED BY <1>1, <1>6, <4>1, NothingAdded
    <3>2. CASE n = 2
      <4>1. Unsent(f) BY <1>1, <3>2 DEF Unsent
      <4>2. ~Arrived(f) /\ \A d \in K!Conn, k \in Nat : ~EndsAt(f, d, k)
        BY <1>0, <1>2, <4>1 DEF FramesOnce
      <4>3. \A g \in Frame : g = f => ~Unsent(g)' BY <1>1, <1>2, <1>4, <3>2 DEF Unsent
      <4>4. \A g \in Frame : Arrived(g)' = Arrived(g) BY <1>1 DEF Arrived
      <4> HIDE DEF f, c, st
      <4>5. \A g \in Frame, c1, c2 \in K!Conn, k1, k2 \in Nat :
              EndsAt(g, c1, k1)' /\ EndsAt(g, c2, k2)' => c1 = c2 /\ k1 = k2
        <5> SUFFICES ASSUME NEW g \in Frame, NEW c1 \in K!Conn, NEW c2 \in K!Conn,
                            NEW k1 \in Nat, NEW k2 \in Nat,
                            EndsAt(g, c1, k1)', EndsAt(g, c2, k2)'
                     PROVE  c1 = c2 /\ k1 = k2
          OBVIOUS
        <5>1. CASE g = f BY <2>11, <4>2, <5>1
        <5>2. CASE g # f
          <6>1. EndsAt(g, c1, k1) /\ EndsAt(g, c2, k2) BY <2>11, <5>2
          <6> QED BY <1>0, <6>1 DEF FramesOnce
        <5> QED BY <5>1, <5>2
      <4>6. \A g \in Frame, d \in K!Conn, k \in Nat :
              EndsAt(g, d, k)' => ~Arrived(g)' /\ ~Unsent(g)'
        <5> SUFFICES ASSUME NEW g \in Frame, NEW d \in K!Conn, NEW k \in Nat, EndsAt(g, d, k)'
                     PROVE  ~Arrived(g)' /\ ~Unsent(g)'
          OBVIOUS
        <5>1. CASE g = f BY <4>2, <4>3, <4>4, <5>1
        <5>2. CASE g # f
          <6>1. EndsAt(g, d, k) BY <2>11, <5>2
          <6> QED BY <1>0, <1>6, <4>4, <6>1 DEF FramesOnce
        <5> QED BY <5>1, <5>2
      <4>7. \A g \in Frame : Arrived(g)' => ~Unsent(g)' BY <1>0, <1>6, <4>4 DEF FramesOnce
      <4>8. /\ \A d \in Dest : \A i \in 1..Len(received'[d]) : DestOf[received'[d][i]] = d
            /\ \A d \in Dest : \A i, j \in 1..Len(received'[d]) :
                 received'[d][i] = received'[d][j] => i = j
        BY <1>0, <1>1 DEF FramesOnce
      <4> QED BY <4>5, <4>6, <4>7, <4>8 DEF FramesOnce
    <3> QED BY <3>1, <3>2
  <2>13. PiecesFollow'
    <3>1. Len(st2) > 0 /\ st2[Len(st2)][1] = f /\ st2[Len(st2)][2] = n BY <2>5
    <3>2. ASSUME NEW d \in K!Conn, sock'[d].state = "open", ~sock'[d].broken,
                 ~Whole(sock'[d].stream)
          PROVE  \E t \in Sender : call'[t].pc = "rest" /\ call'[t].conn = d
      <4>1. d = c BY <1>5, <2>6, <3>2
      <4>2. n # 2 BY <2>6, <3>1, <3>2, <4>1 DEF Whole
      <4> QED BY <1>4, <4>1, <4>2
    <3>3. \A t \in Sender : call'[t].pc = "rest" => t = s /\ n = 1 BY <1>4
    <3> QED BY <1>4, <2>6, <3>1, <3>2, <3>3 DEF PiecesFollow
  <2> QED BY <2>7, <2>8, <2>9, <2>10, <2>12, <2>13 DEF PoolInv
<1> QED BY <1>7, <1>8

\* st2 is st without the two pieces it begins with.
Rest2(st2, st) ==
    /\ st2 \in Pieces /\ Len(st) \in Nat /\ Len(st2) \in Nat /\ Len(st) = Len(st2) + 2
    /\ \A k \in 1..Len(st2) : st2[k] = st[k + 2]

LEMMA DropTwo ==
    ASSUME NEW st \in Pieces, Len(st) >= 2
    PROVE  Rest2(SubSeq(st, 3, Len(st)), st)
<1>1. st \in Seq(Frame \X {1, 2}) /\ Len(st) \in Nat BY DEF Pieces
<1>2. SubSeq(st, 3, Len(st)) \in Seq(Frame \X {1, 2}) BY <1>1
<1>3. Len(SubSeq(st, 3, Len(st))) = Len(st) - 2 BY <1>1
<1>4. \A k \in 1..(Len(st) - 2) : SubSeq(st, 3, Len(st))[k] = st[3 + k - 1] BY <1>1
<1>5. \A k \in 1..(Len(st) - 2) : 3 + k - 1 = k + 2 BY <1>1
<1> HIDE DEF Pieces
<1> QED BY <1>1, <1>2, <1>3, <1>4, <1>5 DEF Rest2, Pieces

\* The two are one frame, and what follows begins with a first piece.
LEMMA ShapedRest ==
    ASSUME NEW st, NEW st2, Rest2(st2, st), Shaped(st)
    PROVE  /\ st[1][2] = 1 /\ st[2][2] = 2 /\ st[2][1] = st[1][1] /\ Shaped(st2)
           /\ Whole(st) <=> Whole(st2)
           /\ Len(st2) > 0 => st2[Len(st2)] = st[Len(st)]
<1>1. /\ Len(st) \in Nat /\ Len(st2) \in Nat /\ Len(st) = Len(st2) + 2
      /\ \A k \in 1..Len(st2) : st2[k] = st[k + 2]
  BY DEF Rest2
<1>2. 1 \in 1..Len(st) /\ 2 \in 1..Len(st) /\ 2 - 1 = 1 BY <1>1
<1>3. st[1][2] = 1 BY <1>1 DEF Shaped
<1>4. st[2][2] = 2 /\ st[2][1] = st[1][1]
  <2>1. IF st[2 - 1][2] = 1 THEN st[2][2] = 2 /\ st[2][1] = st[2 - 1][1] ELSE st[2][2] = 1
    BY <1>2 DEF Shaped
  <2> QED BY <1>2, <1>3, <2>1
<1>5. ASSUME Len(st2) > 0 PROVE st2[1][2] = 1
  <2>1. 3 \in 1..Len(st) /\ 1 \in 1..Len(st2) BY <1>1, <1>5
  <2>2. IF st[3 - 1][2] = 1 THEN st[3][2] = 2 /\ st[3][1] = st[3 - 1][1] ELSE st[3][2] = 1
    BY <2>1 DEF Shaped
  <2>3. st2[1] = st[3] BY <1>1, <2>1
  <2> QED BY <1>4, <2>2, <2>3
<1>6. ASSUME NEW k \in 1..Len(st2), k > 1
      PROVE  IF st2[k - 1][2] = 1 THEN st2[k][2] = 2 /\ st2[k][1] = st2[k - 1][1]
                                  ELSE st2[k][2] = 1
  <2>1. k + 2 \in 1..Len(st) /\ k + 2 > 1 /\ k - 1 \in 1..Len(st2) /\ (k + 2) - 1 = (k - 1) + 2
    BY <1>1, <1>6
  <2>2. st2[k] = st[k + 2] /\ st2[k - 1] = st[(k + 2) - 1] BY <1>1, <2>1
  <2> QED BY <2>1, <2>2 DEF Shaped
<1>7. Len(st2) > 0 => st2[Len(st2)] = st[Len(st)] BY <1>1
<1>8. Whole(st) <=> Whole(st2)
  <2>1. CASE Len(st2) > 0 BY <1>1, <1>7, <2>1 DEF Whole
  <2>2. CASE Len(st2) = 0
    <3>1. Len(st) = 2 BY <1>1, <2>2
    <3> QED BY <1>4, <2>2, <3>1 DEF Whole
  <2> QED BY <1>1, <2>1, <2>2
<1> QED BY <1>3, <1>4, <1>5, <1>6, <1>7, <1>8 DEF Shaped

LEMMA ReadKeepsPool ==
    ASSUME PoolInv, NEW c \in K!Conn, K!Read(c)
    PROVE  PoolInv'
<1> DEFINE st == sock[c].stream
           st2 == SubSeq(st, 3, Len(st))
<1>0. /\ sock \in [K!Conn -> Sockets] /\ received \in [Dest -> Seq(Frame)]
      /\ SendsSerial /\ PoolKept /\ StreamsShaped /\ FramesOnce /\ PiecesFollow
  BY DEF PoolInv, PoolTypes
<1>1. /\ Len(st) >= 2 /\ sock' = [sock EXCEPT ![c].stream = st2]
      /\ UNCHANGED <<out, opened, sendLock, call, todo>>
      /\ received' = [received EXCEPT ![sock[c].to] =
                        Append(@, IF st[1][1] = st[2][1] /\ st[1][2] = 1 /\ st[2][2] = 2
                                  THEN st[1][1] ELSE "garbled")]
  BY DEF K!Read
<1>2. st \in Pieces /\ Shaped(st) BY <1>0 DEF Sockets, StreamsShaped
<1>3. Rest2(st2, st)
  <2> HIDE DEF st
  <2> QED BY <1>1, <1>2, DropTwo
<1>4. /\ st[1][2] = 1 /\ st[2][2] = 2 /\ st[2][1] = st[1][1] /\ Shaped(st2)
      /\ Whole(st) <=> Whole(st2)
      /\ Len(st2) > 0 => st2[Len(st2)] = st[Len(st)]
  <2> HIDE DEF st, st2
  <2> QED BY <1>2, <1>3, ShapedRest
<1>5. /\ st2 \in Pieces /\ Len(st) \in Nat /\ Len(st2) \in Nat /\ Len(st) = Len(st2) + 2
      /\ \A k \in 1..Len(st2) : st2[k] = st[k + 2]
  <2> HIDE DEF st, st2
  <2> QED BY <1>3 DEF Rest2
<1> HIDE DEF st2
<1>6. PICK f \in Frame : st[1][1] = f
  <2>1. 1 \in 1..Len(st) BY <1>1, <1>5
  <2>2. st[1] \in Frame \X {1, 2}
    <3> HIDE DEF st
    <3> QED BY <1>2, <2>1, ElementOfSeq DEF Pieces
  <2> QED BY <2>2
<1>7. PICK to \in Dest : sock[c].to = to /\ DestOf[f] = to
  <2>1. 1 \in 1..Len(st) BY <1>1, <1>5
  <2>2. DestOf[st[1][1]] = sock[c].to BY <1>0, <2>1 DEF StreamsShaped
  <2> QED BY <1>6, <2>2, PoolConstantFacts
<1>8. received' = [received EXCEPT ![to] = Append(received[to], f)] BY <1>1, <1>4, <1>6, <1>7
<1>9. /\ received' \in [Dest -> Seq(Frame)]
      /\ Len(received[to]) \in Nat /\ Len(received'[to]) = Len(received[to]) + 1
      /\ received'[to][Len(received[to]) + 1] = f
      /\ \A i \in 1..Len(received[to]) : received'[to][i] = received[to][i]
      /\ \A d \in Dest : d # to => received'[d] = received[d]
  <2>1. received[to] \in Seq(Frame) BY <1>0
  <2>2. /\ Append(received[to], f) \in Seq(Frame)
        /\ Len(Append(received[to], f)) = Len(received[to]) + 1
        /\ Append(received[to], f)[Len(received[to]) + 1] = f
        /\ \A i \in 1..Len(received[to]) : Append(received[to], f)[i] = received[to][i]
    BY <2>1, AppendProperties
  <2>3. received'[to] = Append(received[to], f) BY <1>0, <1>8
  <2> QED BY <1>0, <1>8, <2>1, <2>2, <2>3
<1>10. /\ sock' \in [K!Conn -> Sockets] /\ sock'[c].stream = st2
       /\ \A d \in K!Conn :
            /\ d # c => sock'[d].stream = sock[d].stream
            /\ sock'[d].to = sock[d].to /\ sock'[d].state = sock[d].state
            /\ sock'[d].broken = sock[d].broken
  BY <1>0, <1>1, <1>5 DEF Sockets
<1>11. PoolTypes' BY <1>1, <1>9, <1>10 DEF PoolInv, PoolTypes
<1>12. PoolKept'
  <2>1. \A i \in 1..Len(out) : out[i] \in K!Conn BY PoolDistinct
  <2>2. /\ Len(out) <= MaxConnections
        /\ \A i \in 1..Len(out) : sock'[out[i]].state = "open"
        /\ \A i, j \in 1..Len(out) : sock'[out[i]].to = sock'[out[j]].to => i = j
    BY <1>0, <1>10, <2>1 DEF PoolKept
  <2>3. \A d \in K!Conn : sock'[d].state = "open" => \E i \in 1..Len(out) : out[i] = d
    BY <1>0, <1>10 DEF PoolKept
  <2>4. \A d \in K!Conn : d > opened => d # c
    <3>1. Len(<<>>) = 0 OBVIOUS
    <3> QED BY <1>0, <1>1, <3>1 DEF PoolKept
  <2>5. \A d \in K!Conn : d > opened => sock'[d].state = "new" /\ sock'[d].stream = <<>>
    BY <1>0, <1>10, <2>4 DEF PoolKept
  <2> QED BY <1>1, <2>2, <2>3, <2>5 DEF PoolKept
<1>13. SendsSerial' BY <1>0, <1>1, <1>10 DEF SendsSerial
<1>14. StreamsShaped'
  <2>1. ASSUME NEW k \in 1..Len(st2) PROVE DestOf[st2[k][1]] = sock[c].to
    <3>1. k + 2 \in 1..Len(st)
      <4> HIDE DEF st
      <4> QED BY <1>5
    <3> QED BY <1>0, <1>5, <3>1 DEF StreamsShaped
  <2>2. ASSUME NEW d \in K!Conn
        PROVE  /\ Shaped(sock'[d].stream)
               /\ \A k \in 1..Len(sock'[d].stream) :
                    DestOf[sock'[d].stream[k][1]] = sock'[d].to
    <3>1. CASE d = c BY <1>4, <1>10, <2>1, <3>1
    <3>2. CASE d # c BY <1>0, <1>10, <3>2 DEF StreamsShaped
    <3> QED BY <3>1, <3>2
  <2> QED BY <2>2 DEF StreamsShaped
<1>15. \A g \in Frame : Unsent(g)' = Unsent(g) BY <1>1 DEF Unsent
<1>16. EndsAt(f, c, 2)
  <2>1. 2 \in 1..Len(st) BY <1>1, <1>5
  <2> QED BY <1>4, <1>6, <2>1 DEF EndsAt
<1>17. ~Arrived(f) /\ ~Unsent(f) BY <1>0, <1>16 DEF FramesOnce
<1>18. ASSUME NEW g \in Frame, NEW d \in K!Conn, NEW k \in Nat, EndsAt(g, d, k)'
       PROVE  EndsAt(g, d, IF d = c THEN k + 2 ELSE k) /\ g # f
  <2>1. k \in 1..Len(sock'[d].stream) /\ sock'[d].stream[k][2] = 2 /\ sock'[d].stream[k][1] = g
    BY <1>18 DEF EndsAt
  <2>2. CASE d = c
    <3>1. k \in 1..Len(st2) /\ st2[k][2] = 2 /\ st2[k][1] = g BY <1>10, <2>1, <2>2
    <3>2. k + 2 \in 1..Len(st)
      <4> HIDE DEF st
      <4> QED BY <1>5, <3>1
    <3>3. EndsAt(g, c, k + 2) BY <1>5, <3>1, <3>2 DEF EndsAt
    <3>4. k + 2 # 2 /\ k + 2 \in Nat BY <3>1
    <3>5. g # f BY <1>0, <1>16, <3>3, <3>4 DEF FramesOnce
    <3> QED BY <2>2, <3>3, <3>5
  <2>3. CASE d # c
    <3>1. EndsAt(g, d, k) BY <1>10, <2>1, <2>3 DEF EndsAt
    <3>2. g # f BY <1>0, <1>16, <2>3, <3>1 DEF FramesOnce
    <3> QED BY <2>3, <3>1, <3>2
  <2> QED BY <2>2, <2>3
<1>19. ASSUME NEW g \in Frame, Arrived(g)' PROVE Arrived(g) \/ g = f
  <2>1. PICK d \in Dest : \E i \in 1..Len(received'[d]) : received'[d][i] = g
    BY <1>19 DEF Arrived
  <2>2. PICK i \in 1..Len(received'[d]) : received'[d][i] = g BY <2>1
  <2>3. CASE d # to BY <1>9, <2>2, <2>3 DEF Arrived
  <2>4. CASE d = to /\ i \in 1..Len(received[to]) BY <1>9, <2>2, <2>4 DEF Arrived
  <2>5. CASE d = to /\ i \notin 1..Len(received[to])
    <3>1. i = Len(received[to]) + 1 BY <1>9, <2>2, <2>5
    <3> QED BY <1>9, <2>2, <2>5, <3>1
  <2> QED BY <2>3, <2>4, <2>5
<1>20. FramesOnce'
  <2>1. \A g \in Frame, c1, c2 \in K!Conn, k1, k2 \in Nat :
          EndsAt(g, c1, k1)' /\ EndsAt(g, c2, k2)' => c1 = c2 /\ k1 = k2
    <3> SUFFICES ASSUME NEW g \in Frame, NEW c1 \in K!Conn, NEW c2 \in K!Conn,
                        NEW k1 \in Nat, NEW k2 \in Nat, EndsAt(g, c1, k1)', EndsAt(g, c2, k2)'
                 PROVE  c1 = c2 /\ k1 = k2
      OBVIOUS
    <3> DEFINE p1 == IF c1 = c THEN k1 + 2 ELSE k1
               p2 == IF c2 = c THEN k2 + 2 ELSE k2
    <3>1. EndsAt(g, c1, p1) /\ EndsAt(g, c2, p2) BY <1>18
    <3>2. p1 \in Nat /\ p2 \in Nat OBVIOUS
    <3>3. c1 = c2 /\ p1 = p2
      <4> HIDE DEF p1, p2
      <4> QED BY <1>0, <3>1, <3>2 DEF FramesOnce
    <3> QED BY <3>3
  <2>2. \A g \in Frame, d \in K!Conn, k \in Nat :
          EndsAt(g, d, k)' => ~Arrived(g)' /\ ~Unsent(g)'
    <3> SUFFICES ASSUME NEW g \in Frame, NEW d \in K!Conn, NEW k \in Nat, EndsAt(g, d, k)'
                 PROVE  ~Arrived(g)' /\ ~Unsent(g)'
      OBVIOUS
    <3>1. PICK k0 \in Nat : EndsAt(g, d, k0)
      <4>1. (IF d = c THEN k + 2 ELSE k) \in Nat OBVIOUS
      <4> QED BY <1>18, <4>1
    <3> QED BY <1>0, <1>15, <1>18, <1>19, <3>1 DEF FramesOnce
  <2>3. \A g \in Frame : Arrived(g)' => ~Unsent(g)'
    BY <1>0, <1>15, <1>17, <1>19 DEF FramesOnce
  <2>4. ASSUME NEW d \in Dest, NEW i \in 1..Len(received'[d])
        PROVE  DestOf[received'[d][i]] = d
    <3>1. CASE d # to BY <1>0, <1>9, <3>1 DEF FramesOnce
    <3>2. CASE d = to /\ i \in 1..Len(received[to]) BY <1>0, <1>9, <3>2 DEF FramesOnce
    <3>3. CASE d = to /\ i \notin 1..Len(received[to])
      <4>1. i = Len(received[to]) + 1 BY <1>9, <3>3
      <4> QED BY <1>7, <1>9, <3>3, <4>1
    <3> QED BY <3>1, <3>2, <3>3
  <2>5. ASSUME NEW d \in Dest, NEW i \in 1..Len(received'[d]), NEW j \in 1..Len(received'[d]),
               received'[d][i] = received'[d][j]
        PROVE  i = j
    <3>1. CASE d # to BY <1>0, <1>9, <2>5, <3>1 DEF FramesOnce
    <3>2. CASE d = to
      <4>1. \A k \in 1..Len(received[to]) : received'[to][k] # f
        BY <1>9, <1>17 DEF Arrived
      <4>2. \A k \in 1..Len(received'[to]) : k \in 1..Len(received[to]) \/ k = Len(received[to]) + 1
        BY <1>9
      <4>3. CASE i \in 1..Len(received[to]) /\ j \in 1..Len(received[to])
        BY <1>0, <1>9, <2>5, <3>2, <4>3 DEF FramesOnce
      <4>4. CASE i \notin 1..Len(received[to]) BY <1>9, <2>5, <3>2, <4>1, <4>2, <4>4
      <4>5. CASE j \notin 1..Len(received[to]) BY <1>9, <2>5, <3>2, <4>1, <4>2, <4>5
      <4> QED BY <4>3, <4>4, <4>5
    <3> QED BY <3>1, <3>2
  <2> QED BY <2>1, <2>2, <2>3, <2>4, <2>5 DEF FramesOnce
<1>21. PiecesFollow'
  <2>1. \A d \in K!Conn : Whole(sock[d].stream) => Whole(sock'[d].stream)
    <3>1. Whole(st) => Whole(st2) BY <1>4
    <3> QED BY <1>10, <3>1
  <2>2. ASSUME NEW d \in K!Conn, sock'[d].state = "open", ~sock'[d].broken,
               ~Whole(sock'[d].stream)
        PROVE  \E s \in Sender : \/ call'[s].pc = "rest" /\ call'[s].conn = d
                                 \/ call'[s].pc = "drop" /\ sock'[d].to = DestOf[call'[s].frame]
    <3>1. sock[d].state = "open" /\ ~sock[d].broken /\ ~Whole(sock[d].stream)
      BY <1>10, <2>1, <2>2
    <3>2. PICK s \in Sender : \/ call[s].pc = "rest" /\ call[s].conn = d
                              \/ call[s].pc = "drop" /\ sock[d].to = DestOf[call[s].frame]
      BY <1>0, <3>1 DEF PiecesFollow
    <3> QED BY <1>1, <1>10, <3>2
  <2>3. ASSUME NEW s \in Sender, call[s].pc = "rest", NEW d, d = call[s].conn,
               sock'[d].state = "open", ~sock'[d].broken
        PROVE  /\ Len(sock'[d].stream) > 0
               /\ sock'[d].stream[Len(sock'[d].stream)][1] = call[s].frame
               /\ sock'[d].stream[Len(sock'[d].stream)][2] = 1
    <3>1. d \in K!Conn BY <1>0, <2>3 DEF SendsSerial
    <3>2. /\ Len(sock[d].stream) > 0
          /\ sock[d].stream[Len(sock[d].stream)][1] = call[s].frame
          /\ sock[d].stream[Len(sock[d].stream)][2] = 1
      BY <1>0, <1>10, <2>3, <3>1 DEF PiecesFollow
    <3>3. CASE d # c BY <1>10, <3>1, <3>2, <3>3
    <3>4. CASE d = c
      <4>1. st[Len(st)][1] = call[s].frame /\ st[Len(st)][2] = 1 BY <3>2, <3>4
      <4>2. Len(st2) > 0
        <5> SUFFICES ASSUME Len(st2) = 0 PROVE FALSE BY <1>5
        <5>1. Len(st) = 2 BY <1>5
        <5> QED BY <1>4, <4>1, <5>1
      <4> QED BY <1>4, <1>10, <3>4, <4>1, <4>2
    <3> QED BY <3>3, <3>4
  <2> QED BY <1>1, <2>2, <2>3 DEF PiecesFollow
<1> QED BY <1>11, <1>12, <1>13, <1>14, <1>20, <1>21 DEF PoolInv

LEMMA BreakKeepsPool ==
    ASSUME PoolInv, NEW c \in K!Conn, K!Break(c)
    PROVE  PoolInv'
<1>0. /\ sock \in [K!Conn -> Sockets]
      /\ SendsSerial /\ PoolKept /\ StreamsShaped /\ FramesOnce /\ PiecesFollow
  BY DEF PoolInv, PoolTypes
<1>1. PICK kept \in {sock[c].stream, <<>>} :
        sock' = [sock EXCEPT ![c].broken = TRUE, ![c].stream = kept]
  BY DEF K!Break
<1>2. sock[c].state = "open" /\ UNCHANGED <<out, opened, sendLock, call, received, todo>>
  BY DEF K!Break
<1>3. <<>> \in Pieces /\ Len(<<>>) = 0 BY DEF Pieces
<1>4. kept \in Pieces /\ (kept = sock[c].stream \/ Len(kept) = 0)
  BY <1>0, <1>3 DEF Sockets
<1>5. /\ sock' \in [K!Conn -> Sockets] /\ sock'[c].stream = kept /\ sock'[c].broken
      /\ \A d \in K!Conn :
           /\ d # c => sock'[d].stream = sock[d].stream /\ sock'[d].broken = sock[d].broken
           /\ sock'[d].to = sock[d].to /\ sock'[d].state = sock[d].state
  BY <1>0, <1>1, <1>4 DEF Sockets
<1>6. PoolTypes' BY <1>2, <1>5 DEF PoolInv, PoolTypes
<1>7. PoolKept'
  <2>1. \A i \in 1..Len(out) : out[i] \in K!Conn BY PoolDistinct
  <2>2. /\ Len(out) <= MaxConnections
        /\ \A i \in 1..Len(out) : sock'[out[i]].state = "open"
        /\ \A i, j \in 1..Len(out) : sock'[out[i]].to = sock'[out[j]].to => i = j
    BY <1>0, <1>5, <2>1 DEF PoolKept
  <2>3. \A d \in K!Conn : sock'[d].state = "open" => \E i \in 1..Len(out) : out[i] = d
    BY <1>0, <1>5 DEF PoolKept
  <2>4. \A d \in K!Conn : d > opened => d # c BY <1>0, <1>2 DEF PoolKept
  <2>5. \A d \in K!Conn : d > opened => sock'[d].state = "new" /\ sock'[d].stream = <<>>
    BY <1>0, <1>5, <2>4 DEF PoolKept
  <2> QED BY <1>2, <2>2, <2>3, <2>5 DEF PoolKept
<1>8. SendsSerial' BY <1>0, <1>2, <1>5 DEF SendsSerial
<1>9. \A d \in K!Conn : sock'[d].stream = sock[d].stream \/ Len(sock'[d].stream) = 0
  BY <1>4, <1>5
<1>10. StreamsShaped'
  <2> SUFFICES ASSUME NEW d \in K!Conn
               PROVE  /\ Shaped(sock'[d].stream)
                      /\ \A k \in 1..Len(sock'[d].stream) :
                           DestOf[sock'[d].stream[k][1]] = sock'[d].to
    BY DEF StreamsShaped
  <2>1. CASE sock'[d].stream = sock[d].stream BY <1>0, <1>5, <2>1 DEF StreamsShaped
  <2>2. CASE Len(sock'[d].stream) = 0 BY <2>2 DEF Shaped
  <2> QED BY <1>9, <2>1, <2>2
<1>11. FramesOnce'
  <2>1. \A g \in Frame : Unsent(g)' => Unsent(g) BY <1>2 DEF Unsent
  <2>2. ASSUME NEW g \in Frame, NEW d \in K!Conn, NEW k \in Nat, EndsAt(g, d, k)'
        PROVE  EndsAt(g, d, k)
    <3>1. CASE sock'[d].stream = sock[d].stream BY <2>2, <3>1 DEF EndsAt
    <3>2. CASE Len(sock'[d].stream) = 0 BY <2>2, <3>2 DEF EndsAt
    <3> QED BY <1>9, <3>1, <3>2
  <2> QED BY <1>2, <2>1, <2>2, NothingAdded
<1>12. PiecesFollow'
  <2>1. ASSUME NEW d \in K!Conn, sock'[d].state = "open", ~sock'[d].broken,
               ~Whole(sock'[d].stream)
        PROVE  \E s \in Sender : \/ call'[s].pc = "rest" /\ call'[s].conn = d
                                 \/ call'[s].pc = "drop" /\ sock'[d].to = DestOf[call'[s].frame]
    <3>1. d # c BY <1>5, <2>1
    <3>2. sock[d].state = "open" /\ ~sock[d].broken /\ ~Whole(sock[d].stream)
      BY <1>5, <2>1, <3>1
    <3>3. PICK s \in Sender : \/ call[s].pc = "rest" /\ call[s].conn = d
                              \/ call[s].pc = "drop" /\ sock[d].to = DestOf[call[s].frame]
      BY <1>0, <3>2 DEF PiecesFollow
    <3> QED BY <1>2, <1>5, <3>3
  <2>2. ASSUME NEW s \in Sender, call[s].pc = "rest", NEW d, d = call[s].conn,
               sock'[d].state = "open", ~sock'[d].broken
        PROVE  /\ Len(sock'[d].stream) > 0
               /\ sock'[d].stream[Len(sock'[d].stream)][1] = call[s].frame
               /\ sock'[d].stream[Len(sock'[d].stream)][2] = 1
    <3>1. d \in K!Conn /\ d # c BY <1>0, <1>5, <2>2 DEF SendsSerial
    <3>2. sock'[d].stream = sock[d].stream /\ sock[d].state = "open" /\ ~sock[d].broken
      BY <1>5, <2>2, <3>1
    <3> QED BY <1>0, <2>2, <3>2 DEF PiecesFollow
  <2> QED BY <1>2, <2>1, <2>2 DEF PiecesFollow
<1> QED BY <1>6, <1>7, <1>8, <1>10, <1>11, <1>12 DEF PoolInv

\* For any senders, frames, destinations, pool size and retries, with peers that
\* break connections and close at any time (PooledSocketTransport.send, _get_conn,
\* _drop, close): frames arrive whole, where they were sent and at most once, and
\* the open connections are those of the bounded pool.
THEOREM PoolsSound == K!Spec => []PoolSound
<1>1. K!Init => PoolInv BY PoolInit
<1>2. PoolInv /\ [K!Next]_K!vars => PoolInv'
  <2> SUFFICES ASSUME PoolInv, [K!Next]_K!vars PROVE PoolInv' OBVIOUS
  <2>1. ASSUME NEW s \in Sender, NEW f \in Frame, K!Send(s, f) PROVE PoolInv'
    BY <2>1, SendKeepsPool
  <2>2. ASSUME NEW s \in Sender, K!Reuse(s) PROVE PoolInv' BY <2>2, ReuseKeepsPool
  <2>3. ASSUME NEW s \in Sender, K!Connect(s) PROVE PoolInv' BY <2>3, ConnectKeepsPool
  <2>4. ASSUME NEW s \in Sender, K!Refused(s) \/ K!WriteFails(s) \/ K!Return(s)
        PROVE  PoolInv'
    BY <2>4, MovesKeepPool
  <2>5. ASSUME NEW s \in Sender, K!WriteFirst(s) PROVE PoolInv'
    <3>1. K!WritePiece(s, "first", 1, "rest") BY <2>5 DEF K!WriteFirst
    <3> QED BY <3>1, WriteKeepsPool
  <2>6. ASSUME NEW s \in Sender, K!WriteRest(s) PROVE PoolInv'
    <3>1. K!WritePiece(s, "rest", 2, "sent") BY <2>6 DEF K!WriteRest
    <3> QED BY <3>1, WriteKeepsPool
  <2>7. ASSUME NEW s \in Sender, K!Drop(s) PROVE PoolInv' BY <2>7, DropKeepsPool
  <2>8. ASSUME NEW c \in K!Conn, K!Read(c) PROVE PoolInv' BY <2>8, ReadKeepsPool
  <2>9. ASSUME NEW c \in K!Conn, K!Break(c) PROVE PoolInv' BY <2>9, BreakKeepsPool
  <2>10. CASE K!Close BY <2>10, CloseKeepsPool
  <2>11. CASE UNCHANGED K!vars
    <3>1. UNCHANGED <<out, sock, opened, sendLock, call, received, todo>>
      BY <2>11 DEF K!vars
    <3>2. PoolTypes' /\ PoolKept' /\ SendsSerial'
      BY <3>1 DEF PoolInv, PoolTypes, PoolKept, SendsSerial
    <3>3. \A g \in Frame : Unsent(g)' => Unsent(g) BY <3>1 DEF Unsent
    <3>4. StreamsShaped' /\ FramesOnce' BY <3>1, <3>3, StreamsStay
    <3>5. PiecesFollow' BY <3>1 DEF PoolInv, PiecesFollow
    <3> QED BY <3>2, <3>4, <3>5 DEF PoolInv
  <2> QED
    BY <2>1, <2>2, <2>3, <2>4, <2>5, <2>6, <2>7, <2>8, <2>9, <2>10, <2>11 DEF K!Next
<1>3. PoolInv => PoolSound
  <2> SUFFICES ASSUME PoolInv PROVE K!PoolSound BY DEF PoolSound
  <2>1. ASSUME NEW d \in Dest
        PROVE  /\ DOMAIN received[d] = 1..Len(received[d])
               /\ \A i \in 1..Len(received[d]) : received[d][i] \in Frame
    <3>1. received[d] \in Seq(Frame) BY DEF PoolInv, PoolTypes
    <3> QED BY <3>1, ElementOfSeq
  <2>2. {c \in K!Conn : sock[c].state = "open"} = K!ToSet(out)
    <3>1. out \in Seq(K!Conn) /\ \A i \in 1..Len(out) : out[i] \in K!Conn BY PoolDistinct
    <3>2. DOMAIN out = 1..Len(out) BY <3>1
    <3> QED BY <3>1, <3>2 DEF K!ToSet, PoolInv, PoolKept
  <2> QED BY <2>1, <2>2 DEF K!PoolSound, PoolInv, PoolKept, FramesOnce
<1> QED BY <1>1, <1>2, <1>3, PTL DEF K!Spec

-----------------------------------------------------------------------------
(* Calls and answers: a request waits at one server or has run once, so    *)
(* that a reply, however late, is true of the call it carries the number of. *)

Requests == [client : F!Client, id : 1..MaxCalls, tool : Asked \cup {"get_status"},
             requester : Ids \cup Gateways]
Replies == [to : F!Client, id : 1..MaxCalls, kind : {"result", "error", "denied"},
            by : Instance, version : Nat]
Entries == [watcher : F!Client \cup Ids, granted : BOOLEAN]

FederationTypes ==
    /\ requests \in [Instance -> Seq(Requests)]
    /\ handling \in [Instance -> Replies \cup {NoCall}]
    /\ replies \in [F!Client -> Seq(Replies)]
    /\ seq \in [F!Client -> 0..MaxCalls]
    /\ pending \in [F!Client -> F!Calls \cup {NoCall}]
    /\ version \in [Workspaces -> Nat]
    /\ accesses \in [Instance -> Seq(Entries)]
    /\ ran \in [F!Client -> [1..MaxCalls -> Seq(Instance)]]
    /\ DOMAIN answer = F!Client /\ DOMAIN manifest = Server
    /\ \A n \in Server : manifest[n] \in Instance => NameOf[manifest[n]] = n

\* The e-th request that waits at i is the k-th of the client c.
Queued(i, e, c, k) ==
    e \in 1..Len(requests[i]) /\ requests[i][e].client = c /\ requests[i][e].id = k

\* A request waits at one place; one that was made and does not wait there any
\* more has run once at most; and a number not given yet is new.
RequestsOnce ==
    /\ \A i, j \in Instance, e, f \in Nat, c \in F!Client, k \in 1..MaxCalls :
         Queued(i, e, c, k) /\ Queued(j, f, c, k) => i = j /\ e = f
    /\ \A i \in Instance, e \in Nat, c \in F!Client, k \in 1..MaxCalls :
         Queued(i, e, c, k) => ran[c][k] = <<>> /\ k <= seq[c]
    /\ \A c \in F!Client, k \in 1..MaxCalls :
         ran[c][k] = <<>> \/ (k <= seq[c] /\ \E i \in Instance : ran[c][k] = <<i>>)

Unserved(c) ==
    /\ seq[c] \in 1..MaxCalls /\ ran[c][seq[c]] = <<>>
    /\ \A i \in Instance, e \in Nat : ~Queued(i, e, c, seq[c])

\* A call under way goes to a server of the name it was made for, and is served
\* there only; what it has seen of that server is not newer than what it is.
CallsSound ==
    \A c \in F!Client : pending[c] # NoCall =>
      /\ NameOf[pending[c].addr] = pending[c].server
      /\ pending[c].stage = "sending" => Unserved(c)
      /\ pending[c].since <= IF pending[c].server \in Workspaces
                             THEN version[pending[c].server] ELSE 0
      /\ \A i \in Instance, e \in Nat :
           Queued(i, e, c, seq[c]) => NameOf[i] = pending[c].server

\* The access log of i vouches for a status that c has.
Logged(i, c) ==
    \E e \in 1..Len(accesses[i]) :
      /\ accesses[i][e].granted /\ accesses[i][e].watcher \in Allow
      /\ NameOf[i] \in Trusting => accesses[i][e].watcher = c

\* A reply is true of the request it carries the number of.
ReplyTrue(r) ==
    /\ r.id <= seq[r.to]
    /\ r.kind \in {"result", "denied"} =>
         /\ ran[r.to][r.id] = <<r.by>>
         /\ r.id = seq[r.to] /\ pending[r.to] # NoCall =>
              /\ NameOf[r.by] = pending[r.to].server
              /\ r.kind = "result" => pending[r.to].since <= r.version
         /\ r.kind = "result" /\ NameOf[r.by] \in Workspaces => Logged(r.by, r.to)

RepliesTrue ==
    /\ \A i \in Instance : handling[i] # NoCall => ReplyTrue(handling[i])
    /\ \A c \in F!Client : \A e \in 1..Len(replies[c]) :
         replies[c][e].to = c /\ ReplyTrue(replies[c][e])

AnswersTrue ==
    \A c \in F!Client : answer[c] # NoCall =>
      LET a == answer[c]
      IN  /\ a.kind \in {"result", "denied"} =>
               /\ a.id \in 1..MaxCalls /\ a.by \in Instance
               /\ ran[c][a.id] = <<a.by>> /\ NameOf[a.by] = a.server
               /\ a.kind = "result" => a.since <= a.version
               /\ a.kind = "result" /\ NameOf[a.by] \in Workspaces => Logged(a.by, c)
          /\ a.kind = "unreachable" /\ pending[c] = NoCall => Unserved(c)

Served(i) == {ck \in F!Client \X (1..MaxCalls) : ran[ck[1]][ck[2]] = <<i>>}

AccessesCounted ==
    \A i \in Instance : NameOf[i] \in Workspaces =>
      IsFiniteSet(Served(i)) /\ Len(accesses[i]) = Cardinality(Served(i))

AnswersInv ==
    /\ FederationTypes /\ RequestsOnce /\ CallsSound /\ RepliesTrue /\ AnswersTrue
    /\ AccessesCounted

LEMMA FederationFacts ==
    /\ \A i \in Instance : NameOf[i] \in Server
    /\ Workspaces \subseteq Server /\ Trusting \subseteq Workspaces /\ Allow \subseteq Ids
    /\ Watchers \subseteq Ids /\ MaxCalls \in Nat
    /\ \A i \in Instance : i \notin {Missing, Empty, Garbled}
    /\ IsFiniteSet(F!Client) /\ NoCall \notin F!Calls
<1>1. \A S : F!IsFiniteSet(S) = IsFiniteSet(S) BY Zenon DEF F!IsFiniteSet, IsFiniteSet
<1>2. IsFiniteSet(Gateways) /\ IsFiniteSet(Watchers)
  BY <1>1, FederationAssumption DEF F!FederationConstants
<1>3. IsFiniteSet(F!Client) BY <1>2, FS_Union DEF F!Client
<1> QED BY <1>3, FederationAssumption DEF F!FederationConstants

\* Runs are compared as sequences of at most one instance.
LEMMA RunFacts ==
    /\ \A i : <<i>> # <<>>
    /\ \A i, j : <<i>> = <<j>> => i = j
    /\ \A i \in Instance : Append(<<>>, i) = <<i>> /\ <<i>> \in Seq(Instance)
  OBVIOUS

LEMMA SameReplies ==
    ASSUME UNCHANGED <<seq, pending, ran, accesses>>, NEW r, ReplyTrue(r)
    PROVE  ReplyTrue(r)'
  BY DEF ReplyTrue, Logged

LEMMA OnceStays ==
    ASSUME RequestsOnce, UNCHANGED <<requests, seq, ran>>
    PROVE  RequestsOnce'
<1>1. requests' = requests /\ seq' = seq /\ ran' = ran OBVIOUS
<1>2. \A i \in Instance, e \in Nat, c \in F!Client, k \in 1..MaxCalls :
        Queued(i, e, c, k)' <=> Queued(i, e, c, k)
  BY <1>1 DEF Queued
<1>3. \A i, j \in Instance, e, f \in Nat, c \in F!Client, k \in 1..MaxCalls :
        Queued(i, e, c, k)' /\ Queued(j, f, c, k)' => i = j /\ e = f
  <2> SUFFICES ASSUME NEW i \in Instance, NEW j \in Instance, NEW e \in Nat, NEW f \in Nat,
                      NEW c \in F!Client, NEW k \in 1..MaxCalls,
                      Queued(i, e, c, k)', Queued(j, f, c, k)'
               PROVE  i = j /\ e = f
    OBVIOUS
  <2>1. Queued(i, e, c, k) /\ Queued(j, f, c, k) BY <1>2
  <2> QED BY <2>1 DEF RequestsOnce
<1>4. \A i \in Instance, e \in Nat, c \in F!Client, k \in 1..MaxCalls :
        Queued(i, e, c, k)' => ran'[c][k] = <<>> /\ k <= seq'[c]
  BY <1>1, <1>2 DEF RequestsOnce
<1>5. \A c \in F!Client, k \in 1..MaxCalls :
        ran'[c][k] = <<>> \/ (k <= seq'[c] /\ \E i \in Instance : ran'[c][k] = <<i>>)
  BY <1>1 DEF RequestsOnce
<1> QED BY <1>3, <1>4, <1>5, Zenon DEF RequestsOnce

LEMMA AnswersInit ==
    ASSUME F!Init
    PROVE  AnswersInv
<1> USE FederationFacts
<1>1. /\ requests = [i \in Instance |-> <<>>] /\ handling = [i \in Instance |-> NoCall]
      /\ replies = [c \in F!Client |-> <<>>] /\ seq = [c \in F!Client |-> 0]
      /\ pending = [c \in F!Client |-> NoCall] /\ version = [n \in Workspaces |-> 0]
      /\ accesses = [i \in Instance |-> <<>>] /\ answer = [c \in F!Client |-> NoCall]
      /\ ran = [c \in F!Client |-> [k \in 1..MaxCalls |-> <<>>]]
      /\ manifest = [n \in Server |-> Missing]
  BY DEF F!Init
<1>2. FederationTypes BY <1>1 DEF FederationTypes
<1>3. \A i \in Instance, e \in Nat : \A c, k : ~Queued(i, e, c, k) BY <1>1 DEF Queued
<1>4. \A c \in F!Client, k \in 1..MaxCalls : ran[c][k] = <<>> BY <1>1
<1>5. RequestsOnce BY <1>3, <1>4 DEF RequestsOnce
<1>6. CallsSound /\ RepliesTrue /\ AnswersTrue BY <1>1 DEF CallsSound, RepliesTrue, AnswersTrue
<1>7. AccessesCounted
  <2>1. ASSUME NEW i \in Instance PROVE Served(i) = {}
    <3>1. \A ck \in F!Client \X (1..MaxCalls) : ran[ck[1]][ck[2]] = <<>> BY <1>4
    <3> QED BY <3>1, RunFacts DEF Served
  <2>2. \A i \in Instance : Len(accesses[i]) = 0 BY <1>1
  <2> QED BY <2>1, <2>2, FS_EmptySet DEF AccessesCounted
<1> QED BY <1>2, <1>5, <1>6, <1>7 DEF AnswersInv

\* What a server does but serve: its requests and its reply may be lost with it.
LEMMA LifeKeepsAnswers ==
    ASSUME AnswersInv, UNCHANGED <<seq, pending, answer, replies, ran, accesses, version>>,
           requests' \in [Instance -> Seq(Requests)],
           handling' \in [Instance -> Replies \cup {NoCall}],
           \A j \in Instance : /\ requests'[j] = requests[j] \/ requests'[j] = <<>>
                               /\ handling'[j] = handling[j] \/ handling'[j] = NoCall,
           DOMAIN manifest' = Server,
           \A n \in Server : manifest'[n] \in Instance => NameOf[manifest'[n]] = n
    PROVE  AnswersInv'
<1>1. \A j \in Instance, e \in Nat : \A c, k : Queued(j, e, c, k)' => Queued(j, e, c, k)
  BY DEF Queued
<1>2. FederationTypes' BY DEF AnswersInv, FederationTypes
<1>3. RequestsOnce' BY <1>1 DEF AnswersInv, RequestsOnce
<1>4. \A c \in F!Client : Unserved(c) => Unserved(c)' BY <1>1 DEF Unserved
<1>5. CallsSound'
  <2> SUFFICES ASSUME NEW c \in F!Client, pending[c] # NoCall
               PROVE  /\ NameOf[pending[c].addr] = pending[c].server
                      /\ pending[c].stage = "sending" => Unserved(c)'
                      /\ pending[c].since <= IF pending[c].server \in Workspaces
                                             THEN version[pending[c].server] ELSE 0
                      /\ \A i \in Instance, e \in Nat :
                           Queued(i, e, c, seq[c])' => NameOf[i] = pending[c].server
    BY DEF CallsSound
  <2>1. /\ NameOf[pending[c].addr] = pending[c].server
        /\ pending[c].stage = "sending" => Unserved(c)
        /\ pending[c].since <= IF pending[c].server \in Workspaces
                               THEN version[pending[c].server] ELSE 0
        /\ \A i \in Instance, e \in Nat :
             Queued(i, e, c, seq[c]) => NameOf[i] = pending[c].server
    BY DEF AnswersInv, CallsSound
  <2>2. \A i \in Instance, e \in Nat : Queued(i, e, c, seq[c])' => Queued(i, e, c, seq[c])
    BY DEF Queued
  <2> QED BY <1>4, <2>1, <2>2
<1>6. RepliesTrue' BY SameReplies DEF AnswersInv, RepliesTrue
<1>7. AnswersTrue' BY <1>4 DEF AnswersInv, AnswersTrue, Logged
<1>8. AccessesCounted' BY DEF AnswersInv, AccessesCounted, Served
<1> QED BY <1>2, <1>3, <1>5, <1>6, <1>7, <1>8 DEF AnswersInv

LEMMA EditKeepsAnswers ==
    ASSUME AnswersInv, NEW n \in Workspaces, F!Edit(n)
    PROVE  AnswersInv'
<1>1. /\ UNCHANGED <<seq, pending, answer, replies, ran, accesses, manifest, requests, handling>>
      /\ version' = [version EXCEPT ![n] = version[n] + 1]
  BY DEF F!Edit, F!registryVars, F!clientVars
<1>2. /\ version' \in [Workspaces -> Nat] /\ version \in [Workspaces -> Nat]
      /\ \A m \in Workspaces : version'[m] >= version[m]
  BY <1>1 DEF AnswersInv, FederationTypes
<1>3. FederationTypes' BY <1>1, <1>2 DEF AnswersInv, FederationTypes
<1>4. RequestsOnce' BY <1>1, OnceStays DEF AnswersInv
<1>5. CallsSound'
  <2> SUFFICES ASSUME NEW c \in F!Client, pending[c] # NoCall
               PROVE  /\ NameOf[pending[c].addr] = pending[c].server
                      /\ pending[c].stage = "sending" => Unserved(c)'
                      /\ pending[c].since <= IF pending[c].server \in Workspaces
                                             THEN version'[pending[c].server] ELSE 0
                      /\ \A i \in Instance, e \in Nat :
                           Queued(i, e, c, seq[c])' => NameOf[i] = pending[c].server
    BY <1>1 DEF CallsSound
  <2>1. /\ NameOf[pending[c].addr] = pending[c].server
        /\ pending[c].stage = "sending" => Unserved(c)
        /\ pending[c].since <= IF pending[c].server \in Workspaces
                               THEN version[pending[c].server] ELSE 0
        /\ \A i \in Instance, e \in Nat :
             Queued(i, e, c, seq[c]) => NameOf[i] = pending[c].server
    BY DEF AnswersInv, CallsSound
  <2>2. pending[c].since \in Nat BY DEF AnswersInv, FederationTypes, F!Calls
  <2>3. Unserved(c)' = Unserved(c) BY <1>1 DEF Unserved, Queued
  <2>4. \A i \in Instance, e \in Nat : Queued(i, e, c, seq[c])' = Queued(i, e, c, seq[c])
    BY <1>1 DEF Queued
  <2>5. pending[c].since <= IF pending[c].server \in Workspaces
                            THEN version'[pending[c].server] ELSE 0
    BY <1>2, <2>1, <2>2
  <2> QED BY <2>1, <2>3, <2>4, <2>5
<1>6. RepliesTrue' BY <1>1, SameReplies DEF AnswersInv, RepliesTrue
<1>7. AnswersTrue'
  <2>1. \A d : Unserved(d)' = Unserved(d) BY <1>1 DEF Unserved, Queued
  <2>2. \A j, d : Logged(j, d)' = Logged(j, d) BY <1>1 DEF Logged
  <2> QED BY <1>1, <2>1, <2>2 DEF AnswersInv, AnswersTrue
<1>8. AccessesCounted' BY <1>1 DEF AnswersInv, AccessesCounted, Served
<1> QED BY <1>3, <1>4, <1>5, <1>6, <1>7, <1>8 DEF AnswersInv

\* The client gives up, or its request is refused: nothing of it has run in the
\* latter case.
LEMMA FailKeepsAnswers ==
    ASSUME AnswersInv, NEW c \in F!Client, NEW n, NEW why \in {"timeout", "unreachable", "unlisted"},
           F!Fail(c, n, why), pending' = [pending EXCEPT ![c] = NoCall],
           why = "unreachable" => Unserved(c),
           UNCHANGED <<requests, handling, replies, seq, version, accesses, ran, manifest>>
    PROVE  AnswersInv'
<1>1. /\ pending \in [F!Client -> F!Calls \cup {NoCall}] /\ DOMAIN answer = F!Client
  BY DEF AnswersInv, FederationTypes
<1>2. /\ answer'[c].kind = why /\ DOMAIN answer' = F!Client
      /\ \A d \in F!Client : d # c => answer'[d] = answer[d]
  BY <1>1 DEF F!Fail
<1>3. /\ pending' \in [F!Client -> F!Calls \cup {NoCall}] /\ pending'[c] = NoCall
      /\ \A d \in F!Client : d # c => pending'[d] = pending[d]
  BY <1>1
<1>4. FederationTypes' BY <1>2, <1>3 DEF AnswersInv, FederationTypes
<1>5. RequestsOnce' BY OnceStays DEF AnswersInv
<1>6. \A d : Unserved(d)' = Unserved(d) BY DEF Unserved, Queued
<1>7. CallsSound' BY <1>3, <1>6 DEF AnswersInv, CallsSound, Queued
<1>8. ASSUME NEW r \in Replies, ReplyTrue(r) PROVE ReplyTrue(r)'
  <2>1. r.to \in F!Client BY DEF Replies
  <2> QED BY <1>3, <1>8, <2>1 DEF ReplyTrue, Logged
<1>9. RepliesTrue'
  <2>1. \A i \in Instance : handling[i] # NoCall => handling[i] \in Replies /\ ReplyTrue(handling[i])
    BY DEF AnswersInv, FederationTypes, RepliesTrue
  <2>2. \A d \in F!Client : \A e \in 1..Len(replies[d]) :
          replies[d][e] \in Replies /\ replies[d][e].to = d /\ ReplyTrue(replies[d][e])
    BY ElementOfSeq DEF AnswersInv, FederationTypes, RepliesTrue
  <2> QED BY <1>8, <2>1, <2>2 DEF RepliesTrue
<1>10. AnswersTrue'
  <2>1. ASSUME NEW d \in F!Client, answer[d] # NoCall, d # c
        PROVE  LET a == answer[d]
               IN  /\ a.kind \in {"result", "denied"} =>
                        /\ a.id \in 1..MaxCalls /\ a.by \in Instance
                        /\ ran[d][a.id] = <<a.by>> /\ NameOf[a.by] = a.server
                        /\ a.kind = "result" => a.since <= a.version
                        /\ a.kind = "result" /\ NameOf[a.by] \in Workspaces => Logged(a.by, d)
                   /\ a.kind = "unreachable" /\ pending[d] = NoCall => Unserved(d)
    BY <2>1 DEF AnswersInv, AnswersTrue
  <2>2. ASSUME NEW d \in F!Client, answer'[d] # NoCall
        PROVE  LET a == answer'[d]
               IN  /\ a.kind \in {"result", "denied"} =>
                        /\ a.id \in 1..MaxCalls /\ a.by \in Instance
                        /\ ran[d][a.id] = <<a.by>> /\ NameOf[a.by] = a.server
                        /\ a.kind = "result" => a.since <= a.version
                        /\ a.kind = "result" /\ NameOf[a.by] \in Workspaces => Logged(a.by, d)
                   /\ a.kind = "unreachable" /\ pending'[d] = NoCall => Unserved(d)
    <3>1. CASE d = c BY <1>2, <3>1
    <3>2. CASE d # c BY <1>2, <1>3, <2>1, <2>2, <3>2
    <3> QED BY <3>1, <3>2
  <2> QED BY <1>6, <2>2 DEF AnswersTrue, Logged
<1>11. AccessesCounted' BY DEF AnswersInv, AccessesCounted, Served
<1> QED BY <1>4, <1>5, <1>7, <1>9, <1>10, <1>11 DEF AnswersInv

\* A new number: nothing that waits, ran or was answered carries it.
LEMMA FreshNumber ==
    ASSUME AnswersInv, NEW c \in F!Client, seq[c] < MaxCalls
    PROVE  /\ seq[c] + 1 \in 1..MaxCalls /\ ran[c][seq[c] + 1] = <<>>
           /\ \A i \in Instance, e \in Nat : ~Queued(i, e, c, seq[c] + 1)
<1>1. seq[c] \in Nat BY FederationFacts DEF AnswersInv, FederationTypes
<1>2. seq[c] + 1 \in 1..MaxCalls /\ ~(seq[c] + 1 <= seq[c]) BY <1>1, FederationFacts
<1> QED BY <1>2 DEF AnswersInv, RequestsOnce

LEMMA ResolveKeepsAnswers ==
    ASSUME AnswersInv, NEW c \in F!Client, NEW n \in Server,
           NEW tool \in Asked \cup {"get_status"}, NEW requester \in Ids \cup Gateways,
           F!Resolve(c, n, tool, requester)
    PROVE  AnswersInv'
<1>0. /\ pending \in [F!Client -> F!Calls \cup {NoCall}] /\ seq \in [F!Client -> 0..MaxCalls]
      /\ version \in [Workspaces -> Nat] /\ pending[c] = NoCall /\ seq[c] < MaxCalls
  BY DEF AnswersInv, FederationTypes, F!Resolve
<1>1. UNCHANGED <<requests, handling, replies, version, accesses, ran, manifest>>
  BY DEF F!Resolve, F!registryVars, F!serverVars
<1>2. CASE F!Fail(c, n, "unlisted") /\ UNCHANGED <<seq, pending>>
  <2>1. pending' = [pending EXCEPT ![c] = NoCall] BY <1>0, <1>2
  <2> QED BY <1>1, <1>2, <2>1, FailKeepsAnswers
<1>3. ASSUME manifest[n] \in Instance, seq' = [seq EXCEPT ![c] = seq[c] + 1],
             pending' = [pending EXCEPT ![c] =
                           [stage |-> "sending", server |-> n, addr |-> manifest[n],
                            tool |-> tool, requester |-> requester,
                            since |-> IF n \in Workspaces THEN version[n] ELSE 0]],
             UNCHANGED answer
      PROVE  AnswersInv'
  <2> DEFINE made == [stage |-> "sending", server |-> n, addr |-> manifest[n],
                      tool |-> tool, requester |-> requester,
                      since |-> IF n \in Workspaces THEN version[n] ELSE 0]
  <2>1. /\ seq[c] + 1 \in 1..MaxCalls /\ ran[c][seq[c] + 1] = <<>>
        /\ \A i \in Instance, e \in Nat : ~Queued(i, e, c, seq[c] + 1)
    BY <1>0, FreshNumber
  <2>2. made \in F!Calls /\ NameOf[made.addr] = n
    <3>1. (IF n \in Workspaces THEN version[n] ELSE 0) \in Nat BY <1>0
    <3> QED BY <1>3, <3>1 DEF AnswersInv, FederationTypes, F!Calls
  <2>3. /\ seq' \in [F!Client -> 0..MaxCalls] /\ seq'[c] = seq[c] + 1
        /\ \A d \in F!Client : d # c => seq'[d] = seq[d]
        /\ \A d \in F!Client : seq'[d] >= seq[d] /\ seq[d] \in Nat /\ seq'[d] \in Nat
    <3>1. seq' \in [F!Client -> 0..MaxCalls] BY <1>0, <1>3, <2>1
    <3>2. seq'[c] = seq[c] + 1 /\ \A d \in F!Client : d # c => seq'[d] = seq[d]
      BY <1>0, <1>3
    <3>3. \A d \in F!Client : seq[d] \in Nat /\ seq'[d] \in Nat
      BY <1>0, <3>1, FederationFacts
    <3> QED BY <3>1, <3>2, <3>3
  <2>4. /\ pending' \in [F!Client -> F!Calls \cup {NoCall}] /\ pending'[c] = made
        /\ \A d \in F!Client : d # c => pending'[d] = pending[d]
    <3>1. pending' = [pending EXCEPT ![c] = made] BY <1>3
    <3> HIDE DEF made
    <3> QED BY <1>0, <2>2, <3>1
  <2>5. FederationTypes' BY <1>1, <1>3, <2>3, <2>4 DEF AnswersInv, FederationTypes
  <2>6. \A i, e, d, k : Queued(i, e, d, k)' = Queued(i, e, d, k) BY <1>1 DEF Queued
  <2>7. RequestsOnce'
    <3>1. RequestsOnce BY DEF AnswersInv
    <3>2. \A i, j \in Instance, e, f \in Nat, d \in F!Client, k \in 1..MaxCalls :
            Queued(i, e, d, k)' /\ Queued(j, f, d, k)' => i = j /\ e = f
      BY <2>6, <3>1 DEF RequestsOnce
    <3>3. \A d \in F!Client, k \in 1..MaxCalls : k <= seq[d] => k <= seq'[d] BY <2>3
    <3>4. \A i \in Instance, e \in Nat, d \in F!Client, k \in 1..MaxCalls :
            Queued(i, e, d, k)' => ran'[d][k] = <<>> /\ k <= seq'[d]
      BY <1>1, <2>6, <3>1, <3>3 DEF RequestsOnce
    <3>5. \A d \in F!Client, k \in 1..MaxCalls :
            ran'[d][k] = <<>> \/ (k <= seq'[d] /\ \E i \in Instance : ran'[d][k] = <<i>>)
      BY <1>1, <3>1, <3>3 DEF RequestsOnce
    <3> QED BY <3>2, <3>4, <3>5, Zenon DEF RequestsOnce
  <2>8. \A d \in F!Client : d # c => Unserved(d)' = Unserved(d)
    BY <1>1, <2>3, <2>6 DEF Unserved
  <2>9. Unserved(c)'
    <3>1. seq'[c] \in 1..MaxCalls /\ ran'[c][seq'[c]] = <<>> BY <1>1, <2>1, <2>3
    <3>2. \A i \in Instance, e \in Nat : ~Queued(i, e, c, seq[c])'
      <4>1. \A k : k = seq'[c] => \A i \in Instance, e \in Nat : ~Queued(i, e, c, k)'
        BY <2>1, <2>3, <2>6
      <4> QED BY <4>1 DEF Queued
    <3> QED BY <3>1, <3>2 DEF Unserved
  <2>10. CallsSound'
    <3> SUFFICES ASSUME NEW d \in F!Client, pending'[d] # NoCall
                 PROVE  /\ NameOf[pending'[d].addr] = pending'[d].server
                        /\ pending'[d].stage = "sending" => Unserved(d)'
                        /\ pending'[d].since <= IF pending'[d].server \in Workspaces
                                                THEN version'[pending'[d].server] ELSE 0
                        /\ \A i \in Instance, e \in Nat :
                             Queued(i, e, d, seq[d])' => NameOf[i] = pending'[d].server
      BY DEF CallsSound
    <3>1. CASE d = c
      <4>1. /\ made.since <= IF made.server \in Workspaces THEN version[made.server] ELSE 0
            /\ made.server = n
        BY <1>0
      <4>2. \A i \in Instance, e \in Nat : ~Queued(i, e, c, seq[c])' BY <2>9 DEF Unserved
      <4> HIDE DEF made
      <4> QED BY <1>1, <2>2, <2>4, <2>9, <3>1, <4>1, <4>2
    <3>2. CASE d # c
      <4>1. /\ NameOf[pending[d].addr] = pending[d].server
            /\ pending[d].stage = "sending" => Unserved(d)
            /\ pending[d].since <= IF pending[d].server \in Workspaces
                                   THEN version[pending[d].server] ELSE 0
            /\ \A i \in Instance, e \in Nat :
                 Queued(i, e, d, seq[d]) => NameOf[i] = pending[d].server
        BY <2>4, <3>2 DEF AnswersInv, CallsSound
      <4>2. \A i \in Instance, e \in Nat : Queued(i, e, d, seq[d])' = Queued(i, e, d, seq[d])
        BY <1>1, <2>3, <3>2 DEF Queued
      <4> QED BY <1>1, <2>4, <2>8, <3>2, <4>1, <4>2
    <3> QED BY <3>1, <3>2
  <2>11. ASSUME NEW r \in Replies, ReplyTrue(r) PROVE ReplyTrue(r)'
    <3>1. r.to \in F!Client /\ r.id \in 1..MaxCalls BY DEF Replies
    <3>2. r.id <= seq[r.to] /\ r.id <= seq'[r.to] BY <2>3, <2>11, <3>1 DEF ReplyTrue
    <3>3. CASE r.to = c
      <4>1. r.id # seq'[r.to] BY <2>3, <3>1, <3>2, <3>3
      <4> QED BY <1>1, <2>11, <3>2, <4>1 DEF ReplyTrue, Logged
    <3>4. CASE r.to # c BY <1>1, <2>3, <2>4, <2>11, <3>1, <3>4 DEF ReplyTrue, Logged
    <3> QED BY <3>3, <3>4
  <2>12. RepliesTrue'
    <3>1. \A i \in Instance :
            handling[i] # NoCall => handling[i] \in Replies /\ ReplyTrue(handling[i])
      BY DEF AnswersInv, FederationTypes, RepliesTrue
    <3>2. \A d \in F!Client : \A e \in 1..Len(replies[d]) :
            replies[d][e] \in Replies /\ replies[d][e].to = d /\ ReplyTrue(replies[d][e])
      BY ElementOfSeq DEF AnswersInv, FederationTypes, RepliesTrue
    <3> QED BY <1>1, <2>11, <3>1, <3>2 DEF RepliesTrue
  <2>13. AnswersTrue'
    <3>1. \A i, d : Logged(i, d)' = Logged(i, d) BY <1>1 DEF Logged
    <3>2. AnswersTrue BY DEF AnswersInv
    <3> QED BY <1>1, <1>3, <2>4, <2>8, <2>9, <3>1, <3>2 DEF AnswersTrue
  <2>14. AccessesCounted' BY <1>1 DEF AnswersInv, AccessesCounted, Served
  <2> QED BY <2>5, <2>7, <2>10, <2>12, <2>13, <2>14 DEF AnswersInv
<1> QED BY <1>2, <1>3 DEF F!Resolve

LEMMA TimeOutKeepsAnswers ==
    ASSUME AnswersInv, NEW c \in F!Client, F!TimeOut(c)
    PROVE  AnswersInv'
<1>1. UNCHANGED <<requests, handling, replies, seq, version, accesses, ran, manifest>>
  BY DEF F!TimeOut, F!registryVars, F!serverVars
<1>2. F!Fail(c, pending[c].server, "timeout") /\ pending' = [pending EXCEPT ![c] = NoCall]
  BY DEF F!TimeOut
<1> QED BY <1>1, <1>2, FailKeepsAnswers

\* The call of c waits now.
LEMMA AwaitKeeps ==
    ASSUME AnswersInv, NEW c \in F!Client, pending[c] # NoCall, pending[c].stage = "sending",
           pending' = [pending EXCEPT ![c].stage = "waiting"],
           UNCHANGED <<handling, replies, seq, version, accesses, ran, answer, manifest>>
    PROVE  /\ pending' \in [F!Client -> F!Calls \cup {NoCall}]
           /\ \A d \in F!Client : d # c => pending'[d] = pending[d]
           /\ pending'[c].stage = "waiting" /\ pending'[c].server = pending[c].server
           /\ pending'[c].addr = pending[c].addr /\ pending'[c].since = pending[c].since
           /\ RepliesTrue' /\ AccessesCounted'
<1>1. pending \in [F!Client -> F!Calls \cup {NoCall}] /\ pending[c] \in F!Calls
  BY DEF AnswersInv, FederationTypes
<1>2. /\ pending' \in [F!Client -> F!Calls \cup {NoCall}]
      /\ \A d \in F!Client : d # c => pending'[d] = pending[d]
      /\ pending'[c].stage = "waiting" /\ pending'[c].server = pending[c].server
      /\ pending'[c].addr = pending[c].addr /\ pending'[c].since = pending[c].since
  BY <1>1 DEF F!Calls
<1>3. ASSUME NEW r \in Replies, ReplyTrue(r) PROVE ReplyTrue(r)'
  <2>1. r.to \in F!Client BY DEF Replies
  <2>2. pending'[r.to] # NoCall =>
          /\ pending[r.to] # NoCall /\ pending'[r.to].server = pending[r.to].server
          /\ pending'[r.to].since = pending[r.to].since
    BY <1>2, <2>1
  <2> QED BY <1>3, <2>2 DEF ReplyTrue, Logged
<1>4. RepliesTrue'
  <2>1. \A i \in Instance : handling[i] # NoCall => handling[i] \in Replies /\ ReplyTrue(handling[i])
    BY DEF AnswersInv, FederationTypes, RepliesTrue
  <2>2. \A d \in F!Client : \A e \in 1..Len(replies[d]) :
          replies[d][e] \in Replies /\ replies[d][e].to = d /\ ReplyTrue(replies[d][e])
    BY ElementOfSeq DEF AnswersInv, FederationTypes, RepliesTrue
  <2> QED BY <1>3, <2>1, <2>2 DEF RepliesTrue
<1>5. AccessesCounted' BY DEF AnswersInv, AccessesCounted, Served
<1> QED BY <1>2, <1>4, <1>5

LEMMA SendKeepsAnswers ==
    ASSUME AnswersInv, NEW c \in F!Client, F!Send(c)
    PROVE  AnswersInv'
<1> DEFINE i0 == pending[c].addr
           req == [client |-> c, id |-> seq[c], tool |-> pending[c].tool,
                   requester |-> pending[c].requester]
<1>1. /\ pending[c] # NoCall /\ pending[c].stage = "sending"
      /\ UNCHANGED <<handling, replies, seq, version, accesses, ran, manifest>>
      /\ \/ /\ pending' = [pending EXCEPT ![c].stage = "waiting"] /\ UNCHANGED answer
            /\ \/ requests' = [requests EXCEPT ![i0] = Append(requests[i0], req)]
               \/ UNCHANGED requests
         \/ /\ F!Fail(c, pending[c].server, "unreachable")
            /\ pending' = [pending EXCEPT ![c] = NoCall] /\ UNCHANGED requests
  BY DEF F!Send, F!registryVars
<1>2. /\ pending \in [F!Client -> F!Calls \cup {NoCall}] /\ pending[c] \in F!Calls
      /\ requests \in [Instance -> Seq(Requests)] /\ seq \in [F!Client -> 0..MaxCalls]
      /\ i0 \in Instance
  BY <1>1 DEF AnswersInv, FederationTypes, F!Calls
<1>3. Unserved(c) /\ NameOf[i0] = pending[c].server
  BY <1>1 DEF AnswersInv, CallsSound
<1>4. CASE F!Fail(c, pending[c].server, "unreachable")
           /\ pending' = [pending EXCEPT ![c] = NoCall] /\ UNCHANGED requests
  BY <1>1, <1>3, <1>4, FailKeepsAnswers
<1>5. ASSUME pending' = [pending EXCEPT ![c].stage = "waiting"], UNCHANGED answer
      PROVE  /\ pending' \in [F!Client -> F!Calls \cup {NoCall}]
             /\ \A d \in F!Client : d # c => pending'[d] = pending[d]
             /\ pending'[c].stage = "waiting" /\ pending'[c].server = pending[c].server
             /\ pending'[c].addr = pending[c].addr /\ pending'[c].since = pending[c].since
             /\ RepliesTrue' /\ AccessesCounted'
  BY <1>1, <1>5, AwaitKeeps
<1>6. ASSUME pending' = [pending EXCEPT ![c].stage = "waiting"], UNCHANGED answer,
             requests' \in [Instance -> Seq(Requests)],
             \A j \in Instance, e \in Nat, d \in F!Client, k \in 1..MaxCalls :
               Queued(j, e, d, k)' =>
                 \/ Queued(j, e, d, k)
                 \/ j = i0 /\ e = Len(requests[i0]) + 1 /\ d = c /\ k = seq[c]
      PROVE  AnswersInv'
  <2>1. FederationTypes' BY <1>1, <1>5, <1>6 DEF AnswersInv, FederationTypes
  <2>2. \A j \in Instance, e \in Nat : ~Queued(j, e, c, seq[c]) BY <1>3 DEF Unserved
  <2>3. ran[c][seq[c]] = <<>> /\ seq[c] \in 1..MaxCalls BY <1>3 DEF Unserved
  <2>4. RequestsOnce'
    <3>1. RequestsOnce BY DEF AnswersInv
    <3>2. \A j, m \in Instance, e, f \in Nat, d \in F!Client, k \in 1..MaxCalls :
            Queued(j, e, d, k)' /\ Queued(m, f, d, k)' => j = m /\ e = f
      <4> SUFFICES ASSUME NEW j \in Instance, NEW m \in Instance, NEW e \in Nat, NEW f \in Nat,
                          NEW d \in F!Client, NEW k \in 1..MaxCalls,
                          Queued(j, e, d, k)', Queued(m, f, d, k)'
                   PROVE  j = m /\ e = f
        OBVIOUS
      <4>1. CASE d = c /\ k = seq[c] BY <1>6, <2>2, <4>1
      <4>2. CASE ~(d = c /\ k = seq[c])
        <5>1. Queued(j, e, d, k) /\ Queued(m, f, d, k) BY <1>6, <4>2
        <5> QED BY <3>1, <5>1 DEF RequestsOnce
      <4> QED BY <4>1, <4>2
    <3>3. \A j \in Instance, e \in Nat, d \in F!Client, k \in 1..MaxCalls :
            Queued(j, e, d, k)' => ran'[d][k] = <<>> /\ k <= seq'[d]
      <4> SUFFICES ASSUME NEW j \in Instance, NEW e \in Nat, NEW d \in F!Client,
                          NEW k \in 1..MaxCalls, Queued(j, e, d, k)'
                   PROVE  ran[d][k] = <<>> /\ k <= seq[d]
        BY <1>1
      <4>1. CASE d = c /\ k = seq[c] BY <2>3, <4>1
      <4>2. CASE ~(d = c /\ k = seq[c])
        <5>1. Queued(j, e, d, k) BY <1>6, <4>2
        <5> QED BY <3>1, <5>1 DEF RequestsOnce
      <4> QED BY <4>1, <4>2
    <3>4. \A d \in F!Client, k \in 1..MaxCalls :
            ran'[d][k] = <<>> \/ (k <= seq'[d] /\ \E j \in Instance : ran'[d][k] = <<j>>)
      BY <1>1, <3>1 DEF RequestsOnce
    <3> QED BY <3>2, <3>3, <3>4, Zenon DEF RequestsOnce
  <2>5. ASSUME NEW d \in F!Client, d # c PROVE Unserved(d) => Unserved(d)'
    <3> SUFFICES ASSUME Unserved(d) PROVE Unserved(d)' OBVIOUS
    <3>1. seq[d] \in 1..MaxCalls /\ ran[d][seq[d]] = <<>>
          /\ \A j \in Instance, e \in Nat : ~Queued(j, e, d, seq[d])
      BY DEF Unserved
    <3>2. \A j \in Instance, e \in Nat : ~Queued(j, e, d, seq[d])'
      <4>1. \A k : k = seq[d] => \A j \in Instance, e \in Nat : ~Queued(j, e, d, k)'
        BY <1>6, <2>5, <3>1
      <4> QED BY <1>1, <4>1 DEF Queued
    <3> QED BY <1>1, <3>1, <3>2 DEF Unserved
  <2>6. CallsSound'
    <3> SUFFICES ASSUME NEW d \in F!Client, pending'[d] # NoCall
                 PROVE  /\ NameOf[pending'[d].addr] = pending'[d].server
                        /\ pending'[d].stage = "sending" => Unserved(d)'
                        /\ pending'[d].since <= IF pending'[d].server \in Workspaces
                                                THEN version'[pending'[d].server] ELSE 0
                        /\ \A j \in Instance, e \in Nat :
                             Queued(j, e, d, seq[d])' => NameOf[j] = pending'[d].server
      BY DEF CallsSound
    <3>1. pending[d] # NoCall BY <1>1, <1>5, <1>6
    <3>2. /\ NameOf[pending[d].addr] = pending[d].server
          /\ pending[d].stage = "sending" => Unserved(d)
          /\ pending[d].since <= IF pending[d].server \in Workspaces
                                 THEN version[pending[d].server] ELSE 0
          /\ \A j \in Instance, e \in Nat :
               Queued(j, e, d, seq[d]) => NameOf[j] = pending[d].server
      BY <3>1 DEF AnswersInv, CallsSound
    <3>3. /\ pending'[d].server = pending[d].server /\ pending'[d].addr = pending[d].addr
          /\ pending'[d].since = pending[d].since
          /\ pending'[d].stage = "sending" => d # c /\ pending[d].stage = "sending"
      BY <1>5, <1>6
    <3>4. \A j \in Instance, e \in Nat :
            Queued(j, e, d, seq[d])' => NameOf[j] = pending'[d].server
      <4>1. Unserved(d) => seq[d] \in 1..MaxCalls BY DEF Unserved
      <4>2. \A j \in Instance, e \in Nat, k \in 1..MaxCalls :
              Queued(j, e, d, k)' /\ k = seq[d] => NameOf[j] = pending'[d].server
        BY <1>3, <1>6, <3>2, <3>3
      <4>3. \A j \in Instance, e \in Nat : Queued(j, e, d, seq[d])' => seq[d] \in 1..MaxCalls
        <5> SUFFICES ASSUME NEW j \in Instance, NEW e \in Nat, Queued(j, e, d, seq[d])'
                     PROVE  seq[d] \in 1..MaxCalls
          OBVIOUS
        <5>1. e \in 1..Len(requests'[j]) /\ requests'[j][e].id = seq[d]
          BY <1>1 DEF Queued
        <5>2. requests'[j][e] \in Requests BY <1>6, <5>1, ElementOfSeq
        <5> QED BY <5>1, <5>2 DEF Requests
      <4>4. \A j \in Instance, e \in Nat, k \in 1..MaxCalls :
              Queued(j, e, d, seq[d])' /\ k = seq[d] => Queued(j, e, d, k)'
        BY <1>1 DEF Queued
      <4> QED BY <4>2, <4>3, <4>4
    <3> QED BY <1>1, <2>5, <3>2, <3>3, <3>4
  <2>7. AnswersTrue'
    <3>1. \A j, d : Logged(j, d)' = Logged(j, d) BY <1>1 DEF Logged
    <3>2. pending'[c] # NoCall
      <4>1. pending' = [pending EXCEPT ![c] = [pending[c] EXCEPT !.stage = "waiting"]] BY <1>6
      <4>2. [pending[c] EXCEPT !.stage = "waiting"] \in F!Calls BY <1>2 DEF F!Calls
      <4> QED BY <1>2, <4>1, <4>2, FederationFacts
    <3>3. AnswersTrue BY DEF AnswersInv
    <3>4. \A d \in F!Client : pending'[d] = NoCall => d # c /\ pending[d] = NoCall
      BY <1>5, <1>6, <3>2
    <3> QED BY <1>1, <1>6, <2>5, <3>1, <3>3, <3>4 DEF AnswersTrue
  <2> QED BY <1>5, <1>6, <2>1, <2>4, <2>6, <2>7 DEF AnswersInv
<1>7. CASE pending' = [pending EXCEPT ![c].stage = "waiting"] /\ UNCHANGED answer
           /\ UNCHANGED requests
  <2>1. \A j \in Instance, e \in Nat, d \in F!Client, k \in 1..MaxCalls :
          Queued(j, e, d, k)' => Queued(j, e, d, k)
    BY <1>7 DEF Queued
  <2> QED BY <1>2, <1>6, <1>7, <2>1
<1>8. CASE pending' = [pending EXCEPT ![c].stage = "waiting"] /\ UNCHANGED answer
           /\ requests' = [requests EXCEPT ![i0] = Append(requests[i0], req)]
  <2>1. req \in Requests /\ req.client = c /\ req.id = seq[c]
    BY <1>2, <1>3 DEF Requests, F!Calls, Unserved
  <2> HIDE DEF req, i0
  <2>2. /\ Append(requests[i0], req) \in Seq(Requests) /\ Len(requests[i0]) \in Nat
        /\ Len(Append(requests[i0], req)) = Len(requests[i0]) + 1
        /\ Append(requests[i0], req)[Len(requests[i0]) + 1] = req
        /\ \A e \in 1..Len(requests[i0]) : Append(requests[i0], req)[e] = requests[i0][e]
    BY <1>2, <2>1, AppendProperties
  <2>3. /\ requests' \in [Instance -> Seq(Requests)]
        /\ requests'[i0] = Append(requests[i0], req)
        /\ \A j \in Instance : j # i0 => requests'[j] = requests[j]
    BY <1>2, <1>8, <2>2
  <2>4. ASSUME NEW j \in Instance, NEW e \in Nat, NEW d \in F!Client, NEW k \in 1..MaxCalls,
               Queued(j, e, d, k)'
        PROVE  \/ Queued(j, e, d, k)
               \/ j = i0 /\ e = Len(requests[i0]) + 1 /\ d = c /\ k = seq[c]
    <3>1. e \in 1..Len(requests'[j]) /\ requests'[j][e].client = d /\ requests'[j][e].id = k
      BY <2>4 DEF Queued
    <3>2. CASE j # i0 BY <2>3, <3>1, <3>2 DEF Queued
    <3>3. CASE j = i0 /\ e \in 1..Len(requests[i0]) BY <2>2, <2>3, <3>1, <3>3 DEF Queued
    <3>4. CASE j = i0 /\ e \notin 1..Len(requests[i0])
      <4>1. e = Len(requests[i0]) + 1 BY <2>2, <2>3, <3>1, <3>4
      <4> QED BY <2>1, <2>2, <2>3, <3>1, <3>4, <4>1
    <3> QED BY <3>2, <3>3, <3>4
  <2>5. \A j \in Instance, e \in Nat, d \in F!Client, k \in 1..MaxCalls :
          Queued(j, e, d, k)' =>
            \/ Queued(j, e, d, k)
            \/ j = i0 /\ e = Len(requests[i0]) + 1 /\ d = c /\ k = seq[c]
    BY <2>4
  <2> QED BY <1>6, <1>8, <2>3, <2>5
<1> QED BY <1>1, <1>4, <1>7, <1>8

LEMMA HeadAndTail ==
    ASSUME NEW S, NEW s \in Seq(S), s # <<>>
    PROVE  /\ 1 \in 1..Len(s) /\ Head(s) = s[1] /\ Head(s) \in S /\ Tail(s) \in Seq(S)
           /\ Len(Tail(s)) \in Nat
           /\ \A e \in 1..Len(Tail(s)) : e + 1 \in 1..Len(s) /\ Tail(s)[e] = s[e + 1]
<1>1. Len(s) \in Nat /\ Len(s) # 0 BY EmptySeq
<1>2. Tail(s) \in Seq(S) /\ Len(Tail(s)) = Len(s) - 1 OBVIOUS
<1>3. \A e \in 1..Len(Tail(s)) : Tail(s)[e] = s[e + 1] OBVIOUS
<1>4. Head(s) = s[1] OBVIOUS
<1>5. 1 \in 1..Len(s) BY <1>1
<1>6. s[1] \in S BY <1>5, ElementOfSeq
<1> QED BY <1>1, <1>2, <1>3, <1>4, <1>5, <1>6

\* A reply is taken: it is the answer if it carries the number of the call.
LEMMA ReceiveKeepsAnswers ==
    ASSUME AnswersInv, NEW c \in F!Client, F!Receive(c)
    PROVE  AnswersInv'
<1> DEFINE resp == Head(replies[c])
<1>1. /\ pending[c] # NoCall /\ pending[c].stage = "waiting" /\ replies[c] # <<>>
      /\ replies' = [replies EXCEPT ![c] = Tail(replies[c])]
      /\ UNCHANGED <<requests, handling, seq, version, accesses, ran, manifest>>
      /\ \/ /\ resp.id = seq[c]
            /\ answer' = [answer EXCEPT ![c] =
                            [kind |-> resp.kind, id |-> seq[c],
                             server |-> pending[c].server, by |-> resp.by,
                             version |-> resp.version, since |-> pending[c].since]]
            /\ pending' = [pending EXCEPT ![c] = NoCall]
         \/ UNCHANGED <<answer, pending>>
  BY DEF F!Receive, F!Matches, F!registryVars, F!serverVars
<1>2. /\ pending \in [F!Client -> F!Calls \cup {NoCall}] /\ pending[c] \in F!Calls
      /\ replies \in [F!Client -> Seq(Replies)] /\ replies[c] \in Seq(Replies)
      /\ seq \in [F!Client -> 0..MaxCalls] /\ DOMAIN answer = F!Client
  BY <1>1 DEF AnswersInv, FederationTypes
<1>3. /\ 1 \in 1..Len(replies[c]) /\ resp = replies[c][1] /\ resp \in Replies
      /\ Tail(replies[c]) \in Seq(Replies)
      /\ \A e \in 1..Len(Tail(replies[c])) :
           e + 1 \in 1..Len(replies[c]) /\ Tail(replies[c])[e] = replies[c][e + 1]
  BY <1>1, <1>2, HeadAndTail
<1>4. resp.to = c /\ ReplyTrue(resp) BY <1>3 DEF AnswersInv, RepliesTrue
<1> HIDE DEF resp
<1>5. /\ replies' \in [F!Client -> Seq(Replies)] /\ replies'[c] = Tail(replies[c])
      /\ \A d \in F!Client : d # c => replies'[d] = replies[d]
  BY <1>1, <1>2, <1>3
<1>6. /\ pending' \in [F!Client -> F!Calls \cup {NoCall}]
      /\ \A d \in F!Client : pending'[d] = pending[d] \/ pending'[d] = NoCall
      /\ \A d \in F!Client : d # c => pending'[d] = pending[d]
      /\ DOMAIN answer' = F!Client
      /\ \A d \in F!Client : d # c => answer'[d] = answer[d]
  BY <1>1, <1>2
<1>7. FederationTypes' BY <1>1, <1>5, <1>6 DEF AnswersInv, FederationTypes
<1>8. RequestsOnce' BY <1>1, OnceStays DEF AnswersInv
<1>9. \A d : Unserved(d)' = Unserved(d) BY <1>1 DEF Unserved, Queued
<1>10. CallsSound' BY <1>1, <1>6, <1>9 DEF AnswersInv, CallsSound, Queued
<1>11. ASSUME NEW r \in Replies, ReplyTrue(r) PROVE ReplyTrue(r)'
  <2>1. r.to \in F!Client BY DEF Replies
  <2>2. pending'[r.to] # NoCall => pending'[r.to] = pending[r.to] BY <1>6, <2>1
  <2> QED BY <1>1, <1>11, <2>2 DEF ReplyTrue, Logged
<1>12. RepliesTrue'
  <2>1. \A i \in Instance : handling[i] # NoCall => handling[i] \in Replies /\ ReplyTrue(handling[i])
    BY DEF AnswersInv, FederationTypes, RepliesTrue
  <2>2. \A d \in F!Client : \A e \in 1..Len(replies[d]) :
          replies[d][e] \in Replies /\ replies[d][e].to = d /\ ReplyTrue(replies[d][e])
    BY ElementOfSeq DEF AnswersInv, FederationTypes, RepliesTrue
  <2>3. \A d \in F!Client : \A e \in 1..Len(replies'[d]) :
          replies'[d][e] \in Replies /\ replies'[d][e].to = d /\ ReplyTrue(replies'[d][e])
    <3> SUFFICES ASSUME NEW d \in F!Client, NEW e \in 1..Len(replies'[d])
                 PROVE  \E f \in 1..Len(replies[d]) : replies'[d][e] = replies[d][f]
      BY <2>2
    <3>1. CASE d # c BY <1>5, <3>1
    <3>2. CASE d = c BY <1>3, <1>5, <3>2
    <3> QED BY <3>1, <3>2
  <2>5. ASSUME NEW d \in F!Client, NEW e \in 1..Len(replies'[d])
        PROVE  replies'[d][e].to = d /\ ReplyTrue(replies[d][e])'
    <3>1. PICK r : r = replies'[d][e] OBVIOUS
    <3>2. r.to = d /\ ReplyTrue(r)' BY <1>11, <2>3, <3>1
    <3> QED BY <3>1, <3>2 DEF ReplyTrue, Logged
  <2>6. \A i \in Instance : handling'[i] # NoCall => ReplyTrue(handling[i])'
    <3>1. \A i \in Instance : handling[i] # NoCall =>
            (\A r : r = handling[i] => ReplyTrue(r)')
      BY <1>11, <2>1
    <3> QED BY <1>1, <3>1 DEF ReplyTrue, Logged
  <2> QED BY <2>5, <2>6 DEF RepliesTrue
<1>13. \A i, d : Logged(i, d)' = Logged(i, d) BY <1>1 DEF Logged
<1>14. AnswersTrue'
  <2>1. AnswersTrue BY DEF AnswersInv
  <2>2. CASE UNCHANGED <<answer, pending>> BY <1>1, <1>9, <1>13, <2>1, <2>2 DEF AnswersTrue
  <2>3. CASE /\ resp.id = seq[c]
             /\ answer' = [answer EXCEPT ![c] =
                             [kind |-> resp.kind, id |-> seq[c],
                              server |-> pending[c].server, by |-> resp.by,
                              version |-> resp.version, since |-> pending[c].since]]
    <3>1. /\ answer'[c].kind = resp.kind /\ answer'[c].id = seq[c]
          /\ answer'[c].server = pending[c].server /\ answer'[c].by = resp.by
          /\ answer'[c].version = resp.version /\ answer'[c].since = pending[c].since
      BY <1>2, <2>3
    <3>2. resp.id \in 1..MaxCalls /\ resp.by \in Instance
          /\ resp.kind \in {"result", "error", "denied"}
      BY <1>3 DEF Replies
    <3>3. resp.kind \in {"result", "denied"} =>
            /\ ran[c][seq[c]] = <<resp.by>> /\ NameOf[resp.by] = pending[c].server
            /\ resp.kind = "result" => pending[c].since <= resp.version
            /\ resp.kind = "result" /\ NameOf[resp.by] \in Workspaces => Logged(resp.by, c)
      BY <1>1, <1>4, <2>3 DEF ReplyTrue
    <3>4. ASSUME NEW d \in F!Client, answer'[d] # NoCall
          PROVE  LET a == answer'[d]
                 IN  /\ a.kind \in {"result", "denied"} =>
                          /\ a.id \in 1..MaxCalls /\ a.by \in Instance
                          /\ ran[d][a.id] = <<a.by>> /\ NameOf[a.by] = a.server
                          /\ a.kind = "result" => a.since <= a.version
                          /\ a.kind = "result" /\ NameOf[a.by] \in Workspaces => Logged(a.by, d)
                     /\ a.kind = "unreachable" /\ pending'[d] = NoCall => Unserved(d)
      <4>1. CASE d = c BY <2>3, <3>1, <3>2, <3>3, <4>1
      <4>2. CASE d # c BY <1>6, <2>1, <3>4, <4>2 DEF AnswersTrue
      <4> QED BY <4>1, <4>2
    <3> QED BY <1>1, <1>9, <1>13, <3>4 DEF AnswersTrue, Logged
  <2> QED BY <1>1, <2>2, <2>3
<1>15. AccessesCounted' BY <1>1 DEF AnswersInv, AccessesCounted, Served
<1> QED BY <1>7, <1>8, <1>10, <1>12, <1>14, <1>15 DEF AnswersInv

\* The reply goes out, and arrives or is lost.
LEMMA ReplyKeepsAnswers ==
    ASSUME AnswersInv, NEW i \in Instance, F!Reply(i)
    PROVE  AnswersInv'
<1> DEFINE resp == handling[i]
<1>1. /\ resp # NoCall /\ handling' = [handling EXCEPT ![i] = NoCall]
      /\ \/ replies' = [replies EXCEPT ![resp.to] = Append(replies[resp.to], resp)]
         \/ UNCHANGED replies
      /\ UNCHANGED <<requests, seq, pending, answer, version, accesses, ran, manifest>>
  BY DEF F!Reply, F!registryVars
<1>2. /\ handling \in [Instance -> Replies \cup {NoCall}]
      /\ replies \in [F!Client -> Seq(Replies)] /\ resp \in Replies /\ ReplyTrue(resp)
  BY <1>1 DEF AnswersInv, FederationTypes, RepliesTrue
<1>3. resp.to \in F!Client BY <1>2 DEF Replies
<1> HIDE DEF resp
<1>4. /\ handling' \in [Instance -> Replies \cup {NoCall}]
      /\ \A j \in Instance : handling'[j] = handling[j] \/ handling'[j] = NoCall
  BY <1>1, <1>2
<1>5. /\ Append(replies[resp.to], resp) \in Seq(Replies)
      /\ \A e \in 1..Len(Append(replies[resp.to], resp)) :
           \/ e \in 1..Len(replies[resp.to])
              /\ Append(replies[resp.to], resp)[e] = replies[resp.to][e]
           \/ Append(replies[resp.to], resp)[e] = resp
  <2>1. replies[resp.to] \in Seq(Replies) BY <1>2, <1>3
  <2>2. /\ Append(replies[resp.to], resp) \in Seq(Replies) /\ Len(replies[resp.to]) \in Nat
        /\ Len(Append(replies[resp.to], resp)) = Len(replies[resp.to]) + 1
        /\ Append(replies[resp.to], resp)[Len(replies[resp.to]) + 1] = resp
        /\ \A e \in 1..Len(replies[resp.to]) :
             Append(replies[resp.to], resp)[e] = replies[resp.to][e]
    BY <1>2, <2>1, AppendProperties
  <2>3. ASSUME NEW n \in Nat, NEW e \in 1..(n + 1) PROVE e \in 1..n \/ e = n + 1 OBVIOUS
  <2> QED BY <2>2, <2>3
<1>6. /\ replies' \in [F!Client -> Seq(Replies)]
      /\ \A d \in F!Client : \A e \in 1..Len(replies'[d]) :
           \/ e \in 1..Len(replies[d]) /\ replies'[d][e] = replies[d][e]
           \/ d = resp.to /\ replies'[d][e] = resp
  <2>1. CASE UNCHANGED replies BY <1>2, <2>1
  <2>2. CASE replies' = [replies EXCEPT ![resp.to] = Append(replies[resp.to], resp)]
    BY <1>2, <1>3, <1>5, <2>2
  <2> QED BY <1>1, <2>1, <2>2
<1>7. FederationTypes' BY <1>1, <1>4, <1>6 DEF AnswersInv, FederationTypes
<1>8. RequestsOnce' /\ CallsSound' /\ AnswersTrue' /\ AccessesCounted'
  <2>1. RequestsOnce' BY <1>1, OnceStays DEF AnswersInv
  <2>2. \A d : Unserved(d)' = Unserved(d) BY <1>1 DEF Unserved, Queued
  <2>3. CallsSound' BY <1>1, <2>2 DEF AnswersInv, CallsSound, Queued
  <2>4. \A j, d : Logged(j, d)' = Logged(j, d) BY <1>1 DEF Logged
  <2>5. AnswersTrue' BY <1>1, <2>2, <2>4 DEF AnswersInv, AnswersTrue
  <2>6. AccessesCounted' BY <1>1 DEF AnswersInv, AccessesCounted, Served
  <2> QED BY <2>1, <2>3, <2>5, <2>6
<1>10. RepliesTrue'
  <2>1. \A j \in Instance : handling'[j] # NoCall => ReplyTrue(handling[j])'
    <3>1. \A j \in Instance : handling'[j] # NoCall => ReplyTrue(handling'[j])
      BY <1>4 DEF AnswersInv, RepliesTrue
    <3> QED BY <1>1, <3>1 DEF ReplyTrue, Logged
  <2>2. \A d \in F!Client : \A e \in 1..Len(replies'[d]) :
          replies'[d][e].to = d /\ ReplyTrue(replies'[d][e])
    BY <1>2, <1>6 DEF AnswersInv, RepliesTrue
  <2>3. ASSUME NEW d \in F!Client, NEW e \in 1..Len(replies'[d])
        PROVE  replies'[d][e].to = d /\ ReplyTrue(replies[d][e])'
    <3>1. PICK r : r = replies'[d][e] OBVIOUS
    <3>2. r.to = d /\ ReplyTrue(r) BY <2>2, <3>1
    <3> QED BY <1>1, <3>1, <3>2 DEF ReplyTrue, Logged
  <2> QED BY <2>1, <2>3 DEF RepliesTrue
<1> QED BY <1>7, <1>8, <1>10 DEF AnswersInv

\* What Handle does: the first request of i, the k-th of c, is taken and resp is
\* made; it may run, and at a workspace it does and is logged.
Taken(i, c, k, resp) ==
    /\ c \in F!Client /\ k \in 1..MaxCalls /\ resp \in Replies
    /\ resp.to = c /\ resp.id = k /\ resp.by = i
    /\ Queued(i, 1, c, k)
    /\ handling' = [handling EXCEPT ![i] = resp]
    /\ requests' \in [Instance -> Seq(Requests)]
    /\ \A j \in Instance, e \in Nat, d \in F!Client, m \in 1..MaxCalls :
         Queued(j, e, d, m)' =>
           /\ j = i => Queued(i, e + 1, d, m)
           /\ j # i => Queued(j, e, d, m)
    /\ ran' \in [F!Client -> [1..MaxCalls -> Seq(Instance)]]
    /\ \A d \in F!Client, m \in 1..MaxCalls : d # c \/ m # k => ran'[d][m] = ran[d][m]
    /\ ran'[c][k] \in {<<>>, <<i>>}
    /\ resp.kind # "error" \/ NameOf[i] \in Workspaces => ran'[c][k] = <<i>>
    /\ accesses' \in [Instance -> Seq(Entries)]
    /\ \A j \in Instance : j # i \/ NameOf[i] \notin Workspaces => accesses'[j] = accesses[j]
    /\ NameOf[i] \in Workspaces =>
         /\ Len(accesses'[i]) = Len(accesses[i]) + 1
         /\ \A e \in 1..Len(accesses[i]) : accesses'[i][e] = accesses[i][e]
         /\ resp.kind = "result" =>
              /\ accesses'[i][Len(accesses[i]) + 1].granted
              /\ accesses'[i][Len(accesses[i]) + 1].watcher \in Allow
              /\ NameOf[i] \in Trusting => accesses'[i][Len(accesses[i]) + 1].watcher = c
    /\ resp.kind = "result" =>
         resp.version = IF NameOf[i] \in Workspaces THEN version[NameOf[i]] ELSE 0
    /\ UNCHANGED <<seq, pending, answer, replies, version, manifest>>

LEMMA HandleTakes ==
    ASSUME AnswersInv, NEW i \in Instance, F!Handle(i)
    PROVE  \E c, k, resp : Taken(i, c, k, resp)
<1> DEFINE req == Head(requests[i])
<1>1. /\ requests[i] # <<>> /\ requests' = [requests EXCEPT ![i] = Tail(requests[i])]
      /\ NameOf[i] \in Workspaces => F!HandleRequest(i, req)
      /\ NameOf[i] \notin Workspaces => F!RunTool(i, req)
      /\ UNCHANGED <<seq, pending, answer, replies, version, manifest>>
  BY DEF F!Handle, F!registryVars, F!clientVars
<1>2. /\ requests \in [Instance -> Seq(Requests)] /\ requests[i] \in Seq(Requests)
      /\ ran \in [F!Client -> [1..MaxCalls -> Seq(Instance)]]
      /\ accesses \in [Instance -> Seq(Entries)] /\ accesses[i] \in Seq(Entries)
      /\ version \in [Workspaces -> Nat]
  BY DEF AnswersInv, FederationTypes
<1>3. /\ 1 \in 1..Len(requests[i]) /\ req = requests[i][1] /\ req \in Requests
      /\ Tail(requests[i]) \in Seq(Requests) /\ Len(Tail(requests[i])) \in Nat
      /\ \A e \in 1..Len(Tail(requests[i])) :
           e + 1 \in 1..Len(requests[i]) /\ Tail(requests[i])[e] = requests[i][e + 1]
  BY <1>1, <1>2, HeadAndTail
<1> HIDE DEF req
<1> DEFINE c == req.client
           k == req.id
<1>4. /\ c \in F!Client /\ k \in 1..MaxCalls /\ Queued(i, 1, c, k)
      /\ req.requester \in Ids \cup Gateways
  BY <1>3 DEF Requests, Queued
<1>5. ran[c][k] = <<>> BY <1>4 DEF AnswersInv, RequestsOnce
<1>6. /\ requests' \in [Instance -> Seq(Requests)] /\ requests'[i] = Tail(requests[i])
      /\ \A j \in Instance : j # i => requests'[j] = requests[j]
  BY <1>1, <1>2, <1>3
<1>7. ASSUME NEW j \in Instance, NEW e \in Nat, NEW d \in F!Client, NEW m \in 1..MaxCalls,
             Queued(j, e, d, m)'
      PROVE  /\ j = i => Queued(i, e + 1, d, m)
             /\ j # i => Queued(j, e, d, m)
  <2>1. e \in 1..Len(requests'[j]) /\ requests'[j][e].client = d /\ requests'[j][e].id = m
    BY <1>7 DEF Queued
  <2>2. CASE j # i BY <1>6, <2>1, <2>2 DEF Queued
  <2>3. CASE j = i BY <1>3, <1>6, <2>1, <2>3 DEF Queued
  <2> QED BY <2>2, <2>3
<1> DEFINE run == [ran EXCEPT ![c][k] = <<i>>]
<1>8. /\ [ran EXCEPT ![c][k] = Append(ran[c][k], i)] = run
      /\ run \in [F!Client -> [1..MaxCalls -> Seq(Instance)]] /\ run[c][k] = <<i>>
      /\ \A d \in F!Client, m \in 1..MaxCalls : d # c \/ m # k => run[d][m] = ran[d][m]
  <2>1. Append(ran[c][k], i) = <<i>> BY <1>5, RunFacts
  <2>2. <<i>> \in Seq(Instance) BY RunFacts
  <2> QED BY <1>2, <1>4, <2>1, <2>2
<1> HIDE DEF run, c, k
<1>9. CASE NameOf[i] \in Workspaces
  <2> DEFINE n == NameOf[i]
             effective == F!Effective(i, req)
             granted == effective \in Allow
             kind == IF ~granted THEN "denied"
                     ELSE IF req.tool = "get_status" THEN "result" ELSE "error"
             entry == [watcher |-> effective, granted |-> granted]
             resp == [to |-> c, id |-> k, kind |-> kind, by |-> i,
                      version |-> IF kind = "result" THEN version[n] ELSE 0]
  <2>1. /\ accesses' = [accesses EXCEPT ![i] = Append(accesses[i], entry)]
        /\ handling' = [handling EXCEPT ![i] = resp] /\ ran' = run
    BY <1>1, <1>8, <1>9 DEF F!HandleRequest, c, k
  <2>2. /\ effective \in F!Client \cup Ids
        /\ n \in Trusting => effective = c
    <3>1. req.requester \in Ids \cup F!Client BY <1>4 DEF F!Client
    <3> QED BY <1>4, <3>1 DEF F!Effective, c
  <2>3. resp \in Replies /\ (resp.kind = "result" => resp.version = version[n])
    <3>1. version[n] \in Nat BY <1>2, <1>9
    <3> QED BY <1>4, <3>1 DEF Replies
  <2>4. entry \in Entries BY <2>2 DEF Entries
  <2>5. /\ entry.watcher = effective /\ entry.granted = granted
        /\ resp.kind = "result" => granted
        /\ resp.to = c /\ resp.id = k /\ resp.by = i
    OBVIOUS
  <2>6. granted => effective \in Allow OBVIOUS
  <2> HIDE DEF entry, resp, granted, effective, n
  <2>7. /\ Append(accesses[i], entry) \in Seq(Entries) /\ Len(accesses[i]) \in Nat
        /\ Len(Append(accesses[i], entry)) = Len(accesses[i]) + 1
        /\ Append(accesses[i], entry)[Len(accesses[i]) + 1] = entry
        /\ \A e \in 1..Len(accesses[i]) : Append(accesses[i], entry)[e] = accesses[i][e]
    BY <1>2, <2>4, AppendProperties
  <2>8. /\ accesses' \in [Instance -> Seq(Entries)]
        /\ accesses'[i] = Append(accesses[i], entry)
        /\ \A j \in Instance : j # i => accesses'[j] = accesses[j]
    BY <1>2, <2>1, <2>7
  <2>9. Taken(i, c, k, resp)
    <3>1. n = NameOf[i] BY DEF n
    <3>2. /\ ran' \in [F!Client -> [1..MaxCalls -> Seq(Instance)]]
          /\ \A d \in F!Client, m \in 1..MaxCalls : d # c \/ m # k => ran'[d][m] = ran[d][m]
          /\ ran'[c][k] \in {<<>>, <<i>>}
          /\ resp.kind # "error" \/ NameOf[i] \in Workspaces => ran'[c][k] = <<i>>
      BY <1>8, <2>1
    <3>3. /\ accesses' \in [Instance -> Seq(Entries)]
          /\ \A j \in Instance : j # i \/ NameOf[i] \notin Workspaces => accesses'[j] = accesses[j]
          /\ Len(accesses'[i]) = Len(accesses[i]) + 1
          /\ \A e \in 1..Len(accesses[i]) : accesses'[i][e] = accesses[i][e]
          /\ accesses'[i][Len(accesses[i]) + 1] = entry
      BY <1>9, <2>7, <2>8
    <3>4. resp.kind = "result" =>
            /\ accesses'[i][Len(accesses[i]) + 1].granted
            /\ accesses'[i][Len(accesses[i]) + 1].watcher \in Allow
            /\ NameOf[i] \in Trusting => accesses'[i][Len(accesses[i]) + 1].watcher = c
      BY <2>2, <2>5, <2>6, <3>1, <3>3
    <3>5. resp.kind = "result" =>
            resp.version = IF NameOf[i] \in Workspaces THEN version[NameOf[i]] ELSE 0
      BY <1>9, <2>3, <3>1
    <3>6. \A j \in Instance, e \in Nat, d \in F!Client, m \in 1..MaxCalls :
            Queued(j, e, d, m)' =>
              /\ j = i => Queued(i, e + 1, d, m)
              /\ j # i => Queued(j, e, d, m)
      BY <1>7
    <3> QED BY <1>1, <1>4, <1>6, <2>1, <2>3, <2>5, <3>2, <3>3, <3>4, <3>5, <3>6 DEF Taken
  <2> QED BY <2>9
<1>10. CASE NameOf[i] \notin Workspaces
  <2>1. PICK kind \in {"result", "error"} :
          /\ handling' = [handling EXCEPT ![i] =
                            [to |-> c, id |-> k, kind |-> kind, by |-> i, version |-> 0]]
          /\ kind # "error" => req.tool \in Tools
    BY <1>1, <1>10 DEF F!RunTool, c, k
  <2>2. /\ ran' = IF req.tool \in Tools THEN run ELSE ran
        /\ UNCHANGED accesses
    BY <1>1, <1>8, <1>10 DEF F!RunTool, c, k
  <2> DEFINE resp == [to |-> c, id |-> k, kind |-> kind, by |-> i, version |-> 0]
  <2>3. /\ resp \in Replies /\ resp.to = c /\ resp.id = k /\ resp.by = i
        /\ resp.kind = kind /\ resp.version = 0
    BY <1>4 DEF Replies
  <2>4. handling' = [handling EXCEPT ![i] = resp] BY <2>1
  <2> HIDE DEF resp
  <2>5. Taken(i, c, k, resp)
    BY <1>1, <1>2, <1>4, <1>5, <1>6, <1>7, <1>8, <1>10, <2>1, <2>2, <2>3, <2>4 DEF Taken
  <2> QED BY <2>5
<1> QED BY <1>9, <1>10

\* What held of the other requests still does: (c, k) had not run, and waited
\* nowhere else.
LEMMA TakenLeavesOthers ==
    ASSUME AnswersInv, NEW i \in Instance, NEW c, NEW k, NEW resp, Taken(i, c, k, resp)
    PROVE  /\ c \in F!Client /\ k \in 1..MaxCalls /\ k <= seq[c] /\ ran[c][k] = <<>>
           /\ \A j \in Instance, e \in Nat, d \in F!Client, m \in 1..MaxCalls :
                Queued(j, e, d, m)' =>
                  /\ d # c \/ m # k
                  /\ ran'[d][m] = ran[d][m]
                  /\ \E f \in Nat : Queued(j, f, d, m)
           /\ \A d \in F!Client, m \in 1..MaxCalls : \A j :
                ran[d][m] = <<j>> => ran'[d][m] = <<j>>
           /\ \A d \in F!Client : Unserved(d) => Unserved(d)'
           /\ \A j \in Instance : \A d : Logged(j, d) => Logged(j, d)'
<1>1. /\ c \in F!Client /\ k \in 1..MaxCalls /\ Queued(i, 1, c, k)
      /\ \A d \in F!Client, m \in 1..MaxCalls : d # c \/ m # k => ran'[d][m] = ran[d][m]
      /\ UNCHANGED seq
  BY DEF Taken
<1>2. k <= seq[c] /\ ran[c][k] = <<>> BY <1>1 DEF AnswersInv, RequestsOnce
<1>3. ASSUME NEW j \in Instance, NEW e \in Nat, NEW d \in F!Client, NEW m \in 1..MaxCalls,
             Queued(j, e, d, m)'
      PROVE  /\ d # c \/ m # k
             /\ ran'[d][m] = ran[d][m]
             /\ \E f \in Nat : Queued(j, f, d, m)
  <2>1. /\ j = i => Queued(i, e + 1, d, m)
        /\ j # i => Queued(j, e, d, m)
    BY <1>3 DEF Taken
  <2>2. ASSUME NEW f \in Nat, Queued(j, f, c, k) PROVE j = i /\ f = 1
    <3>1. RequestsOnce BY DEF AnswersInv
    <3> QED BY <1>1, <2>2, <3>1 DEF RequestsOnce
  <2>3. e >= 1
    <3>1. e \in 1..Len(requests'[j]) BY <1>3 DEF Queued
    <3> QED BY <3>1
  <2>4. d # c \/ m # k BY <2>1, <2>2, <2>3
  <2> QED BY <1>1, <2>1, <2>4
<1>4. ASSUME NEW d \in F!Client, NEW m \in 1..MaxCalls, NEW j, ran[d][m] = <<j>>
      PROVE  ran'[d][m] = <<j>>
  BY <1>1, <1>2, <1>4, RunFacts
<1>5. ASSUME NEW d \in F!Client, Unserved(d) PROVE Unserved(d)'
  <2>1. /\ seq[d] \in 1..MaxCalls /\ ran[d][seq[d]] = <<>>
        /\ \A j \in Instance, e \in Nat : ~Queued(j, e, d, seq[d])
    BY <1>5 DEF Unserved
  <2>2. d # c \/ seq[d] # k BY <1>1, <2>1
  <2>3. ran'[d][seq[d]] = <<>> BY <1>1, <2>1, <2>2
  <2>4. \A j \in Instance, e \in Nat, m \in 1..MaxCalls :
          m = seq[d] => ~Queued(j, e, d, m)'
    BY <1>3, <2>1
  <2>5. \A j \in Instance, e \in Nat : ~Queued(j, e, d, seq[d])'
    <3>1. PICK m \in 1..MaxCalls : m = seq[d] BY <2>1
    <3>2. \A j \in Instance, e \in Nat : ~Queued(j, e, d, m)' BY <2>4, <3>1
    <3> QED BY <1>1, <3>1, <3>2 DEF Queued
  <2> QED BY <1>1, <2>1, <2>3, <2>5 DEF Unserved
<1>6. ASSUME NEW j \in Instance, NEW d, Logged(j, d) PROVE Logged(j, d)'
  <2>1. PICK e \in 1..Len(accesses[j]) :
          /\ accesses[j][e].granted /\ accesses[j][e].watcher \in Allow
          /\ NameOf[j] \in Trusting => accesses[j][e].watcher = d
    BY <1>6 DEF Logged
  <2>2. e \in 1..Len(accesses'[j]) /\ accesses'[j][e] = accesses[j][e]
    <3>1. CASE j # i \/ NameOf[i] \notin Workspaces BY <2>1, <3>1 DEF Taken
    <3>2. CASE j = i /\ NameOf[i] \in Workspaces
      <4>1. Len(accesses[i]) \in Nat BY DEF AnswersInv, FederationTypes
      <4>2. /\ Len(accesses'[i]) = Len(accesses[i]) + 1
            /\ \A x \in 1..Len(accesses[i]) : accesses'[i][x] = accesses[i][x]
        BY <3>2 DEF Taken
      <4> QED BY <2>1, <3>2, <4>1, <4>2
    <3> QED BY <3>1, <3>2
  <2> QED BY <2>1, <2>2 DEF Logged
<1> QED BY <1>1, <1>2, <1>3, <1>4, <1>5, <1>6

LEMMA TakenKeepsTypes ==
    ASSUME AnswersInv, NEW i \in Instance, NEW c, NEW k, NEW resp, Taken(i, c, k, resp)
    PROVE  FederationTypes'
<1>1. /\ UNCHANGED <<seq, pending, answer, replies, version, manifest>>
      /\ requests' \in [Instance -> Seq(Requests)]
      /\ accesses' \in [Instance -> Seq(Entries)]
      /\ ran' \in [F!Client -> [1..MaxCalls -> Seq(Instance)]]
      /\ handling' = [handling EXCEPT ![i] = resp] /\ resp \in Replies
  BY DEF Taken
<1>2. handling' \in [Instance -> Replies \cup {NoCall}]
  BY <1>1 DEF AnswersInv, FederationTypes
<1> QED BY <1>1, <1>2 DEF AnswersInv, FederationTypes

LEMMA TakenKeepsOnce ==
    ASSUME AnswersInv, NEW i \in Instance, NEW c, NEW k, NEW resp, Taken(i, c, k, resp)
    PROVE  RequestsOnce'
<1>1. RequestsOnce BY DEF AnswersInv
<1>2. \A j, m \in Instance, e, f \in Nat, d \in F!Client, x \in 1..MaxCalls :
        Queued(j, e, d, x)' /\ Queued(m, f, d, x)' => j = m /\ e = f
  <2> SUFFICES ASSUME NEW j \in Instance, NEW m \in Instance, NEW e \in Nat, NEW f \in Nat,
                      NEW d \in F!Client, NEW x \in 1..MaxCalls,
                      Queued(j, e, d, x)', Queued(m, f, d, x)'
               PROVE  j = m /\ e = f
    OBVIOUS
  <2>1. /\ j = i => Queued(i, e + 1, d, x)
        /\ j # i => Queued(j, e, d, x)
        /\ m = i => Queued(i, f + 1, d, x)
        /\ m # i => Queued(m, f, d, x)
    BY DEF Taken
  <2> QED BY <1>1, <2>1 DEF RequestsOnce
<1>3. \A j \in Instance, e \in Nat, d \in F!Client, m \in 1..MaxCalls :
        Queued(j, e, d, m)' => ran'[d][m] = <<>> /\ m <= seq'[d]
  <2> SUFFICES ASSUME NEW j \in Instance, NEW e \in Nat, NEW d \in F!Client,
                      NEW m \in 1..MaxCalls, Queued(j, e, d, m)'
               PROVE  ran'[d][m] = <<>> /\ m <= seq'[d]
    OBVIOUS
  <2>1. ran'[d][m] = ran[d][m] /\ \E f \in Nat : Queued(j, f, d, m) BY TakenLeavesOthers
  <2>2. seq' = seq BY DEF Taken
  <2> QED BY <1>1, <2>1, <2>2 DEF RequestsOnce
<1>4. ASSUME NEW d \in F!Client, NEW m \in 1..MaxCalls
      PROVE  ran'[d][m] = <<>> \/ (m <= seq'[d] /\ \E j \in Instance : ran'[d][m] = <<j>>)
  <2>1. seq' = seq /\ ran'[c][k] \in {<<>>, <<i>>} BY DEF Taken
  <2>2. d # c \/ m # k => ran'[d][m] = ran[d][m] BY DEF Taken
  <2>3. k <= seq[c] BY TakenLeavesOthers
  <2> QED BY <1>1, <2>1, <2>2, <2>3 DEF RequestsOnce
<1> QED BY <1>2, <1>3, <1>4 DEF RequestsOnce

LEMMA TakenKeepsCalls ==
    ASSUME AnswersInv, NEW i \in Instance, NEW c, NEW k, NEW resp, Taken(i, c, k, resp)
    PROVE  CallsSound'
<1>1. UNCHANGED <<seq, pending, version>> BY DEF Taken
<1> SUFFICES ASSUME NEW d \in F!Client, pending[d] # NoCall
             PROVE  /\ NameOf[pending[d].addr] = pending[d].server
                    /\ pending[d].stage = "sending" => Unserved(d)'
                    /\ pending[d].since <= IF pending[d].server \in Workspaces
                                           THEN version[pending[d].server] ELSE 0
                    /\ \A j \in Instance, e \in Nat :
                         Queued(j, e, d, seq[d])' => NameOf[j] = pending[d].server
  BY <1>1 DEF CallsSound
<1>2. /\ NameOf[pending[d].addr] = pending[d].server
      /\ pending[d].stage = "sending" => Unserved(d)
      /\ pending[d].since <= IF pending[d].server \in Workspaces
                             THEN version[pending[d].server] ELSE 0
      /\ \A j \in Instance, e \in Nat :
           Queued(j, e, d, seq[d]) => NameOf[j] = pending[d].server
  BY DEF AnswersInv, CallsSound
<1>3. Unserved(d) => Unserved(d)' BY TakenLeavesOthers
<1>4. ASSUME NEW j \in Instance, NEW e \in Nat, Queued(j, e, d, seq[d])'
      PROVE  NameOf[j] = pending[d].server
  <2>1. e \in 1..Len(requests'[j]) /\ requests'[j][e].id = seq[d]
    BY <1>1, <1>4 DEF Queued
  <2>2. requests'[j] \in Seq(Requests) BY DEF Taken
  <2>3. requests'[j][e] \in Requests BY <2>1, <2>2, ElementOfSeq
  <2>4. PICK m \in 1..MaxCalls : m = seq[d] BY <2>1, <2>3 DEF Requests
  <2>5. Queued(j, e, d, m)' BY <1>1, <1>4, <2>4 DEF Queued
  <2>6. \E f \in Nat : Queued(j, f, d, m) BY <2>5, TakenLeavesOthers
  <2> QED BY <1>2, <2>4, <2>6
<1> QED BY <1>2, <1>3, <1>4

LEMMA TakenKeepsReplies ==
    ASSUME AnswersInv, NEW i \in Instance, NEW c, NEW k, NEW resp, Taken(i, c, k, resp)
    PROVE  RepliesTrue'
<1>1. /\ UNCHANGED <<seq, pending, replies, version>>
      /\ handling' = [handling EXCEPT ![i] = resp]
      /\ resp \in Replies /\ resp.to = c /\ resp.id = k /\ resp.by = i
      /\ Queued(i, 1, c, k)
      /\ resp.kind # "error" => ran'[c][k] = <<i>>
      /\ resp.kind = "result" =>
           resp.version = IF NameOf[i] \in Workspaces THEN version[NameOf[i]] ELSE 0
  BY DEF Taken
<1>2. c \in F!Client /\ k <= seq[c] BY TakenLeavesOthers
<1>3. ASSUME NEW r \in Replies, ReplyTrue(r) PROVE ReplyTrue(r)'
  <2>1. r.to \in F!Client /\ r.id \in 1..MaxCalls /\ r.by \in Instance BY DEF Replies
  <2>2. ran[r.to][r.id] = <<r.by>> => ran'[r.to][r.id] = <<r.by>>
    BY <2>1, TakenLeavesOthers
  <2>3. Logged(r.by, r.to) => Logged(r.by, r.to)' BY <2>1, TakenLeavesOthers
  <2> QED BY <1>1, <1>3, <2>2, <2>3 DEF ReplyTrue
<1>4. ReplyTrue(resp)'
  <2>1. resp.kind = "result" /\ NameOf[i] \in Workspaces => Logged(i, c)'
    <3> SUFFICES ASSUME resp.kind = "result", NameOf[i] \in Workspaces PROVE Logged(i, c)'
      OBVIOUS
    <3>1. Len(accesses[i]) \in Nat BY DEF AnswersInv, FederationTypes
    <3>2. /\ Len(accesses'[i]) = Len(accesses[i]) + 1
          /\ accesses'[i][Len(accesses[i]) + 1].granted
          /\ accesses'[i][Len(accesses[i]) + 1].watcher \in Allow
          /\ NameOf[i] \in Trusting => accesses'[i][Len(accesses[i]) + 1].watcher = c
      BY DEF Taken
    <3>3. Len(accesses[i]) + 1 \in 1..Len(accesses'[i]) BY <3>1, <3>2
    <3> QED BY <3>2, <3>3 DEF Logged
  <2>2. ASSUME k = seq[c], pending[c] # NoCall
        PROVE  /\ NameOf[i] = pending[c].server
               /\ resp.kind = "result" => pending[c].since <= resp.version
    <3>1. Queued(i, 1, c, seq[c]) BY <1>1, <2>2
    <3>2. /\ pending[c].since <= IF pending[c].server \in Workspaces
                                 THEN version[pending[c].server] ELSE 0
          /\ NameOf[i] = pending[c].server
      BY <1>2, <2>2, <3>1 DEF AnswersInv, CallsSound
    <3> QED BY <1>1, <3>2
  <2> QED BY <1>1, <1>2, <2>1, <2>2 DEF ReplyTrue
<1>5. ASSUME NEW j \in Instance, handling'[j] # NoCall PROVE ReplyTrue(handling[j])'
  <2>1. DOMAIN handling = Instance BY DEF AnswersInv, FederationTypes
  <2>2. CASE j = i
    <3>1. handling'[j] = resp BY <1>1, <2>1, <2>2
    <3> QED BY <1>4, <3>1 DEF ReplyTrue, Logged
  <2>3. CASE j # i
    <3>1. PICK r : r = handling[j] OBVIOUS
    <3>2. handling'[j] = r BY <1>1, <2>1, <2>3, <3>1
    <3>3. r \in Replies /\ ReplyTrue(r)
      BY <1>5, <3>1, <3>2 DEF AnswersInv, FederationTypes, RepliesTrue
    <3>4. ReplyTrue(r)' BY <1>3, <3>3
    <3> QED BY <3>2, <3>4 DEF ReplyTrue, Logged
  <2> QED BY <2>2, <2>3
<1>6. ASSUME NEW d \in F!Client, NEW e \in 1..Len(replies'[d])
      PROVE  replies'[d][e].to = d /\ ReplyTrue(replies[d][e])'
  <2>1. PICK r : r = replies'[d][e] OBVIOUS
  <2>2. replies[d] \in Seq(Replies) BY DEF AnswersInv, FederationTypes
  <2>3. r \in Replies /\ r.to = d /\ ReplyTrue(r)
    BY <1>1, <2>1, <2>2, ElementOfSeq DEF AnswersInv, RepliesTrue
  <2>4. ReplyTrue(r)' BY <1>3, <2>3
  <2> QED BY <2>1, <2>3, <2>4 DEF ReplyTrue, Logged
<1> QED BY <1>5, <1>6 DEF RepliesTrue

LEMMA TakenKeepsTruth ==
    ASSUME AnswersInv, NEW i \in Instance, NEW c, NEW k, NEW resp, Taken(i, c, k, resp)
    PROVE  AnswersTrue'
<1>1. UNCHANGED <<pending, answer>> BY DEF Taken
<1>2. ASSUME NEW d \in F!Client, answer[d] # NoCall
      PROVE  LET a == answer[d]
             IN  /\ a.kind \in {"result", "denied"} =>
                      /\ a.id \in 1..MaxCalls /\ a.by \in Instance
                      /\ ran'[d][a.id] = <<a.by>> /\ NameOf[a.by] = a.server
                      /\ a.kind = "result" => a.since <= a.version
                      /\ a.kind = "result" /\ NameOf[a.by] \in Workspaces => Logged(a.by, d)'
                 /\ a.kind = "unreachable" /\ pending[d] = NoCall => Unserved(d)'
  <2> DEFINE a == answer[d]
  <2>1. /\ a.kind \in {"result", "denied"} =>
             /\ a.id \in 1..MaxCalls /\ a.by \in Instance
             /\ ran[d][a.id] = <<a.by>> /\ NameOf[a.by] = a.server
             /\ a.kind = "result" => a.since <= a.version
             /\ a.kind = "result" /\ NameOf[a.by] \in Workspaces => Logged(a.by, d)
        /\ a.kind = "unreachable" /\ pending[d] = NoCall => Unserved(d)
    BY <1>2 DEF AnswersInv, AnswersTrue
  <2>2. Unserved(d) => Unserved(d)' BY TakenLeavesOthers
  <2>3. ASSUME a.id \in 1..MaxCalls, ran[d][a.id] = <<a.by>> PROVE ran'[d][a.id] = <<a.by>>
    BY <2>3, TakenLeavesOthers
  <2>4. \A j \in Instance : Logged(j, d) => Logged(j, d)' BY TakenLeavesOthers
  <2>5. ASSUME a.by \in Instance, Logged(a.by, d) PROVE Logged(a.by, d)'
    <3>1. PICK j \in Instance : j = a.by BY <2>5
    <3>2. Logged(j, d) BY <2>5, <3>1
    <3>3. Logged(j, d)' BY <2>4, <3>2
    <3> QED BY <1>1, <3>1, <3>3 DEF Logged
  <2> QED BY <1>1, <2>1, <2>2, <2>3, <2>5 DEF Logged
<1> QED BY <1>1, <1>2 DEF AnswersTrue, Logged

LEMMA TakenKeepsCounts ==
    ASSUME AnswersInv, NEW i \in Instance, NEW c, NEW k, NEW resp, Taken(i, c, k, resp)
    PROVE  AccessesCounted'
<1>1. /\ c \in F!Client /\ k \in 1..MaxCalls /\ ran[c][k] = <<>> BY TakenLeavesOthers
<1>2. /\ \A d \in F!Client, m \in 1..MaxCalls : d # c \/ m # k => ran'[d][m] = ran[d][m]
      /\ ran'[c][k] \in {<<>>, <<i>>}
  BY DEF Taken
<1>3. ASSUME NEW ck \in F!Client \X (1..MaxCalls), ck # <<c, k>>
      PROVE  ran'[ck[1]][ck[2]] = ran[ck[1]][ck[2]]
  BY <1>2, <1>3
<1>4. <<c, k>> \in F!Client \X (1..MaxCalls) /\ <<c, k>>[1] = c /\ <<c, k>>[2] = k
  BY <1>1
<1> SUFFICES ASSUME NEW j \in Instance, NameOf[j] \in Workspaces
             PROVE  IsFiniteSet(Served(j)') /\ Len(accesses'[j]) = Cardinality(Served(j)')
  BY DEF AccessesCounted
<1>5. IsFiniteSet(Served(j)) /\ Len(accesses[j]) = Cardinality(Served(j))
  BY DEF AnswersInv, AccessesCounted
<1>6. CASE j # i
  <2>1. \A ck \in F!Client \X (1..MaxCalls) :
          ran'[ck[1]][ck[2]] = <<j>> <=> ran[ck[1]][ck[2]] = <<j>>
    <3> SUFFICES ASSUME NEW ck \in F!Client \X (1..MaxCalls)
                 PROVE  ran'[ck[1]][ck[2]] = <<j>> <=> ran[ck[1]][ck[2]] = <<j>>
      OBVIOUS
    <3>1. CASE ck = <<c, k>>
      <4>1. <<j>> # <<>> /\ <<j>> # <<i>> BY <1>6, RunFacts
      <4> QED BY <1>1, <1>2, <1>4, <3>1, <4>1
    <3>2. CASE ck # <<c, k>> BY <1>3, <3>2
    <3> QED BY <3>1, <3>2
  <2>2. Served(j)' = Served(j) BY <2>1 DEF Served
  <2>3. accesses'[j] = accesses[j] BY <1>6 DEF Taken
  <2> QED BY <1>5, <2>2, <2>3
<1>7. CASE j = i
  <2>1. ran'[c][k] = <<i>> /\ Len(accesses'[i]) = Len(accesses[i]) + 1
    BY <1>7 DEF Taken
  <2>2. <<c, k>> \notin Served(i) BY <1>1, <1>4, RunFacts DEF Served
  <2>3. Served(i)' = Served(i) \cup {<<c, k>>}
    <3>1. \A ck \in F!Client \X (1..MaxCalls) :
            ran'[ck[1]][ck[2]] = <<i>> <=> ran[ck[1]][ck[2]] = <<i>> \/ ck = <<c, k>>
      BY <1>3, <1>4, <2>1
    <3> QED BY <1>4, <3>1 DEF Served
  <2>4. /\ IsFiniteSet(Served(i) \cup {<<c, k>>})
        /\ Cardinality(Served(i) \cup {<<c, k>>}) = Cardinality(Served(i)) + 1
    BY <1>5, <1>7, <2>2, FS_AddElement
  <2> QED BY <1>5, <1>7, <2>1, <2>3, <2>4
<1> QED BY <1>6, <1>7

LEMMA HandleKeepsAnswers ==
    ASSUME AnswersInv, NEW i \in Instance, F!Handle(i)
    PROVE  AnswersInv'
<1>1. PICK c, k, resp : Taken(i, c, k, resp) BY HandleTakes
<1> QED
  BY <1>1, TakenKeepsTypes, TakenKeepsOnce, TakenKeepsCalls, TakenKeepsReplies,
     TakenKeepsTruth, TakenKeepsCounts
  DEF AnswersInv

\* Start, Announce, Stop, Unlink, Crash and Reset, which leave calls and answers
\* alone.
LEMMA LifeStepKeepsAnswers ==
    ASSUME AnswersInv, NEW i \in Instance,
           F!Start(i) \/ F!Announce(i) \/ F!Stop(i) \/ F!Unlink(i) \/ F!Crash(i)
    PROVE  AnswersInv'
<1>1. /\ requests \in [Instance -> Seq(Requests)]
      /\ handling \in [Instance -> Replies \cup {NoCall}]
      /\ DOMAIN manifest = Server
      /\ \A n \in Server : manifest[n] \in Instance => NameOf[manifest[n]] = n
  BY DEF AnswersInv, FederationTypes
<1>2. UNCHANGED <<seq, pending, answer, replies, ran, accesses, version>>
  BY DEF F!Start, F!Announce, F!Stop, F!Unlink, F!Crash, F!serverVars, F!clientVars
<1>3. <<>> \in Seq(Requests) OBVIOUS
<1>4. /\ requests' \in [Instance -> Seq(Requests)]
      /\ \A j \in Instance : requests'[j] = requests[j] \/ requests'[j] = <<>>
  <2>1. UNCHANGED requests \/ requests' = [requests EXCEPT ![i] = <<>>]
    BY DEF F!Start, F!Announce, F!Stop, F!Unlink, F!Crash, F!serverVars
  <2> QED BY <1>1, <1>3, <2>1
<1>5. /\ handling' \in [Instance -> Replies \cup {NoCall}]
      /\ \A j \in Instance : handling'[j] = handling[j] \/ handling'[j] = NoCall
  <2>1. UNCHANGED handling \/ handling' = [handling EXCEPT ![i] = NoCall]
    BY DEF F!Start, F!Announce, F!Stop, F!Unlink, F!Crash, F!serverVars
  <2> QED BY <1>1, <2>1
<1>6. /\ DOMAIN manifest' = Server
      /\ \A n \in Server : manifest'[n] \in Instance => NameOf[manifest'[n]] = n
  <2>1. \/ UNCHANGED manifest
        \/ \E m \in {Missing, Empty, Garbled, i} :
             manifest' = [manifest EXCEPT ![NameOf[i]] = m]
    BY DEF F!Start, F!OpenManifest, F!Announce, F!Stop, F!Unlink, F!Crash, F!registryVars
  <2>2. ASSUME NEW m \in {Missing, Empty, Garbled, i},
               manifest' = [manifest EXCEPT ![NameOf[i]] = m]
        PROVE  /\ DOMAIN manifest' = Server
               /\ \A n \in Server : manifest'[n] \in Instance => NameOf[manifest'[n]] = n
    <3>1. NameOf[i] \in Server /\ (m \in Instance => m = i) BY FederationFacts
    <3>2. /\ DOMAIN manifest' = Server /\ manifest'[NameOf[i]] = m
          /\ \A n \in Server : n # NameOf[i] => manifest'[n] = manifest[n]
      BY <1>1, <2>2, <3>1
    <3>3. ASSUME NEW n \in Server, manifest'[n] \in Instance PROVE NameOf[manifest'[n]] = n
      <4>1. CASE n = NameOf[i] BY <3>1, <3>2, <3>3, <4>1
      <4>2. CASE n # NameOf[i] BY <1>1, <3>2, <3>3, <4>2
      <4> QED BY <4>1, <4>2
    <3> QED BY <3>2, <3>3
  <2> QED BY <1>1, <2>1, <2>2
<1> QED BY <1>2, <1>4, <1>5, <1>6, LifeKeepsAnswers

\* For any servers, names, workspaces, allow lists and clients, and any number of
\* calls, crashes, resets, restarts and late replies (Gateway.call,
\* WorkspaceWatcher.poll, WorkspaceServer.handle_request): what a client is told
\* of a call is true of that very call, and a status it holds is on record.
THEOREM AnswersAreExact == F!Spec => []AnswersExact
<1>1. F!Init => AnswersInv BY AnswersInit
<1>2. AnswersInv /\ [F!Next]_F!vars => AnswersInv'
  <2> SUFFICES ASSUME AnswersInv, [F!Next]_F!vars PROVE AnswersInv' OBVIOUS
  <2>1. ASSUME UNCHANGED <<seq, pending, answer, replies, ran, accesses, version, requests,
                           handling, manifest>>
        PROVE  AnswersInv'
    <3>1. /\ requests' \in [Instance -> Seq(Requests)]
          /\ handling' \in [Instance -> Replies \cup {NoCall}]
          /\ DOMAIN manifest' = Server
          /\ \A n \in Server : manifest'[n] \in Instance => NameOf[manifest'[n]] = n
      BY <2>1 DEF AnswersInv, FederationTypes
    <3> QED BY <2>1, <3>1, LifeKeepsAnswers
  <2>2. ASSUME NEW p \in Instance,
               F!Start(p) \/ F!Announce(p) \/ F!Stop(p) \/ F!Unlink(p) \/ F!Crash(p)
        PROVE  AnswersInv'
    BY <2>2, LifeStepKeepsAnswers
  <2>3. ASSUME NEW p, F!Reset(p) PROVE AnswersInv'
    BY <2>1, <2>3 DEF F!Reset, F!registryVars, F!serverVars, F!clientVars
  <2>4. ASSUME NEW p \in Instance, F!Handle(p) PROVE AnswersInv'
    BY <2>4, HandleKeepsAnswers
  <2>5. ASSUME NEW p \in Instance, F!Reply(p) PROVE AnswersInv'
    BY <2>5, ReplyKeepsAnswers
  <2>6. ASSUME NEW n \in Server, NEW g \in Gateways, NEW tool \in Asked, F!Call(g, n, tool)
        PROVE  AnswersInv'
    BY <2>6, ResolveKeepsAnswers DEF F!Call, F!Client
  <2>7. ASSUME NEW n \in Server, NEW w \in Watchers, NEW id \in Ids, F!Poll(w, n, id)
        PROVE  AnswersInv'
    BY <2>7, ResolveKeepsAnswers DEF F!Poll, F!Client
  <2>8. ASSUME NEW n \in Workspaces, F!Edit(n) PROVE AnswersInv'
    BY <2>8, EditKeepsAnswers
  <2>9. ASSUME NEW c \in F!Client, F!Send(c) \/ F!Receive(c) \/ F!TimeOut(c)
        PROVE  AnswersInv'
    BY <2>9, SendKeepsAnswers, ReceiveKeepsAnswers, TimeOutKeepsAnswers
  <2>10. CASE UNCHANGED F!vars BY <2>1, <2>10 DEF F!vars
  <2> QED
    BY <2>2, <2>3, <2>4, <2>5, <2>6, <2>7, <2>8, <2>9, <2>10 DEF F!Next, F!Steps
<1>3. AnswersInv => AnswersExact
  <2> SUFFICES ASSUME AnswersInv PROVE F!ToldTheTruth /\ F!WatchingLogged
    BY DEF AnswersExact, F!AnswersExact
  <2>1. ASSUME NEW c \in F!Client, NEW k \in 1..MaxCalls PROVE Len(ran[c][k]) <= 1
    <3>1. Len(<<>>) = 0 /\ \A i : Len(<<i>>) = 1 OBVIOUS
    <3>2. ran[c][k] = <<>> \/ \E i \in Instance : ran[c][k] = <<i>>
      BY DEF AnswersInv, RequestsOnce
    <3>3. CASE ran[c][k] = <<>> BY <3>1, <3>3
    <3>4. CASE \E i \in Instance : ran[c][k] = <<i>> BY <3>1, <3>4
    <3> QED BY <3>2, <3>3, <3>4
  <2>2. ASSUME NEW c \in F!Client, answer[c] # NoCall
        PROVE  LET a == answer[c]
               IN  /\ a.kind \in {"result", "denied"} =>
                        /\ a.by \in Instance
                        /\ ran[c][a.id] = <<a.by>> /\ NameOf[a.by] = a.server
                        /\ a.kind = "result" => a.since <= a.version
                        /\ a.kind = "result" /\ NameOf[a.by] \in Workspaces => Logged(a.by, c)
                   /\ a.kind = "unreachable" /\ pending[c] = NoCall => ran[c][seq[c]] = <<>>
    BY <2>2 DEF AnswersInv, AnswersTrue, Unserved
  <2>3. F!ToldTheTruth BY <2>1, <2>2 DEF F!ToldTheTruth
  <2>4. \A i \in Instance : NameOf[i] \in Workspaces => Len(accesses[i]) = F!Cardinality(Served(i))
    <3>1. \A S : F!Cardinality(S) = Cardinality(S)
      BY Zenon DEF F!Cardinality, Cardinality, F!IsFiniteSet, IsFiniteSet
    <3> QED BY <3>1 DEF AnswersInv, AccessesCounted
  <2>5. F!WatchingLogged BY <2>2, <2>4 DEF F!WatchingLogged, Served, Logged
  <2> QED BY <2>3, <2>5
<1> QED BY <1>1, <1>2, <1>3, PTL DEF F!Spec
=============================================================================
