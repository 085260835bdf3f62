------------------------------ MODULE Router ------------------------------
(***************************************************************************)
(* Multi-hop forwarding: Router.handle of mesh/routing.py, on every node   *)
(* of a mesh.  Each node drains its transport and executes the decision    *)
(* that handle returns, as the relay of mesh/test_mtls_multihop.py does.   *)
(*                                                                         *)
(* The resolver next_hop and the predicate is_routable belong to the       *)
(* caller: the first is a static or gossiped table, the second the         *)
(* admitted live peers of GossipDiscovery.  Both change under way, to any  *)
(* member of Tables and Admissions.  The transport may lose a frame, and   *)
(* its retry after a failed send may deliver one again; a sender may       *)
(* originate the same msg_id again.                                        *)
(*                                                                         *)
(* A message in flight carries, besides its fields, the history `trail` of *)
(* the nodes that forwarded it.                                            *)
(***************************************************************************)
EXTENDS Integers, Sequences, FiniteSets

CONSTANTS
    Node,
    MsgId,
    NoRoute,          \* next_hop's None
    DefaultTtl,       \* default_ttl
    Tables,           \* the routing tables next_hop may follow
    Admissions,       \* the is_routable relations, node by node
    MaxOriginations,  \* bound on calls of originate for one msg_id
    MaxDuplicates,    \* bound on frames delivered again
    MaxChanges        \* bound on changes of table or admission

ASSUME RouterAssumption ==
    /\ NoRoute \notin Node
    /\ DefaultTtl \in Nat /\ DefaultTtl >= 1
    /\ Tables \subseteq [Node -> [Node -> Node \cup {NoRoute}]]
    /\ Admissions \subseteq [Node -> SUBSET Node]
    /\ MaxOriginations \in Nat /\ MaxDuplicates \in Nat /\ MaxChanges \in Nat

VARIABLES
    seen,         \* seen[n]: the msg_ids node n has handled
    inflight,     \* the messages under way
    nextHop,      \* the current routing tables
    routable,     \* the current admissions
    delivered,    \* the deliveries <<node, msg_id>>, in order
    originated,   \* originated[m]: calls of originate for msg_id m
    duplicates,   \* frames delivered again
    changes       \* changes of table or admission

vars == <<seen, inflight, nextHop, routable, delivered, originated, duplicates,
          changes>>

-----------------------------------------------------------------------------
\* RoutedMessage, with its next receiver and its trail
RoutedMessage ==
    [to : Node, dest : Node, id : MsgId, ttl : Int, trail : Seq(Node)]

Init ==
    /\ seen = [n \in Node |-> {}]
    /\ inflight = {}
    /\ nextHop \in Tables
    /\ routable \in Admissions
    /\ delivered = <<>>
    /\ originated = [m \in MsgId |-> 0]
    /\ duplicates = 0
    /\ changes = 0

\* originate, sent to the first hop: the origin neither asks is_routable nor
\* remembers the id.
Originate(n, dest, m) ==
    /\ originated[m] < MaxOriginations
    /\ dest # n
    /\ nextHop[n][dest] # NoRoute
    /\ inflight' = inflight \cup
         {[to |-> nextHop[n][dest], dest |-> dest, id |-> m,
           ttl |-> DefaultTtl, trail |-> <<>>]}
    /\ originated' = [originated EXCEPT ![m] = @ + 1]
    /\ UNCHANGED <<seen, nextHop, routable, delivered, duplicates, changes>>

\* The decision of handle at node n, once the id is known to be new.
Delivers(n, msg) == msg.dest = n

Forwards(n, msg) ==
    /\ msg.dest # n
    /\ msg.ttl - 1 > 0
    /\ nextHop[n][msg.dest] # NoRoute
    /\ nextHop[n][msg.dest] \in routable[n]

\* replace(routed, ttl=ttl), sent to the next hop
Forwarded(n, msg) ==
    [to |-> nextHop[n][msg.dest], dest |-> msg.dest, id |-> msg.id,
     ttl |-> msg.ttl - 1, trail |-> Append(msg.trail, n)]

\* Mutant of Network: receive reads a frame without taking it.
NetworkPeeks(msg, sent) ==
    /\ inflight' = inflight \cup sent
    /\ UNCHANGED duplicates

\* The network once `msg` is received and `sent` goes out; the frame of `msg`
\* may come a second time.
Network(msg, sent) ==
    \/ /\ inflight' = (inflight \ {msg}) \cup sent
       /\ UNCHANGED duplicates
    \/ /\ duplicates < MaxDuplicates
       /\ inflight' = inflight \cup sent
       /\ duplicates' = duplicates + 1

\* handle drops a duplicate ...
DropDuplicate(msg) ==
    /\ msg.id \in seen[msg.to]
    /\ Network(msg, {})
    /\ UNCHANGED <<seen, nextHop, routable, delivered, originated, changes>>

\* Mutant of MarkSeen: the id is checked and not remembered.
MarkSeenForgets(msg) ==
    /\ msg.id \notin seen[msg.to]
    /\ UNCHANGED <<seen, nextHop, routable, originated, changes>>

\* ... and otherwise remembers the id, then delivers, forwards or drops.
MarkSeen(msg) ==
    /\ msg.id \notin seen[msg.to]
    /\ seen' = [seen EXCEPT ![msg.to] = @ \cup {msg.id}]
    /\ UNCHANGED <<nextHop, routable, originated, changes>>

Deliver(msg) ==
    /\ MarkSeen(msg)
    /\ Delivers(msg.to, msg)
    /\ Network(msg, {})
    /\ delivered' = Append(delivered, <<msg.to, msg.id>>)

Forward(msg) ==
    /\ MarkSeen(msg)
    /\ Forwards(msg.to, msg)
    /\ Network(msg, {Forwarded(msg.to, msg)})
    /\ UNCHANGED delivered

\* ttl_exhausted, no_route or next_hop_not_admitted
Drop(msg) ==
    /\ MarkSeen(msg)
    /\ ~Delivers(msg.to, msg) /\ ~Forwards(msg.to, msg)
    /\ Network(msg, {})
    /\ UNCHANGED delivered

Handle(msg) == DropDuplicate(msg) \/ Deliver(msg) \/ Forward(msg) \/ Drop(msg)

\* The transport loses a frame.
Lose(msg) ==
    /\ inflight' = inflight \ {msg}
    /\ UNCHANGED <<seen, nextHop, routable, delivered, originated, duplicates, changes>>

\* The caller's tables or admissions change.
Change ==
    /\ changes < MaxChanges
    /\ changes' = changes + 1
    /\ nextHop' \in Tables
    /\ routable' \in Admissions
    /\ UNCHANGED <<seen, inflight, delivered, originated, duplicates>>

Next ==
    \/ \E n, dest \in Node, m \in MsgId : Originate(n, dest, m)
    \/ \E msg \in inflight : Handle(msg) \/ Lose(msg)
    \/ Change

Spec == Init /\ [][Next]_vars

\* Nodes keep draining their transports.
FairSpec == Spec /\ WF_vars(\E msg \in inflight : Handle(msg))

-----------------------------------------------------------------------------
TypeOK ==
    /\ seen \in [Node -> SUBSET MsgId]
    /\ inflight \subseteq RoutedMessage
    /\ nextHop \in Tables
    /\ routable \in Admissions
    /\ delivered \in Seq(Node \X MsgId)
    /\ originated \in [MsgId -> Nat]
    /\ duplicates \in Nat
    /\ changes \in Nat

\* A node hands a msg_id to its application at most once, however often it is
\* sent again or its frames are duplicated.
DeliveredOnce ==
    \A i, j \in 1..Len(delivered) : delivered[i] = delivered[j] => i = j

\* "A routing loop cannot amplify": no message under way was forwarded twice
\* by the same node, whatever loops the tables form while they change, and it
\* was forwarded fewer times than its TTL allows.
LoopSafe ==
    \A msg \in inflight :
        /\ \A i, j \in 1..Len(msg.trail) : msg.trail[i] = msg.trail[j] => i = j
        /\ Len(msg.trail) < DefaultTtl

\* Duplicates, retries and loops cost nothing: each node delivers an id at most
\* once, and no node forwards a message twice (Router.handle).
RoutingSafe == DeliveredOnce /\ LoopSafe

\* Forwarding takes a message nowhere for ever: once nobody sends any more the
\* network falls silent.
EventuallyQuiet == <>[](inflight = {})

=============================================================================
