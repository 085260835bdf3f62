-------------------------- MODULE SwimMembership --------------------------
(***************************************************************************)
(* The SWIM-style membership protocol of mesh/membership.py: every node    *)
(* keeps a table of members, ages it on each tick, pings everyone it does  *)
(* not believe dead, and piggybacks its whole table on every message.      *)
(*                                                                         *)
(* tick() is _receive (drain the inbox, frame by frame), then _age, then   *)
(* _probe.  A node only touches its own table, and only sends, so the      *)
(* model takes one step per drained frame (ReceiveFrame) and one for the   *)
(* rest of the tick, which starts when receive() finds the inbox empty     *)
(* (FinishTick).  Frames that arrive while a tick drains the inbox are     *)
(* drained by the same tick, as in the code.                               *)
(*                                                                         *)
(* A digest names each id at most once and updates of different ids do not *)
(* interfere, so _merge is a pointwise function of the table.              *)
(*                                                                         *)
(* The transport is the Transport seam: FIFO mailboxes as in               *)
(* transport.Switchboard, plus the loss and the crashes a socket transport *)
(* is exposed to.  Malformed frames change nothing but the inbox, which is *)
(* what LoseFrame does.                                                    *)
(***************************************************************************)
EXTENDS Naturals, Sequences, FiniteSets

CONSTANTS
    Node,             \* node ids; a node id is also the transport address
    Started,          \* the nodes that run at the start; others start later
    Seeds,            \* Seeds[n]: the seeds node n is constructed with
    Policy,           \* the admission rules (see PeerAdmission)
    Gated,            \* Gated[n]: n was given the admission / peer_tier pair
    PeerTier,         \* PeerTier[x]: the tier resolved for x, or NoTier
    PeerKey,          \* PeerKey[x]: the SVID key resolved for x, or NoKey
    NoPin, NoTier, NoKey,
    SuspectAfter, DeadAfter,    \* the two timeouts, in local ticks
    InboxCap,         \* bound: no tick or join sends into a mailbox with this many
    MaxIncarnation,   \* bound: live nodes are not suspected beyond it
    MaxFaults         \* bound: frames lost, crashes and (re)starts

ASSUME TimeoutAssumption ==
    SuspectAfter \in Nat \ {0} /\ DeadAfter \in Nat \ {0}

ASSUME BoundAssumption ==
    InboxCap \in Nat \ {0} /\ MaxIncarnation \in Nat /\ MaxFaults \in Nat

ASSUME ConfigAssumption ==
    /\ Started \subseteq Node
    /\ Seeds \in [Node -> SUBSET Node]
    /\ Gated \in [Node -> BOOLEAN]

INSTANCE PeerAdmission

VARIABLES
    up,           \* up[n]: the process of n runs
    incarnation,  \* self.incarnation
    members,      \* self.members, with state "unknown" for an absent id
    inbox,        \* the frames waiting for n
    issued,       \* history: the highest incarnation n has taken, over all runs
    faults        \* history: faults injected so far

vars == <<up, incarnation, members, inbox, issued, faults>>

-----------------------------------------------------------------------------
MemberState == {"alive", "suspect", "dead"}

Member == [state : MemberState \cup {"unknown"}, inc : Nat, heard : Nat]

Unknown == [state |-> "unknown", inc |-> 0, heard |-> 0]

\* One row of a digest: what the sender believes of an id, if anything.
Claim == [state : MemberState \cup {"unknown"}, inc : Nat]

Message == [type : {"ping", "ack"}, from : Node, gossip : [Node -> Claim]]

-----------------------------------------------------------------------------
(* Admission gate on learning.                                             *)

\* _may_learn: ungated nodes learn anyone; a gated one needs a tier and an
\* allow from admit_peer.
MayLearn(n, x) ==
    \/ ~Gated[n]
    \/ /\ PeerTier[x] # NoTier
       /\ AdmitPeer(Policy, x, PeerTier[x], PeerKey[x]) = "ok"

\* GossipDiscovery.routable_peers, on the table of n: alive, of a known tier
\* and admitted.  It has no key to show, so a pinned peer is never in it.
AliveIds(n) == {x \in Node : members[n][x].state = "alive"}
RoutablePeers(n) ==
    {x \in AliveIds(n) : PeerTier[x] # NoTier
                          /\ AdmitPeer(Policy, x, PeerTier[x], NoKey) = "ok"}

-----------------------------------------------------------------------------
(* Pure parts of the protocol.                                             *)

\* Mutant of Supersedes: "alive" overrides at an equal incarnation.
SupersedesEqualAlive(inState, inInc, curState, curInc) ==
    \/ inInc > curInc
    \/ inInc = curInc /\ inState # curState

\* _supersedes: does an incoming (state, incarnation) override the current?
Supersedes(inState, inInc, curState, curInc) ==
    \/ inInc > curInc
    \/ inInc = curInc /\ inState = "suspect" /\ curState = "alive"
    \/ inInc = curInc /\ inState = "dead" /\ curState # "dead"

\* _digest: self, always alive at the current incarnation, and every member.
Digest(n, inc, table) ==
    [x \in Node |->
        IF x = n THEN [state |-> "alive", inc |-> inc]
                 ELSE [state |-> table[x].state, inc |-> table[x].inc]]

\* _encode
Encode(typ, n, inc, table) ==
    [type |-> typ, from |-> n, gossip |-> Digest(n, inc, table)]

\* _merge, for an id other than the node's own.
MergeEntry(n, x, cur, claim) ==
    LET taken(heard) == [state |-> claim.state, inc |-> claim.inc, heard |-> heard]
        accept == IF cur.state = "unknown"
                  THEN MayLearn(n, x)
                  ELSE Supersedes(claim.state, claim.inc, cur.state, cur.inc)
    IN  IF claim.state = "unknown" \/ ~accept THEN cur
        ELSE taken(IF claim.state = "alive" \/ cur.state = "unknown"
                   THEN 0 ELSE cur.heard)

Merge(n, table, gossip) ==
    [x \in Node |->
        IF x = n THEN table[x] ELSE MergeEntry(n, x, table[x], gossip[x])]

\* Mutant of Refute: a claim at the node's own incarnation is not refuted.
RefuteStrict(inc, claim) ==
    IF claim.state \in {"suspect", "dead"} /\ claim.inc > inc
    THEN claim.inc + 1
    ELSE inc

\* _merge, for the node's own id: out-incarnate a suspicion or a death.
Refute(inc, claim) ==
    IF claim.state \in {"suspect", "dead"} /\ claim.inc >= inc
    THEN claim.inc + 1
    ELSE inc

\* Mutant of MarkHeard: a sender is learned without asking _may_learn.
MarkHeardUngated(n, table, sender) ==
    LET cur == table[sender] IN
    IF sender = n \/ cur.state = "dead" THEN table
    ELSE [table EXCEPT ![sender] = [state |-> "alive", inc |-> cur.inc, heard |-> 0]]

\* _mark_heard: an unknown sender is learned if it may be, a known one that
\* is not believed dead is alive again.
MarkHeard(n, table, sender) ==
    LET cur == table[sender] IN
    IF sender = n \/ cur.state = "dead"
       \/ (cur.state = "unknown" /\ ~MayLearn(n, sender))
    THEN table
    ELSE [table EXCEPT ![sender] =
            [state |-> "alive",
             inc   |-> IF cur.state = "unknown" THEN 0 ELSE cur.inc,
             heard |-> 0]]

\* _age, for one member.
AgeState(state, h) ==
    IF state = "alive" /\ h >= SuspectAfter THEN "suspect"
    ELSE IF state = "suspect" /\ h >= SuspectAfter + DeadAfter THEN "dead"
    ELSE state

\* Mutants of AgeEntry: whoever suspects a member mints an incarnation for it,
\* and only members still alive are aged.
AgeEntryMints(m) ==
    IF m.state \in {"unknown", "dead"} THEN m
    ELSE [state |-> AgeState(m.state, m.heard + 1),
          inc   |-> IF AgeState(m.state, m.heard + 1) = m.state THEN m.inc ELSE m.inc + 1,
          heard |-> m.heard + 1]

AgeEntryAliveOnly(m) ==
    IF m.state # "alive" THEN m
    ELSE [state |-> AgeState(m.state, m.heard + 1),
          inc   |-> m.inc,
          heard |-> m.heard + 1]

AgeEntry(m) ==
    IF m.state \in {"unknown", "dead"} THEN m
    ELSE [state |-> AgeState(m.state, m.heard + 1),
          inc   |-> m.inc,
          heard |-> m.heard + 1]

Age(table) == [x \in Node |-> AgeEntry(table[x])]

\* The members a node sends to: everyone it knows and does not believe dead.
Probed(table) == {x \in Node : table[x].state \in {"alive", "suspect"}}

-----------------------------------------------------------------------------
(* The transport.                                                          *)

\* The mailboxes after msg is sent to every node of dests.  A frame for a
\* node that is down is lost.
Deliver(boxes, dests, msg) ==
    [x \in Node |->
        IF x \in dests /\ up[x] THEN Append(boxes[x], msg) ELSE boxes[x]]

\* Bound: a mailbox has no limit of its own, so it is the sender that waits
\* while one of its destinations has InboxCap frames to drain.
Room(dests) == \A x \in dests : Len(inbox[x]) < InboxCap

\* The peers a loop over `dests` reaches.  While all of them run, all of
\* them.  A send to a node that is down is lost, or (a socket transport)
\* raises out of the loop, and the peers that come later in the members dict
\* are not sent to: the dict's order is abstracted to any order.
Reached(dests) ==
    IF \A x \in dests : up[x] THEN {dests}
    ELSE SUBSET {x \in dests : up[x]}

\* The table __init__ builds from the seeds.
SeedTable(n) ==
    [x \in Node |-> IF x \in Seeds[n] \ {n}
                    THEN [state |-> "alive", inc |-> 0, heard |-> 0]
                    ELSE Unknown]

-----------------------------------------------------------------------------
\* The started nodes are constructed; join() has not run yet (Join below).
Init ==
    /\ up = [n \in Node |-> n \in Started]
    /\ incarnation = [n \in Node |-> 0]
    /\ members = [n \in Node |-> SeedTable(n)]
    /\ inbox = [n \in Node |-> <<>>]
    /\ issued = [n \in Node |-> 0]
    /\ faults = 0

\* join(): ping every member not believed dead.  Callers run it when the node
\* is new; it is harmless, and enabled, at any time.
Join(n) ==
    /\ up[n]
    /\ \E dests \in Reached(Probed(members[n])) :
          /\ Room(dests \cup {n})
          /\ inbox' = Deliver(inbox, dests,
                              Encode("ping", n, incarnation[n], members[n]))
    /\ UNCHANGED <<up, incarnation, members, issued, faults>>

\* One iteration of the _receive loop: merge the digest, mark the sender
\* heard, and answer a ping with an ack built from the updated table.  An ack
\* to a sender that went down may raise out of tick(); the next tick goes on
\* with the next frame, so the step is the same.
ReceiveFrame(n) ==
    /\ up[n]
    /\ inbox[n] # <<>>
    /\ LET msg   == Head(inbox[n])
           inc   == Refute(incarnation[n], msg.gossip[n])
           table == MarkHeard(n, Merge(n, members[n], msg.gossip), msg.from)
           rest  == [inbox EXCEPT ![n] = Tail(@)]
       IN  /\ incarnation' = [incarnation EXCEPT ![n] = inc]
           /\ issued' = [issued EXCEPT ![n] = IF inc > @ THEN inc ELSE @]
           /\ members' = [members EXCEPT ![n] = table]
           /\ inbox' = IF msg.type = "ping"
                       THEN Deliver(rest, {msg.from},
                                    Encode("ack", n, inc, table))
                       ELSE rest
    /\ UNCHANGED <<up, faults>>

\* Bound: n does not come to suspect a running node at MaxIncarnation.
WithinIncarnationBound(n) ==
    \A x \in Node :
        /\ up[x]
        /\ members[n][x].state = "alive"
        /\ members[n][x].inc >= MaxIncarnation
        => AgeEntry(members[n][x]).state = "alive"

\* The rest of tick(), once the inbox is drained: _age, then _probe.
FinishTick(n) ==
    /\ up[n]
    /\ inbox[n] = <<>>
    /\ WithinIncarnationBound(n)
    /\ LET table == Age(members[n])
       IN  /\ members' = [members EXCEPT ![n] = table]
           /\ \E dests \in Reached(Probed(table)) :
                 /\ Room(dests)
                 /\ inbox' = Deliver(inbox, dests,
                                     Encode("ping", n, incarnation[n], table))
    /\ UNCHANGED <<up, incarnation, issued, faults>>

-----------------------------------------------------------------------------
(* Faults.                                                                 *)

\* A frame is lost on the wire, or is malformed and skipped by _receive.
LoseFrame(n) ==
    /\ faults < MaxFaults
    /\ inbox[n] # <<>>
    /\ inbox' = [inbox EXCEPT ![n] = Tail(@)]
    /\ faults' = faults + 1
    /\ UNCHANGED <<up, incarnation, members, issued>>

\* The process of n stops; what waited in its mailbox is gone.  Bound: some
\* node stays up (with none there is nothing left to observe).
Crash(n) ==
    /\ faults < MaxFaults
    /\ up[n]
    /\ \E m \in Node \ {n} : up[m]
    /\ up' = [up EXCEPT ![n] = FALSE]
    /\ inbox' = [inbox EXCEPT ![n] = <<>>]
    /\ faults' = faults + 1
    /\ UNCHANGED <<incarnation, members, issued>>

\* A late start, or a new SwimMembership under the id of a crashed one: nothing
\* is persisted, so it starts at incarnation 0 with only its seeds; Join(n) is
\* its join().
Restart(n) ==
    /\ faults < MaxFaults
    /\ ~up[n]
    /\ up' = [up EXCEPT ![n] = TRUE]
    /\ incarnation' = [incarnation EXCEPT ![n] = 0]
    /\ members' = [members EXCEPT ![n] = SeedTable(n)]
    /\ faults' = faults + 1
    /\ UNCHANGED <<inbox, issued>>

-----------------------------------------------------------------------------
Next ==
    \E n \in Node :
        \/ Join(n)
        \/ ReceiveFrame(n)
        \/ FinishTick(n)
        \/ LoseFrame(n)
        \/ Crash(n)
        \/ Restart(n)

Spec == Init /\ [][Next]_vars

\* Fairness: a deployment calls tick() on a period, and a tick runs to its
\* end.  Nothing forces a fault, a restart or a join.
Fairness ==
    \A n \in Node : WF_vars(ReceiveFrame(n)) /\ WF_vars(FinishTick(n))

FairSpec == Spec /\ Fairness

-----------------------------------------------------------------------------
(* Properties.                                                             *)

\* Type invariant of the protocol state.
TypeOK ==
    /\ up \in [Node -> BOOLEAN]
    /\ incarnation \in [Node -> Nat]
    /\ members \in [Node -> [Node -> Member]]
    /\ inbox \in [Node -> Seq(Message)]
    /\ issued \in [Node -> Nat]
    /\ faults \in Nat

\* Incarnations are minted only by their owner: no table row and no claim in
\* flight about x carries an incarnation x itself never took, whatever was
\* lost, reordered between senders, or forgotten in a crash.  Suspicion and
\* death are always asserted at an incarnation the suspect has used, so its
\* next refutation outranks all of them (_merge, _age, _digest).
IncarnationOwned ==
    \A x \in Node :
        /\ incarnation[x] <= issued[x]
        /\ \A n \in Node : members[n][x].inc <= issued[x]
        /\ \A n \in Node : \A i \in 1..Len(inbox[n]) :
                inbox[n][i].gossip[x].inc <= issued[x]

\* Under the gate a table only ever holds seeds and admitted ids, however the
\* ids arrive: in a digest or as a sender (_may_learn; the table is bounded
\* by the admitted set).
TableBounded ==
    \A n, x \in Node :
        members[n][x].state # "unknown" => x \in Seeds[n] \/ MayLearn(n, x)

\* What one step may do to a row of a node that does not restart: its
\* incarnation never falls, a death is only left at a higher incarnation, and
\* a suspicion is lifted at the same incarnation only by a frame from the
\* suspect itself, never by a third party's digest (_supersedes,
\* _mark_heard).
RowStep(n, x) ==
    LET old == members[n][x]
        new == members'[n][x]
    IN  /\ new.inc >= old.inc
        /\ old.state = "dead" /\ new.state # "dead" => new.inc > old.inc
        /\ /\ old.state = "suspect"
           /\ new.state = "alive"
           /\ new.inc = old.inc
           => /\ inbox[n] # <<>>
              /\ Head(inbox[n]).from = x

RowsOnlyAdvance ==
    [][\A n, x \in Node : up[n] => RowStep(n, x)]_vars

\* The bound on incarnations holds back a tick of n or of x.
AtBound(n, x) == ~WithinIncarnationBound(n) \/ ~WithinIncarnationBound(x)

\* Completeness of failure detection: a node that stays down is eventually
\* recorded dead, for good, by every running node that knows it, although
\* digests in flight keep repeating that it is alive, and is gone for good
\* from the peers that n routes over (_age, _merge, routable_peers).
CrashDetected ==
    \A n, x \in Node :
        <>[](~up[x] /\ up[n])
            => <>[](/\ members[n][x].state \in {"dead", "unknown"}
                    /\ x \notin RoutablePeers(n))

\* Refutation: while x does not in turn believe n dead, n does not keep x
\* dead forever; x learns of its death from the acks to its pings and
\* re-asserts itself at a higher incarnation (_merge, _probe).
OneSidedDeathHeals ==
    \A n, x \in Node :
        (n # x /\ members[n][x].state = "dead")
            ~> \/ members[n][x].state # "dead"
               \/ members[x][n].state \in {"dead", "unknown"}
               \/ ~up[x] \/ ~up[n]
               \/ AtBound(n, x)

\* The promise of the module's description: a transient hiccup does not
\* permanently evict a healthy node.  One lost frame does not in a pair; one
\* lost each way may leave both nodes recorded dead at the other, and then
\* _probe sends nothing that either could refute.
NoPermanentEviction ==
    \A n, x \in Node :
        (n # x /\ members[n][x].state = "dead")
            ~> \/ members[n][x].state # "dead"
               \/ ~up[x] \/ ~up[n]
               \/ AtBound(n, x)

=============================================================================
