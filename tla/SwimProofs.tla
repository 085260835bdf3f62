---------------------------- MODULE SwimProofs ----------------------------
(***************************************************************************)
(* Proofs about SwimMembership for any number of nodes, any seeds and any  *)
(* admission policy: type correctness, ownership of incarnations, the      *)
(* admission bound on the tables, and the step property of a row.          *)
(***************************************************************************)
EXTENDS SwimMembership, TLAPS

-----------------------------------------------------------------------------
(* The pure operators.                                                     *)

\* What one frame may turn the row `old` of x at n into: `claim` is what the
\* frame's digest says of x, `heard` whether x itself sent the frame.
RowAdvances(n, x, old, claim, heard, new) ==
    /\ new \in Member
    /\ new.inc \in {old.inc, claim.inc}
    /\ new.inc >= old.inc
    /\ new.state = "unknown" => new.inc = 0 /\ old.state = "unknown"
    /\ new.state # "unknown" => old.state # "unknown" \/ MayLearn(n, x)
    /\ old.state = "dead" /\ new.state # "dead" => new.inc > old.inc
    /\ /\ old.state = "suspect"
       /\ new.state = "alive"
       /\ new.inc = old.inc
       => heard

\* A table whose unknown rows, the node's own among them, are blank.
Blank(n, table) ==
    /\ table \in [Node -> Member]
    /\ table[n].state = "unknown"
    /\ \A x \in Node : table[x].state = "unknown" => table[x].inc = 0

\* Merging a claim (_merge) advances the row, and lifts no suspicion at the
\* same incarnation.
LEMMA MergeEntryAdvances ==
    ASSUME NEW n \in Node, NEW x \in Node,
           NEW cur \in Member, NEW claim \in Claim,
           cur.state = "unknown" => cur.inc = 0
    PROVE  RowAdvances(n, x, cur, claim, FALSE, MergeEntry(n, x, cur, claim))
  BY DEF RowAdvances, Member, Claim, MemberState, MergeEntry, Supersedes

\* Ageing (_age) keeps the incarnation, never revives a dead row and never
\* lifts a suspicion.
LEMMA AgeEntryFacts ==
    ASSUME NEW m \in Member
    PROVE  /\ AgeEntry(m) \in Member
           /\ AgeEntry(m).inc = m.inc
           /\ (AgeEntry(m).state = "unknown") <=> (m.state = "unknown")
           /\ m.state = "dead" => AgeEntry(m).state = "dead"
           /\ m.state = "suspect" => AgeEntry(m).state # "alive"
  BY DEF AgeEntry, AgeState, Member, MemberState

\* The table __init__ builds is blank outside the seeds.
LEMMA SeedTableFacts ==
    ASSUME NEW n \in Node
    PROVE  /\ Blank(n, SeedTable(n))
           /\ \A x \in Node :
                /\ SeedTable(n)[x].inc = 0
                /\ SeedTable(n)[x].state # "unknown" => x \in Seeds[n]
  BY DEF Blank, SeedTable, Unknown, Member, MemberState

\* One frame of _receive (merge, then mark the sender heard) advances every
\* row.
LEMMA HeardTableAdvances ==
    ASSUME NEW n \in Node, NEW s \in Node,
           NEW table, Blank(n, table),
           NEW gossip \in [Node -> Claim]
    PROVE  LET new == MarkHeard(n, Merge(n, table, gossip), s) IN
           /\ Blank(n, new)
           /\ \A x \in Node :
                RowAdvances(n, x, table[x], gossip[x], x = s, new[x])
<1> DEFINE mid == Merge(n, table, gossip)
           new == MarkHeard(n, mid, s)
<1>1. ASSUME NEW x \in Node
      PROVE  RowAdvances(n, x, table[x], gossip[x], FALSE, mid[x])
  <2>1. table[x] \in Member /\ gossip[x] \in Claim
    BY DEF Blank
  <2>2. table[x].state = "unknown" => table[x].inc = 0
    BY DEF Blank
  <2>3. CASE x # n
    <3>1. mid[x] = MergeEntry(n, x, table[x], gossip[x])
      BY <2>3 DEF Merge
    <3> QED
      BY <2>1, <2>2, <3>1, MergeEntryAdvances
  <2>4. CASE x = n
    <3>1. mid[x] = table[x]
      BY <2>4 DEF Merge
    <3> QED
      BY <2>1, <2>2, <3>1 DEF RowAdvances, Member
  <2> QED
    BY <2>3, <2>4
<1>2. mid[n] = table[n]
  BY DEF Merge
<1>3. mid \in [Node -> Member]
  BY <1>1 DEF Merge, RowAdvances
<1> SUFFICES
        /\ Blank(n, new)
        /\ \A x \in Node :
                RowAdvances(n, x, table[x], gossip[x], x = s, new[x])
  OBVIOUS
<1> HIDE DEF mid, new
<1>4. \A x \in Node : (table[x].state = "unknown" => table[x].inc = 0)
  BY DEF Blank
<1>5. ASSUME NEW x \in Node, new[x] = mid[x]
      PROVE  RowAdvances(n, x, table[x], gossip[x], x = s, new[x])
  BY <1>1, <1>5 DEF RowAdvances
<1>6. CASE new = mid
  <2>1. \A x \in Node : RowAdvances(n, x, table[x], gossip[x], x = s, new[x])
    BY <1>5, <1>6
  <2> QED
    BY <1>2, <1>3, <1>6, <2>1 DEF Blank, RowAdvances
<1>7. ASSUME s # n,
             NEW row \in Member,
             row.state = "alive",
             new = [mid EXCEPT ![s] = row],
             RowAdvances(n, s, table[s], gossip[s], TRUE, row)
      PROVE  /\ Blank(n, new)
             /\ \A x \in Node :
                    RowAdvances(n, x, table[x], gossip[x], x = s, new[x])
  <2>1. new[s] = row /\ \A x \in Node \ {s} : new[x] = mid[x]
    BY <1>3, <1>7
  <2>2. new \in [Node -> Member]
    BY <1>3, <1>7
  <2>3. \A x \in Node : RowAdvances(n, x, table[x], gossip[x], x = s, new[x])
    <3> TAKE x \in Node
    <3>1. CASE x = s
      BY <1>7, <2>1, <3>1
    <3>2. CASE x # s
      BY <1>5, <2>1, <3>2
    <3> QED
      BY <3>1, <3>2
  <2>4. new[n].state = "unknown"
    BY <1>2, <1>7, <2>1 DEF Blank
  <2> QED
    BY <2>2, <2>3, <2>4 DEF Blank, RowAdvances
<1>8. CASE s # n /\ mid[s].state = "unknown" /\ MayLearn(n, s)
  <2> DEFINE row == [state |-> "alive",
                     inc |-> IF mid[s].state = "unknown" THEN 0 ELSE mid[s].inc,
                     heard |-> 0]
  <2>1. new = [mid EXCEPT ![s] = row]
    BY <1>8 DEF MarkHeard, new
  <2>2. row \in Member
    BY <1>8 DEF Member, MemberState
  <2>3. RowAdvances(n, s, table[s], gossip[s], FALSE, mid[s])
    BY <1>1
  <2>4. table[s] \in Member /\ table[s].state = "unknown" /\ table[s].inc = 0
    BY <1>4, <1>8, <2>3 DEF RowAdvances, Blank
  <2>5. RowAdvances(n, s, table[s], gossip[s], TRUE, row)
    BY <1>8, <2>2, <2>4 DEF RowAdvances
  <2>6. row.state = "alive"
    OBVIOUS
  <2> HIDE DEF row
  <2> QED
    BY <1>7, <1>8, <2>1, <2>2, <2>5, <2>6
<1>9. CASE s # n /\ mid[s].state \notin {"unknown", "dead"}
  <2> DEFINE row == [state |-> "alive",
                     inc |-> IF mid[s].state = "unknown" THEN 0 ELSE mid[s].inc,
                     heard |-> 0]
  <2>1. new = [mid EXCEPT ![s] = row]
    BY <1>9 DEF MarkHeard, new
  <2>2. mid[s] \in Member /\ table[s] \in Member
    BY <1>3 DEF Blank
  <2>3. row \in Member
    BY <2>2 DEF Member, MemberState
  <2>4. RowAdvances(n, s, table[s], gossip[s], FALSE, mid[s])
    BY <1>1
  <2>5. RowAdvances(n, s, table[s], gossip[s], TRUE, row)
    BY <1>9, <2>2, <2>3, <2>4 DEF RowAdvances
  <2>6. row.state = "alive"
    OBVIOUS
  <2> HIDE DEF row
  <2> QED
    BY <1>7, <1>9, <2>1, <2>3, <2>5, <2>6
<1>10. CASE s = n \/ mid[s].state = "dead"
            \/ (mid[s].state = "unknown" /\ ~MayLearn(n, s))
  BY <1>6, <1>10 DEF MarkHeard, new
<1> QED
  BY <1>8, <1>9, <1>10

-----------------------------------------------------------------------------
(* Messages in flight.                                                     *)

TableOwned(table, iss) == \A x \in Node : table[x].inc <= iss[x]

BoxesOwned(boxes, iss) ==
    \A n \in Node : \A i \in 1..Len(boxes[n]) : \A x \in Node :
        boxes[n][i].gossip[x].inc <= iss[x]

\* A node's message (_encode) is well typed, and claims no incarnation that
\* was not issued when its table does not.
LEMMA EncodeFacts ==
    ASSUME NEW n \in Node, NEW inc \in Nat, NEW table \in [Node -> Member],
           NEW iss \in [Node -> Nat], NEW typ \in {"ping", "ack"},
           inc <= iss[n], TableOwned(table, iss)
    PROVE  /\ Encode(typ, n, inc, table) \in Message
           /\ \A x \in Node : Encode(typ, n, inc, table).gossip[x].inc <= iss[x]
<1>1. Digest(n, inc, table) \in [Node -> Claim]
  BY DEF Digest, Claim, Member, MemberState
<1>2. \A x \in Node : Digest(n, inc, table)[x].inc <= iss[x]
  BY DEF Digest, TableOwned
<1> HIDE DEF Digest
<1> QED
  BY <1>1, <1>2 DEF Encode, Message

\* Sending preserves typing and ownership of the mailboxes.
LEMMA DeliverFacts ==
    ASSUME NEW boxes \in [Node -> Seq(Message)], NEW dests,
           NEW msg \in Message, NEW iss \in [Node -> Nat],
           BoxesOwned(boxes, iss),
           \A x \in Node : msg.gossip[x].inc <= iss[x]
    PROVE  /\ Deliver(boxes, dests, msg) \in [Node -> Seq(Message)]
           /\ BoxesOwned(Deliver(boxes, dests, msg), iss)
<1> DEFINE new == Deliver(boxes, dests, msg)
<1>1. ASSUME NEW m \in Node
      PROVE  new[m] = boxes[m] \/ new[m] = Append(boxes[m], msg)
  BY DEF Deliver
<1>2. new \in [Node -> Seq(Message)]
  BY DEF Deliver
<1> HIDE DEF new
<1>3. ASSUME NEW m \in Node, NEW i \in 1..Len(new[m]), NEW x \in Node
      PROVE  new[m][i].gossip[x].inc <= iss[x]
  <2>1. CASE new[m] = boxes[m]
    BY <1>3, <2>1 DEF BoxesOwned
  <2>2. CASE new[m] = Append(boxes[m], msg)
    <3>1. boxes[m] \in Seq(Message)
      OBVIOUS
    <3>2. CASE i \in 1..Len(boxes[m])
      <4>1. new[m][i] = boxes[m][i]
        BY <2>2, <3>1, <3>2
      <4> QED
        BY <3>2, <4>1 DEF BoxesOwned
    <3>3. CASE i = Len(boxes[m]) + 1
      <4>1. new[m][i] = msg
        BY <2>2, <3>1, <3>3
      <4> QED
        BY <4>1
    <3>4. Len(new[m]) = Len(boxes[m]) + 1
      BY <2>2, <3>1
    <3>5. Len(boxes[m]) \in Nat
      BY <3>1
    <3> QED
      BY <1>3, <3>2, <3>3, <3>4, <3>5
  <2> QED
    BY <1>1, <2>1, <2>2
<1>4. BoxesOwned(new, iss)
  BY <1>3 DEF BoxesOwned
<1> QED
  BY <1>2, <1>4 DEF new

\* Taking the head of a non-empty mailbox preserves both; the head is a
\* message that claims only issued incarnations.
LEMMA TakeFacts ==
    ASSUME NEW boxes \in [Node -> Seq(Message)], NEW n \in Node,
           NEW iss \in [Node -> Nat],
           BoxesOwned(boxes, iss), boxes[n] # <<>>
    PROVE  /\ [boxes EXCEPT ![n] = Tail(@)] \in [Node -> Seq(Message)]
           /\ BoxesOwned([boxes EXCEPT ![n] = Tail(@)], iss)
           /\ Head(boxes[n]) \in Message
           /\ \A x \in Node : Head(boxes[n]).gossip[x].inc <= iss[x]
<1> DEFINE new == [boxes EXCEPT ![n] = Tail(@)]
<1>1. boxes[n] \in Seq(Message) /\ Len(boxes[n]) \in Nat /\ Len(boxes[n]) >= 1
  OBVIOUS
<1>2. /\ Head(boxes[n]) = boxes[n][1]
      /\ Tail(boxes[n]) \in Seq(Message)
      /\ Len(Tail(boxes[n])) = Len(boxes[n]) - 1
      /\ \A i \in 1..(Len(boxes[n]) - 1) : Tail(boxes[n])[i] = boxes[n][i + 1]
  BY <1>1
<1>3. new \in [Node -> Seq(Message)]
  BY <1>2
<1>4. Head(boxes[n]) \in Message
  BY <1>1
<1>5. \A x \in Node : Head(boxes[n]).gossip[x].inc <= iss[x]
  BY <1>1, <1>2 DEF BoxesOwned
<1>6. ASSUME NEW m \in Node, NEW i \in 1..Len(new[m]), NEW x \in Node
      PROVE  new[m][i].gossip[x].inc <= iss[x]
  <2>1. CASE m # n
    BY <1>6, <2>1 DEF BoxesOwned
  <2>2. CASE m = n
    <3>1. new[m] = Tail(boxes[n])
      BY <2>2
    <3>2. i + 1 \in 1..Len(boxes[n]) /\ i \in 1..(Len(boxes[n]) - 1)
      BY <1>1, <1>2, <1>6, <3>1
    <3>3. new[m][i] = boxes[n][i + 1]
      BY <1>2, <3>1, <3>2
    <3> QED
      BY <3>2, <3>3 DEF BoxesOwned
  <2> QED
    BY <2>1, <2>2
<1>7. BoxesOwned(new, iss)
  BY <1>6 DEF BoxesOwned
<1> QED
  BY <1>3, <1>4, <1>5, <1>7

-----------------------------------------------------------------------------
(* The inductive invariant.                                                *)

\* Ownership alone is not inductive: a row that is learned anew must not fall
\* below the blank row it replaces, so unknown rows are kept at incarnation 0.
IInv ==
    /\ TypeOK
    /\ IncarnationOwned
    /\ \A n \in Node : Blank(n, members[n])

\* Ownership in the terms of the lemmas above.
LEMMA OwnedParts ==
    IncarnationOwned <=>
        /\ \A x \in Node : incarnation[x] <= issued[x]
        /\ \A n \in Node : TableOwned(members[n], issued)
        /\ BoxesOwned(inbox, issued)
  BY DEF IncarnationOwned, TableOwned, BoxesOwned

\* The inductive invariant holds initially.
LEMMA InitIInv == Init => IInv
<1> SUFFICES ASSUME Init PROVE IInv
  OBVIOUS
<1>1. TypeOK
  <2>1. \A n \in Node : SeedTable(n) \in [Node -> Member]
    BY SeedTableFacts DEF Blank
  <2>2. \A n \in Node : <<>> \in Seq(Message)
    OBVIOUS
  <2> QED
    BY <2>1, <2>2 DEF Init, TypeOK
<1>2. \A n \in Node : Blank(n, members[n])
  BY SeedTableFacts DEF Init
<1>3. IncarnationOwned
  <2>1. \A n, x \in Node : members[n][x].inc = 0
    BY SeedTableFacts DEF Init
  <2>2. \A n \in Node : Len(inbox[n]) = 0
    BY DEF Init
  <2> QED
    BY <2>1, <2>2 DEF Init, IncarnationOwned
<1> QED
  BY <1>1, <1>2, <1>3 DEF IInv

\* Ageing a whole table keeps it blank and every incarnation in it.
LEMMA AgeFacts ==
    ASSUME NEW n \in Node, NEW table, Blank(n, table)
    PROVE  /\ Blank(n, Age(table))
           /\ \A x \in Node :
                /\ Age(table)[x] = AgeEntry(table[x])
                /\ Age(table)[x].inc = table[x].inc
<1>1. \A x \in Node : table[x] \in Member
  BY DEF Blank
<1>2. \A x \in Node : Age(table)[x] = AgeEntry(table[x])
  BY DEF Age
<1>3. Age(table) \in [Node -> Member]
  BY <1>1, AgeEntryFacts DEF Age
<1>4. \A x \in Node : /\ Age(table)[x].inc = table[x].inc
                      /\ (Age(table)[x].state = "unknown")
                            <=> (table[x].state = "unknown")
  BY <1>1, <1>2, AgeEntryFacts
<1> HIDE DEF Age
<1> QED
  BY <1>2, <1>3, <1>4 DEF Blank

\* What handling one frame does, in one place: the typed, owned result of
\* ReceiveFrame(n).
LEMMA ReceiveFrameIInv ==
    ASSUME IInv, NEW n \in Node, ReceiveFrame(n)
    PROVE  IInv'
<1> DEFINE msg   == Head(inbox[n])
           inc   == Refute(incarnation[n], msg.gossip[n])
           table == MarkHeard(n, Merge(n, members[n], msg.gossip), msg.from)
           rest  == [inbox EXCEPT ![n] = Tail(@)]
<1>1. /\ TypeOK /\ Blank(n, members[n])
      /\ \A x \in Node : incarnation[x] <= issued[x]
      /\ \A m \in Node : TableOwned(members[m], issued)
      /\ BoxesOwned(inbox, issued)
  BY OwnedParts DEF IInv
<1>2. inbox \in [Node -> Seq(Message)] /\ issued \in [Node -> Nat] /\ inbox[n] # <<>>
  BY <1>1 DEF TypeOK, ReceiveFrame
<1>3. /\ rest \in [Node -> Seq(Message)]
      /\ BoxesOwned(rest, issued)
      /\ msg \in Message
      /\ \A x \in Node : msg.gossip[x].inc <= issued[x]
  BY <1>1, <1>2, TakeFacts
<1>4. msg.gossip \in [Node -> Claim] /\ msg.from \in Node
  BY <1>3 DEF Message
<1>5. /\ Blank(n, table)
      /\ \A x \in Node : RowAdvances(n, x, members[n][x], msg.gossip[x],
                                     x = msg.from, table[x])
  BY <1>1, <1>4, HeardTableAdvances
<1>6. inc \in Nat
  <2>1. msg.gossip[n] \in Claim /\ incarnation[n] \in Nat
    BY <1>1, <1>4 DEF TypeOK
  <2> QED
    BY <2>1 DEF Refute, Claim
<1>7. /\ incarnation' = [incarnation EXCEPT ![n] = inc]
      /\ issued' = [issued EXCEPT ![n] = IF inc > @ THEN inc ELSE @]
      /\ members' = [members EXCEPT ![n] = table]
      /\ inbox' = IF msg.type = "ping"
                  THEN Deliver(rest, {msg.from}, Encode("ack", n, inc, table))
                  ELSE rest
      /\ up' = up /\ faults' = faults
  BY DEF ReceiveFrame
<1> HIDE DEF msg, inc, table, rest
<1>8. /\ issued' \in [Node -> Nat]
      /\ \A x \in Node : issued[x] <= issued'[x]
      /\ inc <= issued'[n]
  BY <1>2, <1>6, <1>7
<1>9. TableOwned(table, issued')
  <2> SUFFICES ASSUME NEW x \in Node PROVE table[x].inc <= issued'[x]
    BY DEF TableOwned
  <2>1. table[x] \in Member /\ table[x].inc \in {members[n][x].inc, msg.gossip[x].inc}
    BY <1>5 DEF RowAdvances
  <2>2. members[n][x].inc <= issued[x] /\ msg.gossip[x].inc <= issued[x]
    BY <1>1, <1>3 DEF TableOwned
  <2>3. table[x].inc \in Nat /\ issued[x] \in Nat /\ issued'[x] \in Nat
    BY <1>2, <1>8, <2>1 DEF Member
  <2> QED
    BY <1>8, <2>1, <2>2, <2>3
<1>10. BoxesOwned(rest, issued')
  <2> SUFFICES ASSUME NEW m \in Node, NEW i \in 1..Len(rest[m]), NEW x \in Node
               PROVE  rest[m][i].gossip[x].inc <= issued'[x]
    BY DEF BoxesOwned
  <2>1. rest[m][i].gossip[x].inc <= issued[x]
    BY <1>3 DEF BoxesOwned
  <2>2. rest[m][i] \in Message
    BY <1>3
  <2>3. rest[m][i].gossip[x].inc \in Nat
    BY <2>2 DEF Message, Claim
  <2>4. issued[x] \in Nat /\ issued'[x] \in Nat /\ issued[x] <= issued'[x]
    BY <1>2, <1>8
  <2> HIDE DEF rest
  <2> QED
    BY <2>1, <2>3, <2>4
<1>11. inbox' \in [Node -> Seq(Message)] /\ BoxesOwned(inbox', issued')
  <2>1. table \in [Node -> Member]
    BY <1>5 DEF Blank
  <2>2. /\ Encode("ack", n, inc, table) \in Message
        /\ \A x \in Node : Encode("ack", n, inc, table).gossip[x].inc <= issued'[x]
    BY <1>6, <1>8, <1>9, <2>1, EncodeFacts
  <2>3. CASE msg.type = "ping"
    BY <1>3, <1>7, <1>8, <1>10, <2>2, <2>3, DeliverFacts
  <2>4. CASE msg.type # "ping"
    BY <1>3, <1>7, <1>10, <2>4
  <2> QED
    BY <2>3, <2>4
<1>12. /\ members' \in [Node -> [Node -> Member]]
       /\ \A m \in Node : Blank(m, members'[m]) /\ TableOwned(members'[m], issued')
  <2>1. /\ members \in [Node -> [Node -> Member]]
        /\ table \in [Node -> Member]
        /\ \A m \in Node : Blank(m, members[m])
    BY <1>1, <1>5 DEF TypeOK, IInv, Blank
  <2>2. ASSUME NEW m \in Node, m # n
        PROVE  TableOwned(members[m], issued')
    <3>1. \A x \in Node : members[m][x] \in Member
      BY <2>1
    <3> QED
      BY <1>1, <1>2, <1>8, <3>1 DEF TableOwned, Member
  <2> QED
    BY <1>5, <1>7, <1>9, <2>1, <2>2
<1>13. TypeOK'
  BY <1>1, <1>6, <1>7, <1>8, <1>11, <1>12 DEF TypeOK
<1>14. \A x \in Node : incarnation'[x] <= issued'[x]
  BY <1>1, <1>2, <1>6, <1>7, <1>8 DEF TypeOK
<1>15. IncarnationOwned'
  BY <1>11, <1>12, <1>14 DEF IncarnationOwned, TableOwned, BoxesOwned
<1> QED
  BY <1>12, <1>13, <1>15 DEF IInv

\* Pinging some members from a blank, owned table changes only mailboxes.
LEMMA SendIInv ==
    ASSUME IInv, NEW n \in Node, NEW table, NEW dests,
           Blank(n, table), TableOwned(table, issued),
           inbox' = Deliver(inbox, dests, Encode("ping", n, incarnation[n], table)),
           members' = [members EXCEPT ![n] = table],
           UNCHANGED <<up, incarnation, issued, faults>>
    PROVE  IInv'
<1>1. /\ TypeOK
      /\ \A x \in Node : incarnation[x] <= issued[x]
      /\ \A m \in Node : TableOwned(members[m], issued) /\ Blank(m, members[m])
      /\ BoxesOwned(inbox, issued)
  BY OwnedParts DEF IInv
<1>2. /\ table \in [Node -> Member] /\ incarnation[n] \in Nat
      /\ issued \in [Node -> Nat] /\ incarnation[n] <= issued[n]
      /\ inbox \in [Node -> Seq(Message)]
      /\ members \in [Node -> [Node -> Member]]
  BY <1>1 DEF Blank, TypeOK
<1>3. /\ Encode("ping", n, incarnation[n], table) \in Message
      /\ \A x \in Node :
            Encode("ping", n, incarnation[n], table).gossip[x].inc <= issued[x]
  BY <1>2, EncodeFacts
<1>4. inbox' \in [Node -> Seq(Message)] /\ BoxesOwned(inbox', issued)
  BY <1>1, <1>2, <1>3, DeliverFacts
<1>5. /\ members' \in [Node -> [Node -> Member]]
      /\ \A m \in Node : Blank(m, members'[m]) /\ TableOwned(members'[m], issued)
  BY <1>1, <1>2
<1>6. TypeOK'
  BY <1>1, <1>4, <1>5 DEF TypeOK
<1>7. IncarnationOwned'
  BY <1>1, <1>4, <1>5 DEF IncarnationOwned, TableOwned, BoxesOwned
<1> QED
  BY <1>5, <1>6, <1>7 DEF IInv

\* Every step preserves the inductive invariant.
LEMMA NextIInv == IInv /\ [Next]_vars => IInv'
<1> SUFFICES ASSUME IInv, [Next]_vars PROVE IInv'
  OBVIOUS
<1>0. /\ TypeOK
      /\ \A x \in Node : incarnation[x] <= issued[x]
      /\ \A m \in Node : TableOwned(members[m], issued) /\ Blank(m, members[m])
      /\ BoxesOwned(inbox, issued)
  BY OwnedParts DEF IInv
<1>a. /\ incarnation \in [Node -> Nat] /\ issued \in [Node -> Nat]
      /\ inbox \in [Node -> Seq(Message)] /\ faults \in Nat
      /\ members \in [Node -> [Node -> Member]]
      /\ up \in [Node -> BOOLEAN]
  BY <1>0 DEF TypeOK
<1>1. ASSUME NEW n \in Node, Join(n) PROVE IInv'
  <2>1. PICK dests \in Reached(Probed(members[n])) :
            inbox' = Deliver(inbox, dests,
                             Encode("ping", n, incarnation[n], members[n]))
    BY <1>1 DEF Join
  <2>2. members' = [members EXCEPT ![n] = members[n]]
    BY <1>1, <1>a DEF Join
  <2> QED
    BY <1>0, <1>1, <2>1, <2>2, SendIInv DEF Join
<1>2. ASSUME NEW n \in Node, ReceiveFrame(n) PROVE IInv'
  BY <1>2, ReceiveFrameIInv
<1>3. ASSUME NEW n \in Node, FinishTick(n) PROVE IInv'
  <2> DEFINE table == Age(members[n])
  <2>1. PICK dests \in Reached(Probed(table)) :
            inbox' = Deliver(inbox, dests,
                             Encode("ping", n, incarnation[n], table))
    BY <1>3 DEF FinishTick
  <2>2. members' = [members EXCEPT ![n] = table]
    BY <1>3 DEF FinishTick
  <2>3. /\ Blank(n, table)
        /\ \A x \in Node : table[x].inc = members[n][x].inc
    BY <1>0, AgeFacts
  <2>4. TableOwned(table, issued)
    BY <1>0, <2>3 DEF TableOwned
  <2>5. UNCHANGED <<up, incarnation, issued, faults>>
    BY <1>3 DEF FinishTick
  <2> HIDE DEF table
  <2> QED
    BY <2>1, <2>2, <2>3, <2>4, <2>5, SendIInv
<1>4. ASSUME NEW n \in Node, LoseFrame(n) PROVE IInv'
  <2>1. inbox' \in [Node -> Seq(Message)] /\ BoxesOwned(inbox', issued)
    BY <1>0, <1>4, <1>a, TakeFacts DEF LoseFrame
  <2>2. TypeOK' /\ UNCHANGED <<up, incarnation, members, issued>>
    BY <1>4, <1>a, <2>1 DEF TypeOK, LoseFrame
  <2>3. IncarnationOwned'
    BY <1>0, <2>1, <2>2 DEF IncarnationOwned, TableOwned, BoxesOwned
  <2> QED
    BY <1>0, <2>2, <2>3 DEF IInv
<1>5. ASSUME NEW n \in Node, Crash(n) PROVE IInv'
  <2>1. inbox' = [inbox EXCEPT ![n] = <<>>]
    BY <1>5 DEF Crash
  <2>2. inbox' \in [Node -> Seq(Message)] /\ BoxesOwned(inbox', issued)
    BY <1>0, <1>a, <2>1 DEF BoxesOwned
  <2>3. TypeOK' /\ UNCHANGED <<incarnation, members, issued>>
    BY <1>5, <1>a, <2>2 DEF TypeOK, Crash
  <2>4. IncarnationOwned'
    BY <1>0, <2>2, <2>3 DEF IncarnationOwned, TableOwned, BoxesOwned
  <2> QED
    BY <1>0, <2>3, <2>4 DEF IInv
<1>6. ASSUME NEW n \in Node, Restart(n) PROVE IInv'
  <2>1. /\ members' = [members EXCEPT ![n] = SeedTable(n)]
        /\ incarnation' = [incarnation EXCEPT ![n] = 0]
        /\ up' = [up EXCEPT ![n] = TRUE]
        /\ faults' = faults + 1
        /\ UNCHANGED <<inbox, issued>>
    BY <1>6 DEF Restart
  <2>2. /\ Blank(n, SeedTable(n))
        /\ SeedTable(n) \in [Node -> Member]
        /\ \A x \in Node : SeedTable(n)[x].inc = 0
    BY SeedTableFacts DEF Blank
  <2>3. TableOwned(SeedTable(n), issued)
    BY <1>a, <2>2 DEF TableOwned
  <2>4. /\ members' \in [Node -> [Node -> Member]]
        /\ \A m \in Node : Blank(m, members'[m]) /\ TableOwned(members'[m], issued)
    BY <1>0, <1>a, <2>1, <2>2, <2>3
  <2>5. TypeOK'
    BY <1>a, <2>1, <2>4 DEF TypeOK
  <2>6. \A x \in Node : incarnation'[x] <= issued'[x]
    BY <1>0, <1>a, <2>1
  <2>7. IncarnationOwned'
    BY <1>0, <2>1, <2>4, <2>6 DEF IncarnationOwned, TableOwned, BoxesOwned
  <2> QED
    BY <2>4, <2>5, <2>7 DEF IInv
<1>7. ASSUME UNCHANGED vars PROVE IInv'
  BY <1>7 DEF vars, IInv, TypeOK, IncarnationOwned
<1> QED
  BY <1>1, <1>2, <1>3, <1>4, <1>5, <1>6, <1>7 DEF Next

\* Every reachable state satisfies the inductive invariant.
LEMMA SpecIInv == Spec => []IInv
<1> QED
  BY InitIInv, NextIInv, PTL DEF Spec

\* Type correctness of the protocol state (membership.SwimMembership), for
\* any cluster.
THEOREM TypeCorrect == Spec => []TypeOK
<1>1. IInv => TypeOK
  BY DEF IInv
<1> QED
  BY <1>1, SpecIInv, PTL

\* Only a node mints its own incarnations, in any cluster and under any loss,
\* crash and restart (_merge, _age, _digest).
THEOREM IncarnationsOwned == Spec => []IncarnationOwned
<1>1. IInv => IncarnationOwned
  BY DEF IInv
<1> QED
  BY <1>1, SpecIInv, PTL

-----------------------------------------------------------------------------
(* The admission bound.                                                    *)

\* A gated table never holds an id that is neither a seed nor admitted
\* (_may_learn at both of its call sites).
THEOREM TablesBounded == Spec => []TableBounded
<1>1. Init => TableBounded
  <2> SUFFICES ASSUME Init, NEW n \in Node, NEW x \in Node,
                      members[n][x].state # "unknown"
               PROVE  x \in Seeds[n]
    BY DEF TableBounded
  <2> QED
    BY SeedTableFacts DEF Init
<1>2. IInv /\ TableBounded /\ [Next]_vars => TableBounded'
  <2> SUFFICES ASSUME IInv, TableBounded, [Next]_vars,
                      NEW k \in Node, NEW x \in Node,
                      members'[k][x].state # "unknown"
               PROVE  x \in Seeds[k] \/ MayLearn(k, x)
    BY DEF TableBounded, MayLearn, AdmitPeer, RulesForIdentity, MatchingRules,
           PinSatisfied
  <2>0. /\ \A m \in Node : Blank(m, members[m])
        /\ members \in [Node -> [Node -> Member]]
        /\ inbox \in [Node -> Seq(Message)]
        /\ issued \in [Node -> Nat] /\ BoxesOwned(inbox, issued)
    BY OwnedParts DEF IInv, TypeOK
  <2>a. ASSUME members'[k][x].state = members[k][x].state
        PROVE  x \in Seeds[k] \/ MayLearn(k, x)
    BY <2>a DEF TableBounded
  <2>1. ASSUME NEW n \in Node, ReceiveFrame(n)
        PROVE  x \in Seeds[k] \/ MayLearn(k, x)
    <3> DEFINE msg == Head(inbox[n])
               table == MarkHeard(n, Merge(n, members[n], msg.gossip), msg.from)
    <3>1. msg \in Message
      BY <2>0, <2>1, TakeFacts DEF ReceiveFrame
    <3>2. msg.gossip \in [Node -> Claim] /\ msg.from \in Node
      BY <3>1 DEF Message
    <3>3. \A y \in Node : RowAdvances(n, y, members[n][y], msg.gossip[y],
                                      y = msg.from, table[y])
      BY <2>0, <3>2, HeardTableAdvances
    <3>4. members' = [members EXCEPT ![n] = table]
      BY <2>1 DEF ReceiveFrame
    <3> HIDE DEF table
    <3>5. CASE k = n
      <4>1. members[n][x].state # "unknown" \/ MayLearn(n, x)
        BY <2>0, <3>3, <3>4, <3>5 DEF RowAdvances
      <4> QED
        BY <3>5, <4>1 DEF TableBounded
    <3>6. CASE k # n
      BY <2>0, <2>a, <3>4, <3>6
    <3> QED
      BY <3>5, <3>6
  <2>2. ASSUME NEW n \in Node, FinishTick(n)
        PROVE  x \in Seeds[k] \/ MayLearn(k, x)
    <3>1. members' = [members EXCEPT ![n] = Age(members[n])]
      BY <2>2 DEF FinishTick
    <3>2. CASE k = n
      <4>1. members'[k][x] = AgeEntry(members[k][x])
        BY <2>0, <3>1, <3>2, AgeFacts
      <4>2. members[k][x] \in Member
        BY <2>0
      <4>3. members[k][x].state # "unknown"
        BY <4>1, <4>2, AgeEntryFacts
      <4> QED
        BY <4>3 DEF TableBounded
    <3>3. CASE k # n
      BY <2>0, <2>a, <3>1, <3>3
    <3> QED
      BY <3>2, <3>3
  <2>3. ASSUME NEW n \in Node, Restart(n)
        PROVE  x \in Seeds[k] \/ MayLearn(k, x)
    <3>1. members' = [members EXCEPT ![n] = SeedTable(n)]
      BY <2>3 DEF Restart
    <3>2. CASE k = n
      BY <2>0, <3>1, <3>2, SeedTableFacts
    <3>3. CASE k # n
      BY <2>0, <2>a, <3>1, <3>3
    <3> QED
      BY <3>2, <3>3
  <2>4. ASSUME NEW n \in Node, Join(n) \/ LoseFrame(n) \/ Crash(n)
        PROVE  members' = members
    BY <2>4 DEF Join, LoseFrame, Crash
  <2>5. UNCHANGED vars => members' = members
    BY DEF vars
  <2> QED
    BY <2>a, <2>1, <2>2, <2>3, <2>4, <2>5 DEF Next
<1> QED
  BY <1>1, <1>2, SpecIInv, PTL DEF Spec

-----------------------------------------------------------------------------
(* The step property.                                                      *)

\* While a node runs, its rows only advance: incarnations never fall, death
\* is left only at a higher incarnation, and at the same incarnation only the
\* suspect's own frame lifts a suspicion (_supersedes, _mark_heard, _age).
THEOREM RowsAdvance == Spec => RowsOnlyAdvance
<1>1. ASSUME IInv, [Next]_vars
      PROVE  [\A n, x \in Node : up[n] => RowStep(n, x)]_vars
  <2> SUFFICES ASSUME Next, NEW k \in Node, NEW x \in Node, up[k]
               PROVE  RowStep(k, x)
    BY <1>1
  <2>0. /\ \A m \in Node : Blank(m, members[m])
        /\ members \in [Node -> [Node -> Member]]
        /\ members[k][x] \in Member
        /\ inbox \in [Node -> Seq(Message)]
        /\ issued \in [Node -> Nat] /\ BoxesOwned(inbox, issued)
    BY <1>1, OwnedParts DEF IInv, TypeOK
  <2>a. ASSUME members'[k][x] = members[k][x]
        PROVE  RowStep(k, x)
    BY <2>0, <2>a DEF RowStep, Member
  <2>1. ASSUME NEW n \in Node, ReceiveFrame(n)
        PROVE  RowStep(k, x)
    <3> DEFINE msg == Head(inbox[n])
               table == MarkHeard(n, Merge(n, members[n], msg.gossip), msg.from)
    <3>1. inbox[n] # <<>> /\ msg \in Message
      BY <2>0, <2>1, TakeFacts DEF ReceiveFrame
    <3>2. msg.gossip \in [Node -> Claim] /\ msg.from \in Node
      BY <3>1 DEF Message
    <3>3. \A y \in Node : RowAdvances(n, y, members[n][y], msg.gossip[y],
                                      y = msg.from, table[y])
      BY <2>0, <3>2, HeardTableAdvances
    <3>4. members' = [members EXCEPT ![n] = table]
      BY <2>1 DEF ReceiveFrame
    <3> HIDE DEF table
    <3>5. CASE k = n
      <4>1. RowAdvances(k, x, members[k][x], msg.gossip[x], x = msg.from,
                        members'[k][x])
        BY <2>0, <3>3, <3>4, <3>5
      <4> QED
        BY <3>1, <3>5, <4>1 DEF RowAdvances, RowStep
    <3>6. CASE k # n
      BY <2>0, <2>a, <3>4, <3>6
    <3> QED
      BY <3>5, <3>6
  <2>2. ASSUME NEW n \in Node, FinishTick(n)
        PROVE  RowStep(k, x)
    <3>1. members' = [members EXCEPT ![n] = Age(members[n])]
      BY <2>2 DEF FinishTick
    <3>2. CASE k = n
      <4>1. members'[k][x] = AgeEntry(members[k][x])
        BY <2>0, <3>1, <3>2, AgeFacts
      <4>2. /\ members'[k][x].inc = members[k][x].inc
            /\ members[k][x].state = "dead" => members'[k][x].state = "dead"
            /\ members[k][x].state = "suspect" => members'[k][x].state # "alive"
        BY <2>0, <4>1, AgeEntryFacts
      <4>3. members[k][x].inc \in Nat
        BY <2>0 DEF Member
      <4> QED
        BY <4>2, <4>3 DEF RowStep
    <3>3. CASE k # n
      BY <2>0, <2>a, <3>1, <3>3
    <3> QED
      BY <3>2, <3>3
  <2>3. ASSUME NEW n \in Node, Restart(n)
        PROVE  RowStep(k, x)
    <3>1. members' = [members EXCEPT ![n] = SeedTable(n)] /\ n # k
      BY <2>3 DEF Restart
    <3> QED
      BY <2>0, <2>a, <3>1
  <2>4. ASSUME NEW n \in Node, Join(n) \/ LoseFrame(n) \/ Crash(n)
        PROVE  RowStep(k, x)
    <3>1. members' = members
      BY <2>4 DEF Join, LoseFrame, Crash
    <3> QED
      BY <2>a, <3>1
  <2> QED
    BY <2>1, <2>2, <2>3, <2>4 DEF Next
<1> QED
  BY <1>1, SpecIInv, PTL DEF Spec, RowsOnlyAdvance

=============================================================================
