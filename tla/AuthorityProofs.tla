-------------------------- MODULE AuthorityProofs --------------------------
(***************************************************************************)
(* Proofs about the instances of MCAuthority, for every value of their     *)
(* constants: what the list of revoked tokens keeps, what a session's      *)
(* chain is made of, which checkpoints commit, which answers an audited    *)
(* decision gives, and which bursts the alerts miss.                       *)
(***************************************************************************)
EXTENDS MCAuthority, Sequences, SequenceTheorems, FiniteSetTheorems,
        WellFoundedInduction, TLAPS

-----------------------------------------------------------------------------
(* Lists of checks *)

\* A set of numbers has a least one.
LEMMA LeastNatural ==
    ASSUME NEW N \in SUBSET Nat, N # {}
    PROVE  \E x \in N : \A y \in N : x <= y
<1>1. PICK x \in N : \A y \in N : ~(<<y, x>> \in OpToRel(<, Nat))
  BY NatLessThanWellFounded, WFMin
<1>2. ASSUME NEW y \in N PROVE x <= y
  <2>1. ~(<<y, x>> \in {ss \in Nat \X Nat : ss[1] < ss[2]}) BY <1>1 DEF OpToRel
  <2>2. ~(y < x) BY <2>1
  <2> QED BY <2>2
<1> QED BY <1>2

\* A list of checks finds nothing only when none fails, and what it reports is
\* the reason of one that does.
LEMMA FirstFailureFails ==
    ASSUME NEW X, NEW a \in Seq(X), \A x \in X : x[1] => x[2] # "ok"
    PROVE  /\ S!FirstFailure(a) = "ok" => \A i \in 1..Len(a) : ~a[i][1]
           /\ S!FirstFailure(a) # "ok" =>
                \E i \in 1..Len(a) : a[i][1] /\ a[i][2] = S!FirstFailure(a)
<1> DEFINE failing == {i \in DOMAIN a : a[i][1]}
           first == CHOOSE i \in failing : \A j \in failing : i <= j
<1>1. S!FirstFailure(a) = IF failing = {} THEN "ok" ELSE a[first][2] BY DEF S!FirstFailure
<1>2. DOMAIN a = 1..Len(a) /\ Len(a) \in Nat OBVIOUS
<1>3. failing # {} => first \in failing
  <2> SUFFICES ASSUME failing # {} PROVE first \in failing OBVIOUS
  <2>1. failing \in SUBSET Nat BY <1>2
  <2> HIDE DEF failing
  <2>2. \E i \in failing : \A j \in failing : i <= j BY <2>1, LeastNatural
  <2> QED BY <2>2
<1> HIDE DEF first
<1>4. failing # {} => a[first] \in X /\ a[first][1] /\ first \in 1..Len(a) BY <1>2, <1>3
<1>5. failing # {} => a[first][2] # "ok" BY <1>4
<1>6. failing = {} => \A i \in 1..Len(a) : ~a[i][1] BY <1>2
<1> HIDE DEF failing
<1> QED BY <1>1, <1>4, <1>5, <1>6

\* When two lists of checks in a row find nothing, no check of either fails.
LEMMA AllPass ==
    ASSUME NEW X, NEW a \in Seq(X), NEW b \in Seq(X),
           \A x \in X : x[1] => x[2] # "ok",
           S!FirstFailure(a \o b) = "ok"
    PROVE  (\A i \in 1..Len(a) : ~a[i][1]) /\ (\A i \in 1..Len(b) : ~b[i][1])
<1> DEFINE ab == a \o b
<1>1. /\ ab \in Seq(X) /\ Len(ab) = Len(a) + Len(b)
      /\ \A i \in 1..Len(a) + Len(b) : ab[i] = IF i <= Len(a) THEN a[i] ELSE b[i - Len(a)]
  BY ConcatProperties
<1>2. \A i \in 1..Len(ab) : ~ab[i][1] BY <1>1, FirstFailureFails
<1> HIDE DEF ab
<1>3. Len(a) \in Nat /\ Len(b) \in Nat OBVIOUS
<1>4. ASSUME NEW i \in 1..Len(a) PROVE ~a[i][1] BY <1>1, <1>2, <1>3
<1>5. ASSUME NEW i \in 1..Len(b) PROVE ~b[i][1]
  <2>1. Len(a) + i \in 1..Len(a) + Len(b) /\ ~(Len(a) + i <= Len(a)) /\ (Len(a) + i) - Len(a) = i
    BY <1>3
  <2>2. ab[Len(a) + i] = b[i] BY <1>1, <2>1
  <2> QED BY <1>1, <1>2, <2>1, <2>2
<1> QED BY <1>4, <1>5

-----------------------------------------------------------------------------
(* The file of revocations *)

Line == [jti : Revocable \cup {NoJti}, parses : BOOLEAN, ended : BOOLEAN]

FileTypes ==
    /\ lines \in Seq(Line)
    /\ revoking \in [Revoker -> Revocable \cup {NoJti}]
    /\ asking \in [Checker -> Revocable \cup {NoJti}]
    /\ owed \in [Checker -> BOOLEAN]
    /\ told \in [Checker -> {"yes", "no", "raised", "nothing"}]

Corrupt(file) == \E i \in DOMAIN file : ~file[i].parses

\* The file holds every revocation in the set, or answers nobody.
OnFile(file, ids) == Corrupt(file) \/ \A j \in ids : \E i \in DOMAIN file : file[i].jti = j

\* What a checker is owed stays on record while it waits for its answer.
OwedOnRecord == \A c \in Checker : asking[c] # NoJti /\ owed[c] => asking[c] \in revokedIds

FileInv == FileTypes /\ OnFile(lines, revokedIds) /\ OwedOnRecord /\ RevocationStands

\* An append leaves every line but the last alone; the last line stays too, or
\* is spoilt by the record that runs into it.
LEMMA AppendedLines ==
    ASSUME NEW file \in Seq(Line), NEW rec \in Line
    PROVE  /\ L!Appended(file, rec) \in Seq(Line)
           /\ \/ L!Appended(file, rec) = Append(file, rec)
              \/ Corrupt(L!Appended(file, rec))
<1>1. CASE file = <<>> \/ L!Last(file).ended
  BY <1>1 DEF L!Appended
<1>2. CASE ~(file = <<>> \/ L!Last(file).ended)
  <2> DEFINE spoilt == [rec EXCEPT !.parses = FALSE]
             front == L!Front(file)
  <2>1. spoilt \in Line /\ spoilt.parses = FALSE BY DEF Line
  <2>2. Len(file) \in Nat /\ Len(file) >= 1 BY <1>2
  <2>3. front \in Seq(Line) BY <2>2 DEF L!Front
  <2>4. L!Appended(file, rec) = Append(front, spoilt) BY <1>2 DEF L!Appended
  <2> HIDE DEF front, spoilt
  <2>5. Append(front, spoilt) \in Seq(Line) /\ Len(front) \in Nat BY <2>1, <2>3
  <2>6. /\ Len(front) + 1 \in DOMAIN Append(front, spoilt)
        /\ Append(front, spoilt)[Len(front) + 1] = spoilt
    BY <2>1, <2>3
  <2>7. Corrupt(Append(front, spoilt)) BY <2>1, <2>6 DEF Corrupt
  <2> QED BY <2>4, <2>5, <2>7
<1> QED BY <1>1, <1>2

\* What the file held it holds after an append, and the appended record with it.
LEMMA AppendKeeps ==
    ASSUME NEW file \in Seq(Line), NEW rec \in Line, NEW ids, OnFile(file, ids)
    PROVE  OnFile(L!Appended(file, rec), ids \cup {rec.jti})
<1>1. CASE Corrupt(L!Appended(file, rec)) BY <1>1 DEF OnFile
<1>2. CASE L!Appended(file, rec) = Append(file, rec)
  <2>1. /\ DOMAIN Append(file, rec) = DOMAIN file \cup {Len(file) + 1}
        /\ Append(file, rec)[Len(file) + 1] = rec
        /\ \A i \in DOMAIN file : Append(file, rec)[i] = file[i]
    OBVIOUS
  <2>2. CASE Corrupt(file) BY <1>2, <2>1, <2>2 DEF OnFile, Corrupt
  <2>3. CASE \A j \in ids : \E i \in DOMAIN file : file[i].jti = j
    BY <1>2, <2>1, <2>3 DEF OnFile
  <2> QED BY <2>2, <2>3 DEF OnFile
<1> QED BY <1>1, <1>2, AppendedLines

LEMMA FileInit == L!Init => FileInv
<1> SUFFICES ASSUME L!Init PROVE FileInv OBVIOUS
<1>1. FileTypes BY DEF L!Init, FileTypes
<1>2. OnFile(lines, revokedIds) BY DEF L!Init, OnFile
<1>3. OwedOnRecord /\ RevocationStands BY DEF L!Init, OwedOnRecord, RevocationStands, L!RevocationStands
<1> QED BY <1>1, <1>2, <1>3 DEF FileInv

LEMMA WriteKeeps ==
    ASSUME FileInv, NEW r \in Revoker, L!Write(r) PROVE FileInv'
<1> DEFINE rec == [jti |-> revoking[r], parses |-> TRUE, ended |-> TRUE]
<1>1. rec \in Line /\ rec.jti = revoking[r] BY DEF FileInv, FileTypes, Line
<1>2. lines' = L!Appended(lines, rec) /\ revokedIds' = revokedIds \cup {rec.jti} BY DEF L!Write
<1> HIDE DEF rec
<1>3. lines' \in Seq(Line) BY <1>1, <1>2, AppendedLines DEF FileInv, FileTypes
<1>4. OnFile(lines', revokedIds') BY <1>1, <1>2, AppendKeeps DEF FileInv, FileTypes
<1>5. FileTypes' BY <1>3 DEF FileInv, FileTypes, L!Write
<1>6. OwedOnRecord' BY <1>2 DEF FileInv, OwedOnRecord, L!Write
<1>7. RevocationStands' BY DEF FileInv, RevocationStands, L!RevocationStands, L!Write
<1> QED BY <1>4, <1>5, <1>6, <1>7 DEF FileInv

LEMMA BreakKeeps ==
    ASSUME FileInv, NEW r \in Revoker, L!WriteBreaksOff(r) PROVE FileInv'
<1>1. PICK whole \in BOOLEAN :
        lines' = L!Appended(lines, [jti |-> revoking[r], parses |-> whole, ended |-> FALSE])
  BY DEF L!WriteBreaksOff
<1> DEFINE rec == [jti |-> revoking[r], parses |-> whole, ended |-> FALSE]
<1>2. rec \in Line BY DEF FileInv, FileTypes, Line
<1>3. lines' = L!Appended(lines, rec) /\ revokedIds' = revokedIds BY <1>1 DEF L!WriteBreaksOff
<1> HIDE DEF rec
<1>4. lines' \in Seq(Line) BY <1>2, <1>3, AppendedLines DEF FileInv, FileTypes
<1>5. OnFile(lines', revokedIds \cup {rec.jti}) BY <1>2, <1>3, AppendKeeps DEF FileInv, FileTypes
<1>6. OnFile(lines', revokedIds') BY <1>3, <1>5 DEF OnFile
<1>7. FileTypes' BY <1>4 DEF FileInv, FileTypes, L!WriteBreaksOff
<1>8. OwedOnRecord' /\ RevocationStands'
  BY DEF FileInv, OwedOnRecord, RevocationStands, L!RevocationStands, L!WriteBreaksOff
<1> QED BY <1>6, <1>7, <1>8 DEF FileInv

LEMMA AnswerTold ==
    ASSUME FileInv, NEW c \in Checker, L!Answer(c) PROVE FileInv'
<1> USE DEF FileInv
<1>1. UNCHANGED <<lines, revokedIds, owed, revoking>> BY DEF L!Answer
<1>2. FileTypes' BY DEF L!Answer, FileTypes
<1>3. OnFile(lines', revokedIds') BY <1>1
<1>4. OwedOnRecord' BY DEF L!Answer, OwedOnRecord, FileTypes
<1>5. told'[c] = "no" => ~owed[c]
  <2> SUFFICES ASSUME told'[c] = "no", owed[c] PROVE FALSE BY DEF FileTypes
  <2>1. asking[c] # NoJti BY DEF L!Answer
  <2>2. ~L!Load(lines).corrupt /\ asking[c] \notin L!Load(lines).jtis BY DEF L!Answer, FileTypes
  <2>3. ~Corrupt(lines) BY <2>2 DEF L!Load, Corrupt
  <2>4. asking[c] \in revokedIds BY <2>1 DEF OwedOnRecord
  <2>5. PICK i \in DOMAIN lines : lines[i].jti = asking[c] BY <2>3, <2>4 DEF OnFile
  <2>6. asking[c] \in L!Load(lines).jtis BY <2>5 DEF L!Load
  <2> QED BY <2>2, <2>6
<1>6. RevocationStands' BY <1>1, <1>5 DEF L!Answer, RevocationStands, L!RevocationStands, FileTypes
<1> QED BY <1>2, <1>3, <1>4, <1>6

LEMMA FileNext == FileInv /\ [L!Next]_(L!vars) => FileInv'
<1> SUFFICES ASSUME FileInv, [L!Next]_(L!vars) PROVE FileInv' OBVIOUS
<1>1. CASE UNCHANGED L!vars
  BY <1>1 DEF FileInv, L!vars, FileTypes, OnFile, Corrupt, OwedOnRecord, RevocationStands, L!RevocationStands
<1>2. ASSUME NEW r \in Revoker, NEW jti \in Revocable, L!Revoke(r, jti) PROVE FileInv'
  BY <1>2 DEF L!Revoke, FileInv, FileTypes, OnFile, Corrupt, OwedOnRecord, RevocationStands, L!RevocationStands
<1>3. ASSUME NEW c \in Checker, NEW jti \in Revocable, L!IsRevoked(c, jti) PROVE FileInv'
  <2>1. FileTypes' BY <1>3 DEF L!IsRevoked, FileInv, FileTypes
  <2>2. OnFile(lines', revokedIds') BY <1>3 DEF L!IsRevoked, FileInv
  <2>3. OwedOnRecord' BY <1>3 DEF L!IsRevoked, FileInv, FileTypes, OwedOnRecord
  <2>4. RevocationStands' BY <1>3 DEF L!IsRevoked, FileInv, FileTypes, RevocationStands, L!RevocationStands
  <2> QED BY <2>1, <2>2, <2>3, <2>4 DEF FileInv
<1> QED BY <1>1, <1>2, <1>3, WriteKeeps, BreakKeeps, AnswerTold DEF L!Next

\* Whatever revokers write, overlap and break off, no checker is told "no" about
\* a token whose revoke had returned before it asked (is_revoked and _load of
\* FileBackedRevocationList).
THEOREM RevocationsStand == L!Spec => []RevocationStands
<1>1. FileInv => RevocationStands BY DEF FileInv
<1> QED BY FileInit, FileNext, <1>1, PTL DEF L!Spec

-----------------------------------------------------------------------------
(* Session tokens *)

\* What an accepted resume has in common with the token before it.
LEMMA ResumeAccepted ==
    ASSUME NEW k \in Tokens, NEW s \in Sessions, NEW t \in Int,
           S!ResumeReason(k, s, t) = "ok"
    PROVE  LET prev == S!Previous(s)
           IN  /\ k.session_id = prev.session_id
               /\ k.parent_jti = prev.jti
               /\ k.seq = prev.seq + 1
               /\ k.sub = prev.sub /\ k.aud = prev.aud /\ k.scope = prev.scope
               /\ ~(k.exp - S!OpenedAt(s) > MaxSessionLifetime)
               /\ ~(t - MaxClockSkew > k.exp)
<1> DEFINE prev == S!Previous(s)
           openedAt == S!OpenedAt(s)
           x1 == <<k.session_id # prev.session_id, "session_resume_session_mismatch">>
           x2 == <<k.parent_jti # prev.jti, "session_resume_parent_mismatch">>
           x3 == <<k.seq # prev.seq + 1, "session_resume_sequence_invalid">>
           x4 == <<k.sub # prev.sub, "session_resume_subject_drift">>
           x5 == <<k.aud # prev.aud, "session_resume_audience_drift">>
           x6 == <<k.scope # prev.scope, "session_resume_scope_drift">>
           x7 == <<k.exp - openedAt > MaxSessionLifetime, "session_resume_lifetime_exceeded">>
           y1 == <<~S!WellFormed(k), "session_malformed">>
           y2 == <<k.iat > k.nbf \/ k.nbf > k.exp, "session_invalid_validity_window">>
           y3 == <<k.exp - k.nbf > MaxTokenTtl, "session_ttl_exceeded">>
           y4 == <<t + MaxClockSkew < k.nbf, "session_not_yet_valid">>
           y5 == <<t - MaxClockSkew > k.exp, "session_expired">>
           y6 == <<k.flaw = "unknown_issuer", "session_unknown_issuer">>
           y7 == <<k.flaw = "bad_key", "invalid_public_key">>
           y8 == <<k.flaw = "signature", "session_signature_invalid">>
           a == <<x1, x2, x3, x4, x5, x6, x7>>
           b == <<y1, y2, y3, y4, y5, y6, y7, y8>>
           X == {x1, x2, x3, x4, x5, x6, x7, y1, y2, y3, y4, y5, y6, y7, y8}
<1>1. S!FirstFailure(a \o b) = "ok" BY DEF S!ResumeReason, S!ResumeChecks, S!TokenChecks
<1>2. /\ x1[2] # "ok" /\ x2[2] # "ok" /\ x3[2] # "ok" /\ x4[2] # "ok" /\ x5[2] # "ok"
      /\ x6[2] # "ok" /\ x7[2] # "ok"
      /\ y1[2] # "ok" /\ y2[2] # "ok" /\ y3[2] # "ok" /\ y4[2] # "ok" /\ y5[2] # "ok"
      /\ y6[2] # "ok" /\ y7[2] # "ok" /\ y8[2] # "ok"
  OBVIOUS
<1>3. /\ x1[1] <=> k.session_id # prev.session_id
      /\ x2[1] <=> k.parent_jti # prev.jti
      /\ x3[1] <=> k.seq # prev.seq + 1
      /\ x4[1] <=> k.sub # prev.sub
      /\ x5[1] <=> k.aud # prev.aud
      /\ x6[1] <=> k.scope # prev.scope
      /\ x7[1] <=> k.exp - openedAt > MaxSessionLifetime
      /\ y5[1] <=> t - MaxClockSkew > k.exp
  BY Zenon
<1> HIDE DEF x1, x2, x3, x4, x5, x6, x7, y1, y2, y3, y4, y5, y6, y7, y8, prev, openedAt
<1>4. a \in Seq(X) /\ b \in Seq(X) /\ Len(a) = 7 /\ Len(b) = 8 OBVIOUS
<1>5. \A x \in X : x[1] => x[2] # "ok" BY <1>2
<1>6. a[1] = x1 /\ a[2] = x2 /\ a[3] = x3 /\ a[4] = x4 /\ a[5] = x5 /\ a[6] = x6 /\ a[7] = x7
      /\ b[5] = y5
  OBVIOUS
<1> HIDE DEF a, b, X
<1>7. (\A i \in 1..7 : ~a[i][1]) /\ (\A i \in 1..8 : ~b[i][1]) BY <1>1, <1>4, <1>5, AllPass
<1>8. ~x1[1] /\ ~x2[1] /\ ~x3[1] /\ ~x4[1] /\ ~x5[1] /\ ~x6[1] /\ ~x7[1] /\ ~y5[1]
  BY <1>6, <1>7
<1> QED BY <1>3, <1>8 DEF prev, openedAt

Accepted == [token : Tokens, at : Int]

\* The session's chain, with what ChainStrict says of it for one position.
Link(s, i) ==
    LET k == chain[s][i].token
    IN  /\ k.session_id = s /\ k.seq = i - 1
        /\ i > 1 => /\ k.parent_jti = chain[s][i - 1].token.jti
                    /\ chain[s][i].at <= S!OpenedAt(s) + MaxSessionLifetime + MaxClockSkew
        /\ \A f \in {"sub", "aud", "scope"} : k[f] = chain[s][1].token[f]

SessionTypes == clock \in Int /\ chain \in [Sessions -> Seq(Accepted)]

SessionInv == SessionTypes /\ ChainStrict

LEMMA TokenFields ==
    ASSUME NEW k \in Tokens
    PROVE  k.session_id \in Sessions /\ k.seq \in Nat /\ k.iat \in Int /\ k.exp \in Int
BY SessionAssumption DEF S!SessionConstants

LEMMA StrictLinks ==
    ChainStrict <=> /\ last.reason = "ok" => last.event = "ok"
                    /\ \A s \in Sessions : \A i \in DOMAIN chain[s] : Link(s, i)
BY DEF ChainStrict, S!ChainStrict, Link

\* A token that fits is appended: the links before it do not change.
LEMMA AppendLink ==
    ASSUME SessionTypes, NEW s \in Sessions, NEW k \in Tokens,
           \A i \in DOMAIN chain[s] : Link(s, i),
           chain' = [chain EXCEPT ![s] = Append(@, [token |-> k, at |-> clock])],
           k.session_id = s,
           chain[s] = <<>> => k.seq = 0,
           chain[s] # <<>> => S!ResumeReason(k, s, clock) = "ok"
    PROVE  \A i \in DOMAIN chain'[s] : Link(s, i)'
<1> DEFINE c == chain[s]
           n == Len(chain[s])
           new == [token |-> k, at |-> clock]
<1>1. c \in Seq(Accepted) /\ n \in Nat /\ new \in Accepted
  <2>1. c \in Seq(Accepted) BY DEF SessionTypes
  <2>2. n \in Nat BY <2>1, LenProperties
  <2>3. clock \in Int BY DEF SessionTypes
  <2>4. new \in Accepted BY <2>3 DEF Accepted
  <2> QED BY <2>1, <2>2, <2>4
<1>2. chain'[s] = Append(c, new) BY DEF SessionTypes
<1>3. /\ DOMAIN chain'[s] = 1..(n + 1) /\ chain'[s][n + 1] = new
      /\ \A i \in 1..n : chain'[s][i] = c[i]
  BY <1>1, <1>2
<1>4. new.token = k /\ new.at = clock OBVIOUS
<1>5. ASSUME NEW i \in 1..n PROVE Link(s, i)'
  <2>1. Link(s, i) /\ DOMAIN c = 1..n BY <1>1
  <2>2. chain'[s][i] = chain[s][i] /\ chain'[s][1] = chain[s][1] BY <1>3
  <2>3. i > 1 => chain'[s][i - 1] = chain[s][i - 1] BY <1>1, <1>3
  <2> QED BY <2>1, <2>2, <2>3 DEF Link, S!OpenedAt
<1>6. CASE c = <<>>
  <2>1. n = 0 BY <1>6
  <2>2. chain'[s][1] = new BY <2>1, <1>3
  <2>3. Link(s, 1)' BY <2>2, <1>4, <1>6 DEF Link
  <2> QED BY <2>1, <2>3, <1>3
<1>7. CASE c # <<>>
  <2> DEFINE prev == c[n].token
             first == c[1].token
  <2>1. n >= 1 /\ n \in 1..n /\ 1 \in 1..n /\ DOMAIN c = 1..n BY <1>1, <1>7
  <2>2. S!Previous(s) = prev /\ S!OpenedAt(s) = first.iat BY DEF S!Previous, S!OpenedAt
  <2>3. Link(s, n) BY <2>1
  <2>4. prev.seq = n - 1 /\ \A f \in {"sub", "aud", "scope"} : prev[f] = first[f]
    BY <2>3 DEF Link
  <2>5. /\ k.parent_jti = prev.jti /\ k.seq = prev.seq + 1
        /\ k.sub = prev.sub /\ k.aud = prev.aud /\ k.scope = prev.scope
        /\ ~(k.exp - first.iat > MaxSessionLifetime) /\ ~(clock - MaxClockSkew > k.exp)
    BY <1>7, <2>2, ResumeAccepted DEF SessionTypes
  <2>6. first \in Tokens
    <3>1. c[1] \in Accepted BY <1>1, <2>1, ElementOfSeq
    <3> HIDE DEF c
    <3> QED BY <3>1 DEF Accepted
  <2>7. k.seq \in Nat /\ k.exp \in Int /\ first.iat \in Int /\ clock \in Int
        /\ MaxSessionLifetime \in Nat /\ MaxClockSkew \in Nat
    BY <2>6, TokenFields, SessionAssumption DEF S!SessionConstants, SessionTypes
  <2>8. clock <= first.iat + MaxSessionLifetime + MaxClockSkew BY <2>5, <2>7, SMTT(30)
  <2>9. k.seq = (n + 1) - 1 BY <2>4, <2>5, <1>1
  <2>10. chain'[s][1] = c[1] /\ chain'[s][n + 1] = new /\ chain'[s][(n + 1) - 1] = c[n]
    BY <2>1, <1>1, <1>3
  <2>11. \A f \in {"sub", "aud", "scope"} : k[f] = first[f] BY <2>4, <2>5
  <2>12. ASSUME NEW m \in Nat, m = n + 1 PROVE Link(s, m)'
    <3>1. chain'[s][m].token = k /\ chain'[s][m].at = clock BY <2>10, <1>4, <2>12
    <3>2. chain'[s][1].token = first /\ chain'[s][m - 1].token = prev BY <2>10, <2>12
    <3>3. S!OpenedAt(s)' = first.iat BY <3>2 DEF S!OpenedAt
    <3>4. k.seq = m - 1 BY <2>9, <2>12
    <3> HIDE DEF c, n, new, prev, first
    <3> QED BY <3>1, <3>2, <3>3, <3>4, <2>5, <2>8, <2>11 DEF Link
  <2> SUFFICES ASSUME NEW i \in DOMAIN chain'[s] PROVE Link(s, i)' OBVIOUS
  <2>13. i \in 1..n \/ (i \in Nat /\ i = n + 1) BY <1>1, <1>3
  <2> HIDE DEF n
  <2> QED BY <2>13, <1>5, <2>12
<1> QED BY <1>6, <1>7

LEMMA SessionInit == S!Init => SessionInv
<1> SUFFICES ASSUME S!Init PROVE SessionInv OBVIOUS
<1>1. SessionTypes BY DEF S!Init, SessionTypes
<1>2. last.reason = "ok" => last.event = "ok" BY DEF S!Init
<1>3. \A s \in Sessions : DOMAIN chain[s] = {} BY DEF S!Init
<1> QED BY <1>1, <1>2, <1>3, StrictLinks DEF SessionInv

LEMMA AnswerKeeps ==
    ASSUME SessionInv, NEW k \in Tokens, NEW s \in Sessions, NEW reason,
           S!Answer(k, s, reason),
           reason = "ok" => k.session_id = s,
           reason = "ok" /\ chain[s] = <<>> => k.seq = 0,
           reason = "ok" /\ chain[s] # <<>> => S!ResumeReason(k, s, clock) = "ok"
    PROVE  SessionInv'
<1>1. PICK e \in S!Emitted(reason) :
        /\ last' = [token |-> k, session |-> s, reason |-> e.reason, event |-> e.event]
        /\ chain' = IF e.reason = "ok"
                      THEN [chain EXCEPT ![s] = Append(@, [token |-> k, at |-> clock])]
                      ELSE chain
        /\ clock' = clock
  BY DEF S!Answer
<1>2. e.reason = "ok" => reason = "ok" /\ e.event = "ok" BY DEF S!Emitted
<1>3. last'.reason = "ok" => last'.event = "ok" BY <1>1, <1>2
<1>4. SessionTypes /\ \A d \in Sessions : \A i \in DOMAIN chain[d] : Link(d, i)
  BY StrictLinks DEF SessionInv
<1>5. SessionTypes' /\ \A d \in Sessions : \A i \in DOMAIN chain'[d] : Link(d, i)'
  <2>1. CASE e.reason # "ok"
    <3>1. chain' = chain /\ clock' = clock BY <1>1, <2>1
    <3> QED BY <1>4, <3>1 DEF SessionTypes, Link, S!OpenedAt
  <2>2. CASE e.reason = "ok"
    <3>1. chain' = [chain EXCEPT ![s] = Append(@, [token |-> k, at |-> clock])]
      BY <1>1, <2>2
    <3>2. [token |-> k, at |-> clock] \in Accepted BY <1>4 DEF SessionTypes, Accepted
    <3>3. SessionTypes' BY <1>1, <1>4, <3>1, <3>2 DEF SessionTypes
    <3>4. \A i \in DOMAIN chain'[s] : Link(s, i)' BY <1>2, <1>4, <2>2, <3>1, AppendLink
    <3>5. ASSUME NEW d \in Sessions, d # s, NEW i \in DOMAIN chain'[d] PROVE Link(d, i)'
      <4>1. chain'[d] = chain[d] BY <3>1, <3>5, <1>4 DEF SessionTypes
      <4> QED BY <1>4, <4>1 DEF Link, S!OpenedAt
    <3> QED BY <3>3, <3>4, <3>5
  <2> QED BY <2>1, <2>2
<1>6. ChainStrict' BY <1>3, <1>5 DEF ChainStrict, S!ChainStrict, Link
<1> QED BY <1>5, <1>6 DEF SessionInv

LEMMA SessionNext == SessionInv /\ [S!Next]_(S!vars) => SessionInv'
<1> SUFFICES ASSUME SessionInv, [S!Next]_(S!vars) PROVE SessionInv' OBVIOUS
<1>1. CASE UNCHANGED S!vars
  BY <1>1 DEF S!vars, SessionInv, SessionTypes, ChainStrict, S!ChainStrict, S!OpenedAt
<1>2. CASE S!Tick
  <2>1. chain' = chain /\ last' = last /\ clock' = clock + 1 BY <1>2 DEF S!Tick
  <2> QED BY <2>1 DEF SessionInv, SessionTypes, ChainStrict, S!ChainStrict, S!OpenedAt
<1>3. ASSUME NEW k \in Tokens, S!Open(k) PROVE SessionInv'
  <2>1. k.session_id \in Sessions BY TokenFields
  <2>2. chain[k.session_id] = <<>> /\ k.seq = 0 BY <1>3 DEF S!Open, S!Opened
  <2>3. S!Answer(k, k.session_id, S!OpenReason(k, clock)) BY <1>3 DEF S!Open
  <2> QED BY <2>1, <2>2, <2>3, AnswerKeeps
<1>4. ASSUME NEW k \in Tokens, NEW s \in Sessions, S!Resume(k, s) PROVE SessionInv'
  <2> DEFINE reason == S!ResumeReason(k, s, clock)
  <2>1. chain[s] # <<>> /\ S!Answer(k, s, reason) BY <1>4 DEF S!Resume, S!Opened
  <2>2. chain[s] \in Seq(Accepted) BY DEF SessionInv, SessionTypes
  <2>3. Len(chain[s]) \in DOMAIN chain[s] BY <2>1, <2>2
  <2>4. S!Previous(s).session_id = s
    BY <2>3, StrictLinks DEF SessionInv, Link, S!Previous
  <2>5. reason = "ok" => k.session_id = s
    BY <2>4, ResumeAccepted DEF SessionInv, SessionTypes
  <2> HIDE DEF reason
  <2> QED BY <2>1, <2>5, AnswerKeeps DEF reason
<1> QED BY <1>1, <1>2, <1>3, <1>4 DEF S!Next

\* However tokens are replayed, skipped and reordered, the tokens accepted in a
\* session form one strict chain that ends with the session's lifetime, and no
\* token is accepted without its audit event (verify_session_token, verify_resume).
THEOREM StrictSessions == S!Spec => []ChainStrict
<1>1. SessionInv => ChainStrict BY DEF SessionInv
<1> QED BY SessionInit, SessionNext, <1>1, PTL DEF S!Spec

-----------------------------------------------------------------------------
(* Checkpointed execution *)

Expired(t) == current[t] - MaxClockSkew > Exp[t]

CheckpointTypes ==
    /\ clock \in Int /\ current \in [Tasks -> Int]
    /\ pc \in [Tasks -> {"working", "called", "decided"}]
    /\ DOMAIN verdict = Tasks /\ DOMAIN active = Tasks /\ DOMAIN done = Tasks

\* What a doomed task failed of it fails of for good: the ledger only grows,
\* and the clock does not run back behind the time an earlier call was given.
DoomLasts ==
    \A t \in Tasks :
      /\ current[t] <= clock \/ pc[t] = "working"
      /\ t \in doomed =>
           \/ Jti[t] \in revoked
           \/ pc[t] = "working" /\ clock - MaxClockSkew > Exp[t]
           \/ pc[t] # "working" /\ Expired(t)

\* What the verdict that waits for the sink stands for.
VerdictJust ==
    \A t \in Tasks : pc[t] = "decided" =>
      /\ verdict[t] \in {"ok", "checkpoint_capability_expired",
                         "checkpoint_capability_revoked", "checkpoint_policy_epoch_mismatch"}
      /\ verdict[t] = "ok" =>
           t \notin doomed /\ ~Expired(t) /\ active[t] = Policy[t].expected_epoch
      /\ verdict[t] = "checkpoint_capability_expired" => Expired(t)
      /\ verdict[t] = "checkpoint_capability_revoked" => Jti[t] \in revoked

CheckpointInv == CheckpointTypes /\ DoomLasts /\ VerdictJust

LEMMA VerdictOfChecks ==
    ASSUME NEW t \in Tasks
    PROVE  LET v == C!FirstFailure(C!CheckpointChecks(t))
           IN  /\ v \in {"ok", "checkpoint_capability_expired",
                         "checkpoint_capability_revoked", "checkpoint_policy_epoch_mismatch"}
               /\ v = "ok" => ~Expired(t) /\ Jti[t] \notin revoked
                              /\ active[t] = Policy[t].expected_epoch
               /\ v = "checkpoint_capability_expired" => Expired(t)
               /\ v = "checkpoint_capability_revoked" => Jti[t] \in revoked
<1> DEFINE x1 == <<current[t] - MaxClockSkew > Exp[t], "checkpoint_capability_expired">>
           x2 == <<Jti[t] \in revoked, "checkpoint_capability_revoked">>
           x3 == <<active[t] # Policy[t].expected_epoch, "checkpoint_policy_epoch_mismatch">>
           a == <<x1, x2, x3>>
           X == {x1, x2, x3}
           v == C!FirstFailure(C!CheckpointChecks(t))
<1>1. v = S!FirstFailure(a) BY DEF C!FirstFailure, S!FirstFailure, C!CheckpointChecks
<1>2. /\ x1[2] = "checkpoint_capability_expired"
      /\ x2[2] = "checkpoint_capability_revoked"
      /\ x3[2] = "checkpoint_policy_epoch_mismatch"
  OBVIOUS
<1>3. /\ x1[1] <=> Expired(t)
      /\ x2[1] <=> Jti[t] \in revoked
      /\ x3[1] <=> active[t] # Policy[t].expected_epoch
  BY Zenon DEF Expired
<1> HIDE DEF x1, x2, x3, v
<1>4. a \in Seq(X) /\ Len(a) = 3 OBVIOUS
<1>5. \A x \in X : x[1] => x[2] # "ok" BY <1>2
<1>6. a[1] = x1 /\ a[2] = x2 /\ a[3] = x3 OBVIOUS
<1> HIDE DEF a, X
<1>7. CASE v = "ok"
  <2>1. \A i \in 1..3 : ~a[i][1] BY <1>1, <1>4, <1>5, <1>7, FirstFailureFails
  <2>2. ~x1[1] /\ ~x2[1] /\ ~x3[1] BY <2>1, <1>6
  <2> QED BY <1>3, <1>7, <2>2 DEF v
<1>8. CASE v # "ok"
  <2>1. PICK i \in 1..3 : a[i][1] /\ a[i][2] = v BY <1>1, <1>4, <1>5, <1>8, FirstFailureFails
  <2>2. \/ x1[1] /\ x1[2] = v
        \/ x2[1] /\ x2[2] = v
        \/ x3[1] /\ x3[2] = v
    BY <2>1, <1>6
  <2> QED BY <1>2, <1>3, <1>8, <2>2 DEF v
<1> QED BY <1>7, <1>8

LEMMA CheckpointInit == C!Init => CheckpointInv
BY DEF C!Init, CheckpointInv, CheckpointTypes, DoomLasts, VerdictJust

LEMMA CheckpointNext == CheckpointInv /\ [C!Next]_(C!vars) => CheckpointInv'
<1> SUFFICES ASSUME CheckpointInv, [C!Next]_(C!vars) PROVE CheckpointInv' OBVIOUS
<1> USE DEF CheckpointInv
<1>0. MaxClockSkew \in Nat /\ \A t \in Tasks : Exp[t] \in Int
  BY CheckpointAssumption DEF C!CheckpointConstants
<1>1. CASE UNCHANGED C!vars
  BY <1>1 DEF C!vars, CheckpointTypes, DoomLasts, VerdictJust, Expired
<1>2. CASE C!Tick
  <2>1. CheckpointTypes' BY <1>2 DEF C!Tick, CheckpointTypes
  <2>2. DoomLasts' BY <1>0, <1>2 DEF C!Tick, CheckpointTypes, DoomLasts, Expired
  <2>3. VerdictJust' BY <1>2 DEF C!Tick, VerdictJust, Expired
  <2> QED BY <2>1, <2>2, <2>3
<1>3. ASSUME NEW t \in Tasks, C!Revoke(Jti[t]) PROVE CheckpointInv'
  <2>1. CheckpointTypes' BY <1>3 DEF C!Revoke, CheckpointTypes
  <2>2. DoomLasts' BY <1>3 DEF C!Revoke, DoomLasts, Expired
  <2>3. VerdictJust' BY <1>3 DEF C!Revoke, VerdictJust, Expired
  <2> QED BY <2>1, <2>2, <2>3
<1>4. ASSUME NEW e \in Epochs, C!Rotate(e) PROVE CheckpointInv'
  BY <1>4 DEF C!Rotate, CheckpointTypes, DoomLasts, VerdictJust, Expired
<1>5. ASSUME NEW t \in Tasks, C!Begin(t) PROVE CheckpointInv'
  <2>1. CheckpointTypes' BY <1>5 DEF C!Begin, CheckpointTypes
  <2>2. DoomLasts' BY <1>5 DEF C!Begin, CheckpointTypes, DoomLasts, Expired
  <2>3. VerdictJust' BY <1>5 DEF C!Begin, CheckpointTypes, VerdictJust, Expired
  <2> QED BY <2>1, <2>2, <2>3
<1>6. ASSUME NEW t \in Tasks, C!Decide(t) PROVE CheckpointInv'
  <2> DEFINE v == C!FirstFailure(C!CheckpointChecks(t))
  <2>1. /\ pc[t] = "called" /\ pc' = [pc EXCEPT ![t] = "decided"]
        /\ verdict' = [verdict EXCEPT ![t] = v]
        /\ UNCHANGED <<clock, revoked, current, active, done, doomed>>
    BY <1>6 DEF C!Decide
  <2>2. /\ v \in {"ok", "checkpoint_capability_expired",
                  "checkpoint_capability_revoked", "checkpoint_policy_epoch_mismatch"}
        /\ v = "ok" => ~Expired(t) /\ Jti[t] \notin revoked
                       /\ active[t] = Policy[t].expected_epoch
        /\ v = "checkpoint_capability_expired" => Expired(t)
        /\ v = "checkpoint_capability_revoked" => Jti[t] \in revoked
    BY VerdictOfChecks
  <2> HIDE DEF v
  <2>3. CheckpointTypes' BY <2>1 DEF CheckpointTypes
  <2>4. DoomLasts' BY <2>1 DEF CheckpointTypes, DoomLasts, Expired
  <2>5. v = "ok" => t \notin doomed BY <2>1, <2>2 DEF DoomLasts
  <2>6. VerdictJust' BY <2>1, <2>2, <2>5 DEF CheckpointTypes, VerdictJust, Expired
  <2> QED BY <2>3, <2>4, <2>6
<1>7. ASSUME NEW t \in Tasks, C!Return(t) PROVE CheckpointInv'
  <2>1. CheckpointTypes' BY <1>7 DEF C!Return, CheckpointTypes
  <2>2. DoomLasts'
    BY <1>0, <1>7 DEF C!Return, CheckpointTypes, DoomLasts, VerdictJust, Expired
  <2>3. VerdictJust' BY <1>7 DEF C!Return, CheckpointTypes, VerdictJust, Expired
  <2> QED BY <2>1, <2>2, <2>3
<1> QED BY <1>1, <1>2, <1>3, <1>4, <1>5, <1>6, <1>7 DEF C!Next

\* A step that returns a commit returns the decision of an "ok".
LEMMA CommitIsOk ==
    ASSUME CheckpointInv, NEW t \in Tasks, C!Return(t), done'[t].action = "commit"
    PROVE  verdict[t] = "ok" /\ done'[t].event = "ok"
<1>1. PICK d \in C!Emitted(t) : done' = [done EXCEPT ![t] = d] BY DEF C!Return
<1>2. done'[t] = d BY <1>1 DEF CheckpointInv, CheckpointTypes
<1>3. d.action = "commit" BY <1>2
<1>4. d = [action |-> C!ActionOf(t, verdict[t]), reason |-> verdict[t], event |-> verdict[t]]
  BY <1>3 DEF C!Emitted
<1>5. C!ActionOf(t, verdict[t]) = "commit" /\ d.event = verdict[t] BY <1>3, <1>4
<1>6. pc[t] = "decided" BY DEF C!Return
<1>7. verdict[t] \in {"ok", "checkpoint_capability_expired",
                      "checkpoint_capability_revoked", "checkpoint_policy_epoch_mismatch"}
  BY <1>6 DEF CheckpointInv, VerdictJust
<1>8. /\ Policy[t].on_expired # "commit" /\ Policy[t].on_revoked # "commit"
      /\ Policy[t].on_epoch # "commit"
  BY CheckpointAssumption DEF C!CheckpointConstants
<1>9. verdict[t] = "ok" BY <1>5, <1>7, <1>8 DEF C!ActionOf
<1> QED BY <1>2, <1>5, <1>9

\* Whatever the operator revokes and rotates between the moments of a call, a
\* task commits only under the epoch it was authorized for, with a capability
\* that was current when the call began, on the record, and never once it was
\* refused for good (validate_checkpoint, _emit_checkpoint).
THEOREM CheckpointedCommits == C!Spec => CommitsAuthorized
<1> DEFINE Authorized ==
             \A t \in Tasks :
               pc[t] = "decided" /\ pc'[t] = "working" /\ done'[t].action = "commit" =>
                 /\ t \notin doomed
                 /\ active[t] = Policy[t].expected_epoch
                 /\ current[t] <= Exp[t] + MaxClockSkew
                 /\ done'[t].event = "ok"
<1>1. ASSUME CheckpointInv, [C!Next]_(C!vars) PROVE [Authorized]_(C!vars)
  <2> SUFFICES ASSUME C!Next PROVE Authorized BY <1>1
  <2> SUFFICES ASSUME NEW t \in Tasks, pc[t] = "decided", pc'[t] = "working",
                      done'[t].action = "commit"
               PROVE  /\ t \notin doomed
                      /\ active[t] = Policy[t].expected_epoch
                      /\ current[t] <= Exp[t] + MaxClockSkew
                      /\ done'[t].event = "ok"
    OBVIOUS
  <2>1. C!Return(t)
    BY <1>1 DEF C!Next, C!Tick, C!Revoke, C!Rotate, C!Begin, C!Decide, C!Return,
                CheckpointInv, CheckpointTypes
  <2>2. verdict[t] = "ok" /\ done'[t].event = "ok" BY <1>1, <2>1, CommitIsOk
  <2>3. t \notin doomed /\ ~Expired(t) /\ active[t] = Policy[t].expected_epoch
    BY <1>1, <2>2 DEF CheckpointInv, VerdictJust
  <2>4. MaxClockSkew \in Nat /\ Exp[t] \in Int /\ current[t] \in Int
    BY <1>1, CheckpointAssumption DEF C!CheckpointConstants, CheckpointInv, CheckpointTypes
  <2> QED BY <2>2, <2>3, <2>4 DEF Expired
<1>2. C!Spec => [][Authorized]_(C!vars) BY <1>1, CheckpointInit, CheckpointNext, PTL DEF C!Spec
<1> QED BY <1>2 DEF CommitsAuthorized, C!CommitsAuthorized

-----------------------------------------------------------------------------
(* Decisions and alerts *)

\* The first rule that matches permits exactly what the baseline describes:
\* the denial of a step-up tool comes right after its permit, and both after
\* the permits of the low-risk tools.
LEMMA BaselinePermits ==
    ASSUME NEW c
    PROVE  A!Decide(A!BaselineRules, c) = "permit" <=> A!MayInvoke(c)
<1> DEFINE known == [key |-> "caller", values |-> AllowedCallers]
           steppedUp == [key |-> "step_up", values |-> {"true"}]
           tool(i) == StepUpTools[(i + 1) \div 2]
           nl == Len(LowRiskTools)
           nu == 2 * Len(StepUpTools)
           low == [i \in 1..nl |-> A!Rule("permit", LowRiskTools[i], {known})]
           up == [i \in 1..nu |-> IF i % 2 = 1 THEN A!Rule("permit", tool(i), {known, steppedUp})
                                               ELSE A!Rule("deny", tool(i), {})]
           rules == low \o up
           matching == {i \in DOMAIN rules : A!Matches(rules[i], c)}
           first == A!Min(matching)
           asks == c.action = "invoke_tool"
           caller == "caller" \in DOMAIN c.context /\ c.context["caller"] \in AllowedCallers
           step == "step_up" \in DOMAIN c.context /\ c.context["step_up"] = "true"
<1>1. /\ LowRiskTools \in Seq(A!ToSet(LowRiskTools)) /\ StepUpTools \in Seq(A!ToSet(StepUpTools))
  BY DecisionAssumption DEF A!DecisionConstants
<1>2. nl \in Nat /\ nu \in Nat /\ DOMAIN LowRiskTools = 1..nl
      /\ Len(StepUpTools) \in Nat /\ DOMAIN StepUpTools = 1..Len(StepUpTools)
  BY <1>1
<1>3. A!BaselineRules = rules BY DEF A!BaselineRules
<1>4. A!Decide(rules, c) = IF matching = {} THEN "deny" ELSE rules[first].effect
  BY DEF A!Decide
<1>5. /\ DOMAIN rules = 1..(nl + nu)
      /\ \A i \in 1..nl : rules[i] = low[i]
      /\ \A i \in 1..nu : rules[nl + i] = up[i]
  <2> DEFINE X == {low[i] : i \in 1..nl} \cup {up[i] : i \in 1..nu}
  <2>1. low \in [1..nl -> X] /\ up \in [1..nu -> X] OBVIOUS
  <2> HIDE DEF low, up, nl, nu, X
  <2>2. low \in Seq(X) /\ up \in Seq(X) /\ Len(low) = nl /\ Len(up) = nu BY <1>2, <2>1, SeqDef
  <2>3. /\ rules \in Seq(X) /\ Len(rules) = nl + nu
        /\ \A i \in 1..nl + nu : rules[i] = IF i <= nl THEN low[i] ELSE up[i - nl]
    BY <2>2, ConcatProperties
  <2> HIDE DEF rules
  <2> QED BY <1>2, <2>3
<1>6. A!Holds(known, c.context) <=> caller BY DEF A!Holds
<1>7. A!Holds(steppedUp, c.context) <=> step BY DEF A!Holds
<1>8. ASSUME NEW i \in 1..nl
      PROVE  /\ low[i].effect = "permit"
             /\ A!Matches(low[i], c) <=> asks /\ c.resource = LowRiskTools[i] /\ caller
  <2>1. /\ low[i].effect = "permit" /\ low[i].action = "invoke_tool"
        /\ low[i].resource = LowRiskTools[i] /\ low[i].conditions = {known}
    BY DEF A!Rule
  <2> HIDE DEF low, known, caller
  <2> QED BY <1>6, <2>1 DEF A!Matches
<1>9. ASSUME NEW i \in 1..nu, i % 2 = 1
      PROVE  /\ up[i].effect = "permit"
             /\ A!Matches(up[i], c) <=> asks /\ c.resource = tool(i) /\ caller /\ step
  <2>1. /\ up[i].effect = "permit" /\ up[i].action = "invoke_tool"
        /\ up[i].resource = tool(i) /\ up[i].conditions = {known, steppedUp}
    BY <1>9 DEF A!Rule
  <2> HIDE DEF up, known, steppedUp, caller, step, tool
  <2> QED BY <1>6, <1>7, <2>1 DEF A!Matches
<1>10. ASSUME NEW i \in 1..nu, i % 2 # 1
       PROVE  /\ up[i].effect = "deny"
              /\ A!Matches(up[i], c) <=> asks /\ c.resource = tool(i)
  <2>1. /\ up[i].effect = "deny" /\ up[i].action = "invoke_tool"
        /\ up[i].resource = tool(i) /\ up[i].conditions = {}
    BY <1>10 DEF A!Rule
  <2> HIDE DEF up, tool
  <2> QED BY <2>1 DEF A!Matches
<1>11. ASSUME NEW i \in 1..nu, i % 2 # 1
       PROVE  i - 1 \in 1..nu /\ (i - 1) % 2 = 1 /\ tool(i - 1) = tool(i)
  BY <1>2, <1>11
<1>12. ASSUME NEW i \in 1..nu PROVE tool(i) \in A!ToSet(StepUpTools)
  <2>1. (i + 1) \div 2 \in DOMAIN StepUpTools BY <1>2
  <2> QED BY <2>1 DEF A!ToSet
<1>13. ASSUME NEW i \in 1..nl PROVE LowRiskTools[i] \in A!ToSet(LowRiskTools)
  BY <1>2 DEF A!ToSet
<1>14. ASSUME NEW x \in A!ToSet(StepUpTools)
       PROVE  \E i \in 1..nu : i % 2 = 1 /\ tool(i) = x
  <2>1. PICK j \in 1..Len(StepUpTools) : StepUpTools[j] = x BY <1>2 DEF A!ToSet
  <2>2. 2 * j - 1 \in 1..nu /\ (2 * j - 1) % 2 = 1 /\ ((2 * j - 1) + 1) \div 2 = j BY <1>2
  <2>3. tool(2 * j - 1) = x BY <2>1, <2>2
  <2> QED BY <2>2, <2>3
<1>15. ASSUME NEW x \in A!ToSet(LowRiskTools) PROVE \E i \in 1..nl : LowRiskTools[i] = x
  BY <1>2 DEF A!ToSet
<1>16. A!MayInvoke(c) <=> /\ asks /\ caller
                          /\ \/ c.resource \in A!ToSet(LowRiskTools)
                             \/ c.resource \in A!ToSet(StepUpTools) /\ step
  BY DEF A!MayInvoke
<1> HIDE DEF rules, low, up, tool, nl, nu, caller, step, asks, known, steppedUp
<1>17. matching # {} => first \in matching /\ \A j \in matching : first <= j
  <2> SUFFICES ASSUME matching # {} PROVE first \in matching /\ \A j \in matching : first <= j
    OBVIOUS
  <2>1. matching \in SUBSET Nat BY <1>2, <1>5
  <2> HIDE DEF matching
  <2>2. \E i \in matching : \A j \in matching : i <= j BY <2>1, LeastNatural
  <2> QED BY <2>2 DEF A!Min
<1>18. \A i \in 1..(nl + nu) : i \in 1..nl \/ (i - nl \in 1..nu /\ i = nl + (i - nl)) BY <1>2
<1> HIDE DEF first
<1>19. ASSUME matching # {}, rules[first].effect = "permit" PROVE A!MayInvoke(c)
  <2>1. first \in 1..(nl + nu) /\ A!Matches(rules[first], c) BY <1>5, <1>17, <1>19
  <2>2. CASE first \in 1..nl
    <3>1. asks /\ c.resource = LowRiskTools[first] /\ caller BY <1>5, <1>8, <2>1, <2>2
    <3> QED BY <1>13, <1>16, <2>2, <3>1
  <2>3. CASE first - nl \in 1..nu /\ first = nl + (first - nl)
    <3> DEFINE i == first - nl
    <3>1. rules[first] = up[i] BY <1>5, <2>3
    <3>2. i \in 1..nu BY <2>3
    <3> HIDE DEF i
    <3>3. i % 2 = 1 BY <1>10, <1>19, <3>1, <3>2
    <3>4. asks /\ c.resource = tool(i) /\ caller /\ step BY <1>9, <2>1, <3>1, <3>2, <3>3
    <3> QED BY <1>12, <1>16, <3>2, <3>4
  <2> QED BY <1>18, <2>1, <2>2, <2>3
<1>20. ASSUME A!MayInvoke(c) PROVE matching # {} /\ rules[first].effect = "permit"
  <2>1. \/ \E i \in 1..nl : A!Matches(rules[i], c)
        \/ step /\ \E i \in 1..nu : A!Matches(rules[nl + i], c)
    <3>1. CASE c.resource \in A!ToSet(LowRiskTools)
      BY <1>5, <1>8, <1>15, <1>16, <1>20, <3>1
    <3>2. CASE c.resource \in A!ToSet(StepUpTools) /\ step
      <4>1. PICK i \in 1..nu : i % 2 = 1 /\ tool(i) = c.resource BY <1>14, <3>2
      <4>2. A!Matches(up[i], c) BY <1>9, <1>16, <1>20, <3>2, <4>1
      <4> QED BY <1>5, <3>2, <4>1, <4>2
    <3> QED BY <1>16, <1>20, <3>1, <3>2
  <2>2. \A i \in 1..nl : i \in 1..(nl + nu) BY <1>2
  <2>3. \A i \in 1..nu : nl + i \in 1..(nl + nu) BY <1>2
  <2>4. matching # {} BY <1>5, <2>1, <2>2, <2>3
  <2>5. first \in 1..(nl + nu) /\ A!Matches(rules[first], c) BY <1>5, <1>17, <2>4
  <2>6. CASE first \in 1..nl BY <1>5, <1>8, <2>4, <2>6
  <2>7. CASE first - nl \in 1..nu /\ first = nl + (first - nl)
    <3> DEFINE i == first - nl
    <3>1. rules[first] = up[i] /\ i \in 1..nu BY <1>5, <2>7
    <3>2. ~(\E j \in 1..nl : A!Matches(rules[j], c))
      <4> SUFFICES ASSUME NEW j \in 1..nl, A!Matches(rules[j], c) PROVE FALSE OBVIOUS
      <4>1. j \in matching BY <1>5, <2>2
      <4>2. first <= j BY <1>17, <2>4, <4>1
      <4> QED BY <1>2, <2>5, <2>7, <4>2
    <3>3. step BY <2>1, <3>2
    <3>4. i % 2 = 1
      <4> SUFFICES ASSUME i % 2 # 1 PROVE FALSE OBVIOUS
      <4>1. i - 1 \in 1..nu /\ (i - 1) % 2 = 1 /\ tool(i - 1) = tool(i) BY <1>11, <3>1
      <4>2. asks /\ c.resource = tool(i) BY <1>10, <2>5, <3>1
      <4>3. A!Matches(up[i - 1], c) BY <1>9, <1>16, <1>20, <3>3, <4>1, <4>2
      <4>4. nl + (i - 1) \in matching BY <1>5, <2>3, <4>1, <4>3
      <4>5. first <= nl + (i - 1) BY <1>17, <2>4, <4>4
      <4> QED BY <1>2, <2>5, <2>7, <4>5
    <3> QED BY <1>9, <2>4, <3>1, <3>4
  <2> QED BY <1>18, <2>5, <2>6, <2>7
<1> HIDE DEF matching
<1>21. A!Decide(rules, c) = "permit" <=> matching # {} /\ rules[first].effect = "permit"
  BY <1>4
<1> QED BY <1>3, <1>19, <1>20, <1>21

\* What an answer must be to be right whatever happens after it.
RightAnswer(c, when) ==
    /\ c.kind = "policy" => ((A!Outcome(c) = "allow") <=> A!MayInvoke(c))
    /\ c.kind = "issue" /\ A!Outcome(c) = "allow" =>
         LET token == A!Token(c, when)
         IN  /\ token.exp <= when + PolicyMaxTtl
             /\ c.ttl > IssuerSkew => token.iat <= when /\ when < token.exp

LEMMA OutcomeRight ==
    ASSUME NEW c \in Calls, NEW when \in Int PROVE RightAnswer(c, when)
<1>1. /\ c.kind = "issue" => c.ttl \in Nat
      /\ PolicyMaxTtl \in Nat /\ IssuerSkew \in Nat
  BY DecisionAssumption DEF A!DecisionConstants
<1>2. ASSUME c.kind = "policy" PROVE (A!Outcome(c) = "allow") <=> A!MayInvoke(c)
  <2>1. (A!Outcome(c) = "allow") <=> (A!Decide(A!BaselineRules, c) = "permit")
    BY <1>2 DEF A!Outcome
  <2> QED BY <2>1, BaselinePermits
<1>3. ASSUME c.kind = "issue", A!Outcome(c) = "allow"
      PROVE  LET token == A!Token(c, when)
             IN  /\ token.exp <= when + PolicyMaxTtl
                 /\ c.ttl > IssuerSkew => token.iat <= when /\ when < token.exp
  <2>1. c.ttl <= PolicyMaxTtl BY <1>3 DEF A!Outcome, A!IssuanceAllowed
  <2>2. /\ A!Token(c, when).iat = when - IssuerSkew
        /\ A!Token(c, when).exp = when - IssuerSkew + c.ttl
    BY DEF A!Token
  <2> QED BY <1>1, <1>3, <2>1, <2>2
<1> QED BY <1>2, <1>3 DEF RightAnswer

DecisionTypes ==
    /\ clock \in Int
    /\ calling \in [Thread -> Calls \cup {Nobody}]
    /\ at \in [Thread -> Int] /\ stamp \in [Thread -> Int]
    /\ decisions \in Nat /\ number \in [Thread -> Nat]
    /\ DOMAIN answer = Thread

\* An answer is the outcome of a call, and its event is in the log.
Answered ==
    \A t \in Thread : answer[t] # Nobody =>
      \E n \in Nat, c \in Calls, when \in Int :
        /\ answer[t] = [number |-> n, call |-> c, outcome |-> A!Outcome(c), at |-> when]
        /\ [number |-> n, outcome |-> A!Outcome(c)] \in log

AnswerInv == DecisionTypes /\ Answered

LEMMA AnswersRight == AnswerInv => AnswersOnRecord
<1> SUFFICES ASSUME AnswerInv, NEW t \in Thread, answer[t] # Nobody
             PROVE  LET a == answer[t]
                    IN  /\ [number |-> a.number, outcome |-> a.outcome] \in log
                        /\ a.call.kind = "policy" =>
                             ((a.outcome = "allow") <=> A!MayInvoke(a.call))
                        /\ a.call.kind = "issue" /\ a.outcome = "allow" =>
                             LET token == A!Token(a.call, a.at)
                             IN  /\ token.exp <= a.at + PolicyMaxTtl
                                 /\ a.call.ttl > IssuerSkew =>
                                      token.iat <= a.at /\ a.at < token.exp
  BY Zenon DEF AnswersOnRecord, A!AnswersOnRecord
<1>1. PICK n \in Nat, c \in Calls, when \in Int :
        /\ answer[t] = [number |-> n, call |-> c, outcome |-> A!Outcome(c), at |-> when]
        /\ [number |-> n, outcome |-> A!Outcome(c)] \in log
  BY DEF AnswerInv, Answered
<1>2. /\ answer[t].number = n /\ answer[t].call = c
      /\ answer[t].outcome = A!Outcome(c) /\ answer[t].at = when
  BY <1>1
<1>3. RightAnswer(c, when) BY OutcomeRight
<1> QED BY <1>1, <1>2, <1>3, Zenon DEF RightAnswer

LEMMA AnswerNext == AnswerInv /\ [A!Next]_(A!vars) => AnswerInv'
<1> SUFFICES ASSUME AnswerInv, [A!Next]_(A!vars) PROVE AnswerInv' OBVIOUS
<1> USE DEF AnswerInv
<1>0. Nobody \notin Calls BY DecisionAssumption DEF A!DecisionConstants
<1>1. CASE UNCHANGED A!vars BY <1>1 DEF A!vars, DecisionTypes, Answered
<1>2. CASE A!Tick
  <2>1. DecisionTypes' BY <1>2 DEF A!Tick, DecisionTypes
  <2>2. Answered' BY <1>2 DEF A!Tick, Answered
  <2> QED BY <2>1, <2>2
<1>3. ASSUME NEW t \in Thread, A!Record(t) PROVE AnswerInv'
  <2>1. DecisionTypes' BY <1>3 DEF A!Record, DecisionTypes
  <2>2. Answered' BY <1>3 DEF A!Record, Answered
  <2> QED BY <2>1, <2>2
<1>4. ASSUME NEW t \in Thread, NEW c \in Calls, A!Ask(t, c) PROVE AnswerInv'
  <2>1. DecisionTypes' BY <1>4 DEF A!Ask, DecisionTypes
  <2>2. Answered' BY <1>4 DEF A!Ask, DecisionTypes, Answered
  <2> QED BY <2>1, <2>2
<1>5. ASSUME NEW t \in Thread, A!AppendEvent(t) PROVE AnswerInv'
  <2>1. calling[t] \in Calls BY <1>5 DEF A!AppendEvent, DecisionTypes
  <2>2. /\ calling' = [calling EXCEPT ![t] = Nobody]
        /\ number' = [number EXCEPT ![t] = 0] /\ at' = [at EXCEPT ![t] = 0]
        /\ stamp' = [stamp EXCEPT ![t] = -1]
        /\ UNCHANGED <<clock, decisions>>
    BY <1>5 DEF A!AppendEvent
  <2>3. \/ UNCHANGED <<log, answer>>
        \/ /\ log' = log \cup {[number |-> number[t], outcome |-> A!Outcome(calling[t])]}
           /\ \/ answer' = [answer EXCEPT ![t] =
                              [number |-> number[t], call |-> calling[t],
                               outcome |-> A!Outcome(calling[t]), at |-> at[t]]]
              \/ UNCHANGED answer
    BY <1>5, Zenon DEF A!AppendEvent, A!Told
  <2>4. DOMAIN answer' = Thread BY <2>3 DEF DecisionTypes
  <2>5. DecisionTypes' BY <2>2, <2>4 DEF DecisionTypes
  <2>6. number[t] \in Nat /\ at[t] \in Int BY DEF DecisionTypes
  <2>7. Answered'
    <3> SUFFICES ASSUME NEW u \in Thread, answer'[u] # Nobody
                 PROVE  \E n \in Nat, c \in Calls, when \in Int :
                          /\ answer'[u] = [number |-> n, call |-> c,
                                           outcome |-> A!Outcome(c), at |-> when]
                          /\ [number |-> n, outcome |-> A!Outcome(c)] \in log'
      BY DEF Answered
    <3>1. CASE answer'[u] = answer[u]
      <4>1. log \subseteq log' BY <2>3
      <4> QED BY <3>1, <4>1 DEF Answered
    <3>2. CASE answer'[u] # answer[u]
      <4>1. u = t BY <2>3, <3>2 DEF DecisionTypes
      <4>2. answer'[t] = [number |-> number[t], call |-> calling[t],
                          outcome |-> A!Outcome(calling[t]), at |-> at[t]]
        BY <2>3, <3>2, <4>1 DEF DecisionTypes
      <4>3. [number |-> number[t], outcome |-> A!Outcome(calling[t])] \in log'
        BY <2>3, <3>2
      <4> QED BY <2>1, <2>6, <4>1, <4>2, <4>3
    <3> QED BY <3>1, <3>2
  <2> QED BY <2>5, <2>7
<1> QED BY <1>1, <1>2, <1>3, <1>4, <1>5 DEF A!Next

\* Whichever thread the sink or on_alert fails for, whoever gets an answer finds
\* it on record with the same outcome; a permit is one the baseline describes,
\* and a token is current when minted and within the policy's maximum
\* (CapabilityIssuer.issue, decide_and_audit, admit).
THEOREM AnswersAreOnRecord == A!Spec => []AnswersOnRecord
<1>1. A!Init => AnswerInv BY DEF A!Init, AnswerInv, DecisionTypes, Answered
<1> QED BY <1>1, AnswerNext, AnswersRight, PTL DEF A!Spec

\* x is the newest time in s.
Newest(s, x) ==
    (\E n \in DOMAIN s : s[n] = x) /\ (\A m \in DOMAIN s : s[m] <= x)

\* The bucket b is a suffix of the times s since the last alert, and each time
\* it dropped is outside the window that ends at a later one.
Covers(b, s) ==
    \E d \in Nat :
      /\ Len(s) = d + Len(b)
      /\ \A n \in 1..Len(b) : b[n] = s[d + n]
      /\ \A n \in 1..d : \E m \in DOMAIN s : s[n] < s[m] - AlertWindow

LEMMA MaxIsNewest ==
    ASSUME NEW s \in Seq(Int), NEW x \in Int, Newest(s, x)
    PROVE  A!Max({s[m] : m \in DOMAIN s}) = x
<1> DEFINE T == {s[m] : m \in DOMAIN s}
<1>1. T \subseteq Int /\ x \in T /\ \A y \in T : x >= y BY DEF Newest
<1> HIDE DEF T
<1>2. \A z \in T : (\A y \in T : z >= y) => z = x BY <1>1
<1>3. A!Max(T) = x BY <1>1, <1>2 DEF A!Max
<1> QED BY <1>3 DEF T

\* At most the bucket's times are in the window.
LEMMA WindowCount ==
    ASSUME NEW b \in Seq(Int), NEW s \in Seq(Int), Covers(b, s), NEW x \in Int, Newest(s, x)
    PROVE  LET W == {n \in DOMAIN s : s[n] >= x - AlertWindow}
           IN  A!Cardinality(W) \in Nat /\ A!Cardinality(W) <= Len(b)
<1> DEFINE W == {n \in DOMAIN s : s[n] >= x - AlertWindow}
<1>1. PICK d \in Nat : /\ Len(s) = d + Len(b)
                       /\ \A n \in 1..d : \E m \in DOMAIN s : s[n] < s[m] - AlertWindow
  BY DEF Covers
<1>2. AlertWindow \in Nat BY DecisionAssumption DEF A!DecisionConstants
<1>3. Len(b) \in Nat /\ DOMAIN s = 1..Len(s) /\ \A n \in DOMAIN s : s[n] \in Int OBVIOUS
<1>4. W \subseteq (d + 1)..(d + Len(b))
  <2> SUFFICES ASSUME NEW n \in DOMAIN s, s[n] >= x - AlertWindow
               PROVE  n \in (d + 1)..(d + Len(b))
    OBVIOUS
  <2>1. n \notin 1..d
    <3> SUFFICES ASSUME n \in 1..d PROVE FALSE OBVIOUS
    <3>1. PICK m \in DOMAIN s : s[n] < s[m] - AlertWindow BY <1>1
    <3>2. s[m] <= x BY DEF Newest
    <3> QED BY <1>2, <1>3, <3>1, <3>2
  <2> QED BY <1>1, <1>3, <2>1
<1>5. /\ IsFiniteSet((d + 1)..(d + Len(b)))
      /\ Cardinality((d + 1)..(d + Len(b))) = Len(b)
  <2>1. d + 1 \in Int /\ d + Len(b) \in Int BY <1>3
  <2>2. /\ IsFiniteSet((d + 1)..(d + Len(b)))
        /\ Cardinality((d + 1)..(d + Len(b))) =
             IF d + 1 > d + Len(b) THEN 0 ELSE (d + Len(b)) - (d + 1) + 1
    BY <2>1, FS_Interval
  <2> QED BY <1>3, <2>2
<1> HIDE DEF W
<1>6. IsFiniteSet(W) /\ Cardinality(W) <= Len(b) BY <1>4, <1>5, FS_Subset
<1>7. Cardinality(W) \in Nat BY <1>6, FS_CardinalityType
<1>8. A!Cardinality(W) = Cardinality(W) BY DEF A!Cardinality, Cardinality
<1> QED BY <1>6, <1>7, <1>8 DEF W

\* The purge drops a prefix, all of it too old for the window of the new event.
LEMMA PurgedSuffix ==
    ASSUME NEW b \in Seq(Int), NEW cutoff \in Int
    PROVE  LET p == A!Purged(b, cutoff)
           IN  /\ p \in Seq(Int)
               /\ \E e \in Nat : /\ Len(b) = e + Len(p)
                                 /\ \A n \in 1..Len(p) : p[n] = b[e + n]
                                 /\ \A n \in 1..e : b[n] < cutoff
<1> DEFINE kept == {i \in DOMAIN b : b[i] >= cutoff}
           p == A!Purged(b, cutoff)
<1>0. Len(b) \in Nat /\ DOMAIN b = 1..Len(b) /\ \A i \in DOMAIN b : b[i] \in Int BY SMTT(30)
<1>1. CASE kept = {}
  <2>1. p = <<>> BY <1>1 DEF A!Purged
  <2>2. \A n \in 1..Len(b) : b[n] < cutoff BY <1>0, <1>1
  <2>3. p \in Seq(Int) /\ Len(p) = 0 BY <2>1
  <2> HIDE DEF p
  <2>4. /\ Len(b) = Len(b) + Len(p) /\ \A n \in 1..Len(p) : p[n] = b[Len(b) + n]
    BY <1>0, <2>3
  <2> QED BY <1>0, <2>2, <2>3, <2>4 DEF p
<1>2. CASE kept # {}
  <2> DEFINE f == A!Min(kept)
  <2>1. f \in kept /\ \A j \in kept : f <= j
    <3>1. kept \in SUBSET Nat BY <1>0
    <3> HIDE DEF kept
    <3>2. \E i \in kept : \A j \in kept : i <= j BY <1>2, <3>1, LeastNatural
    <3> QED BY <3>2 DEF A!Min
  <2>2. p = SubSeq(b, f, Len(b)) BY <1>2 DEF A!Purged
  <2>3. f \in 1..Len(b) BY <2>1, <1>0
  <2>4. \A n \in 1..(f - 1) : b[n] < cutoff
    <3> SUFFICES ASSUME NEW n \in 1..(f - 1), ~(b[n] < cutoff) PROVE FALSE OBVIOUS
    <3> HIDE DEF f
    <3>1. n \in kept BY <1>0, <2>3
    <3> QED BY <2>1, <2>3, <3>1
  <2> HIDE DEF f, kept
  <2>5. /\ p \in Seq(Int) /\ Len(p) = Len(b) - f + 1
        /\ \A n \in 1..Len(p) : p[n] = b[(f - 1) + n]
    <3>1. SubSeq(b, f, Len(b)) \in Seq(Int) BY <1>0, <2>3
    <3>2. Len(SubSeq(b, f, Len(b))) = Len(b) - f + 1 BY <1>0, <2>3
    <3>3. \A n \in 1..(Len(b) - f + 1) : SubSeq(b, f, Len(b))[n] = b[f + n - 1] BY <1>0, <2>3
    <3>4. \A n \in 1..(Len(b) - f + 1) : (f - 1) + n = f + n - 1 BY <1>0, <2>3
    <3> QED BY <2>2, <3>1, <3>2, <3>3, <3>4
  <2>6. f - 1 \in Nat /\ Len(b) = (f - 1) + Len(p) BY <1>0, <2>3, <2>5
  <2> HIDE DEF p
  <2> QED BY <2>4, <2>5, <2>6 DEF p
<1> QED BY <1>1, <1>2

\* An event that raises no alert: bucket and history grow by its time.
LEMMA FilledCovers ==
    ASSUME NEW b \in Seq(Int), NEW s \in Seq(Int), Covers(b, s), NEW ts \in Int
    PROVE  LET p == Append(A!Purged(b, ts - AlertWindow), ts)
           IN  p \in Seq(Int) /\ Covers(p, Append(s, ts))
<1> DEFINE p == A!Purged(b, ts - AlertWindow)
<1>1. AlertWindow \in Nat /\ ts - AlertWindow \in Int
  BY DecisionAssumption DEF A!DecisionConstants
<1>2. p \in Seq(Int) BY <1>1, PurgedSuffix
<1>3. PICK e \in Nat : /\ Len(b) = e + Len(p)
                       /\ \A n \in 1..Len(p) : p[n] = b[e + n]
                       /\ \A n \in 1..e : b[n] < ts - AlertWindow
  BY <1>1, PurgedSuffix
<1>4. PICK d \in Nat :
        /\ Len(s) = d + Len(b)
        /\ \A n \in 1..Len(b) : b[n] = s[d + n]
        /\ \A n \in 1..d : \E m \in DOMAIN s : s[n] < s[m] - AlertWindow
  BY DEF Covers
<1> HIDE DEF p
<1> DEFINE q == Append(p, ts)
           r == Append(s, ts)
<1>5. /\ q \in Seq(Int) /\ Len(q) = Len(p) + 1 /\ q[Len(p) + 1] = ts
      /\ \A n \in 1..Len(p) : q[n] = p[n]
  BY <1>2
<1>6. /\ DOMAIN r = 1..(Len(s) + 1) /\ Len(r) = Len(s) + 1 /\ r[Len(s) + 1] = ts
      /\ \A n \in 1..Len(s) : r[n] = s[n]
  OBVIOUS
<1>7. Len(p) \in Nat /\ Len(b) \in Nat /\ Len(s) \in Nat /\ DOMAIN s = 1..Len(s) BY <1>2
<1> HIDE DEF q, r
<1>8. Len(r) = (d + e) + Len(q) BY <1>3, <1>4, <1>5, <1>6, <1>7
<1>9. ASSUME NEW n \in 1..Len(q) PROVE q[n] = r[(d + e) + n]
  <2>1. CASE n = Len(p) + 1
    <3>1. (d + e) + n = Len(s) + 1 BY <1>3, <1>4, <1>7, <2>1
    <3> QED BY <1>5, <1>6, <2>1, <3>1
  <2>2. CASE n \in 1..Len(p)
    <3>1. e + n \in 1..Len(b) /\ d + (e + n) = (d + e) + n /\ (d + e) + n \in 1..Len(s)
      BY <1>3, <1>4, <1>7, <2>2
    <3>2. q[n] = b[e + n] BY <1>3, <1>5, <2>2
    <3>3. b[e + n] = s[d + (e + n)] BY <1>4, <3>1
    <3> QED BY <1>6, <3>1, <3>2, <3>3
  <2> QED BY <1>5, <1>7, <2>1, <2>2
<1>10. ASSUME NEW n \in 1..(d + e) PROVE \E m \in DOMAIN r : r[n] < r[m] - AlertWindow
  <2>1. CASE n \in 1..d
    <3>1. PICK m \in DOMAIN s : s[n] < s[m] - AlertWindow BY <1>4, <2>1
    <3>2. m \in DOMAIN r /\ r[m] = s[m] /\ n \in 1..Len(s)
      BY <1>4, <1>6, <1>7, <2>1, <3>1
    <3> QED BY <1>6, <3>1, <3>2
  <2>2. CASE n - d \in 1..e
    <3>1. n - d \in 1..Len(b) /\ d + (n - d) = n /\ n \in 1..Len(s) BY <1>3, <1>4, <1>7, <2>2
    <3>2. s[n] = b[n - d] /\ b[n - d] < ts - AlertWindow BY <1>3, <1>4, <2>2, <3>1
    <3>3. Len(s) + 1 \in DOMAIN r BY <1>6, <1>7
    <3> QED BY <1>6, <3>1, <3>2, <3>3
  <2> QED BY <2>1, <2>2
<1>11. d + e \in Nat OBVIOUS
<1>12. Covers(q, r) BY <1>8, <1>9, <1>10, <1>11 DEF Covers
<1> QED BY <1>5, <1>12 DEF q, r, p

LEMMA NewestAfter ==
    ASSUME NEW s \in Seq(Int), s # <<>> => \E x \in Int : Newest(s, x), NEW ts \in Int
    PROVE  \E x \in Int : Newest(Append(s, ts), x)
<1> DEFINE r == Append(s, ts)
<1>1. /\ DOMAIN r = 1..(Len(s) + 1) /\ r[Len(s) + 1] = ts /\ Len(s) \in Nat
      /\ DOMAIN s = 1..Len(s) /\ \A n \in 1..Len(s) : r[n] = s[n]
  OBVIOUS
<1>2. \A m \in DOMAIN s : s[m] \in Int OBVIOUS
<1>3. CASE s = <<>>
  <2>1. Len(s) = 0 BY <1>3
  <2> HIDE DEF r
  <2>2. Newest(r, ts) BY <1>1, <2>1 DEF Newest
  <2> QED BY <2>2 DEF r
<1>4. CASE s # <<>>
  <2>1. PICK x \in Int : Newest(s, x) BY <1>4
  <2> HIDE DEF r
  <2>2. CASE x <= ts
    <3>1. Newest(r, ts) BY <1>1, <1>2, <2>1, <2>2 DEF Newest
    <3> QED BY <3>1 DEF r
  <2>3. CASE ts <= x
    <3>1. Newest(r, x) BY <1>1, <1>2, <2>1, <2>3 DEF Newest
    <3> QED BY <3>1 DEF r
  <2> QED BY <2>2, <2>3
<1> QED BY <1>3, <1>4

\* One bucket and its history.
BucketRight(k, b, s) ==
    /\ b \in Seq(Int) /\ s \in Seq(Int)
    /\ Len(b) < Threshold[k]
    /\ Covers(b, s)
    /\ s # <<>> => \E x \in Int : Newest(s, x)

Buckets == \A k \in A!AlertKind, i \in A!Identity : BucketRight(k, bucket[k][i], since[k][i])

StampTypes == clock \in Int /\ stamp \in [Thread -> Int]

BurstInv == StampTypes /\ Buckets

LEMMA EmptyBucket == ASSUME NEW k \in A!AlertKind PROVE BucketRight(k, <<>>, <<>>)
<1>1. Threshold[k] \in Nat \ {0} BY DecisionAssumption DEF A!DecisionConstants
<1>2. Covers(<<>>, <<>>) BY DEF Covers
<1> QED BY <1>1, <1>2 DEF BucketRight

LEMMA BucketsBound == Buckets => NoBurstMissed
<1> SUFFICES ASSUME Buckets, NEW k \in A!AlertKind, NEW i \in A!Identity, since[k][i] # <<>>
             PROVE  LET times == since[k][i]
                    IN  A!Cardinality({n \in DOMAIN times :
                          times[n] >= A!Max({times[m] : m \in DOMAIN times}) - AlertWindow})
                          < Threshold[k]
  BY Zenon DEF NoBurstMissed, A!NoBurstMissed
<1> DEFINE b == bucket[k][i]
           s == since[k][i]
<1>1. BucketRight(k, b, s) BY DEF Buckets
<1> HIDE DEF b
<1>2. PICK x \in Int : Newest(s, x) BY <1>1 DEF BucketRight
<1>3. b \in Seq(Int) /\ s \in Seq(Int) /\ Len(b) < Threshold[k] /\ Covers(b, s)
  BY <1>1 DEF BucketRight
<1> HIDE DEF s
<1>4. A!Max({s[m] : m \in DOMAIN s}) = x BY <1>2, <1>3, MaxIsNewest
<1> DEFINE W == {n \in DOMAIN s : s[n] >= x - AlertWindow}
<1>5. A!Cardinality(W) \in Nat /\ A!Cardinality(W) <= Len(b) BY <1>2, <1>3, WindowCount
<1> HIDE DEF W
<1>6. Threshold[k] \in Nat /\ Len(b) \in Nat
  BY <1>3, DecisionAssumption DEF A!DecisionConstants
<1>7. A!Cardinality(W) < Threshold[k] BY <1>3, <1>5, <1>6
<1> QED BY <1>4, <1>7 DEF W, s

LEMMA ObserveKeeps ==
    ASSUME Buckets, NEW c \in Calls, NEW ts \in Int, A!Observe(c, ts)
    PROVE  Buckets'
<1> SUFFICES ASSUME NEW k \in A!AlertKind, NEW i \in A!Identity
             PROVE  BucketRight(k, bucket'[k][i], since'[k][i])
  BY DEF Buckets
<1> DEFINE b == bucket[k][i]
           s == since[k][i]
<1>1. BucketRight(k, b, s) BY DEF Buckets
<1>2. CASE ~(k \in A!CountsFor(c) /\ i = c.sub)
  <2>1. bucket'[k][i] = b /\ since'[k][i] = s BY <1>2 DEF A!Observe
  <2> QED BY <1>1, <2>1
<1>3. CASE k \in A!CountsFor(c) /\ i = c.sub /\ k \in A!Alerts(c, ts)
  <2>1. bucket'[k][i] = <<>> /\ since'[k][i] = <<>> BY <1>3 DEF A!Observe
  <2> QED BY <2>1, EmptyBucket
<1>4. CASE k \in A!CountsFor(c) /\ i = c.sub /\ k \notin A!Alerts(c, ts)
  <2> DEFINE p == Append(A!Purged(b, ts - AlertWindow), ts)
             r == Append(s, ts)
  <2>1. bucket'[k][i] = A!Filled(k, c, ts) /\ since'[k][i] = r BY <1>4 DEF A!Observe
  <2>2. A!Filled(k, c, ts) = p BY <1>4 DEF A!Filled
  <2>3. ~(Len(A!Filled(k, c, ts)) >= Threshold[k]) BY <1>4 DEF A!Alerts
  <2>4. p \in Seq(Int) /\ Covers(p, r) BY <1>1, FilledCovers DEF BucketRight
  <2>5. \E x \in Int : Newest(r, x) BY <1>1, NewestAfter DEF BucketRight
  <2>6. r \in Seq(Int) BY <1>1 DEF BucketRight
  <2> HIDE DEF p, r
  <2>7. Threshold[k] \in Nat /\ Len(p) \in Nat
    BY <2>4, DecisionAssumption DEF A!DecisionConstants
  <2>8. Len(p) < Threshold[k] BY <2>2, <2>3, <2>7
  <2>9. BucketRight(k, p, r) BY <2>4, <2>5, <2>6, <2>8 DEF BucketRight
  <2> QED BY <2>1, <2>2, <2>9
<1> QED BY <1>2, <1>3, <1>4

LEMMA BurstNext == AnswerInv /\ BurstInv /\ [A!Next]_(A!vars) => BurstInv'
<1> SUFFICES ASSUME AnswerInv, BurstInv, [A!Next]_(A!vars) PROVE BurstInv' OBVIOUS
<1> USE DEF BurstInv
<1>1. CASE UNCHANGED A!vars BY <1>1 DEF A!vars, StampTypes, Buckets
<1>2. CASE A!Tick BY <1>2 DEF A!Tick, StampTypes, Buckets
<1>3. ASSUME NEW t \in Thread, A!Record(t) PROVE BurstInv'
  BY <1>3 DEF A!Record, StampTypes, Buckets
<1>4. ASSUME NEW t \in Thread, NEW c \in Calls, A!Ask(t, c) PROVE BurstInv'
  BY <1>4 DEF A!Ask, StampTypes, Buckets
<1>5. ASSUME NEW t \in Thread, A!AppendEvent(t) PROVE BurstInv'
  <2>1. calling[t] \in Calls BY <1>5 DEF A!AppendEvent, AnswerInv, DecisionTypes
  <2>2. StampTypes' BY <1>5 DEF A!AppendEvent, StampTypes
  <2>3. UNCHANGED <<bucket, since>> \/ A!Observe(calling[t], stamp[t])
    BY <1>5, Zenon DEF A!AppendEvent
  <2>4. stamp[t] \in Int BY DEF StampTypes
  <2>5. Buckets' BY <2>1, <2>3, <2>4, ObserveKeeps DEF Buckets
  <2> QED BY <2>2, <2>5
<1> QED BY <1>1, <1>2, <1>3, <1>4, <1>5 DEF A!Next

\* Although timestamps reach the buckets out of order and each is purged from
\* the left only, no window that ends at the newest event since the last alert
\* holds as many events as the threshold (ThresholdAlertingPolicy.observe).
THEOREM NoBurstIsMissed == A!Spec => []NoBurstMissed
<1>1. A!Init => AnswerInv BY DEF A!Init, AnswerInv, DecisionTypes, Answered
<1>2. A!Init => BurstInv
  <2>1. A!Init => StampTypes BY DEF A!Init, StampTypes
  <2>2. A!Init => Buckets BY EmptyBucket DEF A!Init, Buckets
  <2> QED BY <2>1, <2>2 DEF BurstInv
<1>3. BurstInv => NoBurstMissed BY BucketsBound DEF BurstInv
<1> QED BY <1>1, <1>2, <1>3, AnswerNext, BurstNext, PTL DEF A!Spec

=============================================================================
