--------------------------- MODULE RevocationFile ---------------------------
(***************************************************************************)
(* FileBackedRevocationList (envelope/revocation_list.py): processes that  *)
(* append to one file without a lock, writes that break off, and callers   *)
(* that ask whether a token is revoked in the middle of it.                *)
(***************************************************************************)
EXTENDS Integers, Sequences, SequencesExt

CONSTANTS
    Revoker, Checker,     \* the processes
    Revocable,            \* jtis
    MaxRevocations, MaxBrokenWrites,   \* bounds of the model
    NoJti

VARIABLES
    lines,      \* the file: [jti, parses, ended]
    revoking,   \* per revoker: the jti revoke was called with, or NoJti
    revokedIds, \* history: the jtis for which some revoke has returned
    asking,     \* per checker: the jti of its is_revoked, or NoJti
    owed,       \* history, per checker: was it revoked when the call began?
    told,       \* per checker: "yes", "no", "raised" or "nothing"
    broken,     \* writes that broke off
    revocations

vars == <<lines, revoking, revokedIds, asking, owed, told, broken, revocations>>

RevocationConstants ==
    NoJti \notin Revocable /\ MaxRevocations \in Nat /\ MaxBrokenWrites \in Nat

Init ==
    /\ lines = <<>> /\ revokedIds = {} /\ broken = 0 /\ revocations = 0
    /\ revoking = [r \in Revoker |-> NoJti]
    /\ asking = [c \in Checker |-> NoJti]
    /\ owed = [c \in Checker |-> FALSE]
    /\ told = [c \in Checker |-> "nothing"]

\* A record written at the end of the file; after a line without its newline it
\* becomes part of that line, which then parses no more.
Appended(file, record) ==
    IF file = <<>> \/ Last(file).ended THEN Append(file, record)
    ELSE Append(Front(file), [record EXCEPT !.parses = FALSE])

Revoke(r, jti) ==
    /\ revoking[r] = NoJti /\ revocations < MaxRevocations
    /\ revoking' = [revoking EXCEPT ![r] = jti]
    /\ revocations' = revocations + 1
    /\ UNCHANGED <<lines, revokedIds, asking, owed, told, broken>>

\* The buffered record reaches the file in one append, and revoke returns.
Write(r) ==
    /\ revoking[r] # NoJti
    /\ lines' = Appended(lines, [jti |-> revoking[r], parses |-> TRUE, ended |-> TRUE])
    /\ revokedIds' = revokedIds \cup {revoking[r]}
    /\ revoking' = [revoking EXCEPT ![r] = NoJti]
    /\ UNCHANGED <<asking, owed, told, broken, revocations>>

\* The disk is full or the process dies: part of the record is written, perhaps
\* all but its newline, and revoke does not return.
WriteBreaksOff(r) ==
    /\ revoking[r] # NoJti /\ broken < MaxBrokenWrites
    /\ broken' = broken + 1
    /\ \E whole \in BOOLEAN :
         lines' = Appended(lines, [jti |-> revoking[r], parses |-> whole, ended |-> FALSE])
    /\ revoking' = [revoking EXCEPT ![r] = NoJti]
    /\ UNCHANGED <<revokedIds, asking, owed, told, revocations>>

\* Mutant of Load: a line that does not parse is skipped.
LoadLenient(file) ==
    [corrupt |-> FALSE, jtis |-> {file[i].jti : i \in {k \in DOMAIN file : file[k].parses}}]

\* _load
Load(file) ==
    [corrupt |-> \E i \in DOMAIN file : ~file[i].parses,
     jtis |-> {file[i].jti : i \in DOMAIN file}]

IsRevoked(c, jti) ==
    /\ asking[c] = NoJti
    /\ asking' = [asking EXCEPT ![c] = jti]
    /\ owed' = [owed EXCEPT ![c] = jti \in revokedIds]
    /\ told' = [told EXCEPT ![c] = "nothing"]
    /\ UNCHANGED <<lines, revoking, revokedIds, broken, revocations>>

Answer(c) ==
    LET list == Load(lines)
    IN  /\ asking[c] # NoJti
        /\ told' = [told EXCEPT ![c] = IF list.corrupt THEN "raised"
                                       ELSE IF asking[c] \in list.jtis THEN "yes" ELSE "no"]
        /\ asking' = [asking EXCEPT ![c] = NoJti]
        /\ UNCHANGED <<lines, revoking, revokedIds, owed, broken, revocations>>

Next ==
    \/ \E r \in Revoker : Write(r) \/ WriteBreaksOff(r) \/ \E jti \in Revocable : Revoke(r, jti)
    \/ \E c \in Checker : Answer(c) \/ \E jti \in Revocable : IsRevoked(c, jti)

Spec == Init /\ [][Next]_vars

-----------------------------------------------------------------------------
\* Once revoke has returned, no process is told that the token is good: neither
\* a later write, whole or broken off, nor the damage an earlier one left at
\* the end of the file takes a revocation back.  A damaged file answers nobody
\* (FileBackedRevocationList._load raises).
RevocationStands == \A c \in Checker : told[c] = "no" => ~owed[c]

=============================================================================
