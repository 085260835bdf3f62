------------------------------- MODULE Inbox -------------------------------
(***************************************************************************)
(* Mail between agents through MeshBridge (integrations/mcp/bridge/        *)
(* mesh_mcp_bridge.py).  A peer's send_message finds the address of the    *)
(* daemon in a file and sends a signed envelope there.  The receive loop   *)
(* of the daemon verifies what arrives and appends it to a file;           *)
(* check_inbox, called in the daemon and in send-only bridges, and the     *)
(* copy of read_unread in mail_hook.py drain that file.  They exclude each *)
(* other by an flock.                                                      *)
(*                                                                         *)
(* Any process may die between two steps: the system then drops its lock,  *)
(* and a file it was writing keeps a prefix of what it wrote.  What is     *)
(* appended later joins a last line that has no end, which then does not   *)
(* parse.                                                                  *)
(***************************************************************************)
EXTENDS Integers, FiniteSets, SequencesExt

CONSTANTS
    Mail,               \* the envelopes peers send; each has a nonce of its own
    Reader,             \* the threads and processes that read the inbox
    Daemon, NoOne,
    Empty,              \* an address file without an address
    MaxFrames,          \* bound on the frames that arrive, replays included
    MaxCrashes          \* bound

Process == Reader \cup {Daemon}

InboxConstants ==
    /\ Daemon \notin Reader /\ NoOne \notin Process
    /\ MaxFrames \in Nat /\ MaxCrashes \in Nat

VARIABLES
    outcome,    \* outcome[m]: how far send_message is with m
    target,     \* target[m]: the address it read
    life,       \* the daemon's listener: each start has an address of its own
    addr,       \* the address file
    queue,      \* the inbox of the daemon's transport
    expiry,     \* expiry[m]: m is "valid" until its expires_at, then "late" while
                \* the skew lets it pass, then "over"
    replay,     \* the nonces the daemon has in memory (an envelope has one)
    inbox,      \* the file: a sequence of lines
    lock,       \* the holder of the flock, or NoOne
    pc,         \* pc[p]
    lines,      \* lines[p]: what p read, or is about to append
    shown,      \* history: shown[m], how often m was returned to an agent
    taken,      \* history: taken[m], how often the verifier accepted m
    late,       \* history: late[m], frames of m that were handled while it was late
    frames,     \* history: frames that arrived
    crashes     \* history

sendVars == <<outcome, target, life, addr, queue>>
vars == <<sendVars, expiry, replay, inbox, lock, pc, lines, shown, taken, late, frames,
          crashes>>

\* A line of the file: an entry, or text that does not parse; with its newline
\* or without.
Line(m, read) == [mail |-> m, read |-> read, parses |-> TRUE, ended |-> TRUE]

Unread(line) == line.parses /\ ~line.read

Fresh(ls) == SelectSeq(ls, Unread)

Unseen(ls, m) == {i \in DOMAIN ls : Unread(ls[i]) /\ ls[i].mail = m}

Copies(ls, m) == Cardinality(Unseen(ls, m))

\* Empty is also what is read when there is no address file yet.
Init ==
    /\ outcome = [m \in Mail |-> "unsent"] /\ target = [m \in Mail |-> 0]
    /\ life = 0 /\ addr = Empty /\ queue = <<>>
    /\ expiry = [m \in Mail |-> "valid"] /\ replay = {}
    /\ inbox = <<>>
    /\ lock = NoOne
    /\ pc = [p \in Process |-> IF p = Daemon THEN "down" ELSE "idle"]
    /\ lines = [p \in Process |-> <<>>]
    /\ shown = [m \in Mail |-> 0] /\ taken = [m \in Mail |-> 0] /\ late = [m \in Mail |-> 0]
    /\ frames = 0 /\ crashes = 0

Goto(p, label) == pc' = [pc EXCEPT ![p] = label]

-----------------------------------------------------------------------------
\* __init__ of a bridge that is not send-only: the transport listens, and
\* write_text truncates the address file before it writes the address.
Start ==
    /\ pc[Daemon] = "down"
    /\ life' = life + 1 /\ addr' = Empty
    /\ Goto(Daemon, "announce")
    /\ UNCHANGED <<outcome, target, queue, expiry, replay, inbox, lock, lines, shown,
                   taken, late, frames, crashes>>

Announce ==
    /\ pc[Daemon] = "announce"
    /\ addr' = life
    /\ Goto(Daemon, "idle")
    /\ UNCHANGED <<outcome, target, life, queue, expiry, replay, inbox, lock, lines,
                   shown, taken, late, frames, crashes>>

\* send_message, up to the address: the envelope is signed under a new nonce.
SendMessage(m) ==
    /\ outcome[m] = "unsent"
    /\ outcome' = [outcome EXCEPT ![m] = "resolving"]
    /\ UNCHANGED <<target, life, addr, queue, expiry, replay, inbox, lock, pc, lines,
                   shown, taken, late, frames, crashes>>

\* _peer_addr looks again while the file is empty, until its deadline.
PeerAddr(m) ==
    /\ outcome[m] = "resolving"
    /\ \/ /\ addr # Empty
          /\ target' = [target EXCEPT ![m] = addr]
          /\ outcome' = [outcome EXCEPT ![m] = "sending"]
       \/ /\ addr = Empty
          /\ outcome' = [outcome EXCEPT ![m] = "failed"]
          /\ UNCHANGED target
    /\ UNCHANGED <<life, addr, queue, expiry, replay, inbox, lock, pc, lines, shown,
                   taken, late, frames, crashes>>

\* transport.send: the file may name a listener that is gone.
Send(m) ==
    /\ outcome[m] = "sending" /\ frames < MaxFrames
    /\ IF pc[Daemon] # "down" /\ target[m] = life
       THEN /\ queue' = Append(queue, m) /\ frames' = frames + 1
            /\ outcome' = [outcome EXCEPT ![m] = "sent"]
       ELSE /\ outcome' = [outcome EXCEPT ![m] = "failed"]
            /\ UNCHANGED <<queue, frames>>
    /\ UNCHANGED <<target, life, addr, expiry, replay, inbox, lock, pc, lines, shown,
                   taken, late, crashes>>

\* A frame that was sent arrives again.
Duplicate(m) ==
    /\ outcome[m] = "sent" /\ pc[Daemon] # "down" /\ frames < MaxFrames
    /\ queue' = Append(queue, m) /\ frames' = frames + 1
    /\ UNCHANGED <<outcome, target, life, addr, expiry, replay, inbox, lock, pc, lines,
                   shown, taken, late, crashes>>

\* Time passes the expires_at of an envelope, and then what max_clock_skew adds to
\* it and to the exp of its capability (which is earlier by the issuer's skew).
\* These are minutes, and send_message takes seconds.
Expire(m) ==
    /\ outcome[m] = "sent" /\ expiry[m] # "over"
    /\ expiry' = [expiry EXCEPT ![m] = IF @ = "valid" THEN "late" ELSE "over"]
    /\ UNCHANGED <<sendVars, replay, inbox, lock, pc, lines, shown, taken, late, frames,
                   crashes>>

\* _receive_loop: verify_envelope refuses an envelope that is over; else
\* mark_if_new purges what has run out, and refuses a nonce that is held.  A
\* nonce is held for expires_at - current, counted from a little after current:
\* until some moment in which the envelope is late, and not at all if it is
\* late already.
Receive ==
    /\ pc[Daemon] = "idle" /\ queue # <<>>
    /\ queue' = Tail(queue)
    /\ LET m == Head(queue) IN
       /\ late' = IF expiry[m] = "late" THEN [late EXCEPT ![m] = @ + 1] ELSE late
       /\ IF expiry[m] = "over"
          THEN UNCHANGED <<replay, pc, lines, taken>>
          ELSE \E out \in SUBSET {k \in replay : expiry[k] # "valid"} :
               LET held == replay \ out IN
               IF m \in held
               THEN replay' = held /\ UNCHANGED <<pc, lines, taken>>
               ELSE /\ replay' = IF expiry[m] = "valid" THEN held \cup {m} ELSE held
                    /\ taken' = [taken EXCEPT ![m] = @ + 1]
                    /\ lines' = [lines EXCEPT ![Daemon] = <<Line(m, FALSE)>>]
                    /\ Goto(Daemon, "lock")
    /\ UNCHANGED <<outcome, target, life, addr, expiry, inbox, lock, shown, frames, crashes>>

\* check_inbox and the mail hook call read_unread; a file that is not there yet
\* reads as an empty one.
StartRead(r) ==
    /\ pc[r] = "idle"
    /\ Goto(r, "lock")
    /\ UNCHANGED <<sendVars, expiry, replay, inbox, lock, lines, shown, taken, late,
                   frames, crashes>>

\* Mutant of Flock: the lock is not waited for.
FlockShared(p) == lock' = p

\* fcntl.flock(lf, LOCK_EX)
Flock(p) == lock = NoOne /\ lock' = p

TakeLock(p) ==
    /\ pc[p] = "lock" /\ Flock(p)
    /\ Goto(p, IF p = Daemon THEN "append" ELSE "read")
    /\ UNCHANGED <<sendVars, expiry, replay, inbox, lines, shown, taken, late, frames,
                   crashes>>

\* The file with ls written at its end.
Written(file, ls) ==
    IF file = <<>> \/ ls = <<>> \/ Last(file).ended THEN file \o ls
    ELSE Front(file) \o <<[Head(ls) EXCEPT !.parses = FALSE]>> \o Tail(ls)

\* _append_inbox
AppendInbox ==
    /\ pc[Daemon] = "append"
    /\ inbox' = Written(inbox, lines[Daemon])
    /\ lines' = [lines EXCEPT ![Daemon] = <<>>]
    /\ Goto(Daemon, "unlock")
    /\ UNCHANGED <<sendVars, expiry, replay, lock, shown, taken, late, frames, crashes>>

\* read_unread parses every line, and raises if one does not parse; nothing is
\* written when nothing is new.
ReadLines(r) ==
    /\ pc[r] = "read"
    /\ LET parses == \A i \in DOMAIN inbox : inbox[i].parses
       IN  IF parses /\ Fresh(inbox) # <<>>
           THEN lines' = [lines EXCEPT ![r] = inbox] /\ Goto(r, "truncate")
           ELSE Goto(r, "unlock") /\ UNCHANGED lines
    /\ UNCHANGED <<sendVars, expiry, replay, inbox, lock, shown, taken, late, frames,
                   crashes>>

\* inbox.write_text truncates the file, then writes every line, marked read.
Truncate(r) ==
    /\ pc[r] = "truncate"
    /\ inbox' = <<>>
    /\ Goto(r, "write")
    /\ UNCHANGED <<sendVars, expiry, replay, lock, lines, shown, taken, late, frames,
                   crashes>>

MarkedRead(ls) == [i \in DOMAIN ls |-> [ls[i] EXCEPT !.read = TRUE, !.ended = TRUE]]

Write(r) ==
    /\ pc[r] = "write"
    /\ inbox' = Written(inbox, MarkedRead(lines[r]))
    /\ Goto(r, "unlock")
    /\ UNCHANGED <<sendVars, expiry, replay, lock, lines, shown, taken, late, frames,
                   crashes>>

\* Unlock and return; what was new reaches the agent.
Return(p) ==
    /\ pc[p] = "unlock"
    /\ lock' = NoOne
    /\ shown' = [m \in Mail |-> shown[m] + Copies(lines[p], m)]
    /\ lines' = [lines EXCEPT ![p] = <<>>]
    /\ Goto(p, "idle")
    /\ UNCHANGED <<sendVars, expiry, replay, inbox, taken, late, frames, crashes>>

\* What a process that dies while it writes ls may leave of it: some lines, and
\* of the next one nothing, a part, or all but its newline.
Torn(ls, k, whole) ==
    Append(SubSeq(ls, 1, k - 1), [ls[k] EXCEPT !.parses = whole, !.ended = FALSE])

Remains(ls) ==
    {SubSeq(ls, 1, k) : k \in 0..Len(ls)}
      \cup {Torn(ls, k, whole) : k \in 1..Len(ls), whole \in BOOLEAN}

\* p dies.  The daemon loses its replay cache and what its transport holds, and
\* leaves the address file as it is.
Crash(p) ==
    /\ crashes < MaxCrashes
    /\ IF p = Daemon THEN pc[p] # "down" ELSE pc[p] # "idle"
    /\ crashes' = crashes + 1
    /\ lock' = IF lock = p THEN NoOne ELSE lock
    /\ inbox' \in CASE pc[p] = "append" -> {Written(inbox, ls) : ls \in Remains(lines[p])}
                    [] pc[p] = "write" -> Remains(MarkedRead(lines[p]))
                    [] pc[p] \notin {"append", "write"} -> {inbox}
    /\ Goto(p, IF p = Daemon THEN "down" ELSE "idle")
    /\ lines' = [lines EXCEPT ![p] = <<>>]
    /\ replay' = IF p = Daemon THEN {} ELSE replay
    /\ queue' = IF p = Daemon THEN <<>> ELSE queue
    /\ UNCHANGED <<outcome, target, life, addr, expiry, shown, taken, late, frames>>

Next ==
    \/ \E m \in Mail : SendMessage(m) \/ PeerAddr(m) \/ Send(m) \/ Duplicate(m) \/ Expire(m)
    \/ Start \/ Announce \/ Receive \/ AppendInbox
    \/ \E r \in Reader : StartRead(r) \/ ReadLines(r) \/ Truncate(r) \/ Write(r)
    \/ \E p \in Process : TakeLock(p) \/ Return(p) \/ Crash(p)

Spec == Init /\ [][Next]_vars

-----------------------------------------------------------------------------
\* Readers that will return what they read; what others read is still in the file.
Holding == {r \in Reader : pc[r] \in {"write", "unlock"}}

\* The places where a message is that no agent has seen yet, and how many.
Places(m) ==
    ({NoOne} \X Unseen(inbox, m))
      \cup UNION {{p} \X Unseen(lines[p], m) : p \in Holding \cup {Daemon}}

Waiting(m) == Cardinality(Places(m))

\* A message that was verified waits in one place or was shown, as often as it
\* was accepted: the agent's tool and the hook drain the inbox together without
\* losing a message or reading it twice (read_unread, _append_inbox).  A process
\* that dies may lose messages, and then still none is shown more often than it
\* was accepted.  One whose send failed, on a stale address for one, is never
\* shown, and one that was sent is on its way or was accepted, unless it took
\* too long (send_message, _peer_addr).
\*
\* It is not accepted just once: each time the daemon starts it forgets all
\* nonces, and a nonce is forgotten at expires_at, so that every frame handled
\* between expires_at and the end of the skew is accepted and shown again.  What
\* does hold is that it is accepted once more for nothing else.
InboxExact ==
    \A m \in Mail :
        /\ Waiting(m) + shown[m] <= taken[m] /\ taken[m] <= life + late[m]
        /\ taken[m] > 0 => outcome[m] = "sent"
        /\ crashes = 0 =>
             /\ Waiting(m) + shown[m] = taken[m]
             /\ outcome[m] = "sent" =>
                  taken[m] > 0 \/ m \in ToSet(queue) \/ expiry[m] = "over"

=============================================================================
