---------------------------- MODULE AuditChain ----------------------------
(***************************************************************************)
(* The hash-chained audit log of envelope/audit.py: AuditSink.record reads *)
(* the tail hash, builds the event on it, and appends the event.           *)
(*                                                                         *)
(* The file of JsonlAuditSink is a sequence of lines.  A write that does   *)
(* not complete (full disk, crash) raises and leaves nothing, part of a    *)
(* line, or the whole line without its newline; the next append then       *)
(* continues that line.  A line is an event, an event without its newline, *)
(* or garbage that json.loads refuses.  With MaxBadWrites = 0 the model is *)
(* InMemoryAuditSink.                                                      *)
(*                                                                         *)
(* sha256 is an injective function: the hash of (prev, body) is the pair.  *)
(***************************************************************************)
EXTENDS Naturals, Sequences

CONSTANTS
    Writer,         \* the callers of record
    Body,           \* the hashed fields of an event
    MaxEvents,      \* bound on the lines of the log
    MaxBadWrites    \* bound on writes that do not complete

AuditConstants ==
    MaxEvents \in Nat /\ MaxBadWrites \in Nat

VARIABLES
    log,        \* the lines of the file
    pc,         \* pc[w]: "idle", or "append" once record has the tail hash
    event,      \* event[w]: the event being recorded
    forked,     \* history: two calls of record have overlapped
    returned,   \* history: the events record returned, in order
    badWrites   \* history: writes that did not complete

vars == <<log, pc, event, forked, returned, badWrites>>

-----------------------------------------------------------------------------
GenesisPrevHash == <<>>

\* Mutant of ThisHash: prev_hash is left out of the hashed fields.
ThisHashBodyOnly(prev, body) == <<body>>

\* _compute_this_hash
ThisHash(prev, body) == <<prev, body>>

\* _build_event
BuildEvent(prev, body) ==
    [prev |-> prev, body |-> body, this |-> ThisHash(prev, body)]

\* Lines of the file.
Line(e) == [kind |-> "event", event |-> e]
Unterminated(e) == [kind |-> "unterminated", event |-> e]
Garbage == [kind |-> "garbage"]

\* json.loads accepts the line.
Parses(line) == line.kind \in {"event", "unterminated"}

\* tail_hash: of the last line, which must parse.
TailReadable(lines) == \A i \in 1..Len(lines) : i = Len(lines) => Parses(lines[i])
TailHash(lines) ==
    IF lines = <<>> THEN GenesisPrevHash ELSE lines[Len(lines)].event.this

\* The file after text is appended that makes up `line`: text that follows a
\* line without newline continues it, and no concatenation parses.
Extend(lines, line) ==
    IF lines = <<>> \/ lines[Len(lines)].kind = "event"
    THEN Append(lines, line)
    ELSE [lines EXCEPT ![Len(lines)] = Garbage]

\* read_all collects the events of all lines before it returns any: one line
\* that does not parse and it raises, with nothing returned.
ReadAllRaises(lines) == \E i \in 1..Len(lines) : ~Parses(lines[i])
ReadAll(lines) == [i \in 1..Len(lines) |-> lines[i].event]

\* verify_chain
VerifyChain(events) ==
    \A i \in 1..Len(events) :
        /\ events[i].prev = (IF i = 1 THEN GenesisPrevHash ELSE events[i - 1].this)
        /\ events[i].this = ThisHash(events[i].prev, events[i].body)

-----------------------------------------------------------------------------
Init ==
    /\ log = <<>>
    /\ pc = [w \in Writer |-> "idle"]
    /\ event = [w \in Writer |-> BuildEvent(GenesisPrevHash, "none")]
    /\ forked = FALSE
    /\ returned = <<>>
    /\ badWrites = 0

\* record, up to _append: read the tail hash and build the event.  If the
\* last line does not parse, record raises and nothing changes.
ReadTail(w) ==
    /\ pc[w] = "idle"
    /\ forked' = (forked \/ \E v \in Writer : pc[v] # "idle")
    /\ Len(log) < MaxEvents
    /\ TailReadable(log)
    /\ \E b \in Body : event' = [event EXCEPT ![w] = BuildEvent(TailHash(log), b)]
    /\ pc' = [pc EXCEPT ![w] = "append"]
    /\ UNCHANGED <<log, returned, badWrites>>

\* _append, and record returns the event.
AppendEvent(w) ==
    /\ pc[w] = "append"
    /\ log' = Extend(log, Line(event[w]))
    /\ returned' = Append(returned, event[w])
    /\ pc' = [pc EXCEPT ![w] = "idle"]
    /\ UNCHANGED <<event, forked, badWrites>>

\* _append fails half-way: record raises, or the process is gone.
AppendFails(w) ==
    /\ pc[w] = "append"
    /\ badWrites < MaxBadWrites
    /\ log' \in {log} \cup {Extend(log, line) : line \in {Garbage, Unterminated(event[w])}}
    /\ pc' = [pc EXCEPT ![w] = "idle"]
    /\ badWrites' = badWrites + 1
    /\ UNCHANGED <<event, forked, returned>>

Next == \E w \in Writer : ReadTail(w) \/ AppendEvent(w) \/ AppendFails(w)

Spec == Init /\ [][Next]_vars

-----------------------------------------------------------------------------
(* Properties.                                                             *)

\* While read_all can read the file, it returns what record returned, in that
\* order, and at most one event more, whose write broke off at its newline;
\* and these verify as long as no two calls of record overlapped.  record
\* holds no lock, so overlapping calls may read the same tail hash and fork
\* the chain; even then no event is left dangling: it carries its own hash
\* and hangs off the genesis hash or off an event before it.
\*
\* Once a line is damaged read_all raises, and nobody gets an event back.  Then
\* tail_hash raises too, so that no call of record that starts now succeeds;
\* and it is the last line, after whole lines that are the first events
\* record returned: somebody who cuts it off lost one returned event at most,
\* again without overlapping calls (_append, tail_hash, read_all).
Anchored(events) ==
    \A i \in 1..Len(events) :
        /\ events[i].this = ThisHash(events[i].prev, events[i].body)
        /\ \/ events[i].prev = GenesisPrevHash
           \/ \E j \in 1..(i - 1) : events[j].this = events[i].prev

ReadsBack(events) ==
    /\ Len(returned) \in {Len(events), Len(events) - 1}
    /\ \A i \in 1..Len(returned) : events[i] = returned[i]
    /\ IF forked THEN Anchored(events) ELSE VerifyChain(events)

DamageContained ==
    /\ ~TailReadable(log)
    /\ \A i \in 1..(Len(log) - 1) : i <= Len(returned) /\ log[i] = Line(returned[i])
    /\ ~forked => Len(returned) <= Len(log)

LogSound == IF ReadAllRaises(log) THEN DamageContained ELSE ReadsBack(ReadAll(log))

\* Tamper evidence of an honest log that can be read, without overlapping
\* records: verify_chain refuses it once an event other than the last is
\* deleted, two neighbours are exchanged, or the body of any event is changed
\* with its hash left alone.
Without(events, i) ==
    [j \in 1..(Len(events) - 1) |-> events[IF j < i THEN j ELSE j + 1]]
Exchanged(events, i) ==
    [events EXCEPT ![i] = events[i + 1], ![i + 1] = events[i]]
TamperEvident ==
    LET events == ReadAll(log) IN
    ~forked /\ ~ReadAllRaises(log) =>
    /\ \A i \in 1..(Len(events) - 1) :
          /\ ~VerifyChain(Without(events, i))
          /\ ~VerifyChain(Exchanged(events, i))
    /\ \A i \in 1..Len(events) : \A b \in Body \ {events[i].body} :
          ~VerifyChain([events EXCEPT ![i].body = b])

\* The log can be trusted: verify_chain says yes to what the sink wrote and
\* read_all can read, and no to what was done to it afterwards; and a log that
\* cannot be read is not written on (AuditSink.record, JsonlAuditSink,
\* verify_chain).
LogTrustworthy == LogSound /\ TamperEvident

=============================================================================
