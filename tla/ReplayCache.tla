---------------------------- MODULE ReplayCache ----------------------------
(***************************************************************************)
(* The two replay caches of envelope/verify_envelope.py under concurrent   *)
(* callers.                                                                *)
(*                                                                         *)
(* InMemoryReplayCache.mark_if_new reads the clock, and only then takes    *)
(* the lock under which it purges, checks and inserts.                     *)
(* SQLiteReplayCache.mark_if_new computes the expiry, purges and inserts   *)
(* in three steps of which the last two are autocommitted statements of    *)
(* the database; it works on whole seconds, so the time and the ttl are    *)
(* truncated.  seen() purges and looks up in the same two ways.  mark(),   *)
(* which overwrites an entry unconditionally, is used by no code of the    *)
(* package and is left out.                                                *)
(*                                                                         *)
(* Time is counted in ticks, Second ticks to the second.                   *)
(***************************************************************************)
EXTENDS Naturals

CONSTANTS
    Caller, Key,
    Backends,    \* the backends a verifier may be given: "memory", "sqlite"
    Second,      \* ticks per second: the resolution lost by truncation
    Ttls,        \* the ttls calls are made with, in ticks
    StartClock,  \* the clock at the start; the epoch is far behind it
    MaxClock,    \* bound on the clock
    Idle, NoOne

CacheConstants ==
    /\ Backends \subseteq {"memory", "sqlite"}
    /\ Second \in Nat \ {0}
    /\ Ttls \subseteq Nat
    /\ StartClock \in Nat \ 0..(2 * Second)
    /\ MaxClock \in Nat
    /\ NoOne \notin Caller
    /\ Idle \notin [key : Key, ttl : Nat, start : Nat]

VARIABLES
    clock,
    backend,   \* the backend in use, chosen at construction
    entries,   \* the keys of _entries, or of the rows of replay_nonces
    until,     \* until[k]: the expiry last stored for k (0: never stored)
    lock,      \* the holder of _lock
    pc,        \* pc[c]: the next statement of the call of c
    call,      \* call[c]: the arguments of the call, and when it began
    now,       \* now[c]: the local variable now, or the epoch in expires_at
    outcome    \* outcome[c]: what mark_if_new answers

vars == <<clock, backend, entries, until, lock, pc, call, now, outcome>>

-----------------------------------------------------------------------------
\* int(): truncation to whole seconds.
Epoch(t) == (t \div Second) * Second

\* now + ttl, or expires_at.
Expiry(nowRead, ttl) ==
    IF backend = "memory" THEN nowRead + ttl ELSE Epoch(nowRead) + Epoch(ttl)

\* The time _purge compares with: the caller's now, or a fresh _now_epoch().
PurgeTime(c) == IF backend = "memory" THEN now[c] ELSE Epoch(clock)

\* Mutant of Expired: the comparison is inverted.
ExpiredInverted(t) == {k \in entries : until[k] >= t}

Expired(t) == {k \in entries : until[k] <= t}

-----------------------------------------------------------------------------
Init ==
    /\ clock = StartClock
    /\ backend \in Backends
    /\ entries = {}
    /\ until = [k \in Key |-> 0]
    /\ lock = NoOne
    /\ pc = [c \in Caller |-> "idle"]
    /\ call = [c \in Caller |-> Idle]
    /\ now = [c \in Caller |-> 0]
    /\ outcome = [c \in Caller |-> "none"]

Tick ==
    /\ clock < MaxClock
    /\ clock' = clock + 1
    /\ UNCHANGED <<backend, entries, until, lock, pc, call, now, outcome>>

\* mark_if_new(sender, nonce, ttl) is called.
MarkIfNew(c) ==
    /\ pc[c] = "idle"
    /\ \E k \in Key, t \in Ttls :
          call' = [call EXCEPT ![c] = [key |-> k, ttl |-> t, start |-> clock]]
    /\ pc' = [pc EXCEPT ![c] = "read_now"]
    /\ UNCHANGED <<backend, clock, entries, until, lock, now, outcome>>

\* now = datetime.now(UTC), outside the lock; expires_at = ... before _connect.
ReadNow(c) ==
    /\ pc[c] = "read_now"
    /\ now' = [now EXCEPT ![c] = clock]
    /\ pc' = [pc EXCEPT ![c] = IF backend = "memory" THEN "lock" ELSE "purge"]
    /\ UNCHANGED <<backend, clock, entries, until, lock, call, outcome>>

\* with self._lock
Acquire(c) ==
    /\ pc[c] = "lock"
    /\ lock = NoOne
    /\ lock' = c
    /\ pc' = [pc EXCEPT ![c] = "purge"]
    /\ UNCHANGED <<backend, clock, entries, until, call, now, outcome>>

\* _purge
Purge(c) ==
    /\ pc[c] = "purge"
    /\ entries' = entries \ Expired(PurgeTime(c))
    /\ pc' = [pc EXCEPT ![c] = "insert"]
    /\ UNCHANGED <<backend, clock, until, lock, call, now, outcome>>

\* The check and the insert, and leaving the with block: under the lock in
\* memory, INSERT OR IGNORE and its rowcount in the database.
Insert(c) ==
    /\ pc[c] = "insert"
    /\ LET k == call[c].key IN
       IF k \in entries
       THEN /\ outcome' = [outcome EXCEPT ![c] = "replay"]
            /\ UNCHANGED <<entries, until>>
       ELSE /\ outcome' = [outcome EXCEPT ![c] = "new"]
            /\ entries' = entries \cup {k}
            /\ until' = [until EXCEPT ![k] = Expiry(now[c], call[c].ttl)]
    /\ lock' = IF lock = c THEN NoOne ELSE lock
    /\ pc' = [pc EXCEPT ![c] = "return"]
    /\ UNCHANGED <<backend, clock, call, now>>

\* A statement of the database fails: locked beyond busy_timeout, disk full.
DatabaseError(c) ==
    /\ backend = "sqlite"
    /\ pc[c] \in {"purge", "insert"}
    /\ outcome' = [outcome EXCEPT ![c] = "error"]
    /\ pc' = [pc EXCEPT ![c] = "return"]
    /\ UNCHANGED <<backend, clock, entries, until, lock, call, now>>

Return(c) ==
    /\ pc[c] = "return"
    /\ pc' = [pc EXCEPT ![c] = "idle"]
    /\ call' = [call EXCEPT ![c] = Idle]
    /\ outcome' = [outcome EXCEPT ![c] = "none"]
    /\ now' = [now EXCEPT ![c] = 0]
    /\ UNCHANGED <<backend, clock, entries, until, lock>>

\* seen(): its purge, at the clock it reads; the lookup changes nothing.
Seen ==
    /\ lock = NoOne
    /\ \E t \in StartClock..clock :
          /\ backend = "sqlite" => t = Epoch(clock)
          /\ entries' = entries \ Expired(t)
    /\ UNCHANGED <<backend, clock, until, lock, pc, call, now, outcome>>

Next ==
    \/ Tick
    \/ Seen
    \/ \E c \in Caller :
          \/ MarkIfNew(c) \/ ReadNow(c) \/ Acquire(c) \/ Purge(c)
          \/ Insert(c) \/ DatabaseError(c) \/ Return(c)

Spec == Init /\ [][Next]_vars

-----------------------------------------------------------------------------
(* Properties.                                                             *)

\* What truncation to whole seconds may cost: under a second of the time and
\* under a second of the ttl.
Rounding == IF backend = "memory" THEN 0 ELSE 2 * (Second - 1)

Store == INSTANCE NonceStore WITH slack <- Rounding

\* Each cache keeps the contract of mark_if_new: however calls interleave, a
\* key is granted again only once the time of its last reservation has run
\* out, and a reservation lasts its ttl, less the rounding of the backend.
KeepsContract == Store!StoreSpec

=============================================================================
