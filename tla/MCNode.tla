------------------------------- MODULE MCNode -------------------------------
(***************************************************************************)
(* Small instances of what runs on one node: Host, its two stores          *)
(* (ReplayCache and AuditChain) and the bridge's Inbox.  They share no     *)
(* state, so a behaviour exercises one of them: `focus` says which.        *)
(***************************************************************************)
EXTENDS Host, TLC

CONSTANTS
    Caller, Key, Backends, Second, Ttls, StartClock, MaxClock, Idle, NoOne,
    Writer, Body, MaxEvents, MaxBadWrites,
    Mail, Reader, Daemon, Empty, MaxFrames, MaxCrashes

VARIABLES
    focus,
    time, backend, entries, reserved, cacheLock, cachePc, marking, now, marked,
    auditLog, recording, event, forked, returned, badWrites,
    sending, target, life, addr, queue,
    expiry, replay, inbox, inboxLock, process, lines, shown, taken, late, frames, crashes

R == INSTANCE ReplayCache WITH
       clock <- time, until <- reserved, lock <- cacheLock, pc <- cachePc,
       call <- marking, outcome <- marked
A == INSTANCE AuditChain WITH log <- auditLog, pc <- recording
I == INSTANCE Inbox WITH outcome <- sending, lock <- inboxLock, pc <- process

ASSUME LimiterAssumption == Limiter!LimiterConstants
ASSUME CacheAssumption == R!CacheConstants
ASSUME AuditAssumption == A!AuditConstants
ASSUME InboxAssumption == I!InboxConstants

-----------------------------------------------------------------------------
MCLimit == [i \in Identity |-> 2]

\* read_file and exec_sql as in default_tools.py, a tool that leaks, one that
\* raises, and a rule without a tool.
MCRules ==
    [read_file |-> [tier |-> "low", callers |-> {}, step_up |-> "auto"],
     exec_sql  |-> [tier |-> "critical", callers |-> {"alice"}, step_up |-> "auto"],
     leak      |-> [tier |-> "high", callers |-> {}, step_up |-> "no"],
     crash     |-> [tier |-> "medium", callers |-> {}, step_up |-> "auto"],
     ghost     |-> [tier |-> "low", callers |-> {}, step_up |-> "auto"]]

MCTools == {"read_file", "exec_sql", "leak", "crash"}

MCOutputOf ==
    [read_file |-> [kind |-> "value", risk |-> "low"],
     exec_sql  |-> [kind |-> "value", risk |-> "low"],
     leak      |-> [kind |-> "value", risk |-> "high"],
     crash     |-> [kind |-> "exception", risk |-> "low"]]

Att(tool, caller, args, exp, flaw) ==
    [tool |-> tool, caller |-> caller, args |-> args,
     iat |-> 0, nbf |-> 0, exp |-> exp, flaw |-> flaw]

Rq(nonce, sender, tool, args, exp, stepUp) ==
    [nonce |-> nonce, sender |-> sender, genuine |-> TRUE, jti |-> "j",
     exp |-> exp, rpc |-> TRUE, tool |-> tool, args |-> args, step_up |-> stepUp]

\* Calls that should succeed, calls with a step-up for something else, and a
\* forgery in the name of alice.
MCRequests ==
    {Rq("n1", "alice", "read_file", "x", 1, NoStepUp),
     Rq("n2", "alice", "exec_sql", "x", 1, Att("exec_sql", "alice", "x", 0, "none")),
     Rq("n2", "alice", "exec_sql", "y", 1, Att("exec_sql", "alice", "x", 0, "none")),
     Rq("n3", "alice", "exec_sql", "x", 1, Att("exec_sql", "bob", "x", 0, "none")),
     Rq("n4", "bob", "exec_sql", "x", 1, NoStepUp),
     Rq("n5", "alice", "exec_sql", "x", 1, NoStepUp),
     Rq("n6", "alice", "leak", "x", 1, NoStepUp),
     Rq("n7", "alice", "crash", "x", 1, NoStepUp),
     Rq("n8", "alice", "ghost", "x", 1, NoStepUp),
     Rq("n9", "alice", "nothing", "x", 1, NoStepUp),
     [Rq("n1", "alice", "read_file", "x", 1, NoStepUp) EXCEPT !.genuine = FALSE],
     Rq("n10", "alice", "exec_sql", "x", 1, Att("exec_sql", "alice", "x", 0, "bad_key")),
     [Rq("n0", "alice", "read_file", "x", 1, NoStepUp) EXCEPT !.rpc = FALSE]}

-----------------------------------------------------------------------------
cacheVars == <<time, backend, entries, reserved, cacheLock, cachePc, marking, now,
               marked>>
auditVars == <<auditLog, recording, event, forked, returned, badWrites>>
inboxVars == <<sending, target, life, addr, queue, expiry, replay, inbox, inboxLock,
               process, lines, shown, taken, late, frames, crashes>>

MCInit ==
    /\ Init /\ R!Init /\ A!Init /\ I!Init
    /\ focus \in {"host", "nonces", "audit", "inbox"}
    /\ focus = "nonces" \/ backend = "memory"

MCNext ==
    \/ /\ focus = "host" /\ Next
       /\ UNCHANGED <<focus, cacheVars, auditVars, inboxVars>>
    \/ /\ focus = "nonces" /\ R!Next
       /\ UNCHANGED <<focus, vars, auditVars, inboxVars>>
    \/ /\ focus = "audit" /\ A!Next
       /\ UNCHANGED <<focus, vars, cacheVars, inboxVars>>
    \/ /\ focus = "inbox" /\ I!Next
       /\ UNCHANGED <<focus, vars, cacheVars, auditVars>>

MCSpec ==
    MCInit /\ [][MCNext]_<<focus, vars, cacheVars, auditVars, inboxVars>>

\* Mails are treated alike, and so are readers.
Interchangeable == Permutations(Mail) \cup Permutations(Reader)

\* The properties of the other three.
KeepsContract == R!KeepsContract
LogTrustworthy == A!LogTrustworthy
InboxExact == I!InboxExact

=============================================================================
