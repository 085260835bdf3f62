-------------------------- MODULE ConnectionPool --------------------------
(***************************************************************************)
(* PooledSocketTransport of mesh/connection_pool.py: send() on kept        *)
(* connections, with its retries and the bounded pool; close() from        *)
(* another thread; and the reader threads of the receiving endpoints.      *)
(*                                                                         *)
(* A frame is written in two pieces (a socket may take any part of it), so *)
(* a write can fail in between, and the pieces of two frames could mix.    *)
(* Sockets are external: a peer may break a connection at any time, what   *)
(* was not read yet is then lost, and a write to it fails or, while the    *)
(* system has not noticed, succeeds into the void.                         *)
(***************************************************************************)
EXTENDS Integers, FiniteSets, SequencesExt

CONSTANTS
    Sender,             \* the threads that call send
    Frame,              \* the payloads; each is passed to send once
    Dest,               \* the destinations
    DestOf,             \* DestOf[f]: where f is sent
    MaxConnections,     \* max_connections
    Retries,            \* connect_retries
    MaxConns,           \* bound on the connections ever opened
    MaxBreaks,          \* bound on the connections peers break
    NoOne

Conn == 1..MaxConns

PoolConstants ==
    /\ DestOf \in [Frame -> Dest]
    /\ MaxConnections \in Nat \ {0} /\ Retries \in Nat \ {0}
    /\ MaxConns \in Nat /\ NoOne \notin Sender

VARIABLES
    out,        \* _out: the connections in the pool, least recently used first
    sock,       \* sock[c]: to, state ("new", "open", "closed" by this endpoint),
                \* broken (by the peer), stream (the pieces not read yet)
    opened,     \* how many connections were opened
    sendLock,   \* the holder of _send_lock
    call,       \* call[s]: pc, frame, attempt and conn of the send of s
    received,   \* received[d]: the _inbox of the endpoint d
    todo,       \* the frames not yet passed to send
    closing     \* close() has been called

vars == <<out, sock, opened, sendLock, call, received, todo, closing>>

Idle == [pc |-> "idle", frame |-> NoOne, attempt |-> 0, conn |-> 0]

Init ==
    /\ out = <<>>
    /\ sock = [c \in Conn |-> [to |-> NoOne, state |-> "new", broken |-> FALSE,
                               stream |-> <<>>]]
    /\ opened = 0
    /\ sendLock = NoOne
    /\ call = [s \in Sender |-> Idle]
    /\ received = [d \in Dest |-> <<>>]
    /\ todo = Frame
    /\ closing = FALSE

Target(s) == DestOf[call[s].frame]

\* Where the connection to d is in the pool, as the set that holds its place.
Pooled(d) == {i \in 1..Len(out) : sock[out[i]].to = d}

\* The sockets once the connections of `gone` are closed; what was written to
\* them can still be read.
Closed(gone) ==
    [c \in Conn |-> IF c \in gone THEN [sock[c] EXCEPT !.state = "closed"] ELSE sock[c]]

-----------------------------------------------------------------------------
\* with self._send_lock: sends are serialized.
Send(s, f) ==
    /\ call[s] = Idle /\ f \in todo
    /\ sendLock = NoOne /\ sendLock' = s
    /\ todo' = todo \ {f}
    /\ call' = [call EXCEPT ![s] = [pc |-> "get", frame |-> f, attempt |-> 1, conn |-> 0]]
    /\ UNCHANGED <<out, sock, opened, received, closing>>

Got(s, c) == call' = [call EXCEPT ![s].pc = "first", ![s].conn = c]

\* _get_conn, a hit: the connection is now the most recently used.
Reuse(s) ==
    /\ call[s].pc = "get"
    /\ \E i \in Pooled(Target(s)) :
         /\ out' = Append(RemoveAt(out, i), out[i])
         /\ Got(s, out[i])
    /\ UNCHANGED <<sock, opened, sendLock, received, todo, closing>>

\* _get_conn, a miss: connect, keep the connection, and evict and close the
\* least recently used beyond the bound.
Connect(s) ==
    /\ call[s].pc = "get" /\ Pooled(Target(s)) = {} /\ opened < MaxConns
    /\ LET c == opened + 1
           all == Append(out, c)
           extra == IF Len(all) > MaxConnections THEN Len(all) - MaxConnections ELSE 0
       IN  /\ out' = SubSeq(all, extra + 1, Len(all))
           /\ sock' = [Closed({all[i] : i \in 1..extra}) EXCEPT
                         ![c] = [@ EXCEPT !.to = Target(s), !.state = "open"]]
           /\ opened' = c
           /\ Got(s, c)
    /\ UNCHANGED <<sendLock, received, todo, closing>>

\* The connection is refused or times out.
Refused(s) ==
    /\ call[s].pc = "get" /\ Pooled(Target(s)) = {}
    /\ call' = [call EXCEPT ![s].pc = "drop"]
    /\ UNCHANGED <<out, sock, opened, sendLock, received, todo, closing>>

\* sendall, one of the two pieces.  What is written to a broken connection is lost.
WritePiece(s, from, k, next) ==
    /\ call[s].pc = from /\ sock[call[s].conn].state = "open"
    /\ sock' = [sock EXCEPT ![call[s].conn].stream =
                  IF sock[call[s].conn].broken THEN @
                  ELSE Append(@, <<call[s].frame, k>>)]
    /\ call' = [call EXCEPT ![s].pc = next]
    /\ UNCHANGED <<out, opened, sendLock, received, todo, closing>>

WriteFirst(s) == WritePiece(s, "first", 1, "rest")
WriteRest(s) == WritePiece(s, "rest", 2, "sent")

\* sendall raises: the socket was closed here or broken by the peer, or the
\* five seconds given to create_connection, which hold for writes too, are over.
WriteFails(s) ==
    /\ call[s].pc \in {"first", "rest"}
    /\ call' = [call EXCEPT ![s].pc = "drop"]
    /\ UNCHANGED <<out, sock, opened, sendLock, received, todo, closing>>

\* Mutant of Dropped: the connection that failed stays in the pool.
DroppedNothing(d) == {}

\* _drop: what it takes out of the pool and closes.
Dropped(d) == Pooled(d)

\* The handler of OSError: drop, and try again if attempts are left.
Drop(s) ==
    /\ call[s].pc = "drop"
    /\ \/ \E i \in Dropped(Target(s)) :
            out' = RemoveAt(out, i) /\ sock' = Closed({out[i]})
       \/ Dropped(Target(s)) = {} /\ UNCHANGED <<out, sock>>
    /\ call' = [call EXCEPT ![s].pc = IF call[s].attempt < Retries THEN "get" ELSE "failed",
                            ![s].attempt = call[s].attempt + 1]
    /\ UNCHANGED <<opened, sendLock, received, todo, closing>>

\* send returns, or raises TransportError after its last attempt.
Return(s) ==
    /\ call[s].pc \in {"sent", "failed"}
    /\ sendLock' = NoOne
    /\ call' = [call EXCEPT ![s] = Idle]
    /\ UNCHANGED <<out, sock, opened, received, todo, closing>>

\* close, which does not wait for the sends under way.
Close ==
    /\ ~closing /\ closing' = TRUE
    /\ sock' = Closed(ToSet(out))
    /\ out' = <<>>
    /\ UNCHANGED <<opened, sendLock, call, received, todo>>

-----------------------------------------------------------------------------
\* _read_conn of the endpoint d: the next two pieces are taken for a frame.  What
\* is less than a frame when the connection ends is dropped.
Read(c) ==
    /\ Len(sock[c].stream) >= 2
    /\ LET a == sock[c].stream[1]
           b == sock[c].stream[2]
       IN  received' = [received EXCEPT ![sock[c].to] =
                          Append(@, IF a[1] = b[1] /\ a[2] = 1 /\ b[2] = 2
                                    THEN a[1] ELSE "garbled")]
    /\ sock' = [sock EXCEPT ![c].stream = SubSeq(@, 3, Len(@))]
    /\ UNCHANGED <<out, opened, sendLock, call, todo, closing>>

\* The peer restarts, or the network cuts the connection.
Break(c) ==
    /\ sock[c].state = "open" /\ ~sock[c].broken
    /\ Cardinality({x \in Conn : sock[x].broken}) < MaxBreaks
    /\ \E kept \in {sock[c].stream, <<>>} :
         sock' = [sock EXCEPT ![c].broken = TRUE, ![c].stream = kept]
    /\ UNCHANGED <<out, opened, sendLock, call, received, todo, closing>>

Next ==
    \/ \E s \in Sender, f \in Frame : Send(s, f)
    \/ \E s \in Sender :
         \/ Reuse(s) \/ Connect(s) \/ Refused(s) \/ WriteFirst(s) \/ WriteRest(s)
         \/ WriteFails(s) \/ Drop(s) \/ Return(s)
    \/ \E c \in Conn : Read(c) \/ Break(c)
    \/ Close

Spec == Init /\ [][Next]_vars

-----------------------------------------------------------------------------
\* An endpoint receives only frames that were sent to it, whole, and each at most
\* once, although a send is retried after a write that failed half way; and no
\* connection is left open outside the bounded pool (send, _drop, _get_conn).
PoolSound ==
    /\ \A d \in Dest :
         /\ \A i \in DOMAIN received[d] :
              received[d][i] \in Frame /\ DestOf[received[d][i]] = d
         /\ \A i, j \in DOMAIN received[d] : received[d][i] = received[d][j] => i = j
    /\ {c \in Conn : sock[c].state = "open"} = ToSet(out)
    /\ Len(out) <= MaxConnections

=============================================================================
