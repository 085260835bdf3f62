----------------------------- MODULE Federation -----------------------------
(***************************************************************************)
(* Servers that announce themselves in a registry directory, and the       *)
(* clients that find and call them: tool servers with the MCP gateway      *)
(* (integrations/mcp/federation) and workspace status servers with their   *)
(* watchers (integrations/mcp/workspace), over LocalSocketTransport        *)
(* (mesh/socket_transport.py).                                             *)
(*                                                                         *)
(* An instance is one server process; several may carry the same name, one *)
(* after the other or, in a rolling restart, at once.  A client is one     *)
(* process with one call under way at a time.  Every process has an        *)
(* address of its own, so a process stands for its address; a port the     *)
(* system hands out again is not modelled.                                 *)
(***************************************************************************)
EXTENDS Integers, Sequences, FiniteSets, Functions

CONSTANTS
    Gateways, Watchers,    \* the client processes
    Instance,              \* server processes
    Server,                \* the names they go by
    NameOf,                \* [Instance -> Server]
    Tools,                 \* the tools of a tool server
    Asked,                 \* the tools clients ask for
    Workspaces,            \* the servers that publish a workspace, not tools
    Trusting,              \* the workspaces served with trust_transport_identity
    Allow,                 \* the watcher ids on the workspaces' allow lists
    Ids,                   \* watcher ids a request may carry
    MaxCalls, MaxFailures, MaxEdits,  \* bounds of the model
    Missing, Empty, Garbled,     \* no manifest, one just truncated, a mixed one
    NoCall                   \* no call, no request

VARIABLES
    status,     \* of each server process
    manifest,   \* per name: the instance its registry file names, or one of the three
    writing,    \* per name: the instances that have that very file open
    requests,   \* per instance: the inbox of its transport
    handling,   \* per instance: the reply it is about to send
    replies,    \* per client: the inbox of its transport
    deaf,       \* processes whose accept thread has ended
    seq,        \* per client: _id
    call,       \* per client: the call under way
    last,       \* per watcher and workspace: _last
    version,    \* per workspace: what git and the note say
    accesses,   \* per instance: access_log
    ran,        \* history, per client and id: the instances that ran it
    answer,     \* history, per client: how its last call ended
    overlapped, \* history: names two processes served at the same time
    failures    \* crashes and resets so far

vars == <<status, manifest, writing, requests, handling, replies, deaf, seq, call, last,
          version, accesses, ran, answer, overlapped, failures>>

Client == Gateways \cup Watchers

\* The calls under way.
Calls == [stage : {"sending", "waiting"}, server : Server, addr : Instance,
          tool : Asked \cup {"get_status"}, requester : Ids \cup Gateways, since : Nat]

FederationConstants ==
    /\ Gateways \cap Watchers = {} /\ NameOf \in [Instance -> Server]
    /\ Workspaces \subseteq Server /\ Trusting \subseteq Workspaces
    /\ Allow \subseteq Ids /\ Watchers \subseteq Ids
    /\ IsFiniteSet(Gateways) /\ IsFiniteSet(Watchers)
    /\ MaxCalls \in Nat /\ MaxFailures \in Nat /\ MaxEdits \in Nat
    /\ Instance \cap {Missing, Empty, Garbled} = {} /\ NoCall \notin Calls

Init ==
    /\ status = [i \in Instance |-> "new"]
    /\ manifest = [n \in Server |-> Missing]
    /\ writing = [n \in Server |-> {}]
    /\ requests = [i \in Instance |-> <<>>]
    /\ handling = [i \in Instance |-> NoCall]
    /\ replies = [c \in Client |-> <<>>]
    /\ deaf = {} /\ overlapped = {} /\ failures = 0
    /\ seq = [c \in Client |-> 0]
    /\ call = [c \in Client |-> NoCall]
    /\ last = [w \in Watchers |-> [n \in Workspaces |-> -1]]
    /\ version = [n \in Workspaces |-> 0]
    /\ accesses = [i \in Instance |-> <<>>]
    /\ ran = [c \in Client |-> [k \in 1..MaxCalls |-> <<>>]]
    /\ answer = [c \in Client |-> NoCall]

-----------------------------------------------------------------------------
(* A server's life: __init__, which opens the transport and writes the     *)
(* manifest with write_text (truncate, then write), and close, which       *)
(* closes the transport and unlinks the manifest of its name, whoever      *)
(* wrote it.                                                               *)

registryVars == <<manifest, writing>>
serverVars == <<requests, handling, version, accesses, ran>>
clientVars == <<replies, seq, call, last, answer>>

Up(i) == status[i] \in {"announcing", "serving", "stopping"}

\* Mutant of OpenManifest: a manifest is only written where there is none.
OpenManifestNew(i) ==
    IF manifest[NameOf[i]] = Missing
      THEN /\ manifest' = [manifest EXCEPT ![NameOf[i]] = Empty]
           /\ writing' = [writing EXCEPT ![NameOf[i]] = @ \cup {i}]
      ELSE UNCHANGED registryVars

OpenManifest(i) ==
    /\ manifest' = [manifest EXCEPT ![NameOf[i]] = Empty]
    /\ writing' = [writing EXCEPT ![NameOf[i]] = @ \cup {i}]

Start(i) ==
    /\ status[i] = "new"
    /\ status' = [status EXCEPT ![i] = "announcing"]
    /\ OpenManifest(i)
    /\ overlapped' = overlapped \cup {NameOf[j] : j \in {k \in Instance :
                                         Up(k) /\ NameOf[k] = NameOf[i]}}
    /\ UNCHANGED <<serverVars, clientVars, deaf, failures>>

\* What a write at offset 0 leaves of a file another process has written to.
Announce(i) ==
    LET n == NameOf[i]
    IN  /\ status[i] = "announcing"
        /\ status' = [status EXCEPT ![i] = "serving"]
        /\ IF i \in writing[n]
             THEN \E m \in IF manifest[n] = Empty THEN {i} ELSE {i, Garbled} :
                    manifest' = [manifest EXCEPT ![n] = m]
             ELSE UNCHANGED manifest
        /\ writing' = [writing EXCEPT ![n] = @ \ {i}]
        /\ UNCHANGED <<serverVars, clientVars, deaf, overlapped, failures>>

\* _stop is set and the listener closed: what waits in the inbox is never served.
\* (The loop's test of _stop and its receive are one step: a request received
\* just after the test is as good as one received just before the stop.)
Stop(i) ==
    /\ status[i] = "serving"
    /\ status' = [status EXCEPT ![i] = "stopping"]
    /\ requests' = [requests EXCEPT ![i] = <<>>]
    /\ UNCHANGED <<registryVars, handling, version, accesses, ran, clientVars, deaf,
                   overlapped, failures>>

Unlink(i) ==
    /\ status[i] = "stopping"
    /\ status' = [status EXCEPT ![i] = "closed"]
    /\ manifest' = [manifest EXCEPT ![NameOf[i]] = Missing]
    /\ writing' = [writing EXCEPT ![NameOf[i]] = {}]
    /\ UNCHANGED <<serverVars, clientVars, deaf, overlapped, failures>>

\* The process dies; its registry file stays as it is.
Crash(i) ==
    /\ Up(i) /\ failures < MaxFailures
    /\ failures' = failures + 1
    /\ status' = [status EXCEPT ![i] = "crashed"]
    /\ writing' = [writing EXCEPT ![NameOf[i]] = @ \ {i}]
    /\ requests' = [requests EXCEPT ![i] = <<>>]
    /\ handling' = [handling EXCEPT ![i] = NoCall]
    /\ UNCHANGED <<manifest, version, accesses, ran, clientVars, deaf, overlapped>>

\* A connection is reset while a frame is read: recv raises in the accept
\* thread, which nothing catches.  The listener stays, and nobody accepts.
Reset(p) ==
    /\ failures < MaxFailures /\ p \notin deaf
    /\ p \in Instance => Up(p)
    /\ failures' = failures + 1
    /\ deaf' = deaf \cup {p}
    /\ UNCHANGED <<status, registryVars, serverVars, clientVars, overlapped>>

-----------------------------------------------------------------------------
(* Gateway.call and WorkspaceWatcher.poll.                                 *)

\* The call ends without a request.
Fail(c, n, why) ==
    answer' = [answer EXCEPT ![c] = [kind |-> why, id |-> 0, server |-> n,
                                     by |-> Missing, version |-> 0, since |-> 0]]

\* discover or _resolve: a manifest that does not parse is as good as none.
Resolve(c, n, tool, requester) ==
    /\ call[c] = NoCall /\ seq[c] < MaxCalls /\ FoldFunction(+, 0, seq) < MaxCalls
    /\ \/ /\ manifest[n] \in Instance
          /\ seq' = [seq EXCEPT ![c] = @ + 1]
          /\ call' = [call EXCEPT ![c] =
                        [stage |-> "sending", server |-> n, addr |-> manifest[n],
                         tool |-> tool, requester |-> requester,
                         since |-> IF n \in Workspaces THEN version[n] ELSE 0]]
          /\ UNCHANGED answer
       \/ /\ manifest[n] \notin Instance
          /\ Fail(c, n, "unlisted")
          /\ UNCHANGED <<seq, call>>
    /\ UNCHANGED <<status, registryVars, serverVars, replies, last, deaf, overlapped,
                   failures>>

Call(g, n, tool) == n \notin Workspaces /\ Resolve(g, n, tool, g)

Poll(w, n, requester) ==
    n \in Workspaces /\ Resolve(w, n, "get_status", requester)

\* A process whose listener takes the connection, and reads from it.
Reads(p) == p \notin deaf /\ (p \in Instance => status[p] \in {"announcing", "serving"})

\* A process whose listener may take a connection that nobody will read.
Backlog(p) == (p \in deaf /\ (p \in Instance => Up(p))) \/ (p \in Instance /\ status[p] = "stopping")

\* transport.send: the frame arrives, is lost in the backlog, or the connection
\* is refused.
Send(c) ==
    LET i == call[c].addr
        req == [client |-> c, id |-> seq[c], tool |-> call[c].tool,
                requester |-> call[c].requester]
        await == call' = [call EXCEPT ![c].stage = "waiting"] /\ UNCHANGED answer
    IN  /\ call[c] # NoCall /\ call[c].stage = "sending"
        /\ \/ Reads(i) /\ await /\ requests' = [requests EXCEPT ![i] = Append(@, req)]
           \/ Backlog(i) /\ await /\ UNCHANGED requests
           \/ /\ ~Reads(i)
              /\ Fail(c, call[c].server, "unreachable")
              /\ call' = [call EXCEPT ![c] = NoCall]
              /\ UNCHANGED requests
        /\ UNCHANGED <<status, registryVars, handling, version, accesses, ran, replies,
                       seq, last, deaf, overlapped, failures>>

\* Mutant of Matches: any reply is taken for the answer.
MatchesAny(resp, rid) == TRUE

Matches(resp, rid) == resp.id = rid

\* _await: the reply to this request, or one to an earlier one, which is dropped.
\* A watcher's check compares what it got with what it had.
Receive(c) ==
    LET resp == Head(replies[c])
    IN  /\ call[c] # NoCall /\ call[c].stage = "waiting" /\ replies[c] # <<>>
        /\ replies' = [replies EXCEPT ![c] = Tail(@)]
        /\ IF Matches(resp, seq[c])
             THEN /\ answer' = [answer EXCEPT ![c] =
                                  [kind |-> resp.kind, id |-> seq[c],
                                   server |-> call[c].server, by |-> resp.by,
                                   version |-> resp.version, since |-> call[c].since]]
                  /\ call' = [call EXCEPT ![c] = NoCall]
                  /\ last' = IF c \in Watchers /\ resp.kind = "result"
                               THEN [last EXCEPT ![c][call[c].server] = resp.version]
                               ELSE last
             ELSE UNCHANGED <<answer, call, last>>
        /\ UNCHANGED <<status, registryVars, serverVars, seq, deaf, overlapped, failures>>

\* The deadline passes; the reply may still come.
TimeOut(c) ==
    /\ call[c] # NoCall /\ call[c].stage = "waiting"
    /\ Fail(c, call[c].server, "timeout")
    /\ call' = [call EXCEPT ![c] = NoCall]
    /\ UNCHANGED <<status, registryVars, serverVars, replies, seq, last, deaf,
                   overlapped, failures>>

-----------------------------------------------------------------------------
(* _serve of either server: receive, handle, reply.                        *)

\* ToolServer._serve: run the tool if there is one; it may raise.
RunTool(i, req) ==
    /\ \E kind \in IF req.tool \in Tools THEN {"result", "error"} ELSE {"error"} :
         handling' = [handling EXCEPT ![i] =
                        [to |-> req.client, id |-> req.id, kind |-> kind, by |-> i,
                         version |-> 0]]
    /\ ran' = IF req.tool \in Tools
                THEN [ran EXCEPT ![req.client][req.id] = Append(@, i)] ELSE ran
    /\ UNCHANGED accesses

\* The id the transport verified, or the one the request carries.
Effective(i, req) == IF NameOf[i] \in Trusting THEN req.client ELSE req.requester

\* WorkspaceServer.handle_request: log the access, then answer the allowed.
HandleRequest(i, req) ==
    LET n == NameOf[i]
        effective == Effective(i, req)
        granted == effective \in Allow
        kind == IF ~granted THEN "denied"
                ELSE IF req.tool = "get_status" THEN "result" ELSE "error"
    IN  /\ accesses' = [accesses EXCEPT ![i] =
                          Append(@, [watcher |-> effective, granted |-> granted])]
        /\ handling' = [handling EXCEPT ![i] =
                          [to |-> req.client, id |-> req.id, kind |-> kind, by |-> i,
                           version |-> IF kind = "result" THEN version[n] ELSE 0]]
        /\ ran' = [ran EXCEPT ![req.client][req.id] = Append(@, i)]

Handle(i) ==
    /\ status[i] = "serving" /\ handling[i] = NoCall /\ requests[i] # <<>>
    /\ requests' = [requests EXCEPT ![i] = Tail(@)]
    /\ IF NameOf[i] \in Workspaces
         THEN HandleRequest(i, Head(requests[i])) ELSE RunTool(i, Head(requests[i]))
    /\ UNCHANGED <<status, registryVars, version, clientVars, deaf, overlapped, failures>>

\* The reply goes to reply_to; a send that fails is only printed.
Reply(i) ==
    LET resp == handling[i]
    IN  /\ resp # NoCall
        /\ handling' = [handling EXCEPT ![i] = NoCall]
        /\ replies' = IF Reads(resp.to)
                        THEN [replies EXCEPT ![resp.to] = Append(@, resp)] ELSE replies
        /\ UNCHANGED <<status, registryVars, requests, version, accesses, ran, seq, call,
                       last, answer, deaf, overlapped, failures>>

\* The owner commits, changes files or edits the note.
Edit(n) ==
    /\ version[n] < MaxEdits
    /\ version' = [version EXCEPT ![n] = @ + 1]
    /\ UNCHANGED <<status, registryVars, requests, handling, accesses, ran, clientVars,
                   deaf, overlapped, failures>>

-----------------------------------------------------------------------------
\* The steps of the servers of `names` and of their clients.
Steps(names) ==
    \/ \E i \in Instance :
         /\ NameOf[i] \in names
         /\ \/ Start(i) \/ Announce(i) \/ Stop(i) \/ Unlink(i) \/ Crash(i) \/ Reset(i)
            \/ Handle(i) \/ Reply(i)
    \/ \E n \in names \ Workspaces :
         \E g \in Gateways, tool \in Asked : Call(g, n, tool)
    \/ \E n \in names \cap Workspaces :
         Edit(n) \/ \E w \in Watchers, id \in Ids : Poll(w, n, id)
    \/ \E c \in Client : Send(c) \/ Receive(c) \/ TimeOut(c)
                         \/ (call[c] # NoCall /\ Reset(c))

Next == Steps(Server)

Spec == Init /\ [][Next]_vars

-----------------------------------------------------------------------------
\* No request is served twice; an answer comes from a server of the name asked
\* for, which ran this request once, and a status is no older than the call that
\* asked for it; when the server was unlisted or unreachable, nothing ran.
ToldTheTruth ==
    /\ \A c \in Client, k \in 1..MaxCalls : Len(ran[c][k]) <= 1
    /\ \A c \in Client :
         LET a == answer[c]
         IN  a # NoCall =>
               /\ a.kind \in {"result", "denied"} =>
                    /\ ran[c][a.id] = <<a.by>> /\ NameOf[a.by] = a.server
                    /\ a.version >= a.since \/ a.kind = "denied"
               /\ a.kind = "unreachable" /\ call[c] = NoCall => ran[c][seq[c]] = <<>>

\* Watching is not covert and not for everyone: each request a workspace server
\* served is one entry of its access log, and a client holds a status only if
\* that log has a granted entry for an allowed id, its own where the transport
\* vouches for it.
WatchingLogged ==
    /\ \A i \in Instance :
         NameOf[i] \in Workspaces =>
           Len(accesses[i]) =
             Cardinality({ck \in Client \X (1..MaxCalls) : ran[ck[1]][ck[2]] = <<i>>})
    /\ \A c \in Client :
         LET a == answer[c]
         IN  a # NoCall /\ a.kind = "result" /\ a.server \in Workspaces =>
               \E e \in 1..Len(accesses[a.by]) :
                 /\ accesses[a.by][e].granted /\ accesses[a.by][e].watcher \in Allow
                 /\ a.server \in Trusting => accesses[a.by][e].watcher = c

\* What a client is told of a call is true of that very call, and on record where
\* it was served: the reply to a call that timed out may arrive during the next
\* one and is not mistaken for its answer (Gateway._await, WorkspaceWatcher.poll,
\* WorkspaceServer.handle_request).
AnswersExact == ToldTheTruth /\ WatchingLogged

\* A server that is up is in the registry under its own address, after any
\* number of restarts and crashes, unless two processes of its name were up at
\* once: then the close of the one removes the manifest of the other
\* (ToolServer.close, WorkspaceServerNode.close).
RegistryTruthful ==
    \A i \in Instance :
      status[i] = "serving" /\ NameOf[i] \notin overlapped => manifest[NameOf[i]] = i

=============================================================================
