----------------------------- MODULE MutualTls -----------------------------
(***************************************************************************)
(* Workload certificates (envelope/workload_ca.py) and the transport that  *)
(* authenticates both ends with them (mesh/tls_transport.py).              *)
(*                                                                         *)
(* A workload is a process with a key.  A connection goes through the      *)
(* steps of its two ends: in TLS 1.3 the client is done with the handshake *)
(* before the server has looked at its certificate, and both look a second *)
(* time afterwards, when the certificate may have expired.  A connection   *)
(* carries one frame.  What OpenSSL does in wrap_socket is external.       *)
(***************************************************************************)
EXTENDS Integers, Sequences

CONSTANTS
    Workload,
    CA, CaDomain, CaName,     \* per CA: trust_domain and common_name
    Id, IdDomain,             \* SPIFFE ids with their trust domains
    Endpoint,                 \* addresses, which are used again
    Foreign,                  \* what certificates of other tools look like
    SvidTtl,
    MaxTime, MaxOpens, MaxSends, MaxDeaths,   \* bounds of the model
    Nobody

VARIABLES
    clock,
    identity,   \* per workload: the TlsIdentity of its open transport, or Nobody
    listening,  \* per endpoint: the workload that listens there, or Nobody
    conn,       \* the connections some end of which is open
    frames,     \* per workload: its _inbox, with the connection each came over
    ended,      \* the workloads whose _serve thread has ended
    opens,      \* transports opened so far
    sends,      \* connections so far
    deaths      \* clients that died so far

vars == <<clock, identity, listening, conn, frames, ended, opens, sends, deaths>>

TlsConstants ==
    /\ CaDomain \in [CA -> {IdDomain[i] : i \in Id}]
    /\ \A f \in Foreign : f.ca \in CA /\ f.id \in Id
    /\ SvidTtl \in Nat \ {0} /\ Nobody \notin Workload
    /\ \A n \in {MaxTime, MaxOpens, MaxSends, MaxDeaths} : n \in Nat

Init ==
    /\ clock = 0 /\ conn = {} /\ ended = {} /\ opens = 0 /\ sends = 0
    /\ deaths = 0
    /\ identity = [w \in Workload |-> Nobody]
    /\ listening = [a \in Endpoint |-> Nobody]
    /\ frames = [w \in Workload |-> <<>>]

-----------------------------------------------------------------------------
(* Certificates                                                            *)

\* issue_svid refuses ids outside the CA's domain.
MayIssue(ca, id) == IdDomain[id] = CaDomain[ca]

Svid(ca, id, w) ==
    [id |-> id, key |-> w, ca |-> ca, nbf |-> clock, exp |-> clock + SvidTtl,
     sans |-> 1, usage |-> "signature"]

\* Certificates under a CA's key that issue_svid did not make.
Other(f, w) ==
    [id |-> f.id, key |-> w, ca |-> f.ca, nbf |-> clock, exp |-> clock + SvidTtl,
     sans |-> f.sans, usage |-> f.usage]

\* Mutant of VerifySvid: the time was checked in the handshake.
VerifySvidUntimed(cert, root, now) ==
    /\ cert.sans = 1
    /\ CaName[cert.ca] = CaName[root]
    /\ cert.ca = root
    /\ cert.usage = "signature"

\* verify_svid without expected_spiffe_id, as the transport calls it: one SPIFFE
\* SAN, the issuer's name, the signature, the window, the key usage.
VerifySvid(cert, root, now) ==
    /\ cert.sans = 1
    /\ CaName[cert.ca] = CaName[root]
    /\ cert.ca = root
    /\ cert.nbf <= now /\ now <= cert.exp
    /\ cert.usage = "signature"

\* OpenSSL with CERT_REQUIRED and this root alone: chain and time.
Chains(cert, root, now) == cert.ca = root /\ cert.nbf <= now /\ now <= cert.exp

-----------------------------------------------------------------------------
(* A transport is opened with an identity, and closed.                     *)

Open(w, root, cert, a) ==
    /\ identity[w] = Nobody /\ listening[a] = Nobody /\ opens < MaxOpens
    /\ opens' = opens + 1
    /\ identity' = [identity EXCEPT ![w] = [cert |-> cert, root |-> root]]
    /\ listening' = [listening EXCEPT ![a] = w]
    /\ UNCHANGED <<clock, conn, frames, ended, sends, deaths>>

\* mint_identity, and the transport with it
MintAndOpen(w, ca, id, a) == MayIssue(ca, id) /\ Open(w, ca, Svid(ca, id, w), a)

Sending(w) == \E c \in conn : c.client = w /\ c.at_client # "done"

\* The connection c once its server has left it: a client that waits for the
\* server's hello is told so.
Left(c) ==
    IF c.at_client = "hello"
    THEN [c EXCEPT !.at_server = "closed", !.at_client = "done", !.told = "failed"]
    ELSE [c EXCEPT !.at_server = "closed"]

Over(c) == c.at_client = "done" /\ c.at_server = "closed"

\* Connections of which one end has changed; those both ends have left are gone.
Become(old, new) == conn' = (conn \ old) \cup {c \in new : ~Over(c)}

\* The thread is joined; what it had accepted, or waits to be, breaks off.
Close(w) ==
    LET served == {c \in conn : c.server = w}
    IN  /\ identity[w] # Nobody /\ ~Sending(w)
        /\ identity' = [identity EXCEPT ![w] = Nobody]
        /\ listening' = [a \in Endpoint |->
                           IF listening[a] = w THEN Nobody ELSE listening[a]]
        /\ Become(served, {Left(c) : c \in served})
        /\ frames' = [frames EXCEPT ![w] = <<>>]
        /\ ended' = ended \ {w}
        /\ UNCHANGED <<clock, opens, sends, deaths>>

-----------------------------------------------------------------------------
(* send                                                                    *)

\* Whoever listens there now takes the connection; if nobody does, send raises.
\* A process that dials itself is left out.
Dial(w, a) ==
    /\ identity[w] # Nobody /\ ~Sending(w) /\ sends < MaxSends
    /\ listening[a] \notin {Nobody, w}
    /\ sends' = sends + 1
    /\ conn' = conn \cup
         {[n |-> sends', client |-> w, server |-> listening[a],
           client_cert |-> identity[w].cert, client_root |-> identity[w].root,
           server_cert |-> identity[listening[a]].cert,
           server_root |-> identity[listening[a]].root,
           at_client |-> "hello", at_server |-> "queued", data |-> "none",
           told |-> "nothing", done_at |-> 0, seen_at |-> 0]}
    /\ UNCHANGED <<clock, identity, listening, frames, ended, opens, deaths>>

Told(c, outcome, data) ==
    [c EXCEPT !.at_client = "done", !.told = outcome, !.data = data, !.done_at = clock]

\* The client's second look, at the id of anyone under the root; then the frame.
\* Into a connection the server has left, the write may or may not fail.
Finish(c) ==
    LET good == VerifySvid(c.server_cert, c.client_root, clock)
    IN  /\ c.at_client = "verify"
        /\ \/ good /\ Become({c}, {Told(c, "sent", "frame")})
           \/ /\ ~good \/ c.at_server = "closed"
              /\ Become({c}, {Told(c, "failed", "eof")})
        /\ UNCHANGED <<clock, identity, listening, frames, ended, opens, sends, deaths>>

\* The process that sends dies, or its host resets the connection.
Die(c) ==
    /\ c.at_client # "done" /\ deaths < MaxDeaths
    /\ deaths' = deaths + 1
    /\ \E data \in {"eof", "reset"} : Become({c}, {Told(c, "failed", data)})
    /\ UNCHANGED <<clock, identity, listening, frames, ended, opens, sends>>

-----------------------------------------------------------------------------
(* _serve: one connection after the other                                  *)

AtServer(c, stage) ==
    /\ c.at_server = stage
    /\ UNCHANGED <<clock, identity, listening, opens, sends, deaths>>

Step(c, stage) == Become({c}, {[c EXCEPT !.at_server = stage]})

\* accept takes the oldest; the client judges the server's certificate.
Accept(c) ==
    /\ AtServer(c, "queued") /\ c.server \notin ended
    /\ \A d \in conn : d.server = c.server /\ d.at_server # "closed" => c.n <= d.n
    /\ \/ /\ c.at_client = "hello" /\ Chains(c.server_cert, c.client_root, clock)
          /\ Become({c}, {[c EXCEPT !.at_server = "hello", !.at_client = "verify"]})
       \/ /\ c.at_client = "hello" /\ ~Chains(c.server_cert, c.client_root, clock)
          /\ Become({c}, {Left(c)})
       \/ c.at_client = "done" /\ Step(c, "closed")
    /\ UNCHANGED <<frames, ended>>

\* The end of wrap_socket: the client's certificate, if the client is still there.
Shake(c) ==
    /\ AtServer(c, "hello")
    /\ \/ Chains(c.client_cert, c.server_root, clock) /\ Step(c, "verify")
       \/ ~Chains(c.client_cert, c.server_root, clock) /\ Step(c, "closed")
       \/ c.data \in {"eof", "reset"} /\ Step(c, "closed")
    /\ UNCHANGED <<frames, ended>>

VerifyPeer(c) ==
    /\ AtServer(c, "verify")
    /\ IF VerifySvid(c.client_cert, c.server_root, clock)
       THEN Become({c}, {[c EXCEPT !.at_server = "read", !.seen_at = clock]})
       ELSE Step(c, "closed")
    /\ UNCHANGED <<frames, ended>>

\* A whole frame goes into the inbox under the verified id; at the end of the
\* stream the connection is dropped; a reset is an error that no handler of
\* _serve catches, and the thread ends.
Read(c) ==
    /\ AtServer(c, "read") /\ c.data # "none"
    /\ Step(c, "closed")
    /\ frames' = IF c.data = "frame"
                 THEN [frames EXCEPT ![c.server] =
                         Append(@, [source |-> c.client_cert.id, over |-> c])]
                 ELSE frames
    /\ ended' = IF c.data = "reset" THEN ended \cup {c.server} ELSE ended

Tick ==
    /\ clock < MaxTime
    /\ clock' = clock + 1
    /\ UNCHANGED <<identity, listening, conn, frames, ended, opens, sends, deaths>>

Next ==
    \/ Tick
    \/ \E w \in Workload :
         \/ Close(w)
         \/ \E a \in Endpoint :
              \/ Dial(w, a)
              \/ \E ca \in CA, id \in Id : MintAndOpen(w, ca, id, a)
              \/ \E f \in Foreign : Open(w, f.ca, Other(f, w), a)
    \/ \E c \in conn :
         Finish(c) \/ Die(c) \/ Accept(c) \/ Shake(c) \/ VerifyPeer(c) \/ Read(c)

Spec == Init /\ [][Next]_vars

-----------------------------------------------------------------------------
\* Both ends know whom they deal with.  A frame in an inbox is there once, under
\* an id that the receiver's own CA gave to the key of the process that sent it,
\* in a certificate good for signatures only and not expired when the receiver
\* looked; and it was written to a process the sender's CA vouched for just
\* then, although endpoints change hands between the moment an address is
\* learned and the moment it is dialled.  When send fails nothing arrives; that
\* it returns says less: the server may yet refuse the client's certificate
\* (TlsSocketTransport.send, _serve, verify_svid).
ChannelAuthentic ==
    /\ \A s \in Workload : \A i \in DOMAIN frames[s] :
         LET c == frames[s][i].over
         IN  /\ c.told = "sent" /\ c.server = s
             /\ c.client_cert.key = c.client /\ frames[s][i].source = c.client_cert.id
             /\ c.client_cert.ca = c.server_root
             /\ c.seen_at <= c.client_cert.exp
             /\ c.client_cert.sans = 1 /\ c.client_cert.usage = "signature"
             /\ \A j \in DOMAIN frames[s] : frames[s][j].over.n = c.n => i = j
    /\ \A c \in conn :
         c.told = "sent" =>
           /\ c.server_cert.ca = c.client_root
           /\ c.server_cert.usage = "signature"
           /\ c.done_at <= c.server_cert.exp

=============================================================================
