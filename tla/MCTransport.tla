---------------------------- MODULE MCTransport ----------------------------
(***************************************************************************)
(* Small instances of what moves frames in the mesh and finds where to     *)
(* send them: Router, ConnectionPool, Discovery and Federation.  They      *)
(* share no state, so a behaviour exercises one of them: `focus` says      *)
(* which.                                                                  *)
(***************************************************************************)
EXTENDS Router

CONSTANTS
    Sender, Frame, Dest, DestOf, MaxConnections, Retries, MaxConns, MaxBreaks, NoOne,
    Records, Workload, DomainOf, AdmissionPolicy, EnvTier, RecordSkew, MaxRecordTtl,
    LimiterWindow, MaxPerWindow, TargetCount, MaxPerTrustDomain, EvictionAge, NoRecord,
    MaxTime, NoPin, NoTier, NoKey,
    Gateways, Watchers, Instance, Server, NameOf, Tools, Asked, Workspaces, Trusting,
    Allow, Ids, MaxCalls, MaxFailures, MaxEdits, Missing, Empty, Garbled, NoCall

VARIABLES
    focus,
    out, sock, opened, sendLock, call, received, todo, closing,
    clock, pins, events, cleared, peers, admitted,
    status, manifest, writing, requests, handling, replies, deaf, seq, pending, last,
    version, accesses, ran, answer, overlapped, failures

K == INSTANCE ConnectionPool
D == INSTANCE Discovery
F == INSTANCE Federation WITH call <- pending

ASSUME PoolAssumption == K!PoolConstants
ASSUME DiscoveryAssumption == D!DiscoveryConstants /\ D!WellFormedPolicy(AdmissionPolicy)
ASSUME FederationAssumption == F!FederationConstants

-----------------------------------------------------------------------------
CONSTANTS NA, NB, NC, ND, none

\* NA - NB - NC with every route known, a loop NA -> NB -> NC -> NA that
\* never reaches ND, and a table in which NB has lost its routes.
Line == [n \in Node |->
           [dest \in Node |->
              CASE n = NB -> dest
                [] n # NB /\ dest = ND -> none
                [] OTHER -> NB]]

Loop == [n \in Node |->
           [dest \in Node |->
              CASE n = NA -> NB [] n = NB -> NC [] n = NC -> NA [] OTHER -> none]]

Gap == [Line EXCEPT ![NB] = [dest \in Node |-> none]]

MCTables == {Line, Loop, Gap}

\* Everyone is admitted, or NB does not admit NC.
MCAdmissions ==
    { [n \in Node |-> Node], [n \in Node |-> IF n = NB THEN Node \ {NC} ELSE Node] }

\* Two frames for one endpoint and one for another.
MCDestOf == [f \in Frame |-> IF f = "f3" THEN "y" ELSE "x"]

\* Workloads 1, 2 and 3 of domain "x" and 4 of "y"; 3 is not admitted to the tier.
MCDomainOf == [w \in Workload |-> IF w = 4 THEN "y" ELSE "x"]

MCPolicy ==
    {[spiffe_id |-> w, env_tier |-> "prod", pin |-> NoPin] : w \in {1, 2, 4}}
      \cup {[spiffe_id |-> 3, env_tier |-> "test", pin |-> NoPin]}

Rec(w, kid, issued, expires) ==
    [iss |-> w, kid |-> kid, issued |-> issued, expires |-> expires, genuine |-> TRUE]

\* Four records of one workload, one of them under an older kid; one record each
\* of the others; a forged one and one that asks for too long a life.
MCRecords ==
    { Rec(1, "k1", 0, 2), Rec(1, "k1", 1, 3), Rec(1, "k1", 2, 4), Rec(1, "k0", 0, 1),
      Rec(2, "k1", 0, 1), Rec(3, "k1", 0, 1), Rec(4, "k1", 0, 1),
      [Rec(1, "k1", 3, 5) EXCEPT !.genuine = FALSE], Rec(4, "k1", 1, 5) }

\* Two processes of one tool server, one of each of two workspaces, of which one
\* believes the transport and one the request.
MCNameOf == [r1 |-> "repo", r2 |-> "repo", v1 |-> "ws", u1 |-> "lan"]

-----------------------------------------------------------------------------
poolVars == <<out, sock, opened, sendLock, call, received, todo, closing>>
discoveryVars == <<clock, pins, events, cleared, peers, admitted>>
federationVars == <<status, manifest, writing, requests, handling, replies, deaf, seq,
                    pending, last, version, accesses, ran, answer, overlapped, failures>>


MCInit ==
    /\ Init /\ K!Init /\ D!Init /\ F!Init
    /\ focus \in {"router", "pool", "discovery"} \cup Server
    /\ focus = "router" \/ (nextHop = Line /\ routable = [n \in Node |-> Node])

MCNext ==
    /\ UNCHANGED focus
    /\ \/ /\ focus = "router" /\ Next
          /\ UNCHANGED <<poolVars, discoveryVars, federationVars>>
       \/ /\ focus = "pool" /\ K!Next
          /\ UNCHANGED <<vars, discoveryVars, federationVars>>
       \/ /\ focus = "discovery" /\ D!Next
          /\ UNCHANGED <<vars, poolVars, federationVars>>
       \/ /\ focus \in Server /\ F!Steps({focus})
          /\ UNCHANGED <<vars, poolVars, discoveryVars>>

\* The fairness of Router!FairSpec.
MCSpec ==
    /\ MCInit /\ [][MCNext]_<<focus, vars, poolVars, discoveryVars, federationVars>>
    /\ WF_vars(focus = "router" /\ (\E msg \in inflight : Handle(msg))
                 /\ UNCHANGED <<focus, poolVars, discoveryVars, federationVars>>)

\* The properties of the instances.
PoolSound == K!PoolSound
NoRewind == D!NoRewind
NotEclipsed == D!NotEclipsed
AnswersExact == F!AnswersExact
RegistryTruthful == F!RegistryTruthful

=============================================================================
