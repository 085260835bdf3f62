# WalkieTalkie: a TLA+ model of the mesh and the safety kernel

WalkieTalkie (`security-foundations/`) is a Python safety kernel for
agent-to-agent messages: signed envelopes carrying capability tokens
(`envelope/`), a peer-to-peer mesh that moves them (`mesh/`), and an MCP
integration on top (`integrations/mcp/`).  This directory holds TLA+ modules for
its stateful parts, TLC configurations that check them on small instances, and
TLAPS proofs of the results that hold for every instance.

## 1. The system

| Part | State | Operations | Interacts with |
|---|---|---|---|
| SWIM membership (`mesh/membership.py`) | own incarnation, member table (state, incarnation, ticks since heard) | `join`, `tick` = `_receive`; `_age`; `_probe` | any `Transport`; the admission policy gates what is learned |
| Gossip discovery (`mesh/gossip_discovery.py`) | none of its own | `routable_peers` | membership and admission |
| Admission (`peer_admission.py`) | immutable rules | `admit_peer` | membership, gossip discovery, mesh node |
| Router (`mesh/routing.py`) | set of handled msg_ids | `originate`, `handle` | caller's `next_hop` and `is_routable`; any transport |
| Transports (`mesh/transport.py`, `socket_transport`, `connection_pool`) | mailboxes, LRU pool of connections | `send`, `receive`, `close` | sender, acceptor and reader threads |
| Workload identity (`workload_ca.py`, `mesh/tls_transport.py`) | certificates; inboxes by authenticated id | `issue_svid`, `verify_svid`; `send`, `_serve` | OpenSSL, the clock, endpoints that change hands |
| Discovery (`discovery_record.py`, `discovery_propagation.py`, `mesh/node.py`, `eclipse_resistance.py`) | pins, republish times, known peers | `verify_record`, `admit`, `evict_older_than`, `learn_peer`, `routing_table` | admission policy; trust stores |
| Sybil deterrence (`sybil_deterrence.py`) | ledger of minted identities, reputation of issuers | `evaluate`, `record_admission`, `reward`, `penalize` | whatever admits identities |
| Envelope verifier (`verify_envelope.py`, `verifier.py`) | none of its own | `verify_envelope` | trust stores, capability check, revocation list, replay cache, audit sink, the clock |
| Capability tokens (`capability_token.py`) | none | `verify_capability_token` | issuer trust store, revocation list |
| Revocation list (`revocation_list.py`) | a set of jtis, in memory or a JSONL file | `revoke`, `is_revoked` | processes that share the file |
| Decisions (`capability_issuer.py`, `issuance_policy.py`, `policy_engine.py`, `policy_audit.py`, `admission_coupling.py`, `alerting.py`) | timestamps per kind of alert and identity | `issue`, `decide_and_audit`, `admit`, the sink's `_append` | threads that share the sink |
| Replay caches (`verify_envelope.py`) | (sender, nonce) -> expiry | `mark_if_new`, `seen` | concurrent callers; SQLite file shared by processes |
| Audit log (`audit.py`) | hash-chained events, in memory or a JSONL file | `record`, `read_all`, `verify_chain` | every verifier and gate |
| Safe mode (`safe_mode_engine.py`, `signed_safe_mode.py`) | current state S0..S4, active trigger per kind | `observe`, `clear`, `downgrade`, `verified_downgrade` | runtimes act on the returned transitions |
| Delegated authority (`delegation_receipt.py`, `session_token.py`, `checkpointed_execution.py`) | verified parents, last token of a session, revocation ledger, policy epoch | `verify_receipt`, `verify_session_token`, `verify_resume`, `validate_checkpoint` | capability claims, audit sink |
| Tool gate (`tool_policy_gate.py`) | immutable rules | `evaluate_tool_call`, `verify_step_up` | the MCP host |
| Load (`rate_limiter.py`, `capacity_budgets.py`, `capacity_rebalancer.py`) | times of checks; units in flight, ceilings, bursts | `check`, `reset`; `acquire`, `release`, `adjust_*`, `evaluate`, `apply` | the host; operators |
| Rollout (`policy_bundle.py`, `canary_policy.py`) | high-water marks in a file; denials of the candidate | `verify_bundle`, `accept`, `evaluate` | the issuer's policy |
| Keys (`key_rotation.py`, `revocation_convergence.py`) | rotation plans; broadcasts and acks | `register`, `accepted_kids_for`, `evict_completed`; `record_ack`, `evaluate_slo` | operators |
| Quarantine (`egress_policy.py`, `reviewer_workflow.py`, `recovery_readmission.py`) | held outputs, quarantined workloads | `evaluate`, `verify_release_authorization`, `verify_readmission` | host, reviewers, attesters |
| Data protection (`data_classification.py`, `retrieval_policy.py`, `prompt_assembly.py`, `instruction_isolation.py`, `output_scanning.py`) | labels and lineage carried by the data | `classify`, `derive`, `combine`, `retrieve`, `compose`, `assemble`, `redact` | audit sink, callers |
| MCP host (`host.py`) | replay cache, rate limiter | `handle` | verifier, gate, tools, audit sink |
| Bridge (`bridge/`) | address file, inbox file, replay cache | `send_message`, receive loop, `check_inbox` | the verifier over a socket transport |
| Workspace and gateway (`workspace/`, `federation/`) | registry files, access logs, last version seen | `announce`, `close`; `call`, `poll` | socket transport; git, tools |

What is hard in it:

* **Interleavings.** Nodes tick at their own pace; threads share a replay cache,
  an audit sink, a connection pool; processes share the SQLite cache and the inbox
  file; callers overlap between a check and the record of what was checked.
* **Time.** `verify_envelope` reads the clock once and the stores it calls read it
  again; windows have a skew, reservations do not; windows of limiters are closed.
* **Failure.** Frames are lost, nodes restart with nothing persisted, the audit
  sink or the database fails between two steps, a write breaks off half way.
* **Order.** Digests, records, triggers, approvals and acknowledgements arrive in
  any order and more than once; routing tables change while a message travels; a
  decision is applied to a system that has moved on.

The list `hazards` in `PROJECT.json` names each at its line, with the properties
that would catch it.

## 2. Modules

`MC*.tla` and `*.cfg` instantiate the modules for TLC; `*Proofs.tla` hold the
theorems.  Definitions commented *Mutant of X* are deliberately wrong variants: each
property is known to fail when one of them replaces the definition it mutates.

Verifiers are ordered lists of checks, each with a reason of its own.  `Checks`
has the operator `FirstFailure` for such a list; `SignedArtifact` has the validity
window that signed artifacts share.  Signatures and encodings are abstracted to the
first thing that is wrong with an artifact (`flaw`), because that decides which
reason is given and whether the denial is audited.

### Mesh

* **`PeerAdmission`** is the decision of `admit_peer` as an operator.
* **`SwimMembership`** has one step per drained frame (`ReceiveFrame`: merge the
  digest, refute, mark the sender heard, ack) and one for the rest of the tick
  (`FinishTick`: age, probe), which starts when the inbox is empty as the code's
  loop does.  `Join`, and the faults `LoseFrame`, `Crash` and `Restart` (a new
  object under the same id, incarnation 0).  A send to a node that is down is lost
  or, with a socket transport, raises out of the probe loop: `Reached` is then any
  subset of the live peers.  `RoutablePeers` is what `GossipDiscovery` makes of a
  table: its live ids that the policy admits.
* **`Router`** runs `handle` on every node; `Change` replaces the caller's tables
  and admissions, `Network` duplicates frames.  A message carries the history
  `trail` of its forwarders.
* **`ConnectionPool`** is `PooledSocketTransport` with two sending threads under
  `_send_lock`, a frame in two pieces, the LRU bound, `close()` from outside the
  lock, and reader threads.  Sockets are external: a peer may break a connection,
  and a write to it then fails or goes nowhere.
* **`Discovery`** follows a record through `verify_record`, the admission gate and
  `learn_peer` into the routing table; time passes between the gate and the node,
  pins are evicted, records come back.
* **`Sybil`** keeps `evaluate` and `record_admission` apart, as callers do.
* **`MutualTls`** follows a connection through its two ends: in TLS 1.3 the client
  has finished the handshake, and may have sent its frame, before the server looks
  at its certificate; both look again afterwards.  Certificates are issued, expire,
  and come from another CA or another tool; endpoints are used again; a client may
  die at any step, which ends the server's accept thread as an uncaught reset does.
* **`Federation`** is tool servers with the gateway and workspace servers with their
  watchers, over the socket transport and a directory of registry files.  Several
  processes may carry one name (a restart that overlaps); a file is truncated before
  it is written; replies are late, and calls match them by id.

### Verifier and host

* **`NonceStore`** is the contract of `mark_if_new` in the abstract: a call is
  answered at one instant; it is granted only if no reservation runs, and then
  reserves for its ttl, less a `slack`.
* **`ReplayCache`** is both implementations, statement by statement: clock read
  outside the lock, purge, insert; the variable `backend` says which.  The
  refinement `KeepsContract` instantiates `NonceStore` with `slack` the rounding of
  the backend (0 in memory, less than two seconds for SQLite).
* **`EnvelopeVerifier`** is `verify_envelope` with `verify_capability_token`: the
  call advances from one read of shared state to the next (`Start`,
  `CheckSignature`, `CheckCapability`, `EmitCap`, `ReadNow`, `Reserve`, `Emit`).
  An envelope is abstracted to its replay key, keys, windows and the first timeless
  check it fails.
* **`RevocationFile`** is the file-backed list: processes append without a lock and
  may break off, so that a record runs into the line before it; checkers load the
  file in between.
* **`AuditChain`** is `record` of concurrent writers on a file whose writes may
  break off; hashes are injective pairs.  The history `forked` says that two calls
  have overlapped.  `read_all` raises at the first line that does not parse and then
  returns nothing, so `LogSound` has two halves: a log it can read gives back what
  was recorded, verifiable without overlap and anchored with it (`ReadsBack`); one it
  cannot read is damaged in its last line only and is not written on
  (`DamageContained`).
* **`ToolGate`** and **`RateLimiter`** are used by **`Host`**, which is `handle`
  stage by stage with an audit event after each, from any of which the sink may
  raise.
* **`Inbox`** is mail through the bridge, from `send_message` to `check_inbox`.  A
  peer reads the address file, which may be empty or name a daemon that is gone, and
  sends; the transport queues; the daemon verifies, appends under an flock, and may
  be restarted with an empty replay cache; readers read, truncate and write back,
  and any process may die in between and leave a prefix.  An envelope is valid until
  its `expires_at`, late while `max_clock_skew` lets it pass, then over (`Expire`);
  the daemon forgets its nonce at some moment in which it is late, so a late copy is
  accepted and shown again.  `InboxExact` counts these (`late`) and excludes every
  other second showing.

### Authority

* **`Delegation`**: receipts verified in any order and at any time, under nothing, a
  capability or a receipt verified before.  **`Session`**: open and resume tokens
  against the last one accepted.  **`Checkpoint`**: tasks call the validator while
  capabilities are revoked and epochs rotate between its reads.
* **`AuditedDecisions`**: threads are issued tokens, policy decisions and admissions,
  and record denials of the verifier, all through one `AlertingAuditSink`.  The
  timestamp of an event is taken before it reaches the sink, so timestamps arrive
  out of order; the sink and the alert callback may fail.

### Operations

* **`SafeMode`** is the engine with the signed approvals in front of it.  The
  engine starts at S0 (no code restores another state).  `standing` is the history
  of triggers observed since their kind was last cleared.
* **`Capacity`** is the budget controller with the rebalancer; pools and tenant
  budgets are both units with a limit, a floor and a use.  A decision is drafted and
  applied later, or at once.
* **`PolicyRollout`**: bundles through the rollback guard, whose file is truncated
  before it is written, into a canary.  **`KeyRotation`**: plans of a subject and
  the kids accepted.  **`Convergence`**: acknowledgements of a revocation and its
  SLO; the ceiling that the code takes in floating point may be one too high, and
  `inexact` says where.
* **`Quarantine`**: outputs that the egress matrix holds until a reviewer releases
  them, and workloads that an attester readmits.  The queue and the register are
  the operator's.
* **`InformationFlow`**: data is classified, derived, combined, retrieved and composed
  into prompts; a history `origins` says what was ingested into a datum, so that a
  limit on labels can be compared with a limit on contents.  Text is assembled from
  segments that may look like fence markers (the system's own segments may not: the
  caller must see that the nonce is in no text), and redacted where matches overlap.

## 3. Runs

Components that share nothing are checked side by side in one run: a variable
`focus` (in `MCEnvelope`: `workload`), chosen in the initial state, says which of
them a behaviour exercises, and the others stand still.  The states are then the
sum of the instances and not their product.

| Run | Question | Instance |
|---|---|---|
| `swim_pair` | incarnation ownership, rows only advance, crash detection and routing around it, refutation | 2 nodes, timeouts 1+1, 2 faults, incarnations to 1 |
| `swim_gate` | the gate bounds the table | 3 nodes, one unadmitted late seed, 2 faults |
| `swim_eviction` | **fails**: a healthy node is not evicted for good | 2 nodes, 2 faults |
| `envelope` | nonce exclusion under races; audit topology, revocation, failing sink; authenticated channels | 2 callers, 3 calls, 3 envelopes of one nonce; or 1 call at a time, 14 envelopes of every fate; or mTLS: 2 workloads, 2 CAs, 2 endpoints, 2 connections, 1 death |
| `envelope_replay` | **fails**: an envelope is accepted once | 1 caller, 2 calls |
| `node` | host pipeline; caches implement `NonceStore`; audit log; mail from sender to reader | 13 requests, 3 calls, 1 sink failure; 2 callers, ttls 0, 1, 3; 2 writers, 4 events, 2 broken writes; 2 mails, 2 readers, 3 frames, 1 crash |
| `authority` | delegation chains, sessions, checkpoints; audited decisions and alerts; revocation file | 14 receipts and a capability; 18 tokens of 2 sessions; 2 tasks, 2 epochs; 2 threads, 9 calls, 3 decisions, 1 fault; 2 revokers, 1 checker, 4 revocations, 1 broken write |
| `operations` | safe mode, rollout, convergence, quarantine; labels and texts | 6 triggers, 4 approvals; 5 bundles, 2 crashes; 2 broadcasts, 3 targets; 5 outputs, 8 decisions, 2 workloads, 6 attestations; 3 objects, 2 retrievals; 3 matches |
| `rotation` | **fails**: a retired key is not accepted again | 2 plans of one subject in disjoint windows |
| `capacity` | budgets, rebalancer, rate limiter, sybil quotas | 3 pools, 3 tenants, total 6; 2 identities, window 2; 2 issuers, 2 callers, 4 identities |
| `capacity_floor` | **fails**: reserved capacity is held aside | the same pools |
| `transport` | router, connection pool, discovery, federation | 4 nodes, line/loop/gap tables, TTL 5; 2 senders, 3 frames, pool of 1; 4 peers of 2 domains; 4 server processes under 3 names, a gateway and 2 watchers, 2 calls, 1 failure |

Several invariants are conjunctions of named parts: `RoutingSafe` is `DeliveredOnce`
and `LoopSafe`; `AuditedAndAccounted` is `NonceAccounted` and `AuditTopology`;
`AnswersExact` is `ToldTheTruth` and `WatchingLogged`; `ChainSound` is
`NonEscalation`, `DepthBounded` and `OriginLive`; `LogTrustworthy` is `LogSound` and
`TamperEvident`; `RunsRightly` is `RunsAuthorized` and `ExecutedOnce`; `ModeFaithful`
is `WorstStanding` and `TransitionsFaithful`.

Bounds.  One key, one message id and one jti suffice where the code treats them
independently.  Two callers, writers or readers are enough for the races: the
critical sections are pairwise.  The timeouts of SWIM are the smallest that
distinguish suspect from dead.  Mailboxes are unbounded queues in the code: it is a
tick or a join that waits while a destination has `InboxCap` frames to drain
(`Room`), and no frame is dropped but by `LoseFrame`; two are enough for a fast node
to suspect a slow one and record it dead before it ticks.  `MaxIncarnation` stops a tick that would make a live
node exceed it, and the liveness properties excuse exactly those states
(`AtBound`).  Clocks run at least one tick beyond the skew window of the longest
artifact.  Sets of artifacts hold an honest one and ones that deviate from it in one
respect each, so that every check of a verifier decides some call.  Three frames of
mail are one message, its late copy and another message; one crash, of any process at
any step, leaves every kind of remains.  The callers of `envelope`, the threads of
`authority` and the mails and readers of `node` are interchangeable in the code, and
their runs use that symmetry; none of them checks a liveness property.
`CHECK_DEADLOCK FALSE` appears where a bounded number of calls, ticks or transitions
is a legitimate end.

Fairness.  `SwimMembership` assumes weak fairness of draining and of finishing a
tick: a deployment calls `tick()` on a period.  `Router` assumes the nodes keep
draining their transports.  Neither assumes that a lost frame is sent again or that
a crashed node restarts.  All other specifications are safety only.

### What the failing runs show

* **`swim_eviction`.** The module text says refutation "stops a transient hiccup
  from permanently evicting a healthy node".  `_probe` skips dead members and
  `_mark_heard` leaves a dead row alone, so when both sides have recorded each
  other dead no message travels between them.  In a pair this takes two lost frames,
  one each way (the ping that tells of a suspicion, and an ack that refutes the
  other), while both tables age; nothing heals it when the network is well again.
  With one fault the instance shows no such behaviour.  What does hold is
  `OneSidedDeathHeals`.
* **`envelope_replay`.** Envelopes are accepted until `expires_at +
  max_clock_skew`; the nonce is reserved until `expires_at`.  In between the same
  envelope is accepted again.  What does hold is `NonceExclusive`: until
  `expires_at` a reservation excludes all others.  The bridge uses the same verifier
  and cache, so it shows a late copy of a message again, although its README promises
  replay protection (`bridge/README.md:229-230`); `Inbox` models that.
* **`rotation`.** The kids of all plans of a subject are united, completed plans
  included: after k1 to k2 and k2 to k3, k2 is accepted for ever through the first
  plan, unless somebody evicts it.
* **`capacity_floor`.** `acquire` compares a pool with the total less the *others'*
  reserve, one pool at a time: two pools bursting together use up the reserve of an
  idle third.  What does hold, and is proved, is `FloorGuard` for each pool alone
  and `FloorAdmitted`.

### Also seen while modelling

These have no failing run of their own; the modules follow the code.

* `audit.py:134`: overlapping calls of `record` read the same tail hash and fork
  the chain, which `verify_chain` then refuses although nobody tampered with it
  (lines 17-21 give tampering as what a refusal detects).  `verify_chain` cannot notice that
  the *last* events are missing.  After a write that left part of a line `tail_hash`
  raises for ever, so every verification is denied until the file is repaired, and
  `read_all` (line 212) returns none of the events before it either.
* `routing.py:191`: an id is remembered before it is known whether it can be
  forwarded, so a retry of a message dropped for want of a route is dropped there as
  a duplicate.  `originate` does not remember the id, so an origin forwards its own
  message once if a loop brings it back.
* A `downgrade` that passes all its checks never changes the safe-mode state: the
  state already equals the floor the checks enforce (`TransitionsFaithful`).
* `capacity_rebalancer.py:573`: changes are applied one by one, and a decision that
  went stale may be applied in part.  A pool that is configured with a ceiling above
  what the others' reserve leaves keeps it, although `proof_obligations.py:822` says
  that after `apply` every ceiling leaves the others' reserve.
* `delegation_receipt.py:315`: the `chain_id` of a hop is not compared with its
  parent's.  `session_token.py:392`: a resume token that is presented again is
  refused as a parent mismatch, before its sequence number is looked at.
* `session_token.py:309`, `reviewer_workflow.py:414`, `tool_policy_gate.py:349`:
  the error of an issuer key that is not an Ed25519 key passes the handlers of the
  verifier's own error, so the denial leaves no audit event there, and in the host
  it is an exception instead of a signed error.
* `rate_limiter.py:104`: refused checks count too, so a caller that waits exactly
  `retry_after` may be refused again.
* `policy_bundle.py:212`: after a crash between `accept` and activation the same
  bundle is refused as a rollback.  Two loaders at once could roll back; the module
  says that only one may run.
* `key_rotation.py:200`: evicting a completed plan also ends the acceptance of its
  new kid by the registry, so callers must have moved on to another source of keys.
* `connection_pool.py:226`: a `send` that overlaps `close()` connects again and
  leaves a connection in a closed pool; a write to a connection the peer has just
  dropped is lost silently.
* `mesh/node.py:101`: `learn_peer` does not call the propagation gate, pins are
  kept per kid while peers are kept per workload, and peers do not expire.
* `sybil_deterrence.py:193`: reading a score stores it, and with it the moment from
  which it decays; nothing requires the ledger's retention to cover the window
  (an assumption of `Sybil`).
* `recovery_readmission.py:277`: the new kid is compared with the last kid only; a
  workload may return under an earlier one.
* `tool_server.py:101`, `workspace_server.py:211`: `close` of a server removes the
  manifest of its name, even when a successor has announced itself meanwhile; the
  successor then serves unlisted.  A crash leaves a manifest that names nobody.
* `gossip_discovery.py:73`: the policy is asked without a key, so a peer with a
  pinned key is never routable, although `_may_learn` admits it to the table.
* `tls_transport.py`: a `send` that returns has not been accepted yet; the server may
  still refuse the certificate.  The id at an endpoint is checked to be one of the
  trust domain, not the one the caller meant, so a reused endpoint gets the frame.  A
  connection that is reset ends the accept thread; the socket transport shares this.
* `verify_envelope.py`: the recipient of an envelope is not compared with the
  verifier's own identity.
* `alerting.py`: an event whose timestamp is late is counted with later ones, so an
  alert may be early; none is missed (`NoBurstMissed`).
* `admission_coupling.py`: `admit` says "Never raises", but the exception of a sink
  passes through it.  `capability_issuer.py`: a token with a ttl no longer than the
  skew is issued with a window that is already over.
* `output_scanning.py:268`: where two matches overlap, `redact` replaces the one that
  starts first and skips the other, whose tail stays in the text.
  `retrieval_policy.py:140`: the tenant check looks at the first actor of a lineage
  only, so data combined from two tenants passes as the first one's.
* `envelope_adapter.py:153`: `"result" in payload == (...)` is a chained comparison,
  which is never true; `MCPResponse` makes the intended check later.
* `mesh_mcp_bridge.py`: after a crash the address file names the old daemon and a
  send fails; mail that was queued when the daemon died is lost although the send
  succeeded; a daemon that starts again has an empty replay cache, and one that does
  not forgets a nonce at `expires_at`.
* `tool_server.py:77`, `workspace_server.py:191`: a request that is JSON but no object
  raises at `req.get`, outside any handler, and ends the thread that serves.  This is
  not modelled: the requests of `Federation` come from its own clients.

## 4. Proofs

Every theorem is for arbitrary constants under the `ASSUME`s of the module: sets of
any size, any limits, windows and skews, and no bound on steps but the counters the
actions are guarded with, which are arbitrary too.  A component that a checking module
composes with others by `INSTANCE` is proved about in that setting: `L!Spec` is the
specification of the instance `L` alone, and the property is the one the run checks.
The 51 theorems `PROJECT.json` lists state 37 of the 40 properties of the passing runs:
every invariant and every action property.

* **`SwimProofs`**: `TypeCorrect`, `IncarnationsOwned`, `TablesBounded`,
  `RowsAdvance`.  `IncarnationOwned` is not inductive alone: a row that is
  `unknown` must carry incarnation 0, else a digest could spread a number nobody
  took.  The invariant adds that (`Blank`) to the types, and each action is a lemma
  about the tables (`MergeEntryAdvances`, `AgeFacts`) and the mailboxes
  (`DeliverFacts`, `TakeFacts`).
* **`EnvelopeVerifierProofs`**, the verifier and the channel below it:
  * `NoncesExclusive`: the nonce of a grant whose envelope lives is in the cache until
    at least `expires_at` (`Held`), because the ttl is counted from `current` and added
    to the later `now`, and a purge uses a `now` the clock has passed, so that neither
    stale reading can free it.
  * `RevokedNeverAccepted`: a call that is too late has failed already or has yet to
    read the list (`Doomed`), and numbers of calls under way are distinct
    (`Numbered`); that one failing check denies is `FailureNotOk`.
  * `EveryCallAccounted`: each stage of a call says which checks are behind it and
    which events are out (`CallRight`, `Due`); a nonce is spent only at the stage
    after all of them.
  * `ChannelsAuthentic`: each end of a connection has done what its stage says
    (`StageRight`), the server's half before the client's, and a frame names a
    connection that its server has left since (`FramesRight`), hence comes once.
* **`AuthorityProofs`**, who may do what:
  * `RevocationsStand`: the file holds every revocation that returned, or does not
    parse (`OnFile`): a record can be lost only by being merged into a line that no
    longer parses; and a checker is still owed what it was owed when it asked.
  * `StrictSessions`: `ChainStrict` is inductive once each link is related to the one
    before it (`Link`).
  * `CheckpointedCommits`: what a doomed task failed of it fails of for good, since the
    ledger only grows and the clock does not run back (`DoomLasts`).
  * `AnswersAreOnRecord`: an answer is that of a call whose event is in the log, and is
    right whatever happens after it (`RightAnswer`).
  * `NoBurstIsMissed`: a bucket is a suffix of the times since the last alert, and
    each time purged from it is outside the window of a later one (`Covers`).
* **`NodeProofs`**, the host and the stores of a node:
  * `ToolsRunRightly`: what has been established and recorded at each stage (`Gates`);
    an execution holds its nonce until its envelope expires (`Held`), and a verified
    request has its nonce to itself until its tool runs (`Exclusive`).
  * `ForgeriesCostNothing`: a step property, from the order of the stages.
  * `CachesKeepContract`: the refinement of `NonceStore` by both replay caches.  What
    is not in the store has run out and what is in it was reserved (`StoreTrue`); a
    call's clock reading is between its start and now (`CallsTrue`), which is all the
    purge and the insert need, in whatever order calls reach them.
  * `LogsTrustworthy`: only the last line may be damaged (`Shape`); each whole line
    hangs off an earlier one or the genesis hash (`LinesHang`); without overlap the
    tail a call read is the tail it appends to (`Alone`); and the lines before a
    damaged or unended last one are the events returned, in order (`InOrder`).
  * `InboxesExact`: each process of the inbox accounts for the copies of a message it
    carries (`Underway`), and those with the ones in the file are as many as its
    history says (`Balance`); only the holder of the lock rewrites the file
    (`LockHeld`), and without a crash every line ends (`LinesEnded`), so nothing is
    glued to a torn line.  A daemon holds the nonce of every message it accepted that
    is still valid, so it accepts again only what is late (`Lives`).
* **`SafeModeProofs`**, what operators run (`MCOperations`):
  * the engine: `TypeCorrect`, `PredictableState`, `OnlyClearLowers`,
    `FaithfulTransitions`, and together `FaithfulMode`.  The state is the floor of the
    active triggers, and the active trigger of a kind is the worst observed since its
    last clear; `ComputeStateMonotone` gives the directions, and `DowngradeIsInert`
    that an approved downgrade names the current state.
  * `RolloutsContained`: the versions in a file that parses, or about to be written,
    are those in force or newer (`GuardRight`): a crash in the middle leaves a file
    that does not parse, which admits nothing.
  * `OutputsCleared`, `QuarantinesLiftedOnce`: what is held is what the matrix holds
    back, and ids of quarantines are given out once (`EntriesRight`), which is what
    makes an attestation good for one only.
  * `SloIsExact`: a node is in time exactly when the acknowledgement kept for it, its
    earliest, is (`ConvergenceRight`); that the k-th earliest time is within the target exactly when
    k nodes are is a fact about finite sets (`TimesReached`).
  * `FlowIsBounded`: a datum's class is no lower than that of anything ingested into
    it, and its lineage begins with an actor of a tenant that was (`Datum`), through
    any derivation and combination; `FlowRight` adds that labels are unique, and that
    what a prompt leaves out is behind the `max_items` it holds.
  * `TextsContained`: a segment of a prompt is the system's words or one fence
    (`FencedShape`), so the fences around a word can be counted; and a match that is
    not replaced starts inside one that precedes it and is (`Redacted`).
  * That the first n of a sort, and the replaced matches, exist goes by induction along
    a finite chain, adding an element at its end (`ChainInduction`).
* **`CapacityProofs`** (`MCCapacity`):
  * `TypeCorrect`, `NeverOvercommitted`, `FloorsGuarded`, `ReservedAdmitted`: a change
    of limits goes through the guards of `adjust_*` one unit at a time, so the
    invariant needs nothing of the decision, which may be arbitrarily stale
    (`ApplyKeepsLimits`).  `ReservedAdmitted` follows from it in every state.
  * `AccountsAreExact`, and `TenantAccountsExact`, its tenants' half, where every
    caller releases under the tenant it acquired for: the counters are sums over
    finite sets of what callers hold, and an acquire or release changes one summand.
  * `RebalanceConserves`: a transfer gives what it takes (`TransferMoves`, from
    `DonationWithin` and `EvenShares`).  Ceilings that are capped or refused on the way
    only end lower (`LandedWithin`), and none of the burst changes is refused
    (`BurstsLead`).  Under the invariant no use exceeds its limit, so every excess is 0
    and only the even branch of `_allocate_transfer` is ever taken.
  * `WindowsRespected`: counted from the newest, the bucket backs every grant that is
    still in a window (`Backed`), so grants `limit` apart are further apart than the
    window (`Spaced`).
  * `QuotasHeld`: the admissions under way, of callers that evaluated in the window,
    are counted with those recorded (`Within`), and the ledger has dropped only what is
    older than the window (`Ledger`).  The proof found a slip of an earlier `Sybil`: its
    initial states included one without callers, where the bound of the quota plus
    one for each further caller is one short.
* **`RouterProofs`**, the message layer (`MCTransport`):
  * forwarding: `TypeCorrect`, `AtMostOnce`, `LoopsDoNotAmplify`, and together
    `SafeRouting`.  Every forwarder on a trail, and every node that delivered,
    remembers the id, and TTL and trail length add up to the default TTL; a node that
    has not seen the id is therefore not on the trail.
  * `NothingRewinds`: the limiter's times are a suffix of the admissions and those it
    trimmed are outside the window (`Tracks`); the pin of a key is its newest
    admission, or was evicted when that record had long expired (`PinFor`).
  * `NoneEclipsed`: the walk of `select_neighbors` selects a candidate exactly when
    those it selected before leave room (`Selects`); such a selection exists, by
    induction along the order of the walk (`WalkExists`), keeps every domain within
    its cap (`WithinCap`), and leaves a domain out only when the table is full
    (`NoneLeftOut`, from `CapTimesDomains`).
  * `PoolsSound`: a stream is whole frames, with at most one first piece at its end,
    and then the send that wrote it goes on to write the second or to drop the
    connection (`PiecesFollow`); a frame is completed in one stream or one inbox and
    is not to be sent any more (`FramesOnce`); connections of the pool go to different
    destinations (`PoolKept`).
  * `RegistriesTruthful`: a name that no two processes served at once has one process
    up, whose manifest is empty while it announces itself and its own afterwards.
  * `AnswersAreExact`: a request waits at one server, not run, or has run once
    (`RequestsOnce`); every reply, wherever it is, is true of the request whose number
    it carries (`ReplyTrue`), and if that is the call under way, of a server of the
    name it was made for and no older than what the call saw (`CallsSound`); the
    access log of a workspace server counts what it ran (`AccessesCounted`).
* **`DelegationProofs`**: `ChainsOnlyNarrow`, `ChainsBounded`,
  `NothingOutlivesTheOrigin`, and together `SoundChains`.  `LinkOK` relates each
  verified hop to the origin of its chain (scope, audience, window, depth at most hop
  index plus one), which makes the comparison with the immediate parent compose.

Three lemmas recur: the first failing check of an ordered list is a least number, which
exists because `<` is well-founded on the naturals (`LeastNatural`, from `WFMin`);
induction over a finite set or along a finite order, with what is to be shown given as
a set and not as a predicate (`SetInduction`, `ChainInduction`), follows from it; and
a window that a deque keeps is a suffix of a history.  So that they apply, the models
define a walk along a sorted list (`SelectNeighbors`, `Replaced`, `First`) by what it
selects, and a sum by its units (`SumOver`), in place of a fold.  The larger inductive invariants
were model-checked on the runs' instances before they were proved.

Assumptions the proofs needed, each in the module that declares the constants, with
what the code bears it on: sets of processes are finite (`Federation`,
`Convergence`), windows, ages and limits are natural numbers (`Discovery`,
`ConnectionPool`, `RateLimiter`), the marks for "none" are none of the values they
stand beside, the system's own prompt text holds no fence marker (`InformationFlow`),
an eviction age covers the life of a record (`Discovery`) and the
ledger's retention covers the quota's window (`Sybil`), which nothing in the code
enforces and the operator must see to.

Only model-checked, and why:

* `OneSidedDeathHeals`, `CrashDetected`, `EventuallyQuiet`: liveness under fairness,
  which needs ENABLED.

`RetiredNotAccepted`, `AcceptedOnce`, `NoPermanentEviction` and `ReservedHeldAside` are
refuted by their runs (section 3) and have nothing to prove.

## 5. Not modelled, and the plan

Signatures, canonicalization, encodings and X.509 are abstracted to "verifies or
not" or to the first flaw.  Log wording, metrics, command-line demos and generated
vectors are left out.  Not modelled at all:

* `proof_obligations.py` and `deny_reason.py` are tables, `audit_query.py` a read-only
  view of a log.
* `image_attestation.py`, `runtime_profile.py` and `bootstrap_bundle.py` are pure
  checks of one signed file each; nothing in the package calls them, and they keep no
  state (an earlier epoch of a bundle is not remembered).
* What the patterns of the output scanner match: a match is a span in the model.
* The conversions of `envelope_adapter.py` beyond well formed or not; the loops that
  read lines from standard input; the responder, which decides when an agent reads
  its mail (in `Inbox` that may be any time).
* Registration in the in-memory switchboard, loading of trust manifests, serialization
  of signed safe-mode transitions, and the diagnostic flags of eclipse resistance.

What is left:

1. Compose `Host` with the open `EnvelopeVerifier` and the `AuditChain`, in place of
   their one-step abstractions.
2. Prove the liveness properties, for which only the safety facts they rest on
   (`SafeRouting`, `RowsAdvance`) are proved; and the types of the smaller modules as
   theorems of their own.
