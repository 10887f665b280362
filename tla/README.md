# A TLA+ verification of Soroban SAS

Soroban SAS is an attestation service for Stellar: a schema registry contract,
an attestation contract (SAS), an indexer, a family of resolver contracts, two
verifiers, and the programs through which people use them: a Rust SDK, a command
line tool, a JavaScript client and a deployment script. This directory holds
TLA+ models of the parts that carry the protocol, TLC configurations that check
them on small instances, and TLAPS proofs that extend the main results to every
instance. Paths below are relative to the root of the repository.

## 1. Inventory

| Component | State | Operations | Talks to |
|---|---|---|---|
| **Attestation store** (`contracts/sas/src/lib.rs`, `timestamp.rs`) | one record per UID, `valid_from`, issuance and revocation anchors, quota history, pause switch, auto-prune switch | attest, multi_attest, broadcast_attest, revoke (four forms), replace, renew, prune, admin setters | reads the registry on every issuance and revocation; calls the schema's resolver; pushes to the indexer |
| **Storage layout and readers** (`contracts/sas`, `packages/soroban-sas-common/src/merkle.rs`) | compact or legacy record, side entry of `valid_from`, anchors | migrate_attestation(s), get, verify, batch verify, selective disclosure, off-chain verification | the store |
| **Delegated operations** (`contracts/sas/src/lib.rs`) | nonce watermark per attester, consent watermark per recipient, key record per attester, delegation policy, used nullifiers | attest / revoke (single, scoped, batch) by delegation, consented replacement, nonce invalidation, key register/rotate/revoke, attest_with_zk | the store; the registry's FROST group; the ZK verifier |
| **Fees, treasury, administration** (`contracts/sas/src/lib.rs`) | default fee, further assets, per-byte rate, creator fees, exemptions, treasury and creator books, admin and pending admin, version | attest_with_value, price setters, withdrawals, two-step admin transfer, upgrade | token contracts; the registry's royalty |
| **Schema registry** (`contracts/schema-registry`) | schema records, order, categories, lineage, owner and pending owner, owner sets with approvals, delegates, attester lists, deprecation, quarantine, settings | register (nine forms), transfer / propose / claim / approve, delegate management, deprecate, quarantine, paged reads | read by SAS |
| **Indexer** (`contracts/indexer`) | chunked lists of UIDs per recipient, schema, attester and expiration, counters, status per UID, chunk tier | index, mark, reindex, forward, reverse and filtered readers | called by SAS, strict or best effort |
| **Resolvers** (`contracts/*-resolver`) | cooldowns, token gates, black lists, signer policies | on_attest, on_revoke, configuration | called by SAS; a token |
| **ZK verifier**, **cross-chain verifier** | spent nullifiers and commitments; newest verdict and proof per remote UID | verify; receive | SAS; Axelar gateway and LayerZero endpoint |
| **SDK** (`packages/soroban-sas-sdk`) | sequence numbers per account; pending transactions; cached schemas; checkpoints; request ids | client methods, submission, fee bumps, schema look-up and invalidation, deliver and acknowledge, RPC | many threads; RPC nodes |
| **CLI** (`packages/soroban-sas-cli`) | configuration file, cache directory, migration directory | some sixty commands, bulk issuance, import, migration, watch, deploy-all | SDK; other shells; the user |
| **JavaScript transports** (`packages/soroban-sas-js/src/failover.ts`, `resilient.ts`) | per endpoint: failures, circuit, health | request, probe | RPC nodes |
| **Deployment** (`scripts/deploy.sh`) | manifest, `.env` | deploy, initialise, bind, resume | the network |
| **React bindings** (`packages/soroban-sas-react/src`) | the provider's key prefix; per mutation hook what it shows, its request id and whether it is mounted | render, execute, reset, unmount, query | JavaScript client; SWR |
| **Type generation, tools** | none of the protocol's | request building, display, metrics | SDK |

**What is hard.** A contract invocation is atomic, so the difficulty on the
contract side is not interleaving inside a call but *sequences* of legal calls
by parties who do not know of each other: a relayer replays and reorders signed
messages while the attester rotates keys and invalidates nonces; a UID expires,
is pruned by anyone and is issued again; the registry deprecates a schema
between two calls; prices, royalties and owners change between two payments; the
indexer is down for some of SAS's pushes; verdicts from another chain come late
and twice. On the client side the difficulty is concurrency and failure: threads
share sequence numbers, request ids and caches across a network that loses,
delays or fails messages; processes are killed between two writes of a file and
resumed; a script's transaction lands although it was told it failed; a component
is unmounted, or given another client, while its transaction is under way.
`PROJECT.json` lists each hazard at its line with the property that would notice
it.

**What makes each component correct.**
Store: a verdict changes only for a reason a consumer can see; a revoked record
stays as it is; anchors and records agree; schema rules hold for ever;
deprecation stops what it says; the quota is never exceeded; reference chains
end. Storage: every reader answers for the attestation last meant, whatever the
layout, and what a live attestation commits to, and nothing else, can be
disclosed. Delegation: one signature, one operation; what is invalidated stays
invalid; a retired key signs nothing; delegation adds no behaviour to the store.
Fees: the books are covered by tokens held.
Registry: lists and grants agree, reads are complete, and what SAS relies on
never changes. Indexer: a gap is announced and repaired; readers return what was
inserted, in order, once. Resolvers: a rule holds over a whole run, not of one
call. Verifiers: the newest verdict, and a nullifier once, archived or not. SDK,
CLI, transports, hooks, deployment: what a caller, a report, a cache, a
checkpoint, a component or a manifest is told is what happened, and nothing is
done twice or lost.

## 2. Modules

| Module | Models | Extends |
|---|---|---|
| `SASCore` | attestation store, admin switches it reads, the registry as it sees it | – |
| `SASDelegation` | delegated operations next to the direct ones, on the same store | `SASCore` |
| `SASStorage` | storage layout, migration of records, readers | – |
| `SASTreasury` | fees, books, withdrawals, admin transfer, upgrade counter | – |
| `SchemaRegistry` | the registry | – |
| `IndexLedger` | abstract: what an index promises | – |
| `Indexer` | the indexer fed by SAS; implements `IndexLedger` | – |
| `Resolvers`, `CrossChainVerifier`, `ZkVerifier` | the contracts of those names | – |
| `SequenceManager` | SDK sequence numbers, the write loop, the network | – |
| `SASClient`, `RpcClient`, `FeeBumpSubmitter`, `SchemaCache` | the SDK parts of those names | – |
| `EventStream` | the SDK's resumable stream and the CLI's watcher | – |
| `SASCli`, `BulkIssue`, `EasMigration` | the CLI's commands; `attest bulk` and `attest import`; `migrate eas` | – |
| `RpcFailover` | the two JavaScript transports | – |
| `ReactHooks` | provider, mutation hook and query of the React bindings | – |
| `Deployment` | `scripts/deploy.sh` | – |
| `Ordered` | a set of positions as a list, and what filtering leaves of a list; used by the registry, the indexer, the cache, bulk issuance, the transports and the event stream | – |
| `MCCore`, `MCDelegation`, `MCIndexer` | the claims, views and inputs TLC's configurations choose from | the module they check |
| `MCSequence`, `MCContracts`, `MCSdk` | several modules that share no state, one per behaviour (variable `part`) | those modules |
| `SASCoreProofs`, `SASDelegationProofs` | proofs about the store and about delegation | `SASCore`, `SASDelegation` |
| `CollectionTheorems` | induction over sets, sums, ordered lists, parts of lists, recursion | `Ordered` |
| `ContractProofs` | proofs about fees and books, registry, resolvers, the two verifiers, the storage layout and selective disclosure | `SASTreasury`, `SchemaRegistry`, `Resolvers`, `CrossChainVerifier`, `ZkVerifier`, `SASStorage` |
| `IndexerProofs` | proofs about the indexer, its readers and its refinement | `Indexer` |
| `SequenceManagerProofs` | proofs about sequence numbers, the event stream and the watcher | `SequenceManager`, `EventStream` |
| `SdkProofs` | proofs about client, RPC, fee bumps, schema cache, transports and hooks | `SASClient`, `RpcClient`, `FeeBumpSubmitter`, `SchemaCache`, `RpcFailover`, `ReactHooks` |
| `CliProofs` | proofs about deployment, command line, bulk issuance and migration | `Deployment`, `SASCli`, `BulkIssue`, `EasMigration` |

### The contracts

One action is one committed invocation. The host rolls a panicking invocation
back, so a refused call is a stuttering step. `Address::require_auth` is who
takes the action.

**SASCore.** A UID is the hash of (schema, recipient, attester, data); the hash
is taken as injective, so a UID *is* that tuple. `now` is both the sequence
number of the open ledger and its close time: the code compares records with
close times and the quota with sequence numbers, and no check mixes them.
`att[u]` is the record with its `valid_from`, `anchor[u]` the pair of
`TimestampAnchor` entries. `Issuable(a, earlier)` is the list of checks of
`attest_internal`, in which `earlier` are the items the same invocation has
already issued; `Commit` is its writes together with those of `revoke_internal`;
every entry point is a guard and one `Commit`. The code keeps the quota as a
list of ledger numbers with duplicates; the model numbers the entries of one
ledger so that a set can hold them. `RegistryChange` lets the registry's answers
change between any two calls, except what registration fixes and the finality
of deprecation; that the registry keeps to it is `ViewsKeepFaith` of
`SchemaRegistry`. `rate_since` is a history variable.

**SASDelegation.** A message is the arguments of a call, a nonce and a key. A
relayer submits any message at any time, in any order, any number of times, so
replay, reordering and duplication are what the next-state relation allows. A
missing watermark is `NoNonce`, different from 0. Batches consume nonces in the
submitted order (`Fresh`, `Watermark`).

**SASStorage.** Three entries per UID: the record (compact, or the full record
of an earlier version), `valid_from` beside it, and the anchors. `truth[u]` is a
history variable, the attestation last written through the entry points; every
reader is compared with it. Sequence numbers and close times advance at
different speeds here (`Gaps`), because anchors record both. A hash is a term,
a Merkle tree the levels `LevelOf` of its leaves, and a proof is followed by
`Climb`; a prover may use any hash of a tree and combinations of leaves, and may
call the content of an inner node a leaf.

**SASTreasury.** Token balances, the two books, prices and roles. A registry
that answers creator and royalty may change between two payments. Amounts are
small naturals; the saturating `i128` arithmetic never saturates at them.

**SchemaRegistry.** A schema's content is its identity. Operations are arranged
in groups that read each other's state (`Groups`), and a behaviour uses the
groups of one member, which bounds the state without dropping an operation.

**Indexer.** `stored` is what SAS stores, `rec`, `chunk`, `total` and `status` what
the indexer holds. Every push is a `try_invoke` and may fail; the strict mode
then refuses the invocation. The readers are operators over the chunks,
computing chunk and offset as the code does. The indexer is bound from the start,
and the pause that refuses `reindex_attestation` like any write is left out: it
delays a repair and does nothing else here.

**Resolvers, CrossChainVerifier, ZkVerifier.** A behaviour of `Resolvers` is
about one schema and the resolver it names. Timestamps end at `MAX_U64`, where
the code's addition saturates. The cross-chain source numbers its verdicts per
UID; the network reorders, loses and, on LayerZero, repeats them. In the ZK
verifier every entry has the ledger it lives until. A call that touches an entry
with less than `THRESHOLD` ledgers left renews it; an entry that was not touched
in time is archived, a call that needs it fails, and anybody may restore it, with
a TTL of `MIN_TTL`, after which the calls go on. What SAS answers for an
attestation is nondeterministic between two calls.

### The client side

**SequenceManager.** Every method takes the mutex, so it is one step;
`sync_on_chain` reads the network *before* it locks, so it is two. A write is a
step each for reserving, building and sending, settling, and reporting. The
network takes a transaction whose number is the account's plus one, may queue
later ones (`Strict = FALSE`) or refuse them, may lose a transaction, and may
include one after its sender has given up. What goes wrong counts as a
*disturbance*, bounded by `MaxDisturbed`.

**SASClient.** `Methods` lists every method of the client with the local checks
it makes and the path it takes to the network; one call is a program counter
along that path. A method is its check and its path; the encoding of its
arguments is left out. `sendTransaction` answers PENDING, DUPLICATE,
TRY_AGAIN_LATER or ERROR; the FAILED that `transaction.rs` also looks for is an
answer of `getTransaction`, so no node sends it here. `RpcClient` is one level below: request ids, crossed and late
answers, rate limits, nodes that lag, and the ledger clock built of two requests.

In `FeeBumpSubmitter`, `SchemaCache`, `EventStream`, `RpcFailover` and `ReactHooks`
what lies between two awaits, two locks or two callbacks is one step.

**FeeBumpSubmitter.** The multiplier is a percentage and the product rounded up,
where the code multiplies an `f64` and takes `ceil`. A sending whose answer is lost
may be kept by the node although the next sending of it is rejected.

**SchemaCache.** Threads share the cache through `get_schema_with_cache`: a
look-up that misses, a fetch with no lock held, an insert. An invalidation or
another thread's insert may come between any two of them. `ceased` remembers when
the registry stopped giving an answer and `took` how long a fetch was under way,
so that the property can say how old an answer may be. Capacity 0 stores nothing.
`start_refresh`, `finish_refresh` and `cancel_refresh` have no caller
(`#[allow(dead_code)]`) and are left out.

**EventStream** can crash and restart from its checkpoint; the watcher has none.

**RpcFailover.** One behaviour runs one of the two classes. `ResilientTransport`
ranks the endpoints of the requested kind anew for every attempt, after the fault
of the last one has lowered its score. `begun` remembers which endpoints were
usable when a request of `FailoverRpcClient` began, and `answers` what each
endpoint answered in the order of arrival, which is the order the code counts in.

**ReactHooks.** One component with a mutation hook and a query. `Render` gives the
provider another configuration or client; a caller may run the `execute` of any
render so far, with that render's client and prefix, also after the unmount. SWR is
external and modelled by what the bindings rely on: one read per key under way,
another on focus and on a change of the key, and a `mutate` that drops the read
under way and starts one if a component is mounted on the key. The keys of several
resources under one prefix are one key.

**SASCli.** A command is the sequence of steps its function takes (`Commands`),
run in shells that share a configuration file and a cache directory; a shell may
be killed at any step, also while the configuration is being written. A query
reads a page and the count, or the whole history without `--cursor` and `--limit`.
The ledger's time is read exactly; that a node's clock may lag is in `RpcClient`.

**BulkIssue, EasMigration, Deployment.** `BulkIssue` follows the rows of a file from
the early failures (key, file, network) through the submissions to the report.
What becomes of a submission (`Fates`) is kept apart from what the SDK hands the
command (`Receipt`), and what the run has noted (`result`) from what the operator is
shown (`shown`): after a failure `bulk` lists the rows in Json only, and an `import`
that cannot write its error file lists nothing. `EasMigration` follows a directory
and `Deployment` a manifest through crashes and resumption. `audit.csv`, which
`migrate eas` writes and never reads, is left out.

## 3. Runs

| Run | Instance | Checks |
|---|---|---|
| `MCCore` | two claims of one attester, four ledgers, expirations {0, 2, 4}, `valid_from` {0, 2}, pause and prune switches, five registry views | `AnchorsMatch`, `EverValid`, `SchemaRulesHold`, `VerdictHistory`, `RevokedFrozen`, `DeprecationFreezes` |
| `MCCoreQuota` | three claims, window 2, limits 1 and 2, three ledgers, batches of two, broadcasts, limit changes, exemptions and a per-byte fee | `RateBound` |
| `MCDelegation` | two claims, nonces 0..2, batches of two, one nullifier, pausing | `SpentOnce`, `RefsAcyclic`, `InvalidatedNeverSpent`, `ImplementsCore` |
| `MCKeys` | one claim, two registrable keys, two versions, a FROST group, three policies, a per-byte fee, two ledgers | `RetiredKeysRefused` |
| `MCSequence` | three callers, three numbers, two disturbances, queueing network; three events, pages of two, a channel of one, one crash, one failed request | `DistinctReservations`, `NumbersAccounted`, `NoEventMissed`, `Recovers`, `EventsArrive` |
| `MCIndexer` | three claims in both directions, chunks of one and two, three tiers, two ledgers | `GapsAnnounced`, `ReadersExact`, `ImplementsLedger`, `GapsRepaired` |
| `MCContracts` | treasury: three roles, two tokens, two claims, five units, three changes of prices and roles; registry: three addresses, three schemas, lineage depth 1, scan budget 1; resolvers: two users, cooldowns up to the largest timestamp; cross-chain: two sources, two messages; ZK: two nullifiers, six ledgers, entries renewed to three below two, restored for one; storage: one UID, four ledgers, trees of one and three leaves; deployment: two networks, two admins, four contracts, three runs of the script | `BooksBacked`, `RolesAgree`, `RegistryReadsComplete`, `ViewsKeepFaith`, `ResolverRulesHold`, `RemoteVerdictCurrent`, `NullifiersKept`, `ReadersAgree`, `DeploymentConsistent` |
| `MCSdk` | client: two concurrent calls, three kinds of client; submitter: two transactions, fees raised by one half; cache: two threads, two schemas, capacity 1; RPC: two clones; failover: two endpoints of equal weight and either kind, three requests; hooks: two executions, two configurations, two clients; bulk: up to four rows where three are allowed, chunks of one and two; migration: three records, three runs; commands: two shells, two networks, two profiles | `CallOutcomesHonest`, `BumpsTracked`, `CacheCoherent`, `CircuitsTruthful`, `AnswersOwn`, `RowsAccounted`, `BatchesExact`, `WritesOnTarget`, `ReadsTrue`, `HooksHonest` |

**Why the bounds are enough to be interesting.** Four ledgers with these inputs
put issuance, activation and expiration before, at and after each other, and
leave room to prune a UID and issue it again. Two claims are what a replacement,
or a batch whose items refer to each other, needs. A window of two ledgers out
of three has an inside and an outside. Nonces 0..2 cover the missing watermark,
the boundary 0 and one more step. Three callers are the first number at which
resynchronising while transactions are in flight reveals its effect on progress.
Chunks of one and two with three claims fill a chunk, cross its boundary and
change the tier in between. A scan budget of one and three schemas let a page
end on the budget. Limits of the code (`MAX_U64`, depths, batch sizes, TTLs) are
constants of the models so that small values put them within reach. Two rows per
chunk and three rows give a full and a partial chunk; three runs a crash, a
resumed run and a fresh start; two shells a switch of profiles between two reads.
In the ZK part a record that is not touched is archived within the run and can be
restored twice. Equal weights, the default, are the ones under which a read can
ask the endpoint that just failed again. Of the hooks' two executions at most one
is included (`MaxHeight`); the theorem covers any number.

`MCCore` uses the symmetry of the two payloads and `MCSdk` that of two calls, threads,
requests or executions; neither checks liveness. `MCSequence`, `MCContracts` and `MCSdk` switch the
deadlock check off because the things they count (numbers, events, payments,
runs) end at their bounds, and so does `MCSequenceWedge`. No other run does.

Four more runs state what a text of the repository says and show that the code
does otherwise:

| Run | The text | What the code does |
|---|---|---|
| `MCReplaceGap` | replacing never leaves "a window where neither attestation is valid" (`contracts/sas/src/lib.rs:2231`) | the replacement may carry a `valid_from` in the future while the old attestation is revoked at once |
| `MCUnpaid` | with a positive per-byte rate "unpaid issuance entrypoints reject non-exempt attestations" (`docs/sas-core-526-527-530-531.md:9`) | `broadcast_attest` does not ask |
| `MCFrost` | a FROST group "must endorse every delegated attestation or revocation" (`specs/protocol-v1.md:206`) | `attest_by_scoped_delegation` takes the attester's own key |
| `MCSequenceWedge` | a failed transaction's number is recycled "to heal sequence gaps without triggering cascading `txBadSeq` errors" (`packages/soroban-sas-sdk/src/sequence.rs:15`) | two recycled numbers, the lower one used up on chain: every later write reserves it, is refused and puts it back, for ever |

### Observations without a run of their own

Met while modelling; the models follow the code in each case.

*SAS.*
* `pause` "blocks all write operations" (`lib.rs:796`); `prune_expired` has no
  pause check. "never shorten" (`lib.rs:2327`): a perpetual attestation can be
  replaced by one that expires.
* `timestamp.rs:3` has `revocation_time` set by the ledger that revoked; `attest`
  stores the caller's value. The anchors are not renewed with the record,
  although `timestamp.rs` says they expire together.
* `specs/protocol-v1.md:190` starts watermarks at 0; the first message may have
  nonce 0. `invalidate_nonces` invalidates what lies *below* its argument.
* `docs/delegation.md:146` wants a consented replacement with zero revocation
  time; the code does not check it, nor the fee, the policy or the group.
* A revoked attester key that is also the key of the account itself keeps
  validating (`lib.rs:3036`). The signed attestation struct does not cover
  `valid_from`.
* A reference cycle can be built by pruning a UID and issuing it again, after
  which `RefsAcyclic` does not apply; the property and its run leave pruning out.
* `verify_offchain_attestation` (`lib.rs:3352`) reads the stored record as a full
  `Attestation`, so it traps for every compact record. `CompactAttestationKey` is
  read and never written.
* `compute_storage_ttl` caps the TTL at five years although its comment says it
  covers the validity window.
* `docs/fee-collection-and-treasury.md` §3.2 says fees are held in a custodial
  balance; with a treasury set they are forwarded at once, while the book still
  reports them. That is why `BooksBacked` is conditional on no treasury.

*Registry.* A pending owner survives a transfer by another route
(`lib.rs:1335`), and `propose_schema_owner` / `claim_schema_ownership` bypass the
threshold of an owner set. The flag `deprecate_schema` writes is read by nobody.

*Indexer.* An address that is both recipient and attester shares chunks between
the two roles; a changed tier makes forward readers compute other chunk numbers
than the writer used; the reverse walk always assumes `MAX_CHUNK_SIZE`. The
conditions of `ReadersExact` (`SingleRole`, `Fixed`) say where the readers are
exact. A UID pruned and issued again with another expiration conflicts with its
old entry; a revocation lost while the indexer was down is not repaired by
reindexing; a renewal is not pushed at all.

*Other contracts.* `set_lz_config` before `init` makes its caller the admin. The
multisig resolver counts a duplicate key twice when it validates a policy. A
nullifier that is not touched again can be archived before an instance that is
in use, although `zk-verifier/src/lib.rs:115` says it never expires before it.
That "the contract [would] forget" is not what follows: the records are
persistent, so an archived one makes the call fail until it is restored.

*SDK.*
* Fee-policy writes bypass the sequence manager and use the default submission
  policy although `client.rs:207` says every write uses the client's. The
  asynchronous mode commits a reservation on TRY_AGAIN_LATER.
* The restore fee is narrowed with `as u32` where `apply_fee_policy` reports an
  error.
* The `Retry-After` delay is uncapped although `rpc.rs` says a slow node cannot
  block the caller indefinitely; `get_latest_ledger_clock` may pair one node's
  sequence with another node's close time.
* "When an entry expires, `SASClient::fetch_schema` returns the stale value
  immediately and starts one background refresh", and "Invalidation also prevents
  any older in-flight background refresh from repopulating that UID"
  (`docs/schema-lookup-integration.md:12`, `:40`). An expired look-up fetches in the
  foreground, no refresh is ever started, and an answer fetched before an
  invalidation is stored after it (`client.rs:474`). `CacheCoherent` bounds how long
  that lasts.
* A reservation that `?` drops on an error path stays counted as in flight;
  `NumbersAccounted` counts it there, so no property tells it from one at work.
* One malformed event fails the page it is on; the checkpoint does not record
  the filter. A bump refused because the original was included meanwhile is
  reported as an error.

*CLI.*
* `attest import`: "Retry each member individually only after an explicit FAILED
  result" (`main.rs:2615`), but `poll_until_settled` turns FAILED into an error,
  so that branch is never taken. `docs/attestation-import.md:16` promises the same
  row-by-row retry.
* `attest import` returns from a failed write of the error file before it has
  printed a result (`main.rs:2716`), so rows that were issued are not listed.
* `attest bulk`: "Still print the per-row detail so the operator can see which rows
  landed" (`main.rs:2498`), but only in Json; Human output has the number of
  failures and the first error. `RowsAccounted` exempts these two (`Unlisted`).
* The configuration is written in place, so a kill leaves a file every later
  command refuses; `cached_at` is taken after the fetch; online verification
  does not look at `valid_from`.
* `migrate eas`: a fresh start leaves the old checkpoint in place until its first
  batch is full; another batch size leaves stale files; a node's answer that is
  not a list counts as an empty, complete one. EVM logs have at most four topics,
  so the schema UID expected in `topics[4]` is never found.

*JavaScript.*
* "Reads fail over to the next-best endpoint" (`packages/soroban-sas-js/README.md:175`,
  `resilient.ts:151`). The ranking is computed anew after the fault and then indexed
  by the attempt number, so with two endpoints of equal weight the second attempt
  picks the one that failed (`resilient.ts:187`); with two attempts the read gives up
  without having asked the other. `CircuitsTruthful` claims that every usable
  endpoint was asked of `FailoverRpcClient` only.
* "A successful mutation revalidates the attestation and recipient caches"
  (`packages/soroban-sas-react/README.md:58`): not if another execution or a reset
  came after it, and not for the prefix of a client or configuration that replaced
  the one it was started with.
* "`status` transitions `idle -> pending -> success` or `idle -> pending -> error`"
  (the same file, line 71): when the client is replaced while a transaction is
  pending, its settlement is discarded and the status stays `pending`
  (`mutations.ts:31`). `HooksHonest` exempts this (`switched`).

*Deployment.* A crash between an init transaction and `save_manifest` makes every
`--resume` call init again, which is refused for ever; `MANIFEST_SAS_BOUND` is
saved before the binding is verified; the manifest is removed before `.env` is
written; `ADMIN_PUBLIC_ADDRESS` goes to a scratch file that was already renamed.

## 4. Fairness

Nobody is obliged to call a contract, so the contracts are checked for safety,
with one exception: `GapsRepaired` assumes that whoever watches `IndexFailed`
events keeps calling `reindex_attestation` (weak fairness of
`ReindexAttestation(u)`), which is what the event is for. A call that meets an
indexer that is down is a call that changes nothing; the assumption is that the
operator outlasts the outage.

`Recovers` is checked under `Fairness` of `SequenceManager`: each caller's thread
keeps running (weak fairness of its undisturbed steps: in `submit_write` nothing
but the network can block a caller, polling is bounded and the lock is held for
short), and the network includes a transaction it could include. `EventsArrive`
is checked under `StreamFairness`: worker and consumer keep running and requests
are answered in the end. Disturbances, crashes and errors are never fair.

`Recovers` leaves out two kinds of disturbance because the code does not recover
from them: a reservation dropped by the `?` after `build_signed_write`, which
stays in flight (the type's doc says so: "treated as consumed"), and a `resync`
while transactions are in flight.

## 5. Proofs

Every theorem holds for all values of the constants that satisfy the
assumptions named in the modules, which TLC evaluates on each run.

The assumptions say of the constants what the code's types say of its values:
sets of parties and networks are finite, markers for "nothing there" (`None`,
`Absent`, `Unset`, ...) are not values, ledger timestamps stay below the largest
64-bit value (`ResolverAssumption`), the model has chunk numbers for all UIDs
(`IndexerAssumption`; in the code a chunk number is a `u32` that nothing bounds
but the counter), a shell runs the commands of `Commands` with endpoints of networks
(`MenuAssumption`), sizes of pages, chunks and batches are at least one (a cache may
have capacity 0),
and a tree that an attester commits to has at least one leaf and no more than
proofs of the largest depth reach (`BundleAssumption`; the code says "a proof of 32
siblings covers a tree of 2^32 leaves").

**`SASCoreProofs`.** The inductive invariant is
`CoreInv == TypeOK /\ HistFinite /\ AnchorsMatch /\ EverValid /\ SchemaRulesHold`.
`AnchorsMatch` needs the type invariant's bound of anchors by `now` (a revocation
anchor must not precede the issuance). `SchemaRulesHold` needs the registry to
keep policy and TTL. `HistFinite` is needed because the quota numbers new
entries by cardinality. `CommitPreserves` does the work once for
all issuing and revoking entry points. The action properties
(`RevokedFrozen`, `PauseStopsIssuance`, `DeprecationFreezes`, `VerdictHistory`)
follow from `CoreInv` and `StepEffect`, which lists the five things a step can
do to one record: keep, issue, revoke, renew or prune it. `VerdictHistory` also
needs the guards of renewal, which neither touches a dead record nor moves an
expiration into the past.

`RefsAcyclicCorrect` holds of behaviours in which `auto_prune` stays off.
`RefInv` adds that every reference is to a stored record; so an old record never
points to a new one, and of a set of records that all point into the set either
the old ones alone do, or the first of the new ones, in the order of the batch,
has nothing to point to. `RateBoundCorrect` rests on `RateInv`: there is an
injection of the records that count into the entries of the quota history, each
in its own ledger, and the entries inside the window are at most the limit. The
history is pruned and numbered again by each call, so the injection is rebuilt
with it.

**`SASDelegationProofs`.** `DelegationImplementsCore`: a delegated call maps to
the direct call with the same effect, provided `"fee" \notin AdminOps`; under a
fee the consented replacement issues unpaid and has no direct counterpart.
`DelegatedQuota` and `DelegatedRefsAcyclic` are what the refinement gives of the
two theorems above. `SpentOnceCorrect` and `InvalidatedCorrect` rest on
`DelegationInv`: every nonce accepted or invalidated is at or below the
watermark. For a batch the watermark is the last item's nonce, so the proof goes
through the last position of each attester in the batch (`LastPosition`,
`ConsumeFacts`). `RetiredKeysCorrect` assumes that registered keys are neither
account keys nor group keys, and shows that the active key is never among the
retired ones. `KeyVersionsCorrect` needs no assumption.

**`CollectionTheorems`.** The provers cannot instantiate an induction principle
with an operator, so induction is stated for *sets*: a set of naturals that has 0
and the successor of each member is `Nat` (`NatSetInduction`), a family of subsets
closed under adding an element has the whole set. From this come the facts that
the other proofs share; they are about sums and lists, not about the code.
`SumChange`: changing one argument changes a sum by as
much, in whatever order the fold goes. `InOrderLists` and `KeptLists`: the member
of rank i of a finite set of naturals exists and is unique, so filtering a list
keeps its order and every kept position once; the models filter lists with
`Kept` because of this characterisation. `NatRecursion`: a function defined by
recursion exists, by gluing finite pieces that agree, so what the recursive
functions of the models return can be shown by induction over the set of numbers
for which it holds. This is how the page walks, the reverse walks, the chains of
schemas and the Merkle trees are proved about although they are recursive.

**`ContractProofs`.** *Fees.* `BooksAlwaysBacked` follows because every payment is
a composition of single transfers that leave the total alone.

*Registry.* `RegistryInv` relates the delegate list (positions, no
duplicates), the delegate entries, the attester entries and the count of each
schema, and says that a proposed transfer belongs to the current owner set:
`RegistryRolesAgree`. `RegistryKeepsFaith` is what `SASCore` assumes of the
registry between two calls. `RegistryReadersComplete` has two halves. A page walk
returns the live entries up to its cursor and moves on, even when the scan budget
ends a page without a result, so after as many pages as entries it has them all
(`PagesAll`). `IndexInv` says that the index has every registered schema once and
that parents and predecessors come before their children with their chain within
the depth limit (`Rooted`); chains of older schemas do not change when one is
registered, so each ends at a root.

*Verifiers and resolvers.* `RemoteVerdictsCurrent`: the stored timestamp is the
newest of all messages that arrived, over both transports. `NullifiersStayKept`:
a nullifier has an entry, live or archived, exactly when it was accepted, since
neither archival nor restoring makes an entry absent, and an entry lives at least
`THRESHOLD` ledgers from the last call that touched it.
`ResolverRules` sums the fees with `SumChange` and keeps for every recipient
the order of its issuances.

*Storage.* `StorageInv`: the entries of a UID are those of the attestation that
is meant (a compact record with its `valid_from` beside it exactly when that is
not zero, a full record with nothing beside it), and the anchors are the stamped
ledgers, in their order. `StorageReadersAgree` follows for every reader; the
batch reader is a fold, shown to be the conjunction of the verdicts. Its last
two parts, about selective disclosure, are theorems of their own.
`DisclosuresAlwaysSound`: by induction on the length of the proof, a climb that
ends in a hash of some level of the tree started from one of its leaves. It needs
that hashes are injective and the two tags apart; without the tags an inner node
would pass as a leaf. `DisclosuresAlwaysComplete`: each level has
half the hashes of the one before, rounded up, so `MAX_PROOF` levels up a tree of
at most 2^`MAX_PROOF` leaves is one hash, the root; and whatever position of a
level a leaf has reached with k siblings, it reaches the next level with at most
one more, with none where the odd one out is promoted.

**`IndexerProofs`.** A step pushes at most one UID and marks at most one
(`StepShape`); a push finds room because the counters are exact; so `Found` grows
by exactly the keys of that UID. From this follow `GapsAlwaysAnnounced`,
`CountsAlwaysExact` and, step by step, the refinement `IndexImplementsLedger`.
`ReadersAlwaysExact` needs to know where an entry stands: `ReadInv` says that, as
long as nothing is listed under a key in another dimension and every push used
one capacity c, entry p of the key's history is at offset p % c of chunk p ÷ c
(`Laid`), and that histories are as long as the counters say. Each reader is then
a walk over positions: a page is a cut of the history, a filtered scan what the
filter keeps of it, and the reverse walk, which goes through chunks from the last
one back, the history backwards, cut at its limit.

**`SequenceManagerProofs`.** `SequenceInv` says how everything lies relative to
the account: what is committed or fetched is not ahead of it, a forgotten
account holds nothing, and, without resync, a number that the network may still
include is in flight, not recycled, and not beyond `last_reserved`. The last part
is what makes `DistinctReservations` inductive: `record_failure` may forget
the account only when nobody holds such a number. `StreamInv` says that the rest
of a page goes on from the cursor and that the channel is in order, behind the
event that is handled: so when that one is acknowledged and the checkpoint moves
to it, nothing before it is left. `StreamDeliversAtLeastOnce` is the stream's half
of `EventsNeverMissed`. The watcher's half rests on `WatchInv`: the log is in the
order of its ledgers, the cursor within a ledger is past everything of the ledgers
before, so what it has asked for is a prefix of the log, and what it has printed
is what its filter keeps of that prefix.

**`SdkProofs`.** `ClientInv`: a call has nothing on the network until it has
sent, and then only under the number it was last signed with; what it is told is
in the ledger, or nothing of it is.
`RpcInv`: ids of requests that wait are distinct and an answer on the wire bears
the tag of the request with its id. `BumpInv`: whatever was accepted is followed
until its number is used; the envelopes up to the fee on record were answered
and counted, and above it is at most the one bump whose answer was lost.
`CacheInv`: the recency list has each cached schema once; the registry's answers go
one way, so one that has ceased does not come back (`OneWay`); and the expiry of an
entry lies no further than its fetch and `ttl` beyond the moment the registry ceased
to give that answer, or beyond now if it still gives it (`Recent`). The second half
is what carries the bound over the step in which the registry changes.
`FailoverInv`: the counter of an endpoint is the length of the run of failures its
answers end with; what a request of `FailoverRpcClient` has tried, is asking and has
left to ask are, each exactly once, the endpoints that were usable when it began
(`InTurn`); a read that has not ended has an attempt left, and reads and writes ask
endpoints of their kind (`OfKind`).
`HooksInv`: request ids grow, and only the newest execution can have the current one
(`IdsOrdered`), so a settlement that passes `IsCurrent` is about what the hook shows;
and no read under way for the key of a success on display was served before its
transaction landed (`ReadsFresh`), because the settlement dropped those.

**`CliProofs`.**
`DeployInv`: a manifest names a prefix of the stages and what it names is done,
the script is in step with its manifest, no contract is initialised twice, so a
stage that is done stays done, and the SAS contract of `.env` is none that a
script or a manifest still works on, so it is not bound to another indexer. `CliInv` has, per shell:
what is left to do is the end of a program in which the endpoint comes before
the first use of the network, a fetch right before the use of its result, and no
look-up next to a write of the configuration (`CommandsOrdered`, shown of all
commands); settings are those of the flags or of a configuration that has not
moved since; pages continue each other and are not ahead of the index; what was
fetched was current then. That networks only append and time only passes
(`Grown`) keeps all of it true of shells that stand still.
`BulkInv`: what is left to submit is in the order of the file and none of it has
been sent or noted (`WorkPending`); without that a second transaction for a row
could not be excluded. `bulk` has notes only before what is left (`BulkInTurn`), every
row of an `import` has a note or is left (`ImportWhole`), a note is what became of the
row or its transaction stayed open (`NotesTrue`), and the operator is shown the notes
or nothing (`ReportTrue`). The branch that tries rows one by one is not reached,
which the type invariant says (`alone = <<>>`). `MigrationInv`: the files a checkpoint of the latest start
counts hold the attestations up to its position exactly once, and a run that
continues it has the attestations that follow in its batch.

The type invariants (`TypeOK`, `SequenceTypeOK`), `PauseStopsIssuance`,
`KeyVersionsGrow` and `CountsExact` are proved and need no run.

**Only model-checked.** Liveness (`Recovers`, `EventsArrive`, `GapsRepaired`) is
out of the prover's reach: it needs fairness and `ENABLED`. Every other property
that a passing run checks has a theorem. The four runs that expect a violation
have none, of course.

## 6. Not modelled

* Storage rent: TTL extension and archival, except in `ZkVerifier`, where it
  decides whether a nullifier can be forgotten.
* Hash, signature and pairing arithmetic, and the byte layouts of UIDs, EIP-712
  digests, FROST transcripts and XDR: hashes are injective and signatures
  unforgeable.
* The syntax of schemas and payloads (`validation.rs`, the wizard, the macros):
  checks on strings without state.
* The indexer's per-ledger query limit and its upgrade; installation of new
  contract code.
* Footprint and resource-fee arithmetic of `simulate.rs`.
* Type generation, schema explorer, Prometheus exporter, gas
  tools, documentation generator: display and metrics.
* Fuzz targets, the mock and fault-injecting transports: test support.

Next steps: the registry composed with `SASCore` in one run; the storage layout as
a refinement of `SASCore`, with the history variable `truth` as its store.
