# A verification project for blob-hub

blob-hub archives the blobs of Ethereum (EIP-4844) and of BNB Smart Chain. A
*syncer* walks the source chain slot by slot, packs the blobs of an interval
of slots into a *bundle*, hands the bundle to a *bundle service*, which makes
it an object on BNB Greenfield, and afterwards verifies what has arrived there.
A *server* answers API requests from the syncer's database and the bundle
service. This directory holds TLA+ modules that model both, TLC configurations
that check them on small instances, and proofs, checked by TLAPS, that hold for
every size.

    tlc -workers 2 -config MCSyncerEth.cfg MCBlobSyncer.tla
    tlc -workers 2 -config MCHubDetailed.cfg MCBlobHub.tla
    tlc -workers 2 -config MCServer.cfg MCBlobServer.tla
    tlc -workers 2 -config MCSyncerProcess.cfg MCSyncerProcess.tla
    tlc -workers 2 -config MCRestServer.cfg MCRestServer.tla
    tlapm BlobHub_proof.tla

`PROJECT.json` maps every definition to the lines it models, and lists the
runs, the mutants that show that each property can fail, the hazards, the
findings and the theorems.

## Inventory

| part | state | operations | what makes it correct |
|---|---|---|---|
| sync loop, `syncer/syncer.go` | `bundleDetail` in memory, locals of one call of `sync` | `LoadProgressAndResume` once, then `sync` on a ticker: next slot, finality, blobs, `process` (directory, bundle row, files, upload), save the slot, turn to the next bundle | every slot is recorded once, in a bundle whose name covers it; a bundle announced as Finalized is uploaded with all its blobs; one bundle is pending; progress |
| verify loop, `syncer/verifier.go` | nothing between two calls | earliest unverified slot; state of its bundle in the service and on Greenfield; bundle-level or slot-level check; mark; or `reUploadBundle` | Verified means: on Greenfield, sealed, with the right blobs; every slot is verified in the end |
| database, `db/` | tables block, blob, bundle | `BlobDao` | transactions; unique bundle names; unique slots |
| bundle client, `external/cmn/bundle_client.go` | directories under `TempDir` | `UploadAndFinalizeBundle`, `GetBundleInfo`, `GetObject` | an upload is refused when empty or already there |
| source chain clients, `external/client.go`, `external/eth/beacon_client.go` | none | `GetBlob`, `GetBeaconBlock`, `GetLatestBeaconBlock`, `GetFinalizedBlockNum` | 404 for a block that is not found; final blocks only |
| Greenfield client, `external/cmn/chain_client.go` | none | `GetObjectMeta`, `GetParams` | |
| syncer process, `cmd/blob-hub-syncer`, `NewBlobSyncer`, `config/` | goroutines, tables of the database | read and validate the configuration, migrate, start the loops, the quota monitor and the metrics | the loops only run on whole tables and an accepted configuration |
| API server, `service/`, `restapi/handlers/`, `client/`, `cache/` | an LRU cache of whole slots | `GetBlobSidecarsByBlockNumOrSlot`, `...ByRoot`, behind REST, JSON-RPC and gRPC | an answer is what the chain has at that slot, whatever the syncer does meanwhile |
| server process, `restapi/server.go`, `restapi/configure_blob_hub.go`, `cmd/blob-hub-server` | listeners, a global service, channels of interrupt and shutdown | `Listen`, `Serve`, `configureServer` per scheme, `handleInterrupt`, `handleShutdown`, `grpcServer` | no request without a service; an orderly shutdown that ends |
| integrity hash, `util/checksum.go`, `verifyBundleIntegrity` | cached storage parameters | `ComputeIntegrityHashSerial` | equal hashes if and only if equal objects |
| quota monitor, `syncer/monitor.go` | a gauge | `monitorQuota` | the number is the remaining quota |
| logging, gauges of progress, generated models and codecs | | | |

The two loops are goroutines of one process (`StartLoop`). They share the
database, the temp directory and the bundle service and hold no locks; each is
called by a ticker for ever, and a call that fails is repeated from the top
after two seconds. The server is another process that reads the same database
and the same service; its requests share the cache and nothing else.

What is hard about it:

* recording a slot and closing a bundle are a sequence of separate effects -
  directory, row of the bundle, files, upload, removal, status, row of the
  slot - and the process may die, or a call may fail, between any two; a
  restart reconstructs where it was from the database alone;
* a request may be carried out although its reply is lost (bundle service and
  database alike);
* the verify loop takes a bundle as soon as it is marked, while the sync loop
  may not have recorded its last slot; re-uploading moves rows to another
  bundle one by one;
* on Ethereum the syncer tells "not yet" from "missed" from two replies taken
  at different times, before the slot is final;
* the beacon client does not look at the status of the reply to `GetBlob`;
* the server reads a row, then fetches the objects of the bundle it names one
  by one, while that row may move to another bundle; what one request caches
  another one answers from;
* the checksums of a bundle are computed by one goroutine per shard and must be
  those of Greenfield, for parameters fetched once in the life of the process;
* the server process is started and stopped by half a dozen goroutines, with
  interrupts at any time and requests that need not end.

`PROJECT.json` lists these and the others as hazards, at their lines.

## Modules

| module | models | state |
|---|---|---|
| `BlobDao` | `db/`, `types/key.go` | `blockTbl`, `blobTbl`, `bundleTbl` |
| `SourceChain` | the nodes as `external/` queries them | `canon`, `head`, `finalized`, clock; history `misread` |
| `BundleClient` | `external/cmn`, temp directory, bundle service and Greenfield | `tempDir`, `svc` |
| `BlobSyncer` | the sync loop: EXTENDS the three above | `spc`, `detail`, `cur`, `got`, `cfg` |
| `BlobVerifier` | the verify loop: EXTENDS the same three | `vpc`, `vslot`, `vbundle`, `vnew` |
| `BlobHub` | the process: both loops | |
| `BlobServer` | the API: front ends, lookups, cache | `cache`, `req` |
| `BlobHubServer` | both processes: `BlobHub` beside `BlobServer` | |
| `Config` | `config/`: what is read, validated and defaulted | (operators) |
| `IntegrityHash` | `util/checksum.go` and `verifyBundleIntegrity` against Greenfield's computation | `current`, `sealed`, `params`, `vfy` |
| `SyncerProcess` | main, goroutines, quota monitor: EXTENDS the two above | `main`, `cfg`, `tables`, `alive`, `asked`, `gauge` |
| `RestServer` | the server process, from flags to exit | `main`, `exit`, `listener`, `serving`, `calls`, `svc`, `grpc`, interrupt and shutdown |
| `BlobArchive` | the abstract specification of the sync loop | `recorded`, `withBlobs`, `held`, `published` |
| `BlobSyncerInv`, `BlobHubInv`, `SyncerProcessInv` | the inductive invariants: `IInv` of the sync loop, `HubInv` and `GreenfieldInv` of both loops, `ProcessInv` of the syncer process | |
| `MCBlobSyncer`, `MCBlobHub`, `MCBlobServer`, `MCSyncerProcess`, `MCRestServer` | instances | |
| `BlobSyncer_proof`, `BlobArchive_proof` | theorems about the sync loop, and its refinement | |
| `BlobHub_proof`, `HubGreenfield_proof` | about both loops; about what they leave on Greenfield | |
| `BlobServer_proof`, `BlobHubServer_proof` | about the server beside any archive; beside this syncer | |
| `SyncerProcess_proof`, `RestServer_proof` | about the two processes | |

`IntegrityHash` and `BlobVerifier` are two views of one call: `BlobVerifier` asks
whether the contents are the same (`VerifyIntegrity`), `IntegrityHash` says when
the code's comparison of checksums means that. `SyncerProcess` likewise has the
loops running or not, and `RestServer` has requests under way or not; what
loops and requests do is in the other modules.


**Data.** Blobs of one slot are one datum, so a slot has blobs or not; a
directory or a bundle is the set of slots whose blobs it holds. A bundle's
name is the record of its start, its end and its calibration time, which is
what formatting and parsing it amounts to. Hashes and proofs are compared as
the contents they stand for. A database row keeps the columns that control
flow reads. In the server the blobs of a slot are their indices, `0 .. Width - 1`,
and an answer is the sequence of indices it carries, with the set of those whose
content is not the chain's. A request is a front end, a form (a slot, a root, or
the first thing wrong with it) and its indices. In `IntegrityHash` an object is a
sequence of small numbers; a hash is what it is a hash of, since SHA-256 is
taken as injective, and a parity shard is its number with the padded segment,
which for a systematic code of given parameters determines it and is
determined by it together with the data.

**Steps.** An action is the code up to the next effect that a crash can leave
behind or that the other loop can see: one transaction, one change of the
directory, one request. `spc` and `vpc` name the place in between. The values
that `sync` reads and keeps over several steps are variables (`cur`, `got`,
`detail`), everything else is read afresh where the code reads it. A call that
only waits is a stuttering step, which is why the runs do not check for
deadlock: a loop that has caught up with a chain that ended has nothing to do.

| `sync` in the code | actions |
|---|---|
| `LoadProgressAndResume` | `SyncBootFresh`, `SyncBootResume`, `SyncBootSkip` and `SyncBootDeprecate` (two transactions) |
| next slot, finality, `GetBlob` | `SyncFetch`; on a 404 `SyncBlockNotFound`, then `SyncForkedBlock` or `SyncNotYet` |
| `createLocalBundleDir` | `SyncMakeDir`, `SyncCreateBundle` |
| `writeBlobToFile` behind `os.Stat` | `SyncWriteBlobs` |
| `GetBundleInfo` | `SyncBundleExists`, `SyncBundleNotExist` |
| `finalizeBundle` | `SyncUpload` or `SyncNothingToUpload`, `SyncRemoveDir`, `SyncMarkFinalized` |
| `SaveBlockAndBlob` and the next `bundleDetail` | `SyncSave` |
| an error returned | `SyncError`, `SyncUploadReplyLost`, `SyncSaveAckLost` |
| the process dies | `SyncCrash` (`HubCrash` for both loops) |

`verify` and `reUploadBundle` are split alike in `BlobVerifier`, whose comments
name the functions. The queries and updates of one call are steps of their own,
since the sync loop may record a slot between them: a bundle the service does not
have is found missing (`VerifyBundleNotExist`), then the blobs of its range are
counted (`VerifyNoBlobs`, `VerifyBlobsNotFound`), then the range is marked
(`VerifyEmptyBundle`); a re-upload that comes to a slot which is not recorded yet
ends with an error (`VerifyNotRecorded`).

| the server in the code | actions |
|---|---|
| binding, validation and decoding of a request | `Receive` (refusals: `RestRefusal`, `RpcRefusal`, `GrpcRefusal`) |
| `GetBlobSidecarsByRoot` | `ByRoot` |
| `cacheService.Get` | `CacheHit`, `CacheMiss` |
| `GetBlock`; `GetBlobByBlockID`, `...AndIndices` | `ReadBlock`, `ReadMetas` |
| `GetObject`, once per row | `FetchObject`, `FetchMissing`, `FetchDamaged` |
| `cacheService.Set` and the result | `Answer`; `ReadFails` for any error |
| writing the reply | `Reply`; a gRPC handler that panics ends the process (`Restart`) |
| `Server.Serve` | `Notify`, `ServeScheme` (configure, then spawn), `StartShutdownHandler`, `Return` |
| `handleInterrupt` | `InterruptStep`: `HandleInterrupt`, `CloseChannel` |
| `Shutdown` | the compare-and-swap (`Shutdown`) in the step of its caller, then `CloseChannel`, which panics if the channel is closed |
| a panic of `configureServer`, the end of main | `Panic`, `Return`: the deferred `Shutdown`; `End` |
| `handleShutdown` | `BeginShutdown`, `Collect`, `Expire`, `EndShutdown` |
| `net/http`'s `Serve` and `Shutdown` | `StartServing`, `CloseListener`, `Drained`, `StopServing` |
| `grpcServer` | `GrpcListen`, `GrpcCall`, `Gateway`, `GrpcFails` |
| `main` of the syncer | `Parse`, `Validate`, `OpenDB`, `Migrate` (a table at a time), `NewBlobSyncer` |
| `verifyBundleIntegrity` | `StartVerify`, `GetParams`, `ReadSegment`, `Combine`, `HashShard`, `WaitShards`, `GetChecksums`, `Compare` |

**The environment.** Nodes, bundle service and Greenfield are not in the
repository. They do what the code's queries can tell apart: the head moves,
finality follows, a branch that shares the final part may become canonical, a
beacon node may hide blobs once (`MaxGlitches`); the operator edits start and
interval while the syncer is down; the service creates the object
of a bundle, a provider seals it, the service learns of it, may damage a bundle
before it is sealed and may lose it before it is on chain.

**An assumption about the operator.** `config.go:27` says of the start that it is
"only need to provide once", and nothing keeps it from being edited. The model
lets a restart raise it at any point, and lower it once a slot from it on is
recorded, when the next slot is the one after the last recorded. It is assumed not
to be lowered before that (`StartLoweredEarly = FALSE` in every run and, as
`~StartLoweredEarly`, in the theorems that need it): `LoadProgressAndResume` takes
up the pending bundle whenever the next slot is not beyond its end
(`syncer.go:382`) and does not look at its start, and then slots are recorded in
a bundle whose name begins later (see the counterexamples below).

**History.** `misread` collects the slots for which an answer the code has used
is not what the canonical chain holds. Properties about contents speak of the
other slots where the code has no means to know better.

## Properties and runs

Safety of the sync loop: `BlockInOwnBundle`, `FinalizedHoldsBlobs`,
`OneOpenBundle`, `CompleteBundleIsOut`, `BundlesMeetAtOneSlot`,
`SkippedWithItsBundle`, `RecordedAsOnChain`; it implements `BlobArchive`
(`ImplementsArchive`: slots recorded once and in order, published only when
held, nothing taken back); liveness `EveryBlockRecorded`. Of the process:
`VerifiedIsInGreenfield`, `VerifiedBundleIsWhole`, the action property
`ReverifiedOnlyAfterReUpload`, liveness `EveryBlockVerified`; and the invariants
these rest on, `HubInv` and `GreenfieldInv`, which TLC checked before they were
proved, as it did `IInv` and `ProcessInv`.

Of the server beside the syncer: `FullAnswerIsWhole` and
`IndexedAnswerIsAsAsked` relate an answer to the chain, `VerifiedAnswerIsRight`
to the status the slot had when it was read; an indexed answer is the list of
indices as asked when it comes from the cache, and those of them the slot has,
each once and in ascending order, when it comes from the database;
`CacheInOrder`; and
`ArchiveAsOnChain`, the promise of the syncer on which the answers rest. Of the
server process: `ServedOnlyConfigured`, `ShutdownHookAfterDrain`,
`ReturnsInOrder`, `ClosedOnce`, liveness `InterruptStops`. Of the syncer process:
`LoopsAsConfigured`, `GaugeIsRemaining`, `HashIsReference`, `MatchMeansSame`,
`SameMatches`, liveness `VerifyReturns`.

| run | instance | distinct states | shows |
|---|---|---|---|
| `MCSyncerEth` | 4 slots, five chains with empty and missed slots at each place of a bundle, intervals 2 and 3, start 1 or 3, 2 crashes with both edited | 83,374 | all safety properties of the sync loop and the refinement |
| `MCSyncerFork` | chains that fork at slots 2 and 3, moving head, one reorganisation, one hidden reply, directory lost in a crash, intervals 1 and 2 | 1,120,657 | contents under misleading nodes; `IInv` in every reachable state |
| `MCSyncerBsc` | BSC, reorganisation above finality, 2 crashes, start and interval edited, commits reported as failed | 145,170 | what is recorded is what is final; one open bundle, no larger overlap even without trust in the database's errors |
| `MCHubDetailed` | both loops, slot-level check, clock of 2, one damage | 1,330,650 | Verified means sealed on Greenfield with its blobs; re-uploads in parts; `GreenfieldInv` in every reachable state |
| `MCHubEth` | both loops, Ethereum, bundle-level check, two bundles of 3 slots, one hidden reply | 521,811 | the same, and no incomplete bundle passes |
| `MCHubCrash` | both loops, one crash, start edited, one damage, one loss | 1,543,632 | `HubInv` in every reachable state, no verified slot taken back |
| `MCHubLive` | both loops, fair, two bundles with blobs, one crash | 84,350 | every slot is recorded, every recorded slot verified |
| `MCServer` | the server with restarts and a cache of two slots, beside both loops on BSC: one bundle of two slots, one of them with blobs, one damage and so a re-upload, and one request at a time of any front end and form; or one bundle of three slots, recorded and verified, and two requests at a time | 1,130,461 | answers are whole, as asked, and right for verified slots; the cache keeps its size and order however two requests fill it |
| `MCSyncerProcess` | five configuration files, two environments, three starts, quotas that wrap, objects of 1 to 3 bytes, parameters that cut them into 1 to 3 segments and 1 or 2 data shards, one vote after another | 251,568 | the syncer starts right, the quota is right, checksums agree with Greenfield exactly when the objects do; `ProcessInv` in every reachable state |
| `MCRestServer` | three listeners and gRPC, one request under way at each, two interrupts, panics of main | 676,368 | orderly start and shutdown, begun once, which always ends |

*Why these bounds.* Nothing in the loop looks further than one bundle back, and
overlap, resumption and skipping need two bundles and a third that starts
inside or after them: four slots and intervals of 2 (3, 1) give that, with a
first, an inner and a last slot of a bundle. A second crash is what can hit the
resumption of the first. One damage or loss starts one re-upload, failing
half way and starting again; with a clock of two instants a re-upload finds the
row or the object of an earlier one of the same name. The proofs remove the
bounds for the safety of the sync loop, of both loops, of the server and of the
two processes.

`MCServer` is two instances in one, told apart by the start (`InstanceNext` in
`MCBlobServer`), since two requests at every point of the syncer's work are more
states than TLC gets through. In the first (start 2) the two slots share a bundle,
so that a re-upload moves both, and a request can read a row before it and fetch
after it; one request is under way at a time. In the second (start 1) the syncer has
verified three slots and two clients ask for them: requests meet in the cache
only, three slots compete for its two places, so that one request can evict what
the other one is about to read, and either entry can be the older one. The
clients are symmetric: no property and no action tells them apart, and what a
request does depends on its own state and the cache. What is proved about the
answers and the cache holds for any number of clients, any width and any cache,
at any point of the syncer's work.

In `IntegrityHash` nothing depends on a size beyond whether a segment is the last
one and whether it divides by the data shards: both occur, and both fail to. The words are numbers modulo 8: a sum of grants that wraps, one that
does not, and a difference below zero. `MCRestServer` has all the schemes there
are; a second request at a listener would be counted, not told apart, and a
third interrupt finds what the second one found.

### Where the code departs from what it says

Two runs end in a counterexample, each to one property that a comment of the
code states. The finding in `PROJECT.json` quotes it.

| run | what happens |
|---|---|
| `MCSyncerReorg` | a missed slot that is not final is recorded as forked; a reorganisation puts blobs there |
| `MCHubPartial` | a re-upload that fails half way stalls verification for good |

Other counterexamples the same modules give when a bound of a run is changed or
a property is written that the code does not promise:

| change | property | what happens |
|---|---|---|
| `MCSyncerReorg` on `QuietChain` with `MaxReorgs = 0`, `FirstHead = 5`, under `FairSpec` | `EveryBlockRecorded` | closing a bundle without blobs is not idempotent (`syncer.go:257`): once its directory is removed, a failing status update or save makes every retry fail |
| `MCHubCrash` on `HubChains` with `MaxSlot = 4`, no damage, no loss | `VerifiedIsInGreenfield` | after a crash two bundles share a slot; verifying the first marks the row that is in the second (`verifier.go:255`) |
| `MCHubLive` with `MaxLosses = 1` | `EveryBlockVerified` | a bundle the service lost is not re-uploaded: `verify` returns an error each time (`verifier.go:84-86`), where the comment of `verify` (33-39) wants a re-upload |
| `MCHubDetailed` with `MaxLosses = 1` | `VerifiedIsInGreenfield` | a bundle lost before its last slot is recorded counts as one without blobs (`verifier.go:80-90`) |
| `MCHubLive` on ETH, chain `<<m, b>>`, `MaxDamages = 1` | `EveryBlockVerified` | `reUploadBundle` leaves the row of a missed first slot in the old bundle (`verifier.go:366-367`), which is verified and re-uploaded without end |
| `MCHubDetailed` on ETH, the same chain | `VerifiedIsInGreenfield` | for the same reason the new bundle is never checked to be sealed |
| `MCSyncerEth` with `StartLoweredEarly = TRUE` | `BlockInOwnBundle` | start 3, bundle (3, 4) made, restart with start 1: the bundle is resumed, and slot 1 is recorded in it (`syncer.go:375-382`), where `README.md:136` has the name say which slots a bundle holds; marking by the numbers of the name never verifies slot 1 |
| the same | `SkippedWithItsBundle` | start 1, slot 1 recorded in (1, 2), restart with start 3 that marks slot 1 Skipped and dies, restart with start 1: the bundle is resumed with a slot that stays Skipped |
| `MCSyncerEth` with `CommitAckMayBeLost = TRUE` | `BlockInOwnBundle` | the row of the last slot is committed but reported as failed: the loop never leaves that bundle until it is restarted |
| `MCSyncerBsc` on ETH with `MaxGlitches = 1` | `RecordedAsOnChain` | an error reply of the beacon node decodes as no blobs (`beacon_client.go:51-67`), and a slot recorded without blobs is verified without another look at the chain |

The server modules have more, which a deployment should know of:

* *Stale cache.* An entry made while a blob was damaged is served until it is
  evicted or the server restarted, although a re-upload has corrected the slot
  since (`service/blob.go:39`, `104`). `VerifiedAnswerIsRight` is therefore about
  the status read when the entry was made: an entry made before the slot was
  verified is outside it.
* *Surplus rows.* A node that hides the blobs of a slot from a re-upload leaves
  the slot's row without blobs, verified, and its blob rows in place
  (`verifier.go:386`): a request for it fails at the first object. Such a slot is
  in `misread`.
* *Two paths, two answers.* An index at or beyond the number of blobs is an error
  from the cache and left out from the database; a negative one panics from the
  cache, and over gRPC ends the process (`service/blob.go:45-48`).
* *Order.* From the cache the blobs come in the order of the request, repeated
  as often as asked; from the database in the order of their rows.
* *Slots that are not recorded* are answered 500; `swagger.yaml` documents 404. An
  unknown block root is answered with slot 0.
* *gRPC on BSC.* A sidecar of BSC has no signed header: the reply dereferences
  nil and ends the process (`client/blob_server.go:76`).
* *`eth_getBlobSidecars` with an empty list of parameters* panics in its handler
  (`handlers/blob.go:87`); net/http cuts the connection.

So do the processes:

* The gateway is served only if something answers gRPC on port 8080: the dial
  blocks, and the gRPC server listens on 9000 (`configure_blob_hub.go:120-141`).
* A gRPC call before the first `configureServer` finds no service and ends the
  process (`configure_blob_hub.go:70`, `115`). gRPC calls under way are cut when
  the process returns: `ReturnsInOrder` speaks of HTTP.
* After one server failed to shut down, `success && <-shutdownChan` receives no
  more (`server.go:442`): the process may return while another server has
  requests under way within its grace period.
* `Validate` accepts the chain in any case of letters (`config.go:43`), everything
  else compares exactly: `bsc` is not limited to 200 slots, `eth` not to 30, both
  get a beacon client, and with an empty `beacon_rpc_addrs` that is an index out
  of range (`external/client.go:57`).
* The default threshold of re-uploads cannot be reached: 0 is refused
  (`config.go:73`, `88`). The message "less than 100" goes with a limit of 200
  (`config.go:67-68`). `LogConfig.Validate` has no caller.
* Storage parameters are fetched once (`syncer.go:558`): after a change on
  Greenfield every bundle sealed since compares unequal and is uploaded again
  until the syncer is restarted. A reply without the parameters is kept too,
  and verification then fails until the restart. A reply of `GetObjectMeta`
  without checksums counts as a difference (`verifier.go:242`).
* The remaining quota wraps when more is consumed than granted
  (`monitor.go:22`); the gauge of synced slots is set before the bundle is
  uploaded (`syncer.go:225`, against the help text in `metric.go:16`).

The passing runs keep away from the counterexamples in the two tables by their
instances: no bundle that is re-uploaded in the hub runs starts at a missed
slot, the liveness run has a blob in every bundle, damages nothing and loses
nothing - so it has no re-upload, and `EveryBlockVerified` says nothing of the
lost or damaged bundle that the comment of `verify` promises to upload again. `MCHubCrash`, where
bundles may overlap and be lost, does not check `VerifiedIsInGreenfield`.

## Fairness

`FairSpec` (sync loop): the ticker calls `sync` for ever and an error leads to
another call, so a step that is possible again and again, each time interrupted
by an error before it, is taken in the end: strong fairness of each step, i.e.
no dependency fails for ever at the same place. Booting and the refusal of an
empty upload depend on nothing else and are weakly fair. The chain's head and its
finality advance. It is the specification of the counterexample to
`EveryBlockRecorded` above; the passing run of that property is under
`HubFairSpec`: weak fairness of the next step of each loop,
and failing calls stop at some time (`<>[][~HubFault]`), each call having failed
any number of times before. Reorganisations, crashes, damages and losses are
never required to happen.

`RestFairSpec`: every goroutine is scheduled and the timer of the grace period
runs, hence weak fairness of main's step, of the interrupt handler's, of
`handleShutdown` and of each `http.Server`. Requests need neither come nor end:
`InterruptStops` holds against requests that never do. `ProcessFairSpec`: weak
fairness of main and of the verify goroutine; a death of the process is not
required and, if it comes, ends the comparison.

## Proofs

### The sync loop

All theorems of `BlobSyncer_proof` are about `Spec` for every `MaxSlot`, every
set of chains, starts and intervals, any number of crashes, reorganisations and
hidden replies, under the assumptions the modules state about their constants
and two more: `~CommitAckMayBeLost`, the database does not report a committed
transaction as failed, and `~StartLoweredEarly`, the start is not lowered before a
slot from it on is recorded (without either `BlockInOwnBundle` does not hold, see
above).

None of the safety properties is inductive. `IInv` (`BlobSyncerInv`) adds

* `DbInv`: bundles that are not pending lie behind the next slot with at most
  their last slot unrecorded; a pending bundle is the last one and owns every
  row from its start on. This is what a restart finds, whatever point it was
  at, and what makes `LoadProgressAndResume` right;
* `LoopInv`: the loop's bundle contains the next slot and is the last one; a
  call works on the next slot; a bundle at its last slot is marked before that
  slot is saved;
* `Contents`: what was read is right where nodes did not mislead; the directory
  of a pending bundle, if there is one, holds everything recorded in it; an
  uploaded bundle holds everything recorded in it and its last slot; a
  Finalized bundle is uploaded or has no blobs.

The proof has one lemma per action and, under it, the conjuncts the action
disturbs; the facts about tables they share come first. `SyncInvariant`
is `Spec => []IInv`, and the seven properties follow from it: `TypeCorrect`,
`BlocksInOwnBundles`, `FinalizedBundlesHoldBlobs`, `AtMostOneOpenBundle`,
`CompleteBundlesAreOut`, `BundlesOverlapInOneSlot`, `SkippedTogether`.

On BSC what is recorded is what the chain has (`BscRecordedAsOnChain`), even if
commits are reported as failed: a slot is only read when it is final
(`FinalRead`), and no reorganisation replaces what is final. This theorem needs
neither assumption. On Ethereum
`MCSyncerReorg` shows that it does not hold.

`BlobArchive_proof` shows that every step of the loop is a step of `BlobArchive`
or leaves it unchanged, as long as `misread` is empty (`LoopImplementsArchive`):
with a misread slot a bundle may be published without the blobs the
database counts.

### Both loops

With the verify loop beside it the invariant of the sync loop no longer holds:
re-uploading moves rows of any bundle to another one, one by one, and a crash
leaves them in two. `HubInv` (`BlobHubInv`) says what is left: the next slot and
the loop's bundle still fit, every row is in a bundle that covers it, a bundle
given up by a restart has no slot left to verify, a re-upload stays within the
range of the bundle it replaces, and a slot's row and blob rows agree with the
chain, whoever wrote them last, unless nodes misled that loop. `HubInvariant`
proves it for `HubSpec` with every constant, crash, loss and damage, under
the same two assumptions; from it follow `HubTypeCorrect`, `HubBlocksInOwnBundles`,
`HubAtMostOneOpenBundle` and the action property `ReverifiedAfterReUpload`.
`HubBscRecordedAsOnChain` carries the argument about final blocks over to
re-uploads, again without those assumptions.

### What is verified is on Greenfield

`HubGreenfield_proof` proves the promise of the verify loop,
`VerifiedIsInGreenfield`, and with it `VerifiedBundleIsWhole`, for every number
of slots, every interval, threshold, clock and number of damages, with or
without the slot-by-slot check - on BSC, with no crash and no lost bundle. The
code needs these conditions: the table of counterexamples has a run for a crash
(two bundles share a slot), for a loss (a lost bundle counts as one without
blobs) and for a missed slot on Ethereum (its row stays behind). `GreenfieldInv`
collects why it holds with them, beside `HubInv` and `FinalRead`:

* slots are recorded without gaps, and the ranges of two bundles are the same or
  lie apart (`RowsInOrder`, `RangesApart`), so that marking by slot numbers hits
  the rows of one range only;
* every slot of a bundle that is out is final (`OutIsFinal`), so what it holds
  is not overtaken by the chain;
* a bundle that is out is with the service unless none of its slots has blobs
  (`OutIsHeld`): a directory that is empty where blobs belong is never taken for
  a bundle without blobs (`UploadedIsHeld`);
* the rows of a range are in one bundle, but while a re-upload moves them, and
  then nothing of that range is taken up (`RangeInOneBundle`, `VerifyHolds`); a
  slot is in the latest of its bundles that are out (`InLatestBundle`), although
  a second re-upload may have the name of the first;
* an object that is sealed stays, with the blobs it was compared on
  (`SealedWhenVerified`).

The lemmas take one part each, and under it one step per action that disturbs
it. The sync loop needs to be in the argument throughout: the verify loop may
take a bundle up before its last slot is recorded.

### The server's answers

`CacheKeepsOrder`: `CacheInOrder` for any clients and any cache size. Its
invariant says of the entries' ranks that they are distinct and below the cache's
size; that there are no more entries than that follows by counting.

The other theorems of `BlobServer_proof` are stated against any archive that
keeps its promises, in the style of assumption and guarantee: `ServerSpec /\
ArchiveSpec => []FullAnswerIsWhole`, and the same for `IndexedAnswerIsAsAsked`,
the order of the answer included (`OrderedIsSorted`: the rows come sorted and
none twice).
`ArchiveSpec` says that the blob rows agree with the chain (`ArchiveAsOnChain`),
no row is deleted and the chain at a slot changes only if the slot becomes
misread. The argument follows a request: from `ReadMetas` on it has the whole
slot or the slot is misread, a failing object drops all of it, and an entry of
the cache is only ever written from a whole answer. `VerifiedAnswersAreRight`
needs `SealedSpec` besides: a slot's blobs are sealed when its row says
Verified, and what is sealed stays. It follows a request from the status it read
to each object it fetches, and an entry of the cache likewise.

`BlobHubServer_proof` discharges these assumptions for the syncer. A step of
`HubServerSpec` is a step of one process that leaves the other alone
(`TwoProcesses`); `HubInv` gives the archive's state and a case for every action
gives its steps (`SyncerIsArchive`). So the answers are whole and as asked beside
this syncer, crashes, losses and re-uploads included (`ServerAnswersAreRight`,
`ArchiveIsAsOnChain`, `ServerIsTyped`). `VerifiedAnswersFromGreenfield` says
that the server adds no race of its own: `VerifiedIsInGreenfield` is all that
`VerifiedAnswerIsRight` needs of the syncer, on either network; and
`VerifiedAnswersRightOnBsc` puts the two together under the conditions above.

### The syncer process

`SyncerProcess_proof` proves the five invariants of the run, for any
configuration files, environments, quotas, objects and storage parameters. Its
invariant `ProcessInv` has the configuration, the tables and the goroutines
(`ConfigInv`, `MainInv`), the gauge (`GaugeInv`), and `HashInv`: what has been
read and encoded is what Greenfield would make of the object so far, and a hash
that is missing has a goroutine that has still to write it - hence any order of
the goroutines gives the same list. No induction over the object is needed: the
number of segments is the one `k` with `(k - 1) * size < length <= k * size`, and
two objects with the same segments agree byte by byte, as every byte lies in the
segment that its position divided by the size names (`SegmentsInjective`).

### The server process

The five theorems of `RestServer_proof` are about `RestSpec` for any set of
listeners, configuration files and environments, any number of requests and of
interrupts. They follow from one inductive invariant, `RestInv`, whose parts say
what each goroutine may rely on: a server is spawned only when configured
(`Spawned`), at most one goroutine is about to close the channel and finds it open
(`Closing`), which takes an interrupt or a panic of main (`Signalled`), before
that no server was told to stop (`Quiet`) and after it all were (`Begun`), a
server that returned in time is idle and stays so (`Idle`), `success` means that
all results so far were good (`Successful`), main returns last (`Returning`).
There is one lemma per part of the state that a step leaves alone and one per
action.

### Only model-checked

* Liveness (`EveryBlockRecorded`, `EveryBlockVerified`, `VerifyReturns`,
  `InterruptStops`): fairness and ENABLED are out of the prover's reach.
* `VerifiedIsInGreenfield` and `VerifiedBundleIsWhole` on Ethereum: `MCHubEth`
  checks them on chains where no re-uploaded bundle starts at a missed slot,
  and that is a condition on what is damaged, not on the constants.
* `RecordedAsOnChain` on Ethereum and everything else in the two tables of
  counterexamples does not hold and has no theorem.

## Not modelled

Logging and the gauges of progress change no state that another part reads.
The encoding, signing and transport of requests, go-swagger's embedded
specification, the codecs of the models and of protobuf, and the generated
validations that nothing calls are data conversion without control that a
property could be about. The gateway's forwarding is generated too and, as
deployed, not reached. Finite fields and SHA-256 are assumed to do what they are
for. The parts of `BundleClient` without a caller (`CreateBundle`,
`FinalizeBundle`, `DeleteBundle`, `UploadObject`), `Server.SetAPI` and the
accessors of listeners are left out, as are the timeouts of single connections
and TLS options. One write-and-save round of `reUploadBundle` is one action: the
file written before a failing save is written again, with the same contents, by
the next round for that slot. A short read of a bundle (`ShortReads`) is
possible in `IntegrityHash`, but no property claims anything of it: files and
buffers fill the segment.

## Plan

1. Done: `BlobDao`, `SourceChain`, `BundleClient`, `BlobSyncer`, `BlobArchive`,
   `BlobVerifier`, `BlobHub`; the invariant of the sync loop and its refinement
   proved.
2. Done: `BlobServer` beside the syncer, its cache and its complete answers
   proved; `Config`, `IntegrityHash`, `SyncerProcess`; `RestServer`, its safety
   proved.
3. Done: the invariant of both loops; that the syncer is an archive in the sense
   of `ArchiveSpec`, and so the server's answers beside it; `RecordedAsOnChain`
   and what is verified on BSC; the syncer process and the checksums.
4. Open: `VerifiedIsInGreenfield` on Ethereum for chains whose bundles do not
   start at a missed slot; what holds with crashes of the slots that are in one
   bundle only.
5. Open: the number of blobs of a slot in the table, so that surplus rows are
   told apart from misread slots.
