# CompuShare in TLA+

TLA+ models of CompuShare (the Go program under `src/`), the TLC runs that check
them, and theorems about them that TLAPS checks. CompuShare lends the hardware of
*providers* to *consumers*: a large language model is split by layers over several
providers, whose work is credited as *karma*.

    tlc -workers 2 -config Pipeline.cfg Pipeline      one run
    tlapm PipelineProofs.tla                          the proofs about one module

`PROJECT.json` lists the components, the runs with their properties, the mutant
that breaks each property, the source lines each definition stands for, the
disagreements found, the hazards of the code, and the theorems.

## 1. Inventory

Only the Go files outside `.gocache` are the program (about 4,700 lines). There
are no tests; what the code is meant to do is taken from its comments, from
`README.md` and from `docs/protocol.md`.

| Component | State | Operations | What makes it correct | Modules |
|---|---|---|---|---|
| Layer allocation (`pipeline/layer_allocator.go`) | none; the locals of one call | `AllocateLayers` | every layer in exactly one stage, whatever the rounding | `Stages`, `LayerAllocator`, `LayerAllocatorProofs` |
| HE engine (`pipeline/he_engine.go`) | the loop over a stage's layers, keys, activations | `ExecuteLayer` | stages in sequence run every layer, in order; none runs with a part of the keys | `HEEngine`, `MCHEEngine`, `LayerAllocatorProofs` |
| Homomorphic encryption (`crypto/he`) | none; values in slots, keys, their encodings | `EncryptInput`, `DecryptOutput`, `Add`, `Rotate`'s keys, (un)marshalling | a text comes back; what is cut off is refused | `Ciphertext` |
| Encrypted pipeline (`pipeline/orchestrator.go`, `checkpoint.go`) | `pendingReqs`, `CheckpointStore`, locals of each call | `ReRequestInference`, `executePipeline`, Save/Load/DeleteCheckpoint | a checkpoint holds what it names; no stage gets another one's input; the output went through all layers; retries end | `Pipeline`, `Reexecution`, `PipelineProofs` |
| Inference stream (`executeStage`, `pipeline/executor.go`) | a libp2p stream and the functions at its ends | open, write, read, execute, answer, reset | a call returns, and what it returns as output was executed | `StageCall`, `InferenceStream`, `InferenceStreamProofs` |
| Karma (`karma/reputer.go`, the provider's main) | `localScores`, its file, gossip on its way | `AddContribution`, `AddFailure`, `propagateOnce`, `MergeScores`, `Save`, `Load` | no karma that was not earned; nodes agree in the end | `Karma`, `MCKarma`, `KarmaProofs` |
| Verification (`verification/verifier.go`) | `pendingChallenges`, locals of each call | `VerifyResults`, `recordVerification`, `runStatisticalVerification`, `AddResult`, `HashResult`, `CreateCheckpoint`, `VerifyCheckpoint` | a quorum wins; an audit flag is justified; hashes separate results; a checkpoint binds its weights | `Verifier`, `ResultHash`, `Checkpoint`, `MCVerifier`, `VerifierProofs` |
| Content store (`storage/content_store.go`) | chunk files, their index | `AddChunk`, `GetChunk`, `indexChunks` | what is served under a hash has that hash, unless a start took it from the disk | `ContentStore`, `TorrentProofs` |
| Model distribution (`model/torrent/piece_manager.go`, `model/streaming_loader.go`) | peers of each piece, active downloads, pieces | `CreateManifest`, `StartDownload`, `downloadLoop`, `AssemblePieces`, `VerifyGGUF`, `EnsureLocalModel`, seeding | a created manifest is served; a verified file holds every piece; a seeded model is downloaded | `Torrent`, `MCTorrent`, `TorrentProofs` |
| Host (`network/libp2p/host.go`) | the identity key and its file | `NewHost`, `loadOrCreateIdentity` | one identity across restarts | `Startup` |
| Sidecar (`execution/llamacpp/sidecar.go`) | the binary, port, subprocess, `s.cmd` | `DownloadBinary`, `Start`, `monitorLoop`, `Stop` | it comes back after exits; it is gone after `Stop` | `Startup`, `Sidecar` |
| Tunnel (`network/tunnel/tunnel.go`) | connections and the four goroutines that copy between them | `OpenTunnel`, `RegisterTunnelHandler`, `proxyStream` | whole replies, everything closed once a side is gone and the other reads | `Tunnel`, `TunnelProofs` |
| Discovery (`network/discovery/advertiser.go`) | `CapabilityStore`, gossip on its way | publish, relay, `handleCapabilityMessage` | manifests stored for their publishers; connected providers become known | `Discovery`, `SessionProofs` |
| Inference session (`RequestInference`, `execution/llamacpp/master.go`) | locals of each call, tunnel listeners | select, open tunnels, run llama-cli, credit | credit follows use; llama-cli finds its listeners; listeners end | `Session`, `MCSession`, `SessionProofs` |
| Binaries (`cmd/*/main.go`) | contexts, signal handlers, goroutines | start, save, shut down | nothing lost at a clean shutdown | parts of `Karma`, `Startup`, `Sidecar`, `Session` |
| vLLM engine, configuration, hardware | none of interest | - | - | not modelled (section 8) |

How they interact. A consumer's `Orchestrator` asks the `CapabilityStore`, which
gossip fills, for providers, orders them by the `Reputer`'s karma and lets the
`LayerAllocator` cut the model. `RequestInference` then opens a tunnel for every
stage and runs `llama-cli` against the tunnels' local ports, behind each of which
is the sidecar of one provider. `ReRequestInference`, which the `Verifier` calls
from a goroutine (nothing in the binaries calls `VerifyResults` yet), goes through the encrypted pipeline instead: one inference
stream after the other to the providers' `Executor`s, which run the `HEEngine`,
with a checkpoint after each. Work is credited by the consumer and by the
provider, and karma is gossiped and saved. The model's file comes from peers piece
by piece, out of their content stores.

What is hard here: goroutines of one process over shared maps (verification,
re-execution, downloads, tunnels, `Sidecar.Stop` and its loop); gossip that is
repeated, lost, reordered and relayed; streams that end without an answer; files
written in place and processes that end in between; subprocesses and ports that
belong to no one for a while; map iterations whose order decides something; and
off-by-ones where half-open ranges meet inclusive loops. `hazards` in
`PROJECT.json` has them one by one, at their lines.

## 2. How the modules correspond to the code

Composition (`EXTENDS`): `HEEngine` runs the stages that `LayerAllocator` returns on
what `Ciphertext` encrypts; `Torrent` cuts models into and downloads them from the nodes
of `ContentStore`; `Sidecar` starts when `Startup` is over, and `Tunnel` ends at its
process; `ResultHash` looks at the results that `Verifier` compares; `Session` takes its providers from `Discovery`. `InferenceStream`
implements `StageCall` and `Pipeline` implements `Reexecution` (`INSTANCE ... WITH ...`). `Stages` defines what a
partition of the layers is (`Consecutive`), for the allocator that returns one and
the pipeline that relies on one.

**LayerAllocator.** One step per iteration of the two loops and one for the final
stretch. The floating-point product `int(float64(layers) * ratio)` is the exact
quotient rounded down, or one less where the exact quotient is an integer and the
ratio was rounded down (`Shares`). A provider is its capacity, `VRAM*4 + RAM`.

**Ciphertext.** Pure operators. A ciphertext is the sequence of its slots' values in
fixed point, with the noise that encryption adds; values beyond 256 are one. Keys and
ciphertexts are encoded as the code does it: parameters and keys are blobs behind a
length, and a decoder that meets a length that is longer than what is left refuses
(`FieldAt`). A base64 text is what such a decoder makes of it: lengths of four characters
each, of which the smallest is `FourCharacters`. What the lattigo library computes
(`GaloisElement`, `Add` in the slots, the blobs) is external.

**HEEngine.** The consumer encrypts a text (`Encrypt`), and each stage's provider
deserializes what it got for keys (`Keys`), which is what the consumer encoded, as the
engine's parameter promises, or the base64 text of it, as the executor passes it on
(`KeysReceived`), and runs the inclusive loop
`for l := StartLayer; l <= EndLayer` over a stage that ends where the next one begins,
adding the activations to themselves in each layer. A stage that fails answers nothing
(`StageFails`), and the next one gets that for its input.

**Pipeline.** A call is one `ReRequestInference`. Each of its interactions with
`cpStore` and each `executeStage` is a step; between two of them other calls run.
Activations are abstracted to "the output of the layers 0..upto-1" or *corrupt* (an
empty answer, and whatever is computed from one). A request ID is
`<request>-reexec-<UnixNano>`: two calls in one tick of the clock get the same. The
allocation is any partition over some of the providers, since the capability store
changes between calls; that allocations are partitions is theorem
`AllocationTilesModel`. What one stage call can return is `Answers`, the outcomes
of `StageCall`. `Reexecution` says what a call is to those who wait for it, without
providers, stages and retries: a depth of layers that grows without a gap, may be taken
from or left under the call's ID, and may be lost without notice. The mapping forgets the
allocation and takes the depth from the activations.

**InferenceStream.** `executeStage` and `handleInferenceStream` as the two ends of
a stream: two pipes with a flow-control window, the two read limits
(`io.LimitReader`), the deferred `Close`s that are the only ones, and a reset that
may come at any time. The connection is TCP with yamux (`internal/config/config.go:85`; the other
default address, line 86, is of a QUIC that the go-libp2p of `go.mod` does not speak). There `Close` ends the closer's own direction only: a writer whose window is full, and whose
reader has returned, waits without a deadline until the connection is lost (`WriteOutput`,
`WriteRequest`; `WriteFails` and `StreamFails` are the reset). Sizes are units; only how they
compare to the limits and the window matters.
`ClientCanMove` and `ServerCanMove` say of a state what each end can do in it.

**Karma.** A score is its total and its karma, with `1.0 + log(1 + total)` scaled
to integers by a constant function (`Earned`) of which the proofs use monotonicity
only. `AddContribution`, `AddFailure`, `MergeScores` hold the mutex and are one step
each. `propagateOnce` is two, `ReadContribution` and `Publish`: it copies pointers
under the mutex and marshals what they point to without it. `Save` is two steps too,
as `os.WriteFile` truncates first. `Shutdown`/`MainReturns` is the race in
`cmd/provider/main.go`, where main and the saving goroutine wait for the same
context.

**Verifier.** The goroutine of `runStatisticalVerification` runs beside later calls
and shares `pendingChallenges` with them. The groups of equal answers are visited
in the order of a map iteration, so a tie is won by any of them (`Majorities`). A
provider has one result per call. `ResultHash` has the text that is hashed for a token
list, as a sequence of characters, and `Checkpoint` the two functions on
`MerkleCheckpoint`; SHA-256 is taken to be injective in both.

**ContentStore / Torrent.** Chunk files are absent, cut off or whole; a crash
between `BeginAddChunk` and `EndAddChunk` leaves one cut off, and so does a failed write. A
node goes down by a crash or by a stop that loses nothing but the index (`StopNode`), and
`StartNode` indexes by file names after either. `CreateManifest` stores one piece after the other through the same
`AddChunk` and does not look at its error (`PieceCreated`). A download is a call that waits, a `downloadLoop` goroutine that
selects the rarest piece, picks a random peer and fetches, and then `AssemblePieces`,
which looks up whichever download of the model is active *now*. `EnsureLocalModel`
(`Loaders`) passes the directory of the model as path, on which `os.Create` fails.

**Startup / Sidecar / Tunnel.** `Startup` is main before the sidecar: the identity key,
read or made and written in place, and the binary, downloaded in place; every step may
fail, and the process may end in each and be started again. Then `monitorLoop`, the context of the command, the goroutine of
`os/exec` that kills on cancellation, and `Stop`, which main defers and which reads
`s.cmd` three times without a lock. The port is free whenever the subprocess does
not listen, and another process may take it. The tunnel has six connection ends
and four goroutines in `proxyStream`, each of which reads a unit, holds it until there is room
at the other end (`CopyReads`, `CopyWrites`; no write has a deadline), and closes both its
ends when its source ends or its write is refused. Each buffer holds `Buffer` units. A write
to a TCP connection that the other side has closed is lost or refused; one to a stream whose
other end was closed fills the window and then waits.

**Discovery / Session.** Copies of a manifest travel over links; GossipSub delivers
the first copy a node gets and relays it; `handleCapabilityMessage` stores it only if
the node it was *received from* is the one it claims to be of. A session call
selects among the known providers, opens a listener for each stage or skips it, runs
`llama-cli`, credits, and returns; listeners look at the node's context, not at the
call's.

## 3. The runs

Every property of a passing run has a mutant: a plausible bug in one mapped
definition with which TLC finds that property violated under the same cfg.

| Run | Shows | Distinct states |
|---|---|---|
| `HEEngine` | Every allocation over up to three providers of capacities 4 .. 1000 tiles 22 layers (`TilesModel`), rounding moves at most a layer per selected provider (`RoundingBounded`) and leaves nobody out by itself (`UnservedOnlyForMinimum`); the engine over these stages leaves no layer out and runs none out of order (`NoLayerSkipped`), with all of the keys and never with a text taken for keys (`KeysArriveWhole`), and every byte that was not zero is 255 after it (`EveryLetterSaturates`) | 38 thousand |
| `Pipeline` | Two concurrent re-executions of one request, any allocations of two providers, equal and different clock readings: checkpoints hold the layers they name, no stage gets another one's input, intact output is complete, checkpoints have owners and only move forward, calls end, and each is nothing else than a `Reexecution` | 393 thousand |
| `InferenceStream` | The stream with limits, window and resets implements `StageCall`; an empty answer hides no credited work; a goroutine at its ends waits for ever only over a request below the limit, or over a request or an output that the limit and the window do not hold (`OnlyTheseSizesHang`); a request of exactly the limit is answered; a handler whose output fits ends, with and without its reader | 2 thousand |
| `Karma` | Two nodes, torn reads, saves, a crash or shutdown, restarts: no karma out of nothing, and agreement once no more work is recorded | 103 thousand |
| `Verifier` | Two concurrent verifications of three providers with their re-verifications: quorums win, flags are justified, and exact when the request was verified once; results that differ have different hashes | 213 thousand (with symmetry) |
| `Torrent` | Two concurrent downloads, one by `EnsureLocalModel`, from a seeder that cuts the model into pieces and may stop, crash or run out of disk: only what a start has indexed is served cut off (`OnlyStartsServeCutChunks`), of a created manifest all is served whole but a piece for each crash or failed write (`CreatedManifestServed`), a verified file has every piece whole, and calls return when the model stays seeded | 245 thousand |
| `Tunnel` | A provider that starts, breaks off and starts again, then a connection through both ends to its sidecar that exits, is restarted and is stopped: one identity, whole replies, everything closed if the programs at the ends read or close, the sidecar returns, and not after it was killed | 295 thousand |
| `Session` | A consumer and two providers that relay each other's manifests, one of which may restart, and an inference over both | 57 thousand |
| `PipelineFailure`, `HEEngineLayers`, `StreamDeadlock`, `TorrentOrder` | the disagreements of section 5, each as a counterexample | - |

Deadlock is checked in `Session`, where publication never stops. The systems of the other
runs end, or reach their bounds: an allocation is done, a call has returned, a process
has exited; their cfgs say `CHECK_DEADLOCK FALSE`.

Bounds, and why they are enough.

- `HEEngine`: `TotalLayers` 22, `Capacities` {4, 15, 22, 44, 1000}, `MaxProviders` 3.
  The capacities include shares that round to zero (the one-layer minimum), that
  divide evenly (the rounded ratio), and that overrun the model (the clamp and the
  break). Four slots, and texts that are empty, have a zero inside, and are longer than
  the slots; the encoded keys and their base64 text. All the
  properties are proved for all values.
- `Pipeline`: two calls (every conflict over a checkpoint is between two), three
  layers on two providers (a checkpoint can be in front of, at and between stage
  ends of another allocation), `MaxRetries` 2 instead of 3 (first, last and no
  attempt left), `MaxTick` 1 (equal and different IDs). Its safety properties are
  proved for all values.
- `InferenceStream`: limits 3 and 4 and a window of 2, smaller than both. Requests below, at,
  above the limit by no more than the window and by more (1, 2, 3, 5, 6), and outputs
  in the same places (1, 4, 5, 6, 7), so that a writer is left with a full window whose reader
  has returned, and one more unit decides whether it ends. `StreamDeadlock` has one request
  below the limit. The safety properties are proved for all values.
- `Karma`: two nodes, one peer, `MaxTotal` 1, `MaxRecorded` 3 (a contribution and
  failures on both sides), one stop, one save, one message on its way per node. The
  scores of different peers do not interact. The bounds limit what is recorded and
  how often nodes stop; gossip goes on for ever, as `KarmaConverges` needs.
- `Verifier`: three providers and threshold 2 are the smallest quorum with a
  dissenter, and with two results a tie; two requests, so that calls on the same and
  on different requests meet. Token IDs of one and two digits, zero and negative, in
  lists of up to three: each length and each sign beside each other. The theorems allow any
  integers, and lists of any length.
- `Torrent`: one seeder that can be registered or not, two hashes, two calls, one
  crash or failed write (`MaxFaults` bounds both together; stops are not bounded). A second seeder adds only
  a peer choice, which `PieceFails` already makes arbitrary. `TorrentOrder` has a
  third piece with the content of the first.
- `Tunnel`: one connection (connections share nothing but the sidecar), a request of
  one unit and a reply of two (a reply that can be cut), buffers of one unit, so that a
  client that does not read fills its buffer with the first unit of the reply and keeps a copy
  in its write with the second; one fault (`MaxFaults`) for the
  start-up and the sidecar together: a file that cannot be read or written, a download
  or a start that breaks off, an exit, or another process on the port. Starting again
  without a fault is not bounded. The theorems allow any number of faults and lengths.
- `Session`: a triangle, so that every manifest has a direct and a relayed way; one
  provider may leave and return; one call with both providers.

## 4. Fairness

`Pipeline` and `InferenceStream` assume of goroutines only that they run: weak
fairness of the steps that wait for nobody; a stage's execution ends. `CallsReturn` further assumes, in its own
premise, that stage calls return, which `StreamDeadlock` shows they need not. `Karma`:
the ticker of `PropagateScores` fires for ever and marshals every score, GossipSub
gets a message that is repeated for ever through again and again (strong fairness of
`Publish` to all and of `Merge`, which other holders of the mutex may interrupt).
`Torrent`: goroutines run; `rand.Intn` picks each peer again and again (strong fairness
of `RequestPiece`), and a seeder that has the piece does not fail each time. Whether
seeders *stay* is the premise of `DownloadsEnd`. `Tunnel`: the four copies and the
sidecar's loop run, and a subprocess that is alive listens when the port is free.
A start that breaks off need not be repeated: `SidecarComesBack` has a provider that
runs as its premise. `llama-cli` and the server may sit idle for ever; `TunnelTornDown` has
as its premise that neither sits there with a full buffer (`Unread`): each reads or closes
again and again. Without it a copy may wait in its write for ever and never sees that its source
has ended.
`Session`: manifests are published every 60 seconds, their copies arrive, and the
direct copy is not always the later one; `llama-cli` ends; listeners wake up once a
second.

## 5. Where the code and its documentation disagree

Checked as violations, each under a specification of what the code does:

- `PipelineFailure`: a provider that fails closes its stream without an answer;
  `executeStage` returns no bytes and no error, so nothing is retried, the empty
  activations are saved as checkpoint and passed on (`orchestrator.go:314` "Retry
  mechanism for provider failures").
- `HEEngineLayers`: the layer at which two stages meet is run by both (`README.md:27`
  "Each provider runs different layers").
- `StreamDeadlock`: `executeStage` reads without closing its side; the handler reads
  to the end of the stream or 4 MB. A smaller request leaves both waiting
  (`README.md:29` "Final encrypted output is returned to you"). A request of more than 4 MB
  and the window leaves `executeStage` waiting in its write, and an output of more than 64 MB
  and the window leaves the handler waiting in its (`OnlyTheseSizesHang`).
- `TorrentOrder`: the pieces are written in the order of a map iteration
  (`piece_manager.go:292` "concatenates the downloaded pieces in order").

Met while modelling; the models contain the behaviour, no run is spent on it:

- `layer_allocator.go:61` promises each selected provider a layer; providers late in
  the list may get no stage.
- `README.md:173` "Provider dropout = checkpoint + restart": a re-execution looks for a
  checkpoint under an ID made from its own clock reading, which only a call with the
  same reading can have saved.
- `executor.go:120` says that execution stops when the peer disconnects; the context is
  `context.Background()`.
- `README.md:193`: a failure's 5% is undone by the next gossip of an older score, as the
  larger karma wins; the adopted score may have the smaller contribution.
- `cmd/provider/main.go:137`: the save on clean shutdown races with main's return.
- `docs/protocol.md:280,289,290`: penalties and credits are given without a consensus;
  a re-execution that disagrees penalizes *all* original providers; it may run on the
  same ones. `verifier.go:223`: the audit flag is overwritten by the next verification
  of the request, or by an older re-verification that ends later.
- `docs/protocol.md:95` "Consumer receives all provider manifests": a relayed copy is
  dropped, and a provider that is not a neighbour is never known. A combined node
  advertises two manifests under one ID, the second of which says that it is no
  provider.
- `content_store.go:22`: a chunk file that a crash or a failed write has cut off is indexed by
  its name at the next start of the node, a clean one too, and served for good: `AddChunk`
  returns early for what is indexed, so nothing replaces it. The downloader rejects it
  (`VerifiedComplete`). Until that start it is not served (`OnlyStartsServeCutChunks`).
- `tunnel.go:108` "It closes both ends when io.Copy finishes (i.e. one side disconnects)": a
  copy in a write to a program that does not read goes on, and the chain stays open.
- `EnsureLocalModel` fails after every complete download: its path is a directory.
- `orchestrator.go:383-384` encodes the input and the keys in base64, and
  `executor.go:117-118` takes the bytes of these strings without decoding them: the engine
  refuses them (`KeysArriveWhole`), so no stage of a running system answers. The keys of the
  code's parameters, one for each of thousands of rotations, are also far longer than the 4 MB
  the handler reads. The models look at what happens
  to a stage that is refused and to one that is not. `ReRequestInference` works with the
  keys of the request, which `cmd/consumer/main.go` never sets.
- An engine that doubles the activations in each of 22 and more layers leaves 255 for
  every byte that was not zero, and for the others the noise that no two executions share
  (`EveryLetterSaturates`): what `verifier.go` compares is the same for different texts
  and different for the same one. Above 54 doublings (`MaxDoublings`) the values may leave the
  range of `int`, and the result of the conversion depends on the machine; nothing is said of
  pipelines that run more.
- `verifier.go:307,333`: `CreateCheckpoint` does not sign and `VerifyCheckpoint` refuses
  what is not signed, so that none is accepted; it checks that there is a
  signature, not whose. Weights are looked up from 0 on, whatever the first layer of the
  range is, and the range includes its end, unlike a stage.
- `host.go:30` "the peer ID remains stable across restarts": any error of reading the key
  file makes a new identity and overwrites the old one. A key file that was cut off by a
  crash ends every later start.
- `sidecar.go:52`: a binary that was cut off by a broken download is never downloaded
  again. `piece_manager.go:161`: `CreateManifest` ignores that a piece was not stored.
- `sidecar.go:171`: a subprocess forked while main returns is not killed, and `Stop` can
  panic on a command that has no process yet. `KilledForGood` says what does hold.
- The port of the sidecar is found free once; another process can take it while the
  sidecar is down, and tunnels then end at that process.

## 6. What is proved

The theorems hold for all values of the constants that the named `ASSUME`s allow.
Each follows from an inductive invariant (`IInv` in the proof module) with one lemma
for each action, or group of actions, that can disturb it.

- **`LayerAllocatorProofs`**: `AllocatorTypes`, `AllocationTilesModel`. Assumes positive
  capacities and a positive depth. `TilesModel` speaks of the result only; inductive is
  that what the second loop has assigned so far is a partition of
  `0 .. currentLayer-1` (`Partial`), that `currentLayer < TotalLayers` while it goes on -
  so that no stage is empty - and that the divisor is positive (`Summed`).
  `RoundingIsBounded` and `OnlyTheMinimumLeavesOut` need the running sums of the
  capacities, which the code does not keep: `RInv` says that there is a function that has
  them, and `Rounded` compares with it how far the layers assigned are ahead of or behind
  the exact shares. `EngineTypesHold` and `NoLayerIsSkipped` are about `EngineSpec`: as
  long as the activations are not lost, what ran is `0 .. l` (`Progress`), where `l` is the
  layer the next stage begins in; that a stage which answered nothing is never followed by
  one that answers rests on ciphertexts that are cut off being refused (`AddAnswers`). `LettersSaturate`
  needs a depth of at least 8 layers, and that a slot that is not zero doubles in each of
  them until no byte can hold it (`GInv`); it speaks of engines that ran at most `MaxDoublings`
  layers, whatever the depth of the model. `KeysArriveInFull` needs that what was encoded is
  decoded again, with a key for every rotation, and that a text of no more than a request is
  refused (`TextIsRefused`).
- **`PipelineProofs`**: `PipelineTypes`, `CheckpointsAreExact`, `StageInputsAreExact`,
  `OutputsAreExact`, for any number of calls, providers, layers and retries. None is
  inductive alone: `Holds` ties the activations of a call to the place it is at, `Located`
  the place to its allocation, and `CheckpointExact` is what makes a resume safe across
  allocations: the checkpoint was saved by *some* call under *some* partition, and the
  stage after the one that ends where it does starts there. `CheckpointsAreOwned` and
  `CheckpointsAdvance` (an action property) add that a call that alone has its ID finds
  no checkpoint but its own, of the stage before (`OwnCheckpoint`).
  `CallsImplementReexecutions` is the step simulation of `Reexecution`: a step of a
  call advances its depth, saves it, resumes from a saved one, or stutters; that layers are
  neither left out nor run again rests on `Holds` and `CheckpointExact`.
  `CallsAdvanceAlways` gives each call a natural number, of the stages, retries and interactions
  that are left, which each step of the call makes less and no step of another call makes more:
  a call cannot go on for ever, however often its stages fail.
- **`InferenceStreamProofs`**: `StreamTypes`, `EmptyAnswersHideNoWork`, and
  `StreamsImplementStageCalls`, the step simulation of the abstract call. Nothing is written
  before the engine has returned, and a handler that credited its work answers in full
  unless the connection or its reader is gone (`ServerOK`); a call that returned no bytes
  has seen the handler's end (`ClientOK`). `OthersNeverHang` states that a hang needs one of three
  sizes: a request below the limit, or a request or an output beyond its reader's limit and the
  window; the invariant adds the limits of both readers, that a handler which executes has all of
  its request, and that an end which has gone without a loss of the connection read up to its
  limit (`LimitsOK`). `StreamsAdvance` gives the stream a number that each step of
  either end makes less.
- **`KarmaProofs`**: `KarmaTypes`, `KarmaIsBacked`, for any nodes, peers and bounds and any
  monotone `Earned`. The strengthening is about scores half read (`PublishingBacked`): the
  karma that goes with an older contribution may be newer, and both are still at most
  what the peer earned; totals only grow (`BackedGrows`). `KarmaSettles` is about steps that
  record no work: the karma a running node shows only rises (`Settles`), and not above the
  highest there is of the peer on any node, in a file, half read or in a message (`AtMost`).
- **`VerifierProofs`**: `VerifierTypes`, `QuorumsWin`, `FailedFlagsAreJustified`,
  `SingleAuditsAreExact`, for any finite set of providers. Two groups of more than half the
  results meet (`QuorumsAgree`), so the largest group, in whichever order it was found, is
  the quorum's (`MajorityReached`); `VerdictOK` carries it to the penalties, and `AuditOK`
  says what the challenge of a request holds while only one call has recorded it.
  `HashesSeparate` holds for any integers as tokens and lists of any length: a decimal can be
  read back, and ends where the separator begins, so a text that was flattened has one
  reading. `CheckpointsBind` is about `Checkpoint`, for any weights.
- **`TorrentProofs`**: `TorrentTypes`, `OnlyStartsServeCut`, `CreatedManifestsAreServed`,
  `VerifiedIsComplete`, for any seeders, manifest and downloads. A chunk that is
  being written is not indexed, and all chunks of a created manifest have a file, which is
  indexed when it is whole (`StoreOK`); each crash and each failed write leaves at most one
  more file cut off (`CutOK`); a file that is written has all its
  pieces from a download that is complete (`WrittenOK`), as a call that assembles has an
  active download to look up and pieces never change once they were accepted (`LoopOK`).
  `PiecesAreFetchedOnce`: a loop asks only for what the download does not have, keeps what
  it accepted, and ends by itself with all of it (`FetchOK`).
- **`TunnelProofs`**: `TunnelTypes`, `KilledIsForGood`, `IdentityIsStable`,
  `RepliesAreComplete`, for any lengths and any number of faults. When `Stop` has killed,
  the context is done, so the command the loop may hold does not start (`StopOK`). Before
  the first announcement nothing, and after it only the key on file, is known to others
  (`IdentityOK`). Units are counted along the chain, those a
  copy holds included (`FlowOK`): a copy from the reply's side
  closes its end only when it is drained, so the client's end comes after all of the reply
  (`ReplyOK`). `BreaksAreSeen`: when a chain is broken and the programs at its ends are not `Unread`, a
  copy that is left has what to do, as one that has ended has closed its ends (`CopiesOK`) and one
  that waits for room waits for a copy that can go on or for a program; `BreaksAreFinal` counts
  what the copies can do from there on (`Burden`). `SidecarsRecover` has both for the sidecar:
  the loop does not return while the provider runs and waits for no subprocess that is gone
  (`MonitorOK`), and it is at most seven steps from one that listens (`StepsToListen`).
- **`SessionProofs`**: `SessionTypes`, `ManifestsAreStoredForPublishers`, `CreditsAreExact`,
  `GivenTunnelsListen`, for any network, providers and calls. Copies travel along links
  (`CopiesOnLinks`); a listener opened by a call is there until the node's context is done,
  not only while the call runs (`TunnelsListen`). `CreditedHaveAdvertised` follows a manifest
  from its publisher to the credit: whoever a call has chosen is connected to the consumer and
  has said that it is a provider (`ChosenAdvertised`). `ClosedListenersStayClosed`: a tunnel of
  a call has one listener in its life.

Every invariant and every action property that a run checks, and both refinements, are
stated by a theorem. Only model-checked is what needs fairness, which with `ENABLED` is out of
the prover's reach: `CallsReturn`, `ExactRequestReturns`, `HandlerEnds`, `KarmaConverges`,
`DownloadsEnd`, `SidecarComesBack`, `TunnelTornDown`, `ConnectedProvidersKnown`,
`ListenersEnd`. Of all but `ConnectedProvidersKnown` a half that is not fairness is proved, by
the theorems above: a number that each step makes less (`CallsAdvanceAlways`,
`StreamsAdvance`, `BreaksAreFinal`, `SidecarsRecover`), that until the end a step can be
taken (`OthersNeverHang`, `BreaksAreSeen`, `SidecarsRecover`), or that what was
reached is kept (`KarmaSettles`, `PiecesAreFetchedOnce`, `ClosedListenersStayClosed`). What is left to TLC
is the step from there to "eventually". In `OthersNeverHang`, `BreaksAreSeen` and `SidecarsRecover` "can be taken" is a
condition on the state, as `ENABLED` is not available; with the bounds of the runs TLC
finds it equal to `ENABLED` of the steps in every reachable state. Induction over data is
avoided by taking the least counterexample, a number, out of a set (`LayerAllocatorProofs`,
`VerifierProofs`).

## 7. Simplifications to know

- `Pipeline`: contexts and deadlines are left out, so a call is never cancelled.
- `Ciphertext`: one sign of the noise for all slots of an encryption, a quarter of a unit
  each, as nothing here mixes slots; CKKS keeps it below one half at the code's parameters.
  Values that no byte can hold are the same. Keys of other parameters, and a text whose first
  characters are others than the smallest, are not distinguished from those there are.
- `InferenceStream`: a reader that closed is never told to its writer, as with TCP and yamux.
  Over QUIC, with an address given as `quic-v1`, the writer would be refused.
- `Startup`: a key that was never seen is the next number; a start that breaks off while a
  file is written leaves it cut, at most `MaxFaults` times.
- `Verifier`: re-executions answer anything; which providers do is any non-empty set.
- `Torrent`: the fallback for a piece whose data was cleared is unreachable (nothing
  clears it) and left out. A piece's content is either the one of its hash or not. A failed
  write that does not even make the file is left out, as nothing comes of it but a piece that is
  missing, which the ones that cut it off give too. There is one seeder, so that another peer is
  tried is not exercised, and calls write to different paths.
- `Tunnel`: the buffers on the way from one end of a connection to the other are one, of the
  same size for TCP and streams; neither program half-closes.
- `Karma`: a score is marshalled with its karma no older than its contribution; a read that is
  torn the other way (a new contribution with the karma from before it, `reputer.go:80-87`) is
  left out, as karma that is too small is what an older message has as well. Writing the
  scores as JSON and reading them (`reputer.go:262,283`) is taken to return them.
- `Discovery`: a node has one GossipSub router; the second one that `cmd/provider` makes on
  its host is not modelled. The consumer does not restart in `Session`.
- `Discovery`: a manifest is published again when all copies of the one before have
  arrived or been dropped, as 60 seconds are longer than a propagation. The check for an
  empty provider ID in `findBestProviders` can never fire and is left out.
- A map that is written and iterated without a mutex (`CapabilityStore`) makes the Go
  runtime end the process; the models treat its operations as atomic.

## 8. Not modelled

- `EncryptVector`, `DecryptVector`, `Multiply`, `CompareEncryptedOutputs`: nothing calls
  them. The arithmetic of CKKS is the lattigo library's.
- `VLLMEngine` (`pipeline/he_runtime.go`): an HTTP client without state that no binary
  constructs. `LoadLayers`: nothing calls it.
- `HasChunk`, `ListChunks`, `SaveManifest`, `ProvideModel`, `FetchModel` of the content store:
  no modelled component calls them. What `GetModelInfo`, `GetModelPath` and `LoadManifest`
  read is an input of the models (the number of layers, `NothingToDownload`, the manifest).
- The rest of `network/libp2p/host.go` (options, bootstrap); connections are steps of
  `Discovery` and `Session`.
- Configuration and hardware detection: read once at start.
- `CleanupStaleProviders`, `FindProvidersForTask`: nothing calls them.

Two hazards are left out of `PROJECT.json` as no model can show them here: the maps of the
`CapabilityStore` are written by the subscription and iterated by `findBestProviders` without
a mutex (`advertiser.go:58`), which ends the process, and a model file is taken for complete
when it begins with the magic bytes (`streaming_loader.go:45`), where the file is an input of
`Torrent` (`NothingToDownload`).

## 9. Plan

Done, in this order: the allocator and its tiling; the pipeline's checkpoint contract;
the engine; the stream and the abstract stage call; karma; verification; content store
and downloads; sidecar and tunnel; discovery and session; the encryption that the engine
works on, the start of a provider, result hashes, Merkle checkpoints and `CreateManifest`;
the proofs of every component's safety properties.

Next, extending the model: contexts and deadlines in `Pipeline` (cancelled back-offs);
the local file of the loader (a valid magic in an unfinished file); the combined
node of `cmd/compushare` with two manifests of one peer; several listeners of concurrent
sessions.

Then, proving more: a variant for a download's loop and one for the propagation of karma,
which need a bound on failed requests and on lost messages.
