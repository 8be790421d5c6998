------------------------------ MODULE Torrent -------------------------------
(***************************************************************************)
(* Model distribution: PieceManager and Seeder                             *)
(* (model/torrent/piece_manager.go) over the seeders' content stores, and  *)
(* StreamingModelLoader.EnsureLocalModel (model/streaming_loader.go), for  *)
(* several downloads of one model that run concurrently on one node, while *)
(* the seeders cut the model into the pieces of its manifest and store     *)
(* them (CreateManifest).                                                  *)
(*                                                                         *)
(* A call in Loaders is EnsureLocalModel: its destination is the directory *)
(* of the model, as LoadManifest has found a manifest in it.  The others   *)
(* call StartDownload, AssemblePieces and VerifyGGUF themselves with the   *)
(* path of a file.                                                         *)
(***************************************************************************)
EXTENDS ContentStore, Sequences, FiniteSetsExt, Functions

CONSTANTS Manifest,         \* manifest.PieceHashes
          Downloads,        \* calls
          Loaders,          \* calls of EnsureLocalModel
          MaxRegistered     \* bound: RegisterPeerPiece calls per piece and node

ASSUME ManifestAssumption == Manifest \in Seq(Hashes) /\ Manifest # <<>>
ASSUME NoPieceAssumption == None \notin DOMAIN Manifest
ASSUME LoadersAssumption == Loaders \subseteq Downloads
ASSUME RegisteredAssumption == MaxRegistered \in Nat

Pieces == DOMAIN Manifest

VARIABLES made,             \* pieces CreateManifest has stored on each node
          peers,            \* how often each node is listed in pm.peers[hash]
          active,           \* activeDownloads[model]: the last one started
          loop,             \* downloadLoop of each call
          piece, from,      \* the piece being downloaded, and its peer
          data,             \* piece.Data, "none" until piece.Downloaded
          call,             \* where each call is
          cancelled,        \* its ctx is done
          written           \* pieces AssemblePieces has written, in order

downloadVars == <<active, loop, piece, from, data, call, cancelled, written>>
vars == <<storeVars, made, peers, downloadVars>>

Init ==
    /\ StoreInit
    /\ made = [n \in Nodes |-> 0]
    /\ peers = [h \in Hashes |-> [n \in Nodes |-> 0]]
    /\ active = None
    /\ loop = [d \in Downloads |-> "none"]
    /\ piece = [d \in Downloads |-> None]
    /\ from = [d \in Downloads |-> None]
    /\ data = [d \in Downloads |-> [i \in Pieces |-> "none"]]
    /\ call = [d \in Downloads |-> "idle"]
    /\ cancelled = [d \in Downloads |-> FALSE]
    /\ written = [d \in Downloads |-> <<>>]

\* CreateManifest: the next piece is read and hashed, and AddChunk called.
CreatePiece(n) ==
    /\ up[n] /\ adding[n] = None /\ made[n] < Len(Manifest)
    /\ LET h == Manifest[made[n] + 1] IN
         \/ /\ h \in chunks[n]
            /\ made' = [made EXCEPT ![n] = @ + 1]
            /\ UNCHANGED storeVars
         \/ BeginAddChunk(n, h) /\ UNCHANGED made

\* AddChunk returns.  Its error is not looked at: the hash goes into the
\* manifest in either case.
PieceCreated(n) ==
    /\ EndAddChunk(n) \/ AddChunkFails(n)
    /\ made' = [made EXCEPT ![n] = @ + 1]

\* The manifest is made once more.
CreateAgain(n) ==
    /\ up[n] /\ made[n] = Len(Manifest)
    /\ made' = [made EXCEPT ![n] = 0]
    /\ UNCHANGED storeVars

SeederStep(n) ==
    \/ CreatePiece(n) \/ PieceCreated(n) \/ CreateAgain(n)
    \/ (StopNode(n) \/ CrashNode(n)) /\ made' = [made EXCEPT ![n] = 0]
    \/ StartNode(n) /\ UNCHANGED made

RegisterPeerPiece(n, h) ==
    /\ peers[h][n] < MaxRegistered
    /\ peers' = [peers EXCEPT ![h][n] = @ + 1]
    /\ UNCHANGED <<storeVars, made, downloadVars>>

-----------------------------------------------------------------------------
Downloaded(d) == {i \in Pieces : data[d][i] # "none"}

\* The model directory has no manifest, or the path is no directory at all (a
\* valid model file, or one that is not valid): nothing is downloaded.
NothingToDownload(d) ==
    /\ call[d] = "idle" /\ d \in Loaders
    /\ \E end \in {"local", "failed"} : call' = [call EXCEPT ![d] = end]
    /\ UNCHANGED <<storeVars, made, peers, active, loop, piece, from, data, cancelled, written>>

StartDownload(d) ==
    /\ call[d] = "idle"
    /\ active' = d
    /\ loop' = [loop EXCEPT ![d] = "select"]
    /\ call' = [call EXCEPT ![d] = "waiting"]
    /\ UNCHANGED <<storeVars, made, peers, piece, from, data, cancelled, written>>

\* Neither a call that has gone on nor a loop that has returned looks at its
\* context.
Cancel(d) ==
    /\ call[d] = "waiting" \/ loop[d] \in {"select", "peer", "fetch"}
    /\ ~ cancelled[d]
    /\ cancelled' = [cancelled EXCEPT ![d] = TRUE]
    /\ UNCHANGED <<storeVars, made, peers, active, loop, piece, from, data, call, written>>

\* len(pm.peers[hash]): how often the hash was registered.
PeerCount(h) == MapThenSumSet(LAMBDA n : peers[h][n], Nodes)

\* Mutant: pieces that were downloaded are not left out.
CandidatesAll(d) == Pieces

Candidates(d) == Pieces \ Downloaded(d)

\* selectRarestPiece: of the candidates with the fewest peers, whichever the
\* map iteration finds first.
SelectRarestPiece(d) ==
    /\ loop[d] = "select" /\ ~ cancelled[d]
    /\ \E i \in Candidates(d) :
         /\ \A j \in Candidates(d) :
              PeerCount(Manifest[i]) <= PeerCount(Manifest[j])
         /\ piece' = [piece EXCEPT ![d] = i]
    /\ loop' = [loop EXCEPT ![d] = "peer"]
    /\ UNCHANGED <<storeVars, made, peers, active, from, data, call, cancelled, written>>

\* downloadPiece returns, and the loop selects again.
SelectAgain(d) ==
    /\ loop' = [loop EXCEPT ![d] = "select"]
    /\ piece' = [piece EXCEPT ![d] = None]
    /\ from' = [from EXCEPT ![d] = None]

\* "no peers have piece".
NoPeers(d) ==
    /\ loop[d] = "peer"
    /\ \A n \in Nodes : peers[Manifest[piece[d]]][n] = 0
    /\ SelectAgain(d)
    /\ UNCHANGED <<storeVars, made, peers, active, data, call, cancelled, written>>

RequestPiece(d, n) ==
    /\ loop[d] = "peer"
    /\ peers[Manifest[piece[d]]][n] > 0
    /\ from' = [from EXCEPT ![d] = n]
    /\ loop' = [loop EXCEPT ![d] = "fetch"]
    /\ UNCHANGED <<storeVars, made, peers, active, piece, data, call, cancelled, written>>

\* Mutant: the hash of what was received is not compared.
AcceptsAny(content) == content # "none"

\* The content has the hash of the piece.
Accepts(content) == content = "whole"

\* The seeder's answer: what GetChunk returns, and nothing if it fails.
Answer(d) == GetChunk(from[d], Manifest[piece[d]])

PieceArrives(d) ==
    /\ loop[d] = "fetch"
    /\ Accepts(Answer(d))
    /\ data' = [data EXCEPT ![d][piece[d]] = Answer(d)]
    /\ SelectAgain(d)
    /\ UNCHANGED <<storeVars, made, peers, active, call, cancelled, written>>

\* A stream error, an empty or a wrong answer.
PieceFails(d) ==
    /\ loop[d] = "fetch"
    /\ SelectAgain(d)
    /\ UNCHANGED <<storeVars, made, peers, active, data, call, cancelled, written>>

\* The loop returns when no piece is left or its ctx is done, and closes Done.
LoopReturns(d) ==
    /\ loop[d] = "select"
    /\ cancelled[d] \/ Candidates(d) = {}
    /\ loop' = [loop EXCEPT ![d] = "closed"]
    /\ UNCHANGED <<storeVars, made, peers, active, piece, from, data, call, cancelled, written>>

-----------------------------------------------------------------------------
\* download.Downloaded = download.TotalPieces.
Complete(d) == Downloaded(d) = Pieces

\* The caller waits for Done or for its ctx; an incomplete download fails.
DownloadEnds(d) ==
    /\ call[d] = "waiting"
    /\ \/ loop[d] = "closed" /\ call' = [call EXCEPT ![d] = IF Complete(d) THEN "assemble" ELSE "failed"]
       \/ cancelled[d] /\ call' = [call EXCEPT ![d] = "failed"]
    /\ UNCHANGED <<storeVars, made, peers, active, loop, piece, from, data, cancelled, written>>

\* AssemblePieces looks the active download of the model up: it may be another
\* call's by now.  os.Create fails on the directory of the model.
BeginAssemble(d) ==
    /\ call[d] = "assemble"
    /\ call' = [call EXCEPT ![d] =
                  IF Complete(active) /\ d \notin Loaders THEN "write" ELSE "failed"]
    /\ UNCHANGED <<storeVars, made, peers, active, loop, piece, from, data, cancelled, written>>

\* The iteration over the map of pieces has no order.
Unwritten(d) == Pieces \ {written[d][k] : k \in DOMAIN written[d]}

WritePiece(d, i) ==
    /\ call[d] = "write"
    /\ i \in Unwritten(d)
    /\ written' = [written EXCEPT ![d] = Append(@, i)]
    /\ UNCHANGED <<storeVars, made, peers, active, loop, piece, from, data, call, cancelled>>

WriteFails(d) ==
    /\ call[d] = "write" /\ Unwritten(d) # {}
    /\ call' = [call EXCEPT ![d] = "failed"]
    /\ UNCHANGED <<storeVars, made, peers, active, loop, piece, from, data, cancelled, written>>

\* VerifyGGUF: the file begins with the magic bytes, as the first piece does and
\* what has another content does not.
VerifyGGUF(d) ==
    /\ call[d] = "write" /\ Unwritten(d) = {}
    /\ call' = [call EXCEPT ![d] = IF Manifest[written[d][1]] = Manifest[1] THEN "verified" ELSE "failed"]
    /\ UNCHANGED <<storeVars, made, peers, active, loop, piece, from, data, cancelled, written>>

LoopStep(d) == SelectRarestPiece(d) \/ NoPeers(d) \/ LoopReturns(d)

CallStep(d) ==
    \/ DownloadEnds(d) \/ BeginAssemble(d)
    \/ (\E i \in Pieces : WritePiece(d, i)) \/ WriteFails(d) \/ VerifyGGUF(d)

Next ==
    \/ \E n \in Nodes : SeederStep(n) /\ UNCHANGED <<peers, downloadVars>>
    \/ \E n \in Nodes, h \in Hashes : RegisterPeerPiece(n, h)
    \/ \E d \in Downloads :
         \/ NothingToDownload(d) \/ StartDownload(d) \/ Cancel(d)
         \/ LoopStep(d)
         \/ \E n \in Nodes : RequestPiece(d, n)
         \/ PieceArrives(d) \/ PieceFails(d)
         \/ CallStep(d)

Spec == Init /\ [][Next]_vars

\* The goroutines run.  A peer is chosen at random, so each one again and again;
\* a seeder that has the piece does not fail to deliver it for ever.
FairSpec ==
    /\ Spec
    /\ \A d \in Downloads :
         /\ WF_vars(LoopStep(d) \/ PieceFails(d)) /\ WF_vars(CallStep(d))
         /\ \A n \in Nodes : SF_vars(RequestPiece(d, n))
         /\ SF_vars(PieceArrives(d))

-----------------------------------------------------------------------------
\* Type invariant of the downloads over the content stores.
TypeOK ==
    /\ StoreTypeOK
    /\ made \in [Nodes -> 0 .. Len(Manifest)]
    /\ peers \in [Hashes -> [Nodes -> 0 .. MaxRegistered]]
    /\ active \in Downloads \cup {None}
    /\ loop \in [Downloads -> {"none", "select", "peer", "fetch", "closed"}]
    /\ piece \in [Downloads -> Pieces \cup {None}]
    /\ from \in [Downloads -> Nodes \cup {None}]
    /\ data \in [Downloads -> [Pieces -> {"none", "cut", "whole"}]]
    /\ call \in [Downloads -> {"idle", "waiting", "assemble", "write", "verified",
                               "local", "failed"}]
    /\ cancelled \in [Downloads -> BOOLEAN]
    /\ written \in [Downloads -> Seq(Pieces)]

\* A manifest that was created can be downloaded from the node that made it: the
\* node serves all its pieces but at most one for each write that failed, as
\* CreateManifest does not look at AddChunk's error (piece_manager.go:161), or that a
\* crash cut off, as AddChunk leaves alone what is indexed.  It holds also for a
\* manifest that is made again, after any stops, crashes and starts.
CreatedManifestServed ==
    \A n \in Nodes : made[n] = Len(Manifest) =>
        Cardinality({h \in Range(Manifest) : GetChunk(n, h) # "whole"}) <= crashes + failures

\* A file that was assembled and verified holds every piece of the model once,
\* and each has the content of its hash: also when seeders crashed and restarted
\* with chunks that are cut off, and when the active download was replaced by
\* another call's.
VerifiedComplete ==
    \A d \in Downloads :
        call[d] = "verified" =>
            /\ Len(written[d]) = Len(Manifest)
            /\ \A i \in Pieces : \E k \in DOMAIN written[d] : written[d][k] = i
            /\ \E e \in Downloads : \A i \in Pieces : data[e][i] = "whole"

Seeded(h) == \E n \in Nodes : peers[h][n] > 0 /\ GetChunk(n, h) = "whole"

\* Rarest-first starves no piece that has a seeder: when all pieces come to be
\* seeded and stay so, every call comes back from waiting for its download.
DownloadsEnd ==
    (<>[] \A i \in Pieces : Seeded(Manifest[i])) =>
        <>[](\A d \in Downloads : call[d] # "waiting")

\* piece_manager.go:292 "AssemblePieces concatenates the downloaded pieces in
\* order to reconstruct the original GGUF model file".
AssembledInOrder ==
    \A d \in Downloads :
        call[d] = "verified" => \A k \in DOMAIN written[d] : written[d][k] = k
=============================================================================
