--------------------------- MODULE TorrentProofs ----------------------------
(***************************************************************************)
(* What seeders serve and what a verified download holds, for any number   *)
(* of seeders, pieces, concurrent downloads, crashes and failed writes.    *)
(***************************************************************************)
EXTENDS Torrent, FiniteSetTheorems, TLAPS

\* A running node has indexed what was written to its end, and nothing that has no
\* file; the pieces of its manifest so far have files, and what it is writing is the
\* next one.
StoreOK ==
    \A n \in Nodes :
        /\ adding[n] # None =>
             /\ made[n] < Len(Manifest) /\ adding[n] = Manifest[made[n] + 1]
             /\ file[n][adding[n]] # "none"
        /\ made[n] > 0 => up[n]
        /\ \A h \in chunks[n] : file[n][h] # "none"
        /\ up[n] => \A h \in Hashes : file[n][h] = "whole" => h \in chunks[n]
        /\ \A i \in 1 .. made[n] : file[n][Manifest[i]] # "none"

\* The files that were left cut off: each by a crash or a failed write.
CutFiles(n) == {h \in Hashes : file[n][h] = "cut"} \ {adding[n]}

CutOK ==
    \A n \in Nodes :
        IsFiniteSet(CutFiles(n)) /\ Cardinality(CutFiles(n)) <= crashes + failures

StoreInv == StoreTypeOK /\ made \in [Nodes -> 0 .. Len(Manifest)] /\ StoreOK /\ CutOK

\* A piece is selected where one is used, what was accepted is whole, and there
\* is an active download where one is looked up.
LoopOK ==
    \A d \in Downloads :
        /\ loop[d] \in {"peer", "fetch"} => piece[d] \in Pieces
        /\ loop[d] = "fetch" => from[d] \in Nodes
        /\ \A i \in Pieces : data[d][i] # "cut"
        /\ call[d] \in {"waiting", "assemble"} => active \in Downloads

\* The pieces of a file that is assembled come from a complete download, and none
\* of them is written twice.
WrittenOK ==
    \A d \in Downloads :
        /\ IsFiniteSet(Unwritten(d))
        /\ Len(written[d]) + Cardinality(Unwritten(d)) = Len(Manifest)
        /\ call[d] \in {"write", "verified"} =>
             \E e \in Downloads : \A i \in Pieces : data[e][i] = "whole"
        /\ call[d] = "verified" => Unwritten(d) = {}

DownloadTypeOK ==
    /\ peers \in [Hashes -> [Nodes -> 0 .. MaxRegistered]]
    /\ active \in Downloads \cup {None}
    /\ loop \in [Downloads -> {"none", "select", "peer", "fetch", "closed"}]
    /\ piece \in [Downloads -> Pieces \cup {None}]
    /\ from \in [Downloads -> Nodes \cup {None}]
    /\ data \in [Downloads -> [Pieces -> {"none", "cut", "whole"}]]
    /\ call \in [Downloads -> {"idle", "waiting", "assemble", "write", "verified",
                               "local", "failed"}]
    /\ cancelled \in [Downloads -> BOOLEAN]
    /\ written \in [Downloads -> Seq(Pieces)]

DownloadInv == DownloadTypeOK /\ LoopOK /\ WrittenOK

IInv == StoreInv /\ DownloadInv

-----------------------------------------------------------------------------
LEMMA ManifestFacts ==
  /\ Len(Manifest) \in Nat /\ Pieces = 1 .. Len(Manifest)
  /\ \A i \in Pieces : Manifest[i] \in Hashes
BY ManifestAssumption DEF Pieces

LEMMA UpTo ==
  ASSUME NEW n \in Nat
  PROVE  IsFiniteSet(1 .. n) /\ Cardinality(1 .. n) = n
BY FS_Interval

LEMMA StoreStarts == Init => StoreInv
<1> SUFFICES ASSUME Init PROVE StoreInv
  OBVIOUS
<1>1. StoreTypeOK /\ made \in [Nodes -> 0 .. Len(Manifest)] /\ StoreOK
  BY ManifestFacts, FaultsAssumption, NoneAssumption DEF Init, StoreInit, StoreTypeOK, StoreOK
<1>2. \A n \in Nodes : CutFiles(n) = {}
  BY DEF Init, StoreInit, CutFiles
<1>3. IsFiniteSet({}) /\ Cardinality({}) = 0
  BY FS_EmptySet
<1>4. crashes + failures = 0
  BY DEF Init, StoreInit
<1>5. CutOK
  <2> SUFFICES ASSUME NEW n \in Nodes
               PROVE  IsFiniteSet(CutFiles(n)) /\ Cardinality(CutFiles(n)) <= crashes + failures
    BY DEF CutOK
  <2> QED
    BY <1>2, <1>3, <1>4
<1> QED
  BY <1>1, <1>5 DEF StoreInv

\* What is cut off does not grow, or grows by one file with each crash or failed write.
LEMMA CutShrinks ==
  ASSUME StoreTypeOK, CutOK, UNCHANGED <<crashes, failures>>,
         \A n \in Nodes : CutFiles(n)' \subseteq CutFiles(n)
  PROVE  CutOK'
<1> SUFFICES ASSUME NEW n \in Nodes
             PROVE  IsFiniteSet(CutFiles(n)') /\ Cardinality(CutFiles(n)') <= crashes + failures
  BY DEF CutOK
<1>1. IsFiniteSet(CutFiles(n)) /\ Cardinality(CutFiles(n)) <= crashes + failures
  BY DEF CutOK
<1>2. /\ IsFiniteSet(CutFiles(n)')
      /\ Cardinality(CutFiles(n)') <= Cardinality(CutFiles(n))
  BY <1>1, FS_Subset
<1>3. /\ Cardinality(CutFiles(n)) \in Nat /\ Cardinality(CutFiles(n)') \in Nat
      /\ crashes \in Nat /\ failures \in Nat
  BY <1>1, <1>2, FS_CardinalityType, FaultsAssumption DEF StoreTypeOK
<1> QED
  BY <1>1, <1>2, <1>3

LEMMA CutGrows ==
  ASSUME StoreTypeOK, CutOK, NEW h, crashes' + failures' = crashes + failures + 1,
         \A n \in Nodes : CutFiles(n)' \subseteq CutFiles(n) \cup {h}
  PROVE  CutOK'
<1> SUFFICES ASSUME NEW n \in Nodes
             PROVE  /\ IsFiniteSet(CutFiles(n)')
                    /\ Cardinality(CutFiles(n)') <= crashes + failures + 1
  BY DEF CutOK
<1> DEFINE more == CutFiles(n) \cup {h}
<1>1. IsFiniteSet(CutFiles(n)) /\ Cardinality(CutFiles(n)) <= crashes + failures
  BY DEF CutOK
<1>2. Cardinality(CutFiles(n)) \in Nat
  BY <1>1, FS_CardinalityType
<1>3. /\ IsFiniteSet(more)
      /\ \/ Cardinality(more) = Cardinality(CutFiles(n)) + 1
         \/ Cardinality(more) = Cardinality(CutFiles(n))
  BY <1>1, FS_AddElement
<1>4. CutFiles(n)' \subseteq more
  OBVIOUS
<1> HIDE DEF more
<1>5. IsFiniteSet(CutFiles(n)') /\ Cardinality(CutFiles(n)') <= Cardinality(more)
  BY <1>3, <1>4, FS_Subset
<1>6. Cardinality(CutFiles(n)') \in Nat /\ crashes \in Nat /\ failures \in Nat
  BY <1>5, FS_CardinalityType, FaultsAssumption DEF StoreTypeOK
<1> QED
  BY <1>1, <1>2, <1>3, <1>5, <1>6

LEMMA StoreHolds ==
  ASSUME StoreInv, NEW n \in Nodes, SeederStep(n)
  PROVE  StoreInv'
<1> USE DEF StoreInv, StoreTypeOK
<1>1. failures \in Nat /\ crashes \in Nat /\ MaxFaults \in Nat
  BY FaultsAssumption
<1>2. CASE CreatePiece(n)
  <2>1. /\ made[n] + 1 \in Pieces /\ Manifest[made[n] + 1] \in Hashes
        /\ made[n] + 1 \in 0 .. Len(Manifest) /\ up[n] /\ adding[n] = None
    BY <1>2, ManifestFacts DEF CreatePiece
  <2>2. CASE Manifest[made[n] + 1] \in chunks[n] /\ UNCHANGED storeVars
             /\ made' = [made EXCEPT ![n] = @ + 1]
    <3>1. StoreOK'
      BY <2>1, <2>2, ManifestFacts DEF StoreOK, storeVars
    <3>2. \A k \in Nodes : CutFiles(k)' \subseteq CutFiles(k)
      BY <2>2 DEF CutFiles, storeVars
    <3>3. CutOK'
      BY <2>2, <3>2, CutShrinks DEF storeVars
    <3> QED
      BY <2>1, <2>2, <3>1, <3>3 DEF storeVars
  <2>3. CASE BeginAddChunk(n, Manifest[made[n] + 1]) /\ UNCHANGED made
    <3>1. StoreTypeOK'
      BY <2>1, <2>3 DEF BeginAddChunk
    <3>2. StoreOK'
      BY <1>2, <2>1, <2>3, ManifestFacts DEF BeginAddChunk, CreatePiece, StoreOK
    <3>3. \A k \in Nodes : CutFiles(k)' \subseteq CutFiles(k)
      BY <2>1, <2>3, NoneAssumption DEF BeginAddChunk, CutFiles
    <3>4. CutOK'
      BY <2>3, <3>3, CutShrinks DEF BeginAddChunk
    <3> QED
      BY <2>3, <3>1, <3>2, <3>4
  <2> QED
    BY <1>2, <2>2, <2>3 DEF CreatePiece
<1>3. CASE PieceCreated(n)
  <2>1. /\ adding[n] # None /\ adding[n] \in Hashes /\ up[n]
        /\ made[n] + 1 \in 0 .. Len(Manifest) /\ adding[n] = Manifest[made[n] + 1]
    BY <1>3, ManifestFacts DEF PieceCreated, EndAddChunk, AddChunkFails, StoreOK
  <2>2. made' = [made EXCEPT ![n] = @ + 1]
    BY <1>3 DEF PieceCreated
  <2>3. CASE EndAddChunk(n)
    <3>1. StoreTypeOK'
      BY <2>1, <2>3 DEF EndAddChunk, Indexed
    <3>2. StoreOK'
      BY <2>1, <2>2, <2>3, ManifestFacts DEF EndAddChunk, Indexed, StoreOK
    <3>3. \A k \in Nodes : CutFiles(k)' \subseteq CutFiles(k)
      BY <2>1, <2>3 DEF EndAddChunk, CutFiles
    <3>4. CutOK'
      BY <2>3, <3>3, CutShrinks DEF EndAddChunk
    <3> QED
      BY <2>1, <2>2, <3>1, <3>2, <3>4
  <2>4. CASE AddChunkFails(n)
    <3>1. StoreTypeOK' /\ crashes' + failures' = crashes + failures + 1
      BY <1>1, <2>4 DEF AddChunkFails, IndexOnFailure
    <3>2. file[n][adding[n]] # "none"
      BY <2>1 DEF StoreOK
    <3>3. StoreOK'
      BY <2>1, <2>2, <2>4, <3>2, ManifestFacts DEF AddChunkFails, IndexOnFailure, StoreOK
    <3>4. \A k \in Nodes : CutFiles(k)' \subseteq CutFiles(k) \cup {adding[n]}
      BY <2>1, <2>4 DEF AddChunkFails, CutFiles
    <3>5. CutOK'
      BY <3>1, <3>4, CutGrows
    <3> QED
      BY <2>1, <2>2, <3>1, <3>3, <3>5
  <2> QED
    BY <1>3, <2>3, <2>4 DEF PieceCreated
<1>4. CASE CreateAgain(n)
  <2>1. made' = [made EXCEPT ![n] = 0] /\ UNCHANGED storeVars
    BY <1>4 DEF CreateAgain
  <2>2. StoreOK'
    BY <1>4, <2>1, ManifestFacts DEF CreateAgain, StoreOK, storeVars
  <2>3. \A k \in Nodes : CutFiles(k)' \subseteq CutFiles(k)
    BY <2>1 DEF CutFiles, storeVars
  <2>4. CutOK'
    BY <2>1, <2>3, CutShrinks DEF storeVars
  <2> QED
    BY <2>1, <2>2, <2>4, ManifestFacts DEF storeVars
<1>5. CASE StopNode(n) /\ made' = [made EXCEPT ![n] = 0]
  <2>1. StoreTypeOK' /\ StoreOK'
    BY <1>5, ManifestFacts DEF StopNode, StoreOK
  <2>2. \A k \in Nodes : CutFiles(k)' \subseteq CutFiles(k)
    BY <1>5 DEF StopNode, CutFiles
  <2>3. CutOK'
    BY <1>5, <2>2, CutShrinks DEF StopNode
  <2>4. made' \in [Nodes -> 0 .. Len(Manifest)]
    BY <1>5, ManifestFacts
  <2> QED
    BY <2>1, <2>3, <2>4
<1>6. CASE CrashNode(n) /\ made' = [made EXCEPT ![n] = 0]
  <2>1. StoreTypeOK' /\ crashes' + failures' = crashes + failures + 1
    BY <1>1, <1>6 DEF CrashNode
  <2>2. StoreOK'
    BY <1>6, ManifestFacts DEF CrashNode, StoreOK
  <2>3. \A k \in Nodes : CutFiles(k)' \subseteq CutFiles(k) \cup {adding[n]}
    BY <1>6 DEF CrashNode, CutFiles
  <2>4. CutOK'
    BY <2>1, <2>3, CutGrows
  <2>5. made' \in [Nodes -> 0 .. Len(Manifest)]
    BY <1>6, ManifestFacts
  <2> QED
    BY <2>1, <2>2, <2>4, <2>5
<1>7. CASE StartNode(n) /\ UNCHANGED made
  <2>1. StoreTypeOK' /\ StoreOK'
    BY <1>7 DEF StartNode, StoreOK
  <2>2. \A k \in Nodes : CutFiles(k)' \subseteq CutFiles(k)
    BY <1>7 DEF StartNode, CutFiles
  <2>3. CutOK'
    BY <1>7, <2>2, CutShrinks DEF StartNode
  <2> QED
    BY <1>7, <2>1, <2>3
<1> QED
  BY <1>2, <1>3, <1>4, <1>5, <1>6, <1>7 DEF SeederStep

LEMMA StoreSame == StoreInv /\ UNCHANGED <<storeVars, made>> => StoreInv'
<1> SUFFICES ASSUME StoreInv, UNCHANGED <<storeVars, made>> PROVE StoreInv'
  OBVIOUS
<1>1. StoreTypeOK' /\ StoreOK'
  BY DEF StoreInv, StoreTypeOK, StoreOK, storeVars
<1>2. made' \in [Nodes -> 0 .. Len(Manifest)]
  BY DEF StoreInv
<1>3. \A n \in Nodes : CutFiles(n)' \subseteq CutFiles(n)
  BY DEF CutFiles, storeVars
<1>4. CutOK'
  BY <1>3, CutShrinks DEF StoreInv, storeVars
<1> QED
  BY <1>1, <1>2, <1>4 DEF StoreInv

-----------------------------------------------------------------------------
LEMMA DownloadsStart == Init => DownloadInv
<1> SUFFICES ASSUME Init PROVE DownloadInv
  OBVIOUS
<1>1. DownloadTypeOK /\ LoopOK
  BY RegisteredAssumption DEF Init, DownloadTypeOK, LoopOK
<1>2. \A d \in Downloads : Unwritten(d) = 1 .. Len(Manifest) /\ Len(written[d]) = 0
  BY ManifestFacts DEF Init, Unwritten
<1>3. /\ IsFiniteSet(1 .. Len(Manifest))
      /\ Cardinality(1 .. Len(Manifest)) = Len(Manifest)
  BY ManifestFacts, UpTo
<1>4. WrittenOK
  BY <1>2, <1>3, ManifestFacts DEF Init, WrittenOK
<1> QED
  BY <1>1, <1>4 DEF DownloadInv

\* What is written is disturbed only by a call that writes.
LEMMA WrittenSame ==
  ASSUME WrittenOK, written' = written,
         \A d \in Downloads : call'[d] \in {"write", "verified"} => call'[d] = call[d],
         \A d \in Downloads, i \in Pieces : data[d][i] = "whole" => data'[d][i] = "whole"
  PROVE  WrittenOK'
<1> SUFFICES ASSUME NEW d \in Downloads PROVE WrittenOK!(d)'
  BY DEF WrittenOK
<1>1. Unwritten(d)' = Unwritten(d)
  BY DEF Unwritten
<1> QED
  BY <1>1 DEF WrittenOK

\* The loop of a download.
LEMMA LoopHolds ==
  ASSUME StoreInv, DownloadInv, NEW d \in Downloads,
         \/ SelectRarestPiece(d) \/ NoPeers(d) \/ LoopReturns(d)
         \/ \E n \in Nodes : RequestPiece(d, n)
         \/ PieceArrives(d) \/ PieceFails(d)
  PROVE  DownloadInv'
<1> USE DEF DownloadTypeOK, LoopOK
<1>1. DownloadTypeOK /\ LoopOK /\ WrittenOK
  BY DEF DownloadInv
<1>2. UNCHANGED <<written, call>>
  BY DEF SelectRarestPiece, NoPeers, LoopReturns, RequestPiece, PieceArrives, PieceFails
<1>3. DownloadTypeOK' /\ LoopOK'
      /\ \A e \in Downloads, i \in Pieces : data[e][i] = "whole" => data'[e][i] = "whole"
  <2>1. CASE SelectRarestPiece(d)
    <3>1. PICK i \in Candidates(d) : piece' = [piece EXCEPT ![d] = i]
      BY <2>1 DEF SelectRarestPiece
    <3>2. i \in Pieces
      BY DEF Candidates
    <3>3. /\ loop' = [loop EXCEPT ![d] = "peer"]
          /\ UNCHANGED <<peers, active, from, data, call, cancelled, written>>
      BY <2>1 DEF SelectRarestPiece
    <3> QED
      BY <1>1, <3>1, <3>2, <3>3
  <2>2. CASE NoPeers(d)
    BY <1>1, <2>2 DEF NoPeers, SelectAgain
  <2>3. CASE LoopReturns(d)
    BY <1>1, <2>3 DEF LoopReturns
  <2>4. CASE \E n \in Nodes : RequestPiece(d, n)
    BY <1>1, <2>4 DEF RequestPiece
  <2>5. CASE PieceArrives(d)
    <3>1. /\ data' = [data EXCEPT ![d][piece[d]] = "whole"]
          /\ piece[d] \in Pieces
      BY <1>1, <2>5 DEF PieceArrives, Accepts
    <3>2. /\ loop' = [loop EXCEPT ![d] = "select"]
          /\ piece' = [piece EXCEPT ![d] = None]
          /\ from' = [from EXCEPT ![d] = None]
          /\ UNCHANGED <<peers, active, call, cancelled, written>>
      BY <2>5 DEF PieceArrives, SelectAgain
    <3> QED
      BY <1>1, <3>1, <3>2
  <2>6. CASE PieceFails(d)
    BY <1>1, <2>6 DEF PieceFails, SelectAgain
  <2> QED
    BY <2>1, <2>2, <2>3, <2>4, <2>5, <2>6
<1>4. WrittenOK'
  BY <1>1, <1>2, <1>3, WrittenSame
<1> QED
  BY <1>3, <1>4 DEF DownloadInv

\* The call that waits for a download.
LEMMA WaitHolds ==
  ASSUME DownloadInv, NEW d \in Downloads,
         \/ NothingToDownload(d) \/ StartDownload(d) \/ Cancel(d)
         \/ DownloadEnds(d) \/ WriteFails(d)
  PROVE  DownloadInv'
<1> USE DEF DownloadTypeOK, LoopOK
<1>1. DownloadTypeOK /\ LoopOK /\ WrittenOK
  BY DEF DownloadInv
<1>2. /\ DownloadTypeOK' /\ LoopOK'
      /\ UNCHANGED <<written, data>>
      /\ \A e \in Downloads : call'[e] \in {"write", "verified"} => call'[e] = call[e]
  <2>1. CASE NothingToDownload(d)
    BY <1>1, <2>1 DEF NothingToDownload
  <2>2. CASE StartDownload(d)
    BY <1>1, <2>2 DEF StartDownload
  <2>3. CASE Cancel(d)
    BY <1>1, <2>3 DEF Cancel
  <2>4. CASE DownloadEnds(d)
    BY <1>1, <2>4 DEF DownloadEnds
  <2>5. CASE WriteFails(d)
    BY <1>1, <2>5 DEF WriteFails
  <2> QED
    BY <2>1, <2>2, <2>3, <2>4, <2>5
<1>3. WrittenOK'
  BY <1>1, <1>2, WrittenSame
<1> QED
  BY <1>2, <1>3 DEF DownloadInv

\* The call that assembles and verifies it.
LEMMA AssemblyHolds ==
  ASSUME DownloadInv, NEW d \in Downloads,
         BeginAssemble(d) \/ (\E i \in Pieces : WritePiece(d, i)) \/ VerifyGGUF(d)
  PROVE  DownloadInv'
<1> USE DEF DownloadTypeOK, LoopOK
<1>1. DownloadTypeOK /\ LoopOK /\ WrittenOK
  BY DEF DownloadInv
<1>2. CASE BeginAssemble(d) \/ VerifyGGUF(d)
  <2>1. DownloadTypeOK' /\ LoopOK' /\ UNCHANGED <<written, data>>
    BY <1>1, <1>2 DEF BeginAssemble, VerifyGGUF
  <2>2. WrittenOK'
    <3> SUFFICES ASSUME NEW e \in Downloads PROVE WrittenOK!(e)'
      BY DEF WrittenOK
    <3>1. Unwritten(e)' = Unwritten(e)
      BY <2>1 DEF Unwritten
    <3>2. CASE e # d
      <4>1. call'[e] = call[e]
        BY <1>1, <1>2, <3>2 DEF BeginAssemble, VerifyGGUF
      <4> QED
        BY <1>1, <2>1, <3>1, <4>1 DEF WrittenOK
    <3>3. CASE e = d /\ BeginAssemble(d)
      <4>1. active \in Downloads
        BY <1>1, <3>3 DEF BeginAssemble
      <4>2. Complete(active) => \A i \in Pieces : data[active][i] = "whole"
        BY <1>1, <4>1 DEF Complete, Downloaded
      <4>3. (call'[d] = "write" /\ Complete(active)) \/ call'[d] = "failed"
        BY <1>1, <3>3 DEF BeginAssemble
      <4> QED
        BY <1>1, <2>1, <3>1, <3>3, <4>1, <4>2, <4>3 DEF WrittenOK
    <3>4. CASE e = d /\ VerifyGGUF(d)
      <4>1. call[d] = "write" /\ Unwritten(d) = {}
        BY <3>4 DEF VerifyGGUF
      <4> QED
        BY <1>1, <2>1, <3>1, <3>4, <4>1 DEF WrittenOK
    <3> QED
      BY <1>2, <3>2, <3>3, <3>4
  <2> QED
    BY <2>1, <2>2 DEF DownloadInv
<1>3. ASSUME NEW i \in Pieces, WritePiece(d, i)
      PROVE  DownloadInv'
  <2>1. /\ i \in Unwritten(d) /\ call[d] = "write"
        /\ written' = [written EXCEPT ![d] = Append(@, i)]
        /\ UNCHANGED <<active, loop, piece, from, data, call, cancelled, peers>>
    BY <1>3 DEF WritePiece
  <2>2. DownloadTypeOK' /\ LoopOK'
    BY <1>1, <2>1
  <2>3. written[d] \in Seq(Pieces) /\ written'[d] = Append(written[d], i)
    BY <1>1, <2>1
  <2>4. Len(written[d]) \in Nat /\ Len(written'[d]) = Len(written[d]) + 1
    BY <2>3
  <2>5. Unwritten(d)' = Unwritten(d) \ {i}
    BY <2>3 DEF Unwritten
  <2>6. /\ IsFiniteSet(Unwritten(d))
        /\ Len(written[d]) + Cardinality(Unwritten(d)) = Len(Manifest)
        /\ \E e \in Downloads : \A k \in Pieces : data[e][k] = "whole"
    BY <1>1, <2>1 DEF WrittenOK
  <2>7. /\ IsFiniteSet(Unwritten(d) \ {i})
        /\ Cardinality(Unwritten(d) \ {i}) = Cardinality(Unwritten(d)) - 1
        /\ Cardinality(Unwritten(d)) \in Nat
    BY <2>1, <2>6, FS_RemoveElement, FS_CardinalityType
  <2>8. WrittenOK'
    <3> SUFFICES ASSUME NEW e \in Downloads PROVE WrittenOK!(e)'
      BY DEF WrittenOK
    <3>1. CASE e = d
      <4>1. Len(written'[d]) + Cardinality(Unwritten(d)') = Len(Manifest)
        BY <2>4, <2>5, <2>6, <2>7
      <4>2. IsFiniteSet(Unwritten(d)')
        BY <2>5, <2>7
      <4> QED
        BY <2>1, <2>6, <3>1, <4>1, <4>2
    <3>2. CASE e # d
      <4>1. written'[e] = written[e]
        BY <1>1, <2>1, <3>2
      <4>2. Unwritten(e)' = Unwritten(e)
        BY <4>1 DEF Unwritten
      <4> QED
        BY <1>1, <2>1, <4>1, <4>2 DEF WrittenOK
    <3> QED
      BY <3>1, <3>2
  <2> QED
    BY <2>2, <2>8 DEF DownloadInv
<1> QED
  BY <1>2, <1>3

LEMMA DownloadsSame ==
  DownloadInv /\ UNCHANGED <<peers, downloadVars>> => DownloadInv'
<1> SUFFICES ASSUME DownloadInv, UNCHANGED <<peers, downloadVars>> PROVE DownloadInv'
  OBVIOUS
<1>1. DownloadTypeOK' /\ LoopOK'
  BY DEF DownloadInv, DownloadTypeOK, LoopOK, downloadVars
<1>2. WrittenOK'
  BY WrittenSame DEF DownloadInv, downloadVars
<1> QED
  BY <1>1, <1>2 DEF DownloadInv

LEMMA RegisterHolds ==
  ASSUME DownloadInv, NEW n \in Nodes, NEW h \in Hashes, RegisterPeerPiece(n, h)
  PROVE  DownloadInv'
<1>1. UNCHANGED downloadVars
  BY DEF RegisterPeerPiece
<1>2. DownloadTypeOK' /\ LoopOK'
  BY <1>1, RegisteredAssumption
  DEF RegisterPeerPiece, DownloadInv, DownloadTypeOK, LoopOK, downloadVars
<1>3. WrittenOK'
  BY <1>1, WrittenSame DEF DownloadInv, downloadVars
<1> QED
  BY <1>2, <1>3 DEF DownloadInv

\* Only a seeder's step changes the stores.
LEMMA StoresOnlySeeders ==
  ASSUME Next
  PROVE  \/ \E n \in Nodes : SeederStep(n) /\ UNCHANGED <<peers, downloadVars>>
         \/ UNCHANGED <<storeVars, made>>
BY DEF Next, RegisterPeerPiece, NothingToDownload, StartDownload, Cancel, LoopStep,
   SelectRarestPiece, NoPeers, LoopReturns, RequestPiece, PieceArrives, PieceFails,
   CallStep, DownloadEnds, BeginAssemble, WritePiece, WriteFails, VerifyGGUF

LEMMA StepHolds == IInv /\ [Next]_vars => IInv'
<1> SUFFICES ASSUME IInv, [Next]_vars PROVE IInv'
  OBVIOUS
<1>1. StoreInv'
  BY StoresOnlySeeders, StoreHolds, StoreSame DEF IInv, vars
<1>2. DownloadInv'
  BY LoopHolds, WaitHolds, AssemblyHolds, RegisterHolds, DownloadsSame
  DEF IInv, Next, LoopStep, CallStep, vars
<1> QED
  BY <1>1, <1>2 DEF IInv

LEMMA InvariantHolds == Spec => []IInv
<1>1. Init => IInv
  BY StoreStarts, DownloadsStart DEF IInv
<1> QED
  BY <1>1, StepHolds, PTL DEF Spec

-----------------------------------------------------------------------------
\* Type correctness of the stores and the downloads.
THEOREM TorrentTypes == Spec => []TypeOK
<1>1. IInv => TypeOK
  BY DEF IInv, StoreInv, DownloadInv, DownloadTypeOK, TypeOK
<1> QED
  BY InvariantHolds, <1>1, PTL

\* A chunk that is cut off comes to be served only when its node starts, whatever
\* writes failed, whichever nodes crashed and whatever is stored concurrently.
THEOREM OnlyStartsServeCut == Spec => OnlyStartsServeCutChunks
<1>1. IInv /\ [Next]_vars =>
        [\A n \in Nodes, h \in Hashes : IndexedCut(n, h)' /\ ~ IndexedCut(n, h) => ~ up[n]]_storeVars
  <2> SUFFICES ASSUME IInv, [Next]_vars, ~ UNCHANGED storeVars,
                      NEW k \in Nodes, NEW h \in Hashes,
                      IndexedCut(k, h)', ~ IndexedCut(k, h)
               PROVE  ~ up[k]
    BY DEF storeVars
  <2>1. StoreTypeOK
    BY DEF IInv, StoreInv
  <2>2. PICK n \in Nodes : SeederStep(n)
    BY StoresOnlySeeders DEF vars
  <2>3. CASE StartNode(n)
    BY <2>1, <2>3 DEF StartNode, IndexedCut, StoreTypeOK
  <2>4. CASE StopNode(n) \/ CrashNode(n)
    BY <2>1, <2>4 DEF StopNode, CrashNode, IndexedCut, StoreTypeOK
  <2>5. CASE AddChunkFails(n)
    BY <2>5 DEF AddChunkFails, IndexOnFailure, IndexedCut
  <2>6. CASE EndAddChunk(n)
    BY <2>1, <2>6 DEF EndAddChunk, Indexed, IndexedCut, StoreTypeOK
  <2>7. ASSUME NEW g \in Hashes, BeginAddChunk(n, g) PROVE FALSE
    BY <2>1, <2>7 DEF BeginAddChunk, IndexedCut, StoreTypeOK
  <2>8. made[n] < Len(Manifest) => Manifest[made[n] + 1] \in Hashes
    BY ManifestFacts DEF IInv, StoreInv
  <2> QED
    BY <2>2, <2>3, <2>4, <2>5, <2>6, <2>7, <2>8 DEF SeederStep, CreatePiece, PieceCreated, CreateAgain
<1> QED
  BY InvariantHolds, <1>1, PTL DEF Spec, OnlyStartsServeCutChunks

\* Of a manifest that was created, its node serves every piece but at most one for each
\* failed write and each crash, for manifests of any length, with pieces of the same
\* content, and after any starts and stops.
THEOREM CreatedManifestsAreServed == Spec => []CreatedManifestServed
<1>1. IInv => CreatedManifestServed
  <2> SUFFICES ASSUME IInv, NEW n \in Nodes, made[n] = Len(Manifest)
               PROVE  Cardinality({h \in Range(Manifest) : GetChunk(n, h) # "whole"})
                        <= crashes + failures
    BY DEF CreatedManifestServed
  <2> DEFINE unserved == {h \in Range(Manifest) : GetChunk(n, h) # "whole"}
  <2>1. StoreTypeOK /\ StoreOK /\ CutOK
    BY DEF IInv, StoreInv
  <2>2. adding[n] = None /\ up[n]
    <3>1. Len(Manifest) > 0
      BY ManifestAssumption
    <3> QED
      BY <2>1, <3>1, ManifestFacts DEF StoreOK
  <2>3. ASSUME NEW h \in unserved PROVE h \in CutFiles(n)
    <3>1. PICK i \in 1 .. Len(Manifest) : h = Manifest[i]
      BY ManifestFacts DEF Range, Pieces
    <3>2. h \in Hashes /\ file[n][h] # "none"
      BY <2>1, <3>1, ManifestFacts DEF StoreOK
    <3>3. file[n][h] # "whole"
      BY <2>1, <2>2, <3>2 DEF StoreOK, GetChunk
    <3> QED
      BY <2>1, <2>2, <3>2, <3>3, NoneAssumption DEF StoreTypeOK, CutFiles
  <2>4. IsFiniteSet(CutFiles(n)) /\ Cardinality(CutFiles(n)) <= crashes + failures
    BY <2>1 DEF CutOK
  <2>5. crashes \in Nat /\ failures \in Nat
    BY <2>1, FaultsAssumption DEF StoreTypeOK
  <2>6. unserved \subseteq CutFiles(n)
    BY <2>3
  <2> HIDE DEF unserved
  <2>7. IsFiniteSet(unserved) /\ Cardinality(unserved) <= Cardinality(CutFiles(n))
    BY <2>4, <2>6, FS_Subset
  <2>8. Cardinality(unserved) \in Nat /\ Cardinality(CutFiles(n)) \in Nat
    BY <2>4, <2>7, FS_CardinalityType
  <2>9. Cardinality(unserved) <= crashes + failures
    BY <2>4, <2>5, <2>7, <2>8
  <2> QED
    BY <2>9 DEF unserved
<1> QED
  BY InvariantHolds, <1>1, PTL

\* A verified file holds each piece of the model once, each with the content of
\* its hash, for any number of pieces, seeders and concurrent downloads.
THEOREM VerifiedIsComplete == Spec => []VerifiedComplete
<1>1. IInv => VerifiedComplete
  <2> SUFFICES ASSUME IInv, NEW d \in Downloads, call[d] = "verified"
               PROVE  /\ Len(written[d]) = Len(Manifest)
                      /\ \A i \in Pieces : \E k \in DOMAIN written[d] : written[d][k] = i
                      /\ \E e \in Downloads : \A i \in Pieces : data[e][i] = "whole"
    BY DEF VerifiedComplete
  <2>1. Unwritten(d) = {} /\ Len(written[d]) + Cardinality(Unwritten(d)) = Len(Manifest)
    BY DEF IInv, DownloadInv, WrittenOK
  <2>2. Len(written[d]) \in Nat
    BY DEF IInv, DownloadInv, DownloadTypeOK
  <2>3. Len(written[d]) = Len(Manifest)
    BY <2>1, <2>2, FS_EmptySet
  <2>4. \A i \in Pieces : \E k \in DOMAIN written[d] : written[d][k] = i
    BY <2>1 DEF Unwritten
  <2> QED
    BY <2>3, <2>4 DEF IInv, DownloadInv, WrittenOK
<1> QED
  BY InvariantHolds, <1>1, PTL

-----------------------------------------------------------------------------
\* A piece that is being fetched is one the download does not have, and a loop
\* that has ended without being cancelled has them all.
FetchOK ==
    \A d \in Downloads :
        /\ loop[d] \in {"peer", "fetch"} => piece[d] \in Candidates(d)
        /\ loop[d] = "closed" => cancelled[d] \/ Complete(d)

\* What a download has it keeps, so each piece is accepted at most once.
PiecesStay ==
    \A d \in Downloads : \A i \in Downloaded(d) : data'[d][i] = data[d][i]

FetchInv == IInv /\ FetchOK

LEMMA FetchHolds == FetchInv /\ [Next]_vars => FetchInv' /\ PiecesStay
<1> SUFFICES ASSUME FetchInv, [Next]_vars PROVE FetchOK' /\ PiecesStay
  BY StepHolds DEF FetchInv
<1> USE DEF FetchOK, PiecesStay, Candidates, Downloaded, Complete
<1>1. DownloadTypeOK /\ FetchOK
  BY DEF FetchInv, IInv, DownloadInv
<1> USE DEF DownloadTypeOK
<1>2. ASSUME NEW d \in Downloads, SelectRarestPiece(d)
      PROVE  FetchOK' /\ PiecesStay
  <2>1. PICK i \in Candidates(d) : piece' = [piece EXCEPT ![d] = i]
    BY <1>2 DEF SelectRarestPiece
  <2>2. loop' = [loop EXCEPT ![d] = "peer"] /\ UNCHANGED <<data, cancelled>>
    BY <1>2 DEF SelectRarestPiece
  <2> QED
    BY <1>1, <2>1, <2>2
<1>3. ASSUME NEW d \in Downloads, NoPeers(d) \/ PieceFails(d)
      PROVE  FetchOK' /\ PiecesStay
  <2>1. loop' = [loop EXCEPT ![d] = "select"] /\ piece' = [piece EXCEPT ![d] = None]
    BY <1>3 DEF NoPeers, PieceFails, SelectAgain
  <2>2. UNCHANGED <<data, cancelled>>
    BY <1>3 DEF NoPeers, PieceFails
  <2> QED
    BY <1>1, <2>1, <2>2
<1>4. ASSUME NEW d \in Downloads, NEW n \in Nodes, RequestPiece(d, n)
      PROVE  FetchOK' /\ PiecesStay
  BY <1>1, <1>4 DEF RequestPiece
<1>5. ASSUME NEW d \in Downloads, PieceArrives(d)
      PROVE  FetchOK' /\ PiecesStay
  <2>1. data' = [data EXCEPT ![d][piece[d]] = "whole"] /\ piece[d] \in Candidates(d)
    BY <1>1, <1>5 DEF PieceArrives, Accepts
  <2>2. /\ loop' = [loop EXCEPT ![d] = "select"]
        /\ piece' = [piece EXCEPT ![d] = None] /\ UNCHANGED cancelled
    BY <1>5 DEF PieceArrives, SelectAgain
  <2>3. PiecesStay
    BY <1>1, <2>1
  <2>4. \A e \in Downloads : Complete(e) => Complete(e)'
    BY <1>1, <2>1
  <2>5. \A e \in Downloads \ {d} : data'[e] = data[e] /\ loop'[e] = loop[e] /\ piece'[e] = piece[e]
    BY <1>1, <2>1, <2>2
  <2> QED
    BY <1>1, <2>2, <2>3, <2>4, <2>5
<1>6. ASSUME NEW d \in Downloads, LoopReturns(d)
      PROVE  FetchOK' /\ PiecesStay
  BY <1>1, <1>6 DEF LoopReturns
<1>7. ASSUME NEW d \in Downloads, StartDownload(d)
      PROVE  FetchOK' /\ PiecesStay
  BY <1>1, <1>7 DEF StartDownload
<1>8. ASSUME NEW d \in Downloads, Cancel(d)
      PROVE  FetchOK' /\ PiecesStay
  BY <1>1, <1>8 DEF Cancel
<1>9. CASE UNCHANGED <<loop, piece, data, cancelled>>
  BY <1>1, <1>9
<1>10. \/ UNCHANGED <<loop, piece, data, cancelled>>
       \/ \E d \in Downloads :
            \/ SelectRarestPiece(d) \/ NoPeers(d) \/ PieceFails(d) \/ PieceArrives(d)
            \/ LoopReturns(d) \/ StartDownload(d) \/ Cancel(d)
            \/ \E n \in Nodes : RequestPiece(d, n)
  BY DEF Next, RegisterPeerPiece, NothingToDownload, LoopStep, CallStep, DownloadEnds,
     BeginAssemble, WritePiece, WriteFails, VerifyGGUF, downloadVars, vars
<1> QED
  BY <1>2, <1>3, <1>4, <1>5, <1>6, <1>7, <1>8, <1>9, <1>10

\* selectRarestPiece, downloadPiece: however many peers fail, restart or answer
\* with something else, a download never asks again for a piece it has nor gives
\* one back, and its loop ends by itself with all of them only.
THEOREM PiecesAreFetchedOnce == Spec => []FetchOK /\ [][PiecesStay]_vars
<1>1. Init => FetchOK
  BY DEF Init, FetchOK
<1>2. Spec => []FetchInv
  BY InvariantHolds, FetchHolds, <1>1, PTL DEF FetchInv, Spec
<1>3. Spec => [][PiecesStay]_vars
  BY <1>2, FetchHolds, PTL DEF Spec
<1> QED
  BY <1>2, <1>3, PTL DEF FetchInv
=============================================================================
