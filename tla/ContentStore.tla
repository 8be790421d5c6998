---------------------------- MODULE ContentStore ----------------------------
(***************************************************************************)
(* storage.ContentStore (storage/content_store.go) on every node that      *)
(* seeds a model: chunks are files named by the SHA-256 of their content,  *)
(* and an index in memory of the files there are.  A crash or a failed     *)
(* write may leave a chunk file that is cut off, which the index takes in  *)
(* at the next start.                                                      *)
(***************************************************************************)
EXTENDS Integers, FiniteSets

CONSTANTS Nodes,            \* nodes with a content store
          Hashes,           \* content hashes, each standing for its content
          MaxFaults,        \* bound: crashes and failed writes, in all
          None

ASSUME FaultsAssumption == MaxFaults \in Nat
ASSUME NoneAssumption == None \notin Hashes

VARIABLES up,               \* the node's process runs
          file,             \* each chunk file: "none", "cut" or "whole"
          chunks,           \* ContentStore.chunks: the hashes indexed
          adding,           \* the chunk AddChunk is writing, holding the mutex
          crashes,
          failures          \* writes that failed

storeVars == <<up, file, chunks, adding, crashes, failures>>

StoreInit ==
    /\ up = [n \in Nodes |-> TRUE]
    /\ file = [n \in Nodes |-> [h \in Hashes |-> "none"]]
    /\ chunks = [n \in Nodes |-> {}]
    /\ adding = [n \in Nodes |-> None]
    /\ crashes = 0 /\ failures = 0

\* AddChunk of a chunk that is not indexed: os.WriteFile creates the file, or
\* truncates the one it finds.
BeginAddChunk(n, h) ==
    /\ up[n] /\ adding[n] = None
    /\ h \notin chunks[n]
    /\ adding' = [adding EXCEPT ![n] = h]
    /\ file' = [file EXCEPT ![n][h] = "cut"]
    /\ UNCHANGED <<up, chunks, crashes, failures>>

\* Mutant: indexed under a key that is not its hash.
IndexedElsewhere(n) == [chunks EXCEPT ![n] = @ \cup {None}]

Indexed(n) == [chunks EXCEPT ![n] = @ \cup {adding[n]}]

EndAddChunk(n) ==
    /\ up[n] /\ adding[n] # None
    /\ file' = [file EXCEPT ![n][adding[n]] = "whole"]
    /\ chunks' = Indexed(n)
    /\ adding' = [adding EXCEPT ![n] = None]
    /\ UNCHANGED <<up, crashes, failures>>

\* Mutant: a chunk is indexed although writing it failed.
IndexedOnFailure(n) == [chunks EXCEPT ![n] = @ \cup {adding[n]}]

IndexOnFailure(n) == chunks

\* The disk is full: an error, and what was written stays.
AddChunkFails(n) ==
    /\ up[n] /\ adding[n] # None /\ crashes + failures < MaxFaults
    /\ failures' = failures + 1
    /\ chunks' = IndexOnFailure(n)
    /\ adding' = [adding EXCEPT ![n] = None]
    /\ UNCHANGED <<up, file, crashes>>

\* The node ends while it writes nothing.  Stop has nothing to clean up, and the index is
\* in memory only; main waits for no AddChunk, so to end in one is a crash.
StopNode(n) ==
    /\ up[n] /\ adding[n] = None
    /\ up' = [up EXCEPT ![n] = FALSE]
    /\ chunks' = [chunks EXCEPT ![n] = {}]
    /\ UNCHANGED <<file, adding, crashes, failures>>

CrashNode(n) ==
    /\ up[n] /\ crashes + failures < MaxFaults
    /\ up' = [up EXCEPT ![n] = FALSE]
    /\ chunks' = [chunks EXCEPT ![n] = {}]
    /\ adding' = [adding EXCEPT ![n] = None]
    /\ crashes' = crashes + 1
    /\ UNCHANGED <<file, failures>>

\* indexChunks: every file with the name of a hash, whatever it holds.
StartNode(n) ==
    /\ ~ up[n]
    /\ up' = [up EXCEPT ![n] = TRUE]
    /\ chunks' = [chunks EXCEPT ![n] = {h \in Hashes : file[n][h] # "none"}]
    /\ UNCHANGED <<file, adding, crashes, failures>>

\* GetChunk: nothing for a hash that is not indexed, and nothing yet while
\* AddChunk holds the mutex, else what the file holds, unchecked.
GetChunk(n, h) ==
    IF up[n] /\ adding[n] = None /\ h \in chunks[n] THEN file[n][h] ELSE "none"

-----------------------------------------------------------------------------
StoreTypeOK ==
    /\ up \in [Nodes -> BOOLEAN]
    /\ file \in [Nodes -> [Hashes -> {"none", "cut", "whole"}]]
    /\ chunks \in [Nodes -> SUBSET Hashes]
    /\ adding \in [Nodes -> Hashes \cup {None}]
    /\ crashes \in 0 .. MaxFaults /\ failures \in 0 .. MaxFaults

\* A chunk that is indexed although its file is cut off.
IndexedCut(n, h) == h \in chunks[n] /\ file[n][h] = "cut"

\* content_store.go:22 "each chunk is identified by its SHA-256 hash": while a node runs,
\* no crash of another node, failed write or repeated AddChunk makes it serve a chunk
\* under a hash it has not.  Only the start of the node does, which indexes by name what
\* a crash or a failed write before it has left.
OnlyStartsServeCutChunks ==
    [][\A n \in Nodes, h \in Hashes : IndexedCut(n, h)' /\ ~ IndexedCut(n, h) => ~ up[n]]_storeVars
=============================================================================
