------------------------------ MODULE Startup -------------------------------
(***************************************************************************)
(* What a provider's main does before the sidecar (cmd/provider/main.go):  *)
(* NewHost, which reads or creates the key that is the node's identity     *)
(* (network/libp2p/host.go), and DownloadBinary, which fetches             *)
(* llama-rpc-server (execution/llamacpp/sidecar.go).  Both write files in  *)
(* place that a later start takes as they are.  The process may end and be *)
(* started again at any time.                                              *)
(***************************************************************************)
EXTENDS Integers, FiniteSets

CONSTANT MaxFaults          \* bound: reads, writes and downloads that fail, and all
                            \* that may go wrong later (module Sidecar)
ASSUME FaultsAssumption == MaxFaults \in Nat

None == 0                   \* no file; keys are numbered from 1
Cut == -1                   \* a file that was not written to its end

VARIABLES boot,             \* where main is
          keyFile,          \* node.key: a key, None, Cut
          key,              \* the private key in use
          announced,        \* keys the node has been on the network with
          misread,          \* node.key was there and could not be read
          binary,           \* llama-rpc-server: "none", "cut", "whole"
          faults

startupVars == <<boot, keyFile, key, announced, misread, binary>>

StartupInit ==
    /\ boot = "load"
    /\ keyFile = None /\ key = None
    /\ announced = {} /\ misread = FALSE
    /\ binary = "none"
    /\ faults = 0

Fault == faults < MaxFaults /\ faults' = faults + 1

\* loadOrCreateIdentity: a key that does not parse is fatal.
LoadKey ==
    /\ boot = "load" /\ keyFile # None
    /\ key' = keyFile
    /\ boot' = IF keyFile = Cut THEN "fatal" ELSE "host"
    /\ UNCHANGED <<keyFile, announced, misread, binary, faults>>

\* os.ReadFile fails, for want of a file or for another reason.
ReadFails ==
    /\ boot = "load"
    /\ \/ keyFile = None /\ UNCHANGED <<misread, faults>>
       \/ keyFile # None /\ Fault /\ misread' = TRUE
    /\ boot' = "generate"
    /\ UNCHANGED <<keyFile, key, announced, binary>>

\* A key nobody has seen.
GeneratedKey == Cardinality(announced) + 1

WriteKey ==
    /\ boot = "generate"
    /\ keyFile' = GeneratedKey /\ key' = GeneratedKey
    /\ boot' = "host"
    /\ UNCHANGED <<announced, misread, binary, faults>>

\* Mutant: the key is used although it could not be saved.
AfterWriteErrorIgnored == "host"

AfterWriteError == "fatal"

WriteKeyFails ==
    /\ boot = "generate" /\ Fault
    /\ keyFile' \in {keyFile, Cut} /\ key' = GeneratedKey
    /\ boot' = AfterWriteError
    /\ UNCHANGED <<announced, misread, binary>>

\* The host listens, and the capabilities are advertised.
HostStarts ==
    /\ boot = "host"
    /\ announced' = announced \cup {key}
    /\ boot' = "download"
    /\ UNCHANGED <<keyFile, key, misread, binary, faults>>

\* DownloadBinary: a file that exists is the binary.  main only warns of errors.
Download ==
    /\ boot = "download"
    /\ binary' = IF binary = "none" THEN "whole" ELSE binary
    /\ boot' = "ready"
    /\ UNCHANGED <<keyFile, key, announced, misread, faults>>

DownloadFails ==
    /\ boot = "download" /\ binary = "none" /\ Fault
    /\ binary' \in {"none", "cut"}
    /\ boot' = "ready"
    /\ UNCHANGED <<keyFile, key, announced, misread>>

\* The process ended, also in the middle of writing, and is started again.
StartAgain ==
    /\ boot \notin {"load", "ready"}
    /\ \/ UNCHANGED <<keyFile, binary, faults>>
       \/ boot = "generate" /\ Fault /\ keyFile' = Cut /\ UNCHANGED binary
       \/ boot = "download" /\ binary = "none" /\ Fault /\ binary' = "cut" /\ UNCHANGED keyFile
    /\ boot' = "load" /\ key' = None
    /\ UNCHANGED <<announced, misread>>

StartupNext ==
    \/ LoadKey \/ ReadFails \/ WriteKey \/ WriteKeyFails \/ HostStarts
    \/ Download \/ DownloadFails \/ StartAgain

-----------------------------------------------------------------------------
StartupTypeOK ==
    /\ boot \in {"load", "generate", "host", "download", "ready", "fatal"}
    /\ keyFile \in Nat \cup {None, Cut} /\ key \in Nat \cup {None, Cut}
    /\ announced \subseteq Nat \ {None}
    /\ misread \in BOOLEAN
    /\ binary \in {"none", "cut", "whole"}
    /\ faults \in 0 .. MaxFaults

\* host.go:30 "so that the peer ID remains stable across restarts": a node is never
\* on the network under a second ID, wherever earlier starts were broken off or failed,
\* unless the file was there and could not be read.
IdentityStable == ~ misread => Cardinality(announced) <= 1
=============================================================================
