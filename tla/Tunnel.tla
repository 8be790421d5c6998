------------------------------- MODULE Tunnel -------------------------------
(***************************************************************************)
(* One connection of llama-cli to a sidecar through network/tunnel         *)
(* (tunnel.go): a local TCP connection to the consumer's listener, a       *)
(* libp2p stream, and a TCP connection of the provider to the sidecar's    *)
(* port, bridged by four goroutines that run proxyStream.                  *)
(*                                                                         *)
(*   client -- local ] copy [ out -- in ] copy [ dial -- server            *)
(*                                                                         *)
(* What is written waits to be read at the other end, which has room for   *)
(* so much and no more: a copy waits in its write for as long as there is  *)
(* none, since no connection has a deadline.                               *)
(***************************************************************************)
EXTENDS Sidecar

CONSTANTS RequestLen,       \* units the client sends
          ReplyLen,         \* units the server answers with
          Buffer            \* units an end has room for: the window, or TCP's buffers

ASSUME LengthsAssumption == RequestLen \in Nat \ {0} /\ ReplyLen \in Nat \ {0}
ASSUME BufferAssumption == Buffer \in Nat \ {0}

Ends == {"client", "local", "out", "in", "dial", "server"}

\* The end an end of a connection is connected to.
Peer == [client |-> "local", local |-> "client", out |-> "in", in |-> "out",
         dial |-> "server", server |-> "dial"]

ConsumerCopies == {<<"local", "out">>, <<"out", "local">>}
ProviderCopies == {<<"in", "dial">>, <<"dial", "in">>}
Copies == ConsumerCopies \cup ProviderCopies

StreamEnds == {"out", "in"}

VARIABLES bridge,           \* where the set-up of the chain is
          open,             \* ends that are not closed
          waiting,          \* units that wait to be read at each end
          copying,          \* goroutines in proxyStream
          held,             \* those that have read a unit and are in its write
          server,           \* who accepted the provider's connection
          sent, taken,      \* units of the request: the client's, the server's
          given, got,       \* units of the reply: the server's, the client's
          lost              \* the libp2p connection broke

tunnelVars ==
    <<bridge, open, waiting, copying, held, server, sent, taken, given, got, lost>>
vars == <<sidecarVars, tunnelVars>>

Init ==
    /\ SidecarInit
    /\ bridge = "idle" /\ open = {} /\ copying = {} /\ held = {}
    /\ server = "none"
    /\ waiting = [e \in Ends |-> 0]
    /\ sent = 0 /\ taken = 0 /\ given = 0 /\ got = 0
    /\ lost = FALSE

\* Ends are closed. What waits there is gone, but the window of a stream stays used.
Close(ends) ==
    /\ open' = open \ ends
    /\ waiting' = [e \in Ends |-> IF e \in ends \ StreamEnds THEN 0 ELSE waiting[e]]

\* OpenTunnel's goroutine accepts llama-cli's connection, for a provider it knows.
Accept ==
    /\ bridge = "idle" /\ announced # {}
    /\ bridge' = "accepted" /\ open' = {"client", "local"}
    /\ UNCHANGED <<sidecarVars, waiting, copying, held, server, sent, taken, given, got, lost>>

OpenStream ==
    /\ bridge = "accepted" /\ Alive /\ main # "starting"
    /\ bridge' = "dialling"
    /\ open' = open \cup {"out", "in"}
    /\ copying' = ConsumerCopies
    /\ UNCHANGED <<sidecarVars, waiting, held, server, sent, taken, given, got, lost>>

OpenStreamFails ==
    /\ bridge = "accepted"
    /\ bridge' = "failed" /\ Close({"local"})
    /\ UNCHANGED <<sidecarVars, copying, held, server, sent, taken, given, got, lost>>

\* The handler connects to whoever listens on the sidecar's port.
DialSidecar ==
    /\ bridge = "dialling" /\ Alive /\ port # "free"
    /\ bridge' = "bridged" /\ server' = port
    /\ open' = open \cup {"dial", "server"}
    /\ copying' = copying \cup ProviderCopies
    /\ UNCHANGED <<sidecarVars, waiting, held, sent, taken, given, got, lost>>

\* Refused, or the timeout of five seconds: the stream is reset.
DialFails ==
    /\ bridge = "dialling" /\ Alive /\ port = "free"
    /\ bridge' = "failed" /\ open' = open \ {"out", "in"}
    /\ waiting' = [waiting EXCEPT !["out"] = 0, !["in"] = 0]
    /\ UNCHANGED <<sidecarVars, copying, held, server, sent, taken, given, got, lost>>

-----------------------------------------------------------------------------
\* There is room for a unit that end e writes. Nothing is left of the buffers of a TCP
\* connection that the other side has closed; the window of a stream that it has closed is
\* used up, and never given again.
HasRoom(e) == waiting[Peer[e]] < Buffer \/ (Peer[e] \notin open /\ e \notin StreamEnds)

\* A unit written by end e: it waits, or is lost at a TCP connection that is closed.
Delivered(e) ==
    IF Peer[e] \in open \/ e \in StreamEnds
    THEN [waiting EXCEPT ![Peer[e]] = @ + 1]
    ELSE waiting

\* A write at end e fails: it was closed or reset, or the other side of its TCP connection
\* was closed, the one below the stream with the provider's process. Close of a stream is
\* nothing to whoever writes to it.
Refused(e) == e \notin open \/ (Peer[e] \notin open /\ (e \in StreamEnds => ~ Alive))

\* io.Copy reads a unit.
CopyReads(c) ==
    /\ c \in copying \ held /\ c[1] \in open /\ waiting[c[1]] > 0
    /\ waiting' = [waiting EXCEPT ![c[1]] = @ - 1]
    /\ held' = held \cup {c}
    /\ UNCHANGED <<sidecarVars, bridge, open, copying, server, sent, taken, given, got, lost>>

\* io.Copy writes it, when there is room.
CopyWrites(c) ==
    /\ c \in held /\ c[2] \in open /\ HasRoom(c[2])
    /\ waiting' = Delivered(c[2])
    /\ held' = held \ {c}
    /\ UNCHANGED <<sidecarVars, bridge, open, copying, server, sent, taken, given, got, lost>>

\* Mutant: proxyStream closes its source only.
ClosedBySource(c) == {c[1]}

\* proxyStream closes both its ends.
ClosedBy(c) == {c[1], c[2]}

\* Mutant: the copy ends when the other side disconnects, whatever is to be read.
SourceEndsEarly(c) == Peer[c[1]] \notin open

\* The end of the source: closed by the other side, and drained.
SourceEnds(c) == Peer[c[1]] \notin open /\ waiting[c[1]] = 0

\* io.Copy returns from its read, whose source is closed or ends, or from its write.
CopyEnds(c) ==
    /\ c \in copying
    /\ IF c \in held THEN Refused(c[2]) ELSE c[1] \notin open \/ SourceEnds(c)
    /\ Close(ClosedBy(c))
    /\ copying' = copying \ {c} /\ held' = held \ {c}
    /\ UNCHANGED <<sidecarVars, bridge, server, sent, taken, given, got, lost>>

CopyStep(c) == CopyReads(c) \/ CopyWrites(c) \/ CopyEnds(c)

\* llama-cli sends its request, reads the reply, and ends at any time.
ClientSends ==
    /\ "client" \in open /\ sent < RequestLen /\ HasRoom("client")
    /\ sent' = sent + 1 /\ waiting' = Delivered("client")
    /\ UNCHANGED <<sidecarVars, bridge, open, copying, held, server, taken, given, got, lost>>

ClientReads ==
    /\ "client" \in open /\ waiting["client"] > 0
    /\ got' = got + 1 /\ waiting' = [waiting EXCEPT !["client"] = @ - 1]
    /\ UNCHANGED <<sidecarVars, bridge, open, copying, held, server, sent, taken, given, lost>>

ClientCloses ==
    /\ "client" \in open
    /\ Close({"client"})
    /\ UNCHANGED <<sidecarVars, bridge, copying, held, server, sent, taken, given, got, lost>>

\* llama-rpc-server reads the request, answers it when it has all of it, and
\* closes after its answer or when the request breaks off.
ServerReads ==
    /\ "server" \in open /\ waiting["server"] > 0
    /\ taken' = taken + 1 /\ waiting' = [waiting EXCEPT !["server"] = @ - 1]
    /\ UNCHANGED <<sidecarVars, bridge, open, copying, held, server, sent, given, got, lost>>

ServerAnswers ==
    /\ "server" \in open /\ taken = RequestLen /\ given < ReplyLen /\ HasRoom("server")
    /\ given' = given + 1 /\ waiting' = Delivered("server")
    /\ UNCHANGED <<sidecarVars, bridge, open, copying, held, server, sent, taken, got, lost>>

ServerCloses ==
    /\ "server" \in open
    /\ given = ReplyLen \/ (waiting["server"] = 0 /\ "dial" \notin open)
    /\ Close({"server"})
    /\ UNCHANGED <<sidecarVars, bridge, copying, held, server, sent, taken, given, got, lost>>

\* The libp2p connection breaks: the stream is reset and what it held is lost.
ConnectionLost ==
    /\ ~ lost /\ "out" \in open
    /\ lost' = TRUE
    /\ open' = open \ {"out", "in"}
    /\ waiting' = [waiting EXCEPT !["out"] = 0, !["in"] = 0]
    /\ UNCHANGED <<sidecarVars, bridge, copying, held, server, sent, taken, given, got>>

\* The ends of a process that ends are closed.
EndsGone ==
    (IF server = "child" /\ child /\ ~ child' THEN {"server"} ELSE {})
        \cup (IF Alive' THEN {} ELSE {"in", "dial"})

EndsClosed ==
    /\ Close(EndsGone)
    /\ copying' = IF Alive' THEN copying ELSE copying \ ProviderCopies
    /\ held' = held \cap copying'
    /\ UNCHANGED <<bridge, server, sent, taken, given, got, lost>>

Next ==
    \/ SidecarNext /\ EndsClosed
    \/ Accept \/ OpenStream \/ OpenStreamFails \/ DialSidecar \/ DialFails
    \/ \E c \in Copies : CopyStep(c)
    \/ ClientSends \/ ClientReads \/ ClientCloses
    \/ ServerReads \/ ServerAnswers \/ ServerCloses
    \/ ConnectionLost

Spec == Init /\ [][Next]_vars

\* The goroutines run, and llama-rpc-server listens when it can.
FairSpec ==
    /\ Spec
    /\ WF_vars(SidecarRuns /\ EndsClosed)
    /\ WF_vars(ChildListens /\ UNCHANGED startupVars /\ EndsClosed)
    /\ \A c \in Copies : WF_vars(CopyStep(c))

-----------------------------------------------------------------------------
\* Type invariant of the connection and the provider behind it.
TypeOK ==
    /\ SidecarTypeOK
    /\ bridge \in {"idle", "accepted", "dialling", "bridged", "failed"}
    /\ open \subseteq Ends
    /\ waiting \in [Ends -> 0 .. Buffer]
    /\ copying \subseteq Copies /\ held \subseteq copying
    /\ server \in {"none", "child", "foreign"}
    /\ sent \in 0 .. RequestLen /\ taken \in 0 .. RequestLen
    /\ given \in 0 .. ReplyLen /\ got \in 0 .. ReplyLen
    /\ lost \in BOOLEAN

\* A client that sees the end of a reply its server gave in full has all of it,
\* although each of the four goroutines closes connections another one uses:
\* unless the libp2p connection broke or the provider ended.
ReplyComplete ==
    ("client" \in open /\ "local" \notin open /\ waiting["client"] = 0
        /\ given = ReplyLen /\ ~ lost /\ Alive) => got = ReplyLen

\* One side has disconnected, or the stream or the sidecar's port could not be reached and
\* the chain was not made.
Broken == bridge = "failed" \/ (bridge = "bridged" /\ ~ {"client", "server"} \subseteq open)

\* All four goroutines have ended and no connection between the programs is left open.
TornDown == copying = {} /\ open \subseteq {"client", "server"}

\* A program that lets what arrives fill its buffer.
Unread(e) == e \in open /\ waiting[e] >= Buffer

\* tunnel.go:108 "It closes both ends when io.Copy finishes (i.e. one side
\* disconnects)": if the client and the server read what fills their buffers, or close, a
\* broken chain is torn down. A program that does neither keeps a copy in its write.
TunnelTornDown ==
    ([]<>(~ Unread("client")) /\ []<>(~ Unread("server"))) => (Broken ~> TornDown)
=============================================================================
