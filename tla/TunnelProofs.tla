---------------------------- MODULE TunnelProofs ----------------------------
(***************************************************************************)
(* The identity of a provider across starts, the end of its sidecar, and   *)
(* what arrives through a tunnel, for any number of faults and any lengths *)
(* of the request and the reply.                                           *)
(***************************************************************************)
EXTENDS Tunnel, FiniteSetTheorems, TLAPS

\* The peers of the four copies, and where each of them takes a unit to.
LEMMA Peers ==
  /\ Peer["client"] = "local" /\ Peer["local"] = "client"
  /\ Peer["out"] = "in" /\ Peer["in"] = "out"
  /\ Peer["dial"] = "server" /\ Peer["server"] = "dial"
BY DEF Peer
-----------------------------------------------------------------------------
\* The key in use is the one on file, and unless the file was misread the node
\* has announced none but that one, and generates one only when it has no file.
IdentityOK ==
    /\ boot = "host" => key = keyFile /\ key \in Nat \ {None}
    /\ ~ misread =>
         /\ announced = {} \/ (keyFile \in Nat \ {None} /\ announced = {keyFile})
         /\ boot = "generate" => announced = {}

StartupInv == StartupTypeOK /\ IsFiniteSet(announced) /\ IdentityOK

\* Nothing is forked from an old command, nor after Stop has killed one: its
\* context is done by then.
StopOK ==
    /\ main \in {"killing", "closing", "exited", "panicked"} => done
    /\ monitor \in {"start", "fork"} => cmd = "new"
    /\ killed => done /\ ~ child /\ monitor # "fork"

SidecarInv == SidecarTypeOK /\ StopOK

LEMMA StartupStarts == Init => StartupInv /\ SidecarInv
<1> SUFFICES ASSUME Init PROVE StartupInv /\ SidecarInv
  OBVIOUS
<1>1. StartupTypeOK
  <2>1. StartupInit
    BY DEF Init, SidecarInit
  <2>2. faults \in 0 .. MaxFaults
    BY <2>1, FaultsAssumption DEF StartupInit
  <2> QED
    BY <2>1, <2>2 DEF StartupInit, StartupTypeOK
<1>2. IsFiniteSet(announced)
  BY FS_EmptySet DEF Init, SidecarInit, StartupInit
<1>3. IdentityOK
  BY DEF Init, SidecarInit, StartupInit, IdentityOK
<1>4. StartupInv
  BY <1>1, <1>2, <1>3 DEF StartupInv
<1>5. SidecarInv
  BY <1>1 DEF Init, SidecarInit, SidecarInv, SidecarTypeOK, StopOK
<1> QED
  BY <1>4, <1>5

LEMMA FaultCounted == StartupTypeOK /\ Fault => faults' \in 0 .. MaxFaults
BY FaultsAssumption DEF StartupTypeOK, Fault

LEMMA StartupHolds == StartupInv /\ StartupNext => StartupInv'
<1> SUFFICES ASSUME StartupInv, StartupNext PROVE StartupInv'
  OBVIOUS
<1> USE DEF StartupInv, StartupTypeOK, IdentityOK, None, Cut
<1>1. Fault => faults' \in 0 .. MaxFaults
  BY FaultCounted
<1>2. GeneratedKey \in Nat \ {None}
  BY FS_CardinalityType DEF GeneratedKey
<1>3. CASE LoadKey
  BY <1>3 DEF LoadKey
<1>4. CASE ReadFails
  BY <1>1, <1>4 DEF ReadFails
<1>5. CASE WriteKey
  BY <1>2, <1>5 DEF WriteKey
<1>6. CASE WriteKeyFails
  BY <1>1, <1>2, <1>6 DEF WriteKeyFails, AfterWriteError
<1>7. CASE HostStarts
  <2>1. IsFiniteSet(announced')
    BY <1>7, FS_AddElement DEF HostStarts
  <2> QED
    BY <1>7, <2>1 DEF HostStarts
<1>8. CASE Download
  BY <1>8 DEF Download
<1>9. CASE DownloadFails
  BY <1>1, <1>9 DEF DownloadFails
<1>10. CASE StartAgain
  BY <1>1, <1>10 DEF StartAgain
<1> QED
  BY <1>3, <1>4, <1>5, <1>6, <1>7, <1>8, <1>9, <1>10 DEF StartupNext

\* The steps of the sidecar, and of what runs beside it.
SidecarStep ==
    \/ StartSidecar \/ Monitor
    \/ ForkFails \/ Signal \/ StopReads \/ StopKills \/ MainReturns
    \/ ContextKills \/ ChildListens \/ ChildEnds
    \/ ForeignListens \/ ForeignCloses

LEMMA SidecarHolds ==
  SidecarInv /\ SidecarStep /\ UNCHANGED startupVars => SidecarInv' /\ faults' \in 0 .. MaxFaults
<1> SUFFICES ASSUME SidecarInv, SidecarStep, UNCHANGED startupVars
             PROVE  SidecarInv' /\ faults' \in 0 .. MaxFaults
  OBVIOUS
<1>1. /\ StartupTypeOK /\ faults \in 0 .. MaxFaults
      /\ Fault => faults' \in 0 .. MaxFaults
  BY FaultCounted DEF SidecarInv, SidecarTypeOK, StartupTypeOK
<1>2. faults' \in 0 .. MaxFaults
  BY <1>1
  DEF SidecarStep, StartSidecar, Monitor, MonitorChecks, NewCommand, CommandStarts,
      Fork, WaitReturns, Wake, ForkFails, Signal, StopReads, StopKills, MainReturns,
      ContextKills, ChildListens, ChildEnds, ForeignListens, ForeignCloses
<1>3. StartupTypeOK'
  BY <1>1, <1>2 DEF StartupTypeOK, startupVars
<1> USE DEF SidecarInv, SidecarTypeOK, StopOK
<1>4. CASE StartSidecar
  BY <1>2, <1>3, <1>4 DEF StartSidecar
<1>5. CASE MonitorChecks
  BY <1>2, <1>3, <1>5 DEF MonitorChecks
<1>6. CASE NewCommand
  BY <1>2, <1>3, <1>6 DEF NewCommand
<1>7. CASE CommandStarts
  <2>1. monitor' # "fork" \/ ~ done
    BY <1>7 DEF CommandStarts, StartRefused
  <2>2. monitor' \in {"sleep", "fork"}
    BY <1>7 DEF CommandStarts
  <2>3. UNCHANGED <<port, child, cmd, main, done, killed, faults>>
    BY <1>7 DEF CommandStarts
  <2> QED
    BY <1>2, <1>3, <1>7, <2>1, <2>2, <2>3 DEF CommandStarts
<1>8. CASE Fork
  BY <1>2, <1>3, <1>8 DEF Fork
<1>9. CASE WaitReturns
  BY <1>2, <1>3, <1>9 DEF WaitReturns, AfterExit
<1>10. CASE Wake
  BY <1>2, <1>3, <1>10 DEF Wake
<1>11. CASE ForkFails
  BY <1>2, <1>3, <1>11 DEF ForkFails
<1>12. CASE Signal
  BY <1>2, <1>3, <1>12 DEF Signal
<1>13. CASE StopReads
  BY <1>2, <1>3, <1>13 DEF StopReads
<1>14. CASE StopKills
  BY <1>2, <1>3, <1>14 DEF StopKills, Released
<1>15. CASE MainReturns
  BY <1>2, <1>3, <1>15 DEF MainReturns
<1>16. CASE ContextKills
  BY <1>2, <1>3, <1>16 DEF ContextKills, Released
<1>17. CASE ChildListens
  BY <1>2, <1>3, <1>17 DEF ChildListens
<1>18. CASE ChildEnds
  BY <1>2, <1>3, <1>18 DEF ChildEnds, Released
<1>19. CASE ForeignListens
  BY <1>2, <1>3, <1>19 DEF ForeignListens
<1>20. CASE ForeignCloses
  BY <1>2, <1>3, <1>20 DEF ForeignCloses
<1> QED
  BY <1>2, <1>4, <1>5, <1>6, <1>7, <1>8, <1>9, <1>10, <1>11, <1>12, <1>13, <1>14,
     <1>15, <1>16, <1>17, <1>18, <1>19, <1>20
  DEF SidecarStep, Monitor

LEMMA ProviderHolds ==
  StartupInv /\ SidecarInv /\ [SidecarNext]_sidecarVars => StartupInv' /\ SidecarInv'
<1> SUFFICES ASSUME StartupInv, SidecarInv, [SidecarNext]_sidecarVars
             PROVE  StartupInv' /\ SidecarInv'
  OBVIOUS
<1>1. CASE SidecarStep /\ UNCHANGED startupVars
  <2>1. SidecarInv' /\ faults' \in 0 .. MaxFaults
    BY <1>1, SidecarHolds
  <2> QED
    BY <1>1, <2>1 DEF StartupInv, StartupTypeOK, IdentityOK, startupVars
<1>2. CASE StartupNext /\ UNCHANGED <<port, child, monitor, cmd, main, done, killed>>
  <2>1. StartupInv'
    BY <1>2, StartupHolds
  <2> QED
    BY <1>2, <2>1 DEF SidecarInv, SidecarTypeOK, StopOK, StartupInv
<1>3. CASE UNCHANGED sidecarVars
  BY <1>3
  DEF sidecarVars, startupVars, StartupInv, StartupTypeOK, IdentityOK, SidecarInv,
      SidecarTypeOK, StopOK
<1> QED
  BY <1>1, <1>2, <1>3 DEF SidecarNext, SidecarRuns, SidecarStep

-----------------------------------------------------------------------------
\* A unit that a copy has read and not written.
Holds(c) == IF c \in held THEN 1 ELSE 0

\* Units on their way from one program to the other.
RequestUnderWay ==
    waiting["local"] + Holds(<<"local", "out">>) + waiting["in"]
        + Holds(<<"in", "dial">>) + waiting["server"]

ReplyUnderWay ==
    waiting["dial"] + Holds(<<"dial", "in">>) + waiting["out"]
        + Holds(<<"out", "local">>) + waiting["client"]

\* No unit is made on its way, and the reply follows the whole request.
FlowOK ==
    /\ waiting \in [Ends -> 0 .. Buffer]
    /\ sent \in 0 .. RequestLen /\ taken \in Nat
    /\ given \in 0 .. ReplyLen /\ got \in Nat
    /\ RequestUnderWay + taken <= sent
    /\ ReplyUnderWay + got <= given
    /\ given > 0 => taken = RequestLen

\* What there is of the chain at each point of its set-up.
ChainOK ==
    /\ bridge \in {"idle", "accepted", "dialling", "bridged", "failed"}
    /\ open \subseteq Ends
    /\ copying \subseteq Copies /\ held \subseteq copying
    /\ server \in {"none", "child", "foreign"}
    /\ lost \in BOOLEAN
    /\ bridge = "idle" => open = {}
    /\ bridge \in {"idle", "accepted"} => copying = {}
    /\ bridge = "accepted" => "local" \in open
    /\ bridge # "bridged" =>
         given = 0 /\ copying \subseteq ConsumerCopies /\ "server" \notin open

\* Nothing but the server ends the chain.
Good == ~ lost /\ Alive /\ "client" \in open

\* Then the chain is closed from the server's end, by each copy after it has
\* passed on what is left of a reply that the server gave in full.
ReplyOK ==
    Good =>
        /\ bridge = "dialling" => {"local", "out", "in"} \subseteq open
        /\ bridge = "bridged" =>
             /\ "server" \in open => {"local", "out", "in", "dial"} \subseteq open
             /\ "server" \in open \/ given = ReplyLen => ReplyUnderWay + got = given
             /\ given = ReplyLen =>
                  /\ ~ {"in", "dial"} \subseteq open =>
                       /\ "server" \notin open
                       /\ waiting["dial"] = 0 /\ <<"dial", "in">> \notin held
                  /\ ~ {"local", "out"} \subseteq open =>
                       /\ "in" \notin open
                       /\ waiting["dial"] = 0 /\ <<"dial", "in">> \notin held
                       /\ waiting["out"] = 0 /\ <<"out", "local">> \notin held

TunnelInv == FlowOK /\ ChainOK /\ ReplyOK

LEMMA TunnelStarts == Init => TunnelInv
<1> SUFFICES ASSUME Init PROVE TunnelInv
  OBVIOUS
<1>1. FlowOK
  BY LengthsAssumption, BufferAssumption
  DEF Init, FlowOK, RequestUnderWay, ReplyUnderWay, Holds, Ends
<1>2. ChainOK /\ ReplyOK
  BY DEF Init, ChainOK, ReplyOK
<1> QED
  BY <1>1, <1>2 DEF TunnelInv

\* The types of what flows, its copies, and its parts.
LEMMA FlowIs ==
  ASSUME FlowOK
  PROVE  /\ waiting \in [Ends -> 0 .. Buffer]
         /\ Buffer \in Nat \ {0} /\ RequestLen \in Nat \ {0} /\ ReplyLen \in Nat \ {0}
         /\ Ends = {"client", "local", "out", "in", "dial", "server"}
         /\ \A e \in Ends : waiting[e] \in Nat
         /\ \A c : Holds(c) \in {0, 1} /\ Holds(c) \in Nat
         /\ sent \in Nat /\ taken \in Nat /\ given \in Nat /\ got \in Nat
         /\ taken <= sent /\ sent <= RequestLen /\ got <= given /\ given <= ReplyLen
<1>1. \A e \in {"client", "local", "out", "in", "dial", "server"} : waiting[e] \in Nat
  BY BufferAssumption DEF FlowOK, Ends
<1>2. \A c : Holds(c) \in {0, 1}
  BY DEF Holds
<1>3. taken <= sent /\ got <= given
  BY <1>1, <1>2, LengthsAssumption DEF FlowOK, RequestUnderWay, ReplyUnderWay
<1> QED
  BY <1>1, <1>2, <1>3, LengthsAssumption, BufferAssumption DEF FlowOK, Ends

LEMMA LessFits ==
  ASSUME NEW a \in Nat, NEW b \in Nat, NEW t \in Nat, NEW s \in Nat, b <= a, a + t <= s
  PROVE  b + t <= s
OBVIOUS

\* Less may be under way, never more.
LEMMA FlowHolds ==
  ASSUME FlowOK, UNCHANGED <<sent, taken, given, got>>,
         waiting' \in [Ends -> 0 .. Buffer],
         RequestUnderWay' \in Nat, RequestUnderWay' <= RequestUnderWay,
         ReplyUnderWay' \in Nat, ReplyUnderWay' <= ReplyUnderWay
  PROVE  FlowOK'
<1>1. RequestUnderWay \in Nat /\ ReplyUnderWay \in Nat
  BY FlowIs DEF RequestUnderWay, ReplyUnderWay
<1>2. taken \in Nat /\ sent \in Nat /\ got \in Nat /\ given \in Nat
  BY FlowIs
<1>3. RequestUnderWay + taken <= sent /\ ReplyUnderWay + got <= given
  BY DEF FlowOK
<1>4. RequestUnderWay' + taken <= sent
  BY <1>1, <1>2, <1>3, LessFits
<1>5. ReplyUnderWay' + got <= given
  BY <1>1, <1>2, <1>3, LessFits
<1> QED
  BY <1>4, <1>5 DEF FlowOK

LEMMA LessFlows ==
  ASSUME FlowOK, UNCHANGED <<sent, taken, given, got>>, held' \subseteq held,
         waiting' \in [Ends -> 0 .. Buffer], \A e \in Ends : waiting'[e] \in {waiting[e], 0}
  PROVE  FlowOK'
<1>1. \A e \in Ends : waiting'[e] \in Nat /\ waiting'[e] <= waiting[e]
  BY FlowIs
<1>2. \A d : Holds(d)' \in Nat /\ Holds(d)' <= Holds(d)
  BY DEF Holds
<1>3. /\ RequestUnderWay' \in Nat /\ RequestUnderWay' <= RequestUnderWay
      /\ ReplyUnderWay' \in Nat /\ ReplyUnderWay' <= ReplyUnderWay
  BY <1>1, <1>2, FlowIs DEF RequestUnderWay, ReplyUnderWay
<1> QED
  BY <1>3, FlowHolds

\* When the reply has begun nothing of the request is under way.
LEMMA RequestGone ==
  ASSUME FlowOK, given = ReplyLen
  PROVE  <<"local", "out">> \notin held /\ <<"in", "dial">> \notin held
<1>1. taken = RequestLen /\ RequestUnderWay + taken <= sent
  BY LengthsAssumption DEF FlowOK
<1>2. Holds(<<"local", "out">>) = 0 /\ Holds(<<"in", "dial">>) = 0
  BY <1>1, FlowIs DEF RequestUnderWay
<1> QED
  BY <1>2 DEF Holds

\* A unit that is written at end e.
LEMMA DeliveredIs ==
  ASSUME FlowOK, NEW e \in Ends, HasRoom(e)
  PROVE  /\ Peer[e] \in Ends
         /\ Delivered(e) \in [Ends -> 0 .. Buffer]
         /\ \A f \in Ends \ {Peer[e]} : Delivered(e)[f] = waiting[f]
         /\ Delivered(e)[Peer[e]] =
               IF Peer[e] \in open \/ e \in StreamEnds
               THEN waiting[Peer[e]] + 1 ELSE waiting[Peer[e]]
<1>1. Peer[e] \in Ends
  BY Peers DEF Ends
<1>2. CASE Peer[e] \in open \/ e \in StreamEnds
  <2>1. waiting[Peer[e]] < Buffer
    BY <1>2 DEF HasRoom
  <2>2. waiting[Peer[e]] + 1 \in 0 .. Buffer
    BY <1>1, <2>1, FlowIs
  <2> QED
    BY <1>1, <1>2, <2>2, FlowIs DEF Delivered
<1>3. CASE ~ (Peer[e] \in open \/ e \in StreamEnds)
  BY <1>1, <1>3, FlowIs DEF Delivered
<1> QED
  BY <1>2, <1>3

\* Ends that are closed.
LEMMA ClosedIs ==
  ASSUME FlowOK, NEW ends, Close(ends)
  PROVE  /\ open' = open \ ends
         /\ waiting' \in [Ends -> 0 .. Buffer]
         /\ \A e \in Ends :
              waiting'[e] = IF e \in ends \ StreamEnds THEN 0 ELSE waiting[e]
BY FlowIs DEF Close

\* The steps of the two programs at the ends.
LEMMA EndsHold ==
  ASSUME TunnelInv,
         \/ ClientSends \/ ClientReads \/ ClientCloses
         \/ ServerReads \/ ServerAnswers \/ ServerCloses
  PROVE  TunnelInv'
<1> USE DEF TunnelInv, RequestUnderWay, ReplyUnderWay
<1>1. main' = main /\ held' = held
  BY DEF ClientSends, ClientReads, ClientCloses, ServerReads, ServerAnswers, ServerCloses,
     sidecarVars
<1>2. \A c : Holds(c)' = Holds(c)
  BY <1>1 DEF Holds
<1>3. CASE ClientSends
  <2>1. /\ "client" \in open /\ sent < RequestLen /\ sent' = sent + 1
        /\ UNCHANGED <<bridge, open, copying, server, taken, given, got, lost>>
    BY <1>3 DEF ClientSends
  <2>2. /\ waiting' \in [Ends -> 0 .. Buffer]
        /\ waiting'["local"] \in {waiting["local"], waiting["local"] + 1}
        /\ \A e \in Ends \ {"local"} : waiting'[e] = waiting[e]
    BY <1>3, FlowIs, DeliveredIs, Peers DEF ClientSends
  <2>3. FlowOK'
    BY <1>2, <2>1, <2>2, FlowIs DEF FlowOK
  <2>4. ChainOK' /\ ReplyOK'
    BY <1>1, <1>2, <2>1, <2>2, FlowIs DEF ChainOK, ReplyOK, Good, Alive
  <2> QED
    BY <2>3, <2>4
<1>4. CASE ClientReads
  <2>1. /\ waiting["client"] > 0 /\ got' = got + 1
        /\ UNCHANGED <<bridge, open, copying, server, sent, taken, given, lost>>
    BY <1>4 DEF ClientReads
  <2>2. /\ waiting' \in [Ends -> 0 .. Buffer]
        /\ waiting'["client"] = waiting["client"] - 1
        /\ \A e \in Ends \ {"client"} : waiting'[e] = waiting[e]
    BY <1>4, FlowIs DEF ClientReads
  <2>3. FlowOK'
    BY <1>2, <2>1, <2>2, FlowIs DEF FlowOK
  <2>4. ChainOK' /\ ReplyOK'
    BY <1>1, <1>2, <2>1, <2>2, FlowIs DEF ChainOK, ReplyOK, Good, Alive
  <2> QED
    BY <2>3, <2>4
<1>5. CASE ClientCloses
  <2>1. /\ "client" \notin open' /\ open' \subseteq open /\ "client" \in open
        /\ \A e \in Ends \ {"client"} : e \in open => e \in open'
        /\ waiting' \in [Ends -> 0 .. Buffer]
        /\ waiting'["client"] <= waiting["client"] /\ waiting'["client"] \in Nat
        /\ \A e \in Ends \ {"client"} : waiting'[e] = waiting[e]
    BY <1>5, FlowIs, ClosedIs DEF ClientCloses
  <2>2. UNCHANGED <<bridge, copying, server, sent, taken, given, got, lost>>
    BY <1>5 DEF ClientCloses
  <2>3. FlowOK'
    BY <1>2, <2>1, <2>2, FlowIs DEF FlowOK
  <2>4. ChainOK' /\ ReplyOK'
    BY <1>1, <2>1, <2>2, FlowIs DEF ChainOK, ReplyOK, Good
  <2> QED
    BY <2>3, <2>4
<1>6. CASE ServerReads
  <2>1. /\ waiting["server"] > 0 /\ taken' = taken + 1
        /\ UNCHANGED <<bridge, open, copying, server, sent, given, got, lost>>
    BY <1>6 DEF ServerReads
  <2>2. /\ waiting' \in [Ends -> 0 .. Buffer]
        /\ waiting'["server"] = waiting["server"] - 1
        /\ \A e \in Ends \ {"server"} : waiting'[e] = waiting[e]
    BY <1>6, FlowIs DEF ServerReads
  <2>3. FlowOK'
    BY <1>2, <2>1, <2>2, FlowIs DEF FlowOK
  <2>4. ChainOK' /\ ReplyOK'
    BY <1>1, <1>2, <2>1, <2>2, FlowIs DEF ChainOK, ReplyOK, Good, Alive
  <2> QED
    BY <2>3, <2>4
<1>7. CASE ServerAnswers
  <2>1. /\ "server" \in open /\ taken = RequestLen /\ given < ReplyLen
        /\ given' = given + 1
        /\ UNCHANGED <<bridge, open, copying, server, sent, taken, got, lost>>
    BY <1>7 DEF ServerAnswers
  <2>2. /\ waiting' \in [Ends -> 0 .. Buffer]
        /\ waiting'["dial"] = IF "dial" \in open THEN waiting["dial"] + 1 ELSE waiting["dial"]
        /\ \A e \in Ends \ {"dial"} : waiting'[e] = waiting[e]
    BY <1>7, FlowIs, DeliveredIs, Peers DEF ServerAnswers, StreamEnds
  <2>3. FlowOK'
    BY <1>2, <2>1, <2>2, FlowIs DEF FlowOK
  <2>4. bridge = "bridged" /\ ChainOK'
    BY <1>1, <2>1 DEF ChainOK
  <2>5. ReplyOK'
    BY <1>1, <1>2, <2>1, <2>2, <2>4, FlowIs DEF ReplyOK, Good, Alive
  <2> QED
    BY <2>3, <2>4, <2>5
<1>8. CASE ServerCloses
  <2>1. /\ open' = open \ {"server"} /\ "server" \in open
        /\ waiting' \in [Ends -> 0 .. Buffer]
        /\ waiting'["server"] <= waiting["server"] /\ waiting'["server"] \in Nat
        /\ \A e \in Ends \ {"server"} : waiting'[e] = waiting[e]
        /\ UNCHANGED <<bridge, copying, server, sent, taken, given, got, lost>>
    BY <1>8, FlowIs, ClosedIs DEF ServerCloses
  <2>2. FlowOK' /\ ChainOK'
    BY <1>1, <1>2, <2>1, FlowIs DEF FlowOK, ChainOK
  <2>3. ReplyOK'
    BY <1>1, <1>2, <2>1, FlowIs DEF ReplyOK, Good, Alive
  <2> QED
    BY <2>2, <2>3
<1> QED
  BY <1>3, <1>4, <1>5, <1>6, <1>7, <1>8

\* The set-up of the chain, and the loss of the connection below it.
LEMMA SetUpHolds ==
  ASSUME TunnelInv, SidecarInv,
         \/ Accept \/ OpenStream \/ OpenStreamFails \/ DialSidecar \/ DialFails
         \/ ConnectionLost
  PROVE  TunnelInv'
<1> USE DEF TunnelInv
<1>1. /\ main' = main
      /\ UNCHANGED <<held, sent, taken, given, got>>
  BY DEF Accept, OpenStream, OpenStreamFails, DialSidecar, DialFails, ConnectionLost, sidecarVars
<1>2. \A c : Holds(c)' = Holds(c)
  BY <1>1 DEF Holds
<1>3. waiting' \in [Ends -> 0 .. Buffer] /\ \A e \in Ends : waiting'[e] \in {waiting[e], 0}
  <2>1. CASE UNCHANGED waiting
    BY <2>1, FlowIs
  <2>2. CASE waiting' = [waiting EXCEPT !["out"] = 0, !["in"] = 0]
    BY <2>2, FlowIs
  <2>3. CASE Close({"local"})
    BY <2>3, FlowIs, ClosedIs
  <2> QED
    BY <2>1, <2>2, <2>3
    DEF Accept, OpenStream, OpenStreamFails, DialSidecar, DialFails, ConnectionLost
<1>4. FlowOK'
  BY <1>1, <1>3, LessFlows
<1>5. CASE Accept
  BY <1>1, <1>4, <1>5, FlowIs DEF Accept, ChainOK, ReplyOK
<1>6. CASE OpenStream
  BY <1>1, <1>4, <1>6, FlowIs DEF OpenStream, ChainOK, ReplyOK, Copies
<1>7. CASE OpenStreamFails
  BY <1>1, <1>4, <1>7, FlowIs DEF OpenStreamFails, ChainOK, ReplyOK, Close
<1>8. CASE DialSidecar
  <2>1. /\ bridge = "dialling" /\ bridge' = "bridged"
        /\ open' = open \cup {"dial", "server"}
        /\ copying' = copying \cup ProviderCopies
        /\ server' = port /\ port # "free"
        /\ UNCHANGED <<waiting, lost>>
    BY <1>8 DEF DialSidecar
  <2>2. given = 0
    BY <2>1 DEF ChainOK
  <2>3. ReplyUnderWay' = ReplyUnderWay /\ ReplyUnderWay + got = 0
    BY <1>2, <2>1, <2>2, FlowIs DEF FlowOK, ReplyUnderWay
  <2>4. Good' => {"local", "out", "in"} \subseteq open
    BY <1>1, <2>1 DEF ReplyOK, Good, Alive
  <2>5. ReplyOK'
    BY <1>1, <2>1, <2>2, <2>3, <2>4, FlowIs DEF ReplyOK
  <2>6. server' \in {"child", "foreign"}
    BY <2>1 DEF SidecarInv, SidecarTypeOK
  <2>7. ChainOK'
    BY <1>1, <2>1, <2>6, FlowIs DEF ChainOK, Copies
  <2> QED
    BY <1>4, <2>5, <2>7
<1>9. CASE DialFails
  BY <1>1, <1>4, <1>9, FlowIs DEF DialFails, ChainOK, ReplyOK
<1>10. CASE ConnectionLost
  BY <1>1, <1>4, <1>10, FlowIs DEF ConnectionLost, ChainOK, ReplyOK, Good
<1> QED
  BY <1>5, <1>6, <1>7, <1>8, <1>9, <1>10

\* The four copies are different ones.
LEMMA FourCopies ==
  /\ <<"local", "out">> # <<"out", "local">> /\ <<"local", "out">> # <<"in", "dial">>
  /\ <<"local", "out">> # <<"dial", "in">> /\ <<"out", "local">> # <<"in", "dial">>
  /\ <<"out", "local">> # <<"dial", "in">> /\ <<"in", "dial">> # <<"dial", "in">>
  /\ Copies = {<<"local", "out">>, <<"out", "local">>, <<"in", "dial">>, <<"dial", "in">>}
BY DEF Copies, ConsumerCopies, ProviderCopies

\* io.Copy takes a unit from an end.
LEMMA UnitRead ==
  ASSUME TunnelInv, NEW c \in Copies, CopyReads(c)
  PROVE  /\ waiting' \in [Ends -> 0 .. Buffer]
         /\ waiting'[c[1]] = waiting[c[1]] - 1
         /\ \A e \in Ends \ {c[1]} : waiting'[e] = waiting[e]
         /\ Holds(c) = 0 /\ Holds(c)' = 1
         /\ \A d \in Copies \ {c} : Holds(d)' = Holds(d)
<1>1. c[1] \in Ends /\ FlowOK
  BY FourCopies, FlowIs DEF TunnelInv
<1> QED
  BY <1>1, FlowIs DEF CopyReads, Holds

\* It hands it to the peer of the other end, or it is lost there.
LEMMA UnitWritten ==
  ASSUME TunnelInv, NEW c \in Copies, CopyWrites(c)
  PROVE  /\ waiting' \in [Ends -> 0 .. Buffer]
         /\ waiting'[Peer[c[2]]] =
               IF Peer[c[2]] \in open \/ c[2] \in StreamEnds
               THEN waiting[Peer[c[2]]] + 1 ELSE waiting[Peer[c[2]]]
         /\ \A e \in Ends \ {Peer[c[2]]} : waiting'[e] = waiting[e]
         /\ Holds(c) = 1 /\ Holds(c)' = 0
         /\ \A d \in Copies \ {c} : Holds(d)' = Holds(d)
<1>1. c[2] \in Ends /\ FlowOK
  BY FourCopies, FlowIs DEF TunnelInv
<1>2. HasRoom(c[2]) /\ waiting' = Delivered(c[2])
  BY DEF CopyWrites
<1>3. /\ waiting' \in [Ends -> 0 .. Buffer]
      /\ waiting'[Peer[c[2]]] =
            IF Peer[c[2]] \in open \/ c[2] \in StreamEnds
            THEN waiting[Peer[c[2]]] + 1 ELSE waiting[Peer[c[2]]]
      /\ \A e \in Ends \ {Peer[c[2]]} : waiting'[e] = waiting[e]
  BY <1>1, <1>2, DeliveredIs
<1> QED
  BY <1>3 DEF CopyWrites, Holds

LEMMA CopyReadsHolds ==
  ASSUME TunnelInv, NEW c \in Copies, CopyReads(c)
  PROVE  TunnelInv'
<1> USE DEF TunnelInv
<1>1. /\ main' = main /\ c \in copying /\ held' = held \cup {c}
      /\ UNCHANGED <<bridge, open, copying, server, sent, taken, given, got, lost>>
      /\ waiting[c[1]] > 0 /\ c[1] \in open
  BY DEF CopyReads, sidecarVars
<1>2. ChainOK'
  BY <1>1 DEF ChainOK
<1>3. RequestUnderWay' = RequestUnderWay /\ ReplyUnderWay' = ReplyUnderWay
  <2>1. CASE c = <<"local", "out">>
    BY <2>1, UnitRead, FourCopies, FlowIs DEF RequestUnderWay, ReplyUnderWay
  <2>2. CASE c = <<"out", "local">>
    BY <2>2, UnitRead, FourCopies, FlowIs DEF RequestUnderWay, ReplyUnderWay
  <2>3. CASE c = <<"in", "dial">>
    BY <2>3, UnitRead, FourCopies, FlowIs DEF RequestUnderWay, ReplyUnderWay
  <2>4. CASE c = <<"dial", "in">>
    BY <2>4, UnitRead, FourCopies, FlowIs DEF RequestUnderWay, ReplyUnderWay
  <2> QED
    BY <2>1, <2>2, <2>3, <2>4, FourCopies
<1>4. FlowOK'
  BY <1>1, <1>3, UnitRead DEF FlowOK
<1>5. \A e \in Ends : waiting[e] = 0 => waiting'[e] = 0
  BY <1>1, UnitRead, FlowIs, FourCopies
<1>6. ReplyOK'
  <2> SUFFICES ASSUME Good' PROVE ReplyOK!2'
    BY DEF ReplyOK
  <2>1. Good
    BY <1>1 DEF Good, Alive
  <2>2. given = ReplyLen /\ ~ {"in", "dial"} \subseteq open /\ bridge = "bridged"
           => waiting'["dial"] = 0 /\ <<"dial", "in">> \notin held'
    BY <1>1, <1>5, <2>1, FlowIs, FourCopies DEF ReplyOK
  <2>3. given = ReplyLen /\ ~ {"local", "out"} \subseteq open /\ bridge = "bridged"
           => /\ waiting'["dial"] = 0 /\ <<"dial", "in">> \notin held'
              /\ waiting'["out"] = 0 /\ <<"out", "local">> \notin held'
    BY <1>1, <1>5, <2>1, FlowIs, FourCopies DEF ReplyOK
  <2> QED
    BY <1>1, <1>3, <2>1, <2>2, <2>3 DEF ReplyOK
<1> QED
  BY <1>2, <1>4, <1>6

\* What is written is lost only where the other side has closed.
LEMMA CopyWritesHolds ==
  ASSUME TunnelInv, NEW c \in Copies, CopyWrites(c)
  PROVE  TunnelInv'
<1> USE DEF TunnelInv
<1>1. /\ main' = main /\ c \in held /\ held' = held \ {c}
      /\ UNCHANGED <<bridge, open, copying, server, sent, taken, given, got, lost>>
  BY DEF CopyWrites, sidecarVars
<1>2. ChainOK'
  BY <1>1 DEF ChainOK
<1>3. /\ RequestUnderWay \in Nat /\ RequestUnderWay' \in Nat
      /\ RequestUnderWay' <= RequestUnderWay
      /\ ReplyUnderWay \in Nat /\ ReplyUnderWay' \in Nat
      /\ ReplyUnderWay' <= ReplyUnderWay
      /\ "client" \in open => ReplyUnderWay' = ReplyUnderWay
      /\ c # <<"dial", "in">> => waiting'["out"] = waiting["out"]
      /\ waiting'["dial"] = waiting["dial"]
  <2>1. CASE c = <<"local", "out">>
    BY <2>1, UnitWritten, FourCopies, FlowIs, Peers
    DEF RequestUnderWay, ReplyUnderWay, StreamEnds
  <2>2. CASE c = <<"out", "local">>
    BY <2>2, UnitWritten, FourCopies, FlowIs, Peers
    DEF RequestUnderWay, ReplyUnderWay, StreamEnds
  <2>3. CASE c = <<"in", "dial">>
    BY <2>3, UnitWritten, FourCopies, FlowIs, Peers
    DEF RequestUnderWay, ReplyUnderWay, StreamEnds
  <2>4. CASE c = <<"dial", "in">>
    BY <2>4, UnitWritten, FourCopies, FlowIs, Peers
    DEF RequestUnderWay, ReplyUnderWay, StreamEnds
  <2> QED
    BY <2>1, <2>2, <2>3, <2>4, FourCopies
<1>4. FlowOK'
  <2>1. waiting' \in [Ends -> 0 .. Buffer]
    BY UnitWritten
  <2> QED
    BY <1>1, <1>3, <2>1, FlowHolds
<1>5. ReplyOK'
  <2> SUFFICES ASSUME Good' PROVE ReplyOK!2'
    BY DEF ReplyOK
  <2>1. Good /\ "client" \in open
    BY <1>1 DEF Good, Alive
  <2> QED
    BY <1>1, <1>3, <2>1 DEF ReplyOK
<1> QED
  BY <1>2, <1>4, <1>5

\* A copy that ends closes both its ends, and never the client's.
LEMMA CopyEndsHolds ==
  ASSUME TunnelInv, NEW c \in Copies, CopyEnds(c)
  PROVE  TunnelInv'
<1> USE DEF TunnelInv
<1>1. /\ main' = main /\ c \in copying
      /\ open' = open \ {c[1], c[2]} /\ copying' = copying \ {c} /\ held' = held \ {c}
      /\ UNCHANGED <<bridge, server, sent, taken, given, got, lost>>
  BY DEF CopyEnds, Close, ClosedBy, sidecarVars
<1>2. /\ waiting' \in [Ends -> 0 .. Buffer]
      /\ \A e \in Ends :
           waiting'[e] = IF e \in {c[1], c[2]} \ StreamEnds THEN 0 ELSE waiting[e]
  BY ClosedIs DEF CopyEnds, ClosedBy
<1>3. IF c \in held THEN Refused(c[2])
      ELSE c[1] \notin open \/ (Peer[c[1]] \notin open /\ waiting[c[1]] = 0)
  BY DEF CopyEnds, SourceEnds
<1>4. \A d : Holds(d)' = IF d = c THEN 0 ELSE Holds(d)
  BY <1>1 DEF Holds
<1>5. FlowOK'
  BY <1>1, <1>2, LessFlows
<1>6. ChainOK'
  <2>1. {c[1], c[2]} \subseteq {"local", "out", "in", "dial"} /\ bridge # "accepted"
    BY <1>1, FourCopies DEF ChainOK
  <2> QED
    BY <1>1, <2>1 DEF ChainOK
<1>7. ReplyOK'
  <2> SUFFICES ASSUME Good' PROVE ReplyOK!2'
    BY DEF ReplyOK
  <2>1. Good /\ Alive /\ "client" \in open
    BY <1>1, FourCopies DEF Good, Alive
  <2>2. ~ Refused("out") \/ "out" \notin open
    BY <2>1 DEF Refused, StreamEnds
  <2>3. ~ Refused("in") \/ "in" \notin open
    BY <2>1 DEF Refused, StreamEnds
  <2>4. ~ Refused("local") \/ "local" \notin open
    BY <2>1, Peers DEF Refused, StreamEnds
  <2>5. ~ Refused("dial") \/ "dial" \notin open \/ "server" \notin open
    BY Peers DEF Refused
  <2>6. ASSUME bridge = "bridged"
        PROVE  "server" \notin open
    <3>1. "server" \in open => {"local", "out", "in", "dial"} \subseteq open
      BY <2>1, <2>6 DEF ReplyOK
    <3> QED
      BY <1>3, <2>1, <2>2, <2>3, <2>4, <2>5, <3>1, FourCopies, Peers
  <2>7. bridge # "dialling"
    <3> SUFFICES ASSUME bridge = "dialling" PROVE FALSE
      OBVIOUS
    <3>1. {"local", "out", "in"} \subseteq open /\ c \in ConsumerCopies
      BY <1>1, <2>1 DEF ReplyOK, ChainOK
    <3> QED
      BY <1>3, <2>1, <2>2, <2>4, <3>1, Peers DEF ConsumerCopies
  <2>8. ASSUME bridge = "bridged", given = ReplyLen
        PROVE  /\ ReplyUnderWay' = ReplyUnderWay
               /\ waiting'["dial"] = 0 /\ <<"dial", "in">> \notin held'
               /\ ~ {"local", "out"} \subseteq open' =>
                    /\ "in" \notin open'
                    /\ waiting'["out"] = 0 /\ <<"out", "local">> \notin held'
    <3>1. <<"local", "out">> \notin held /\ <<"in", "dial">> \notin held
      BY <2>8, RequestGone
    <3>2. /\ ~ {"in", "dial"} \subseteq open =>
               waiting["dial"] = 0 /\ <<"dial", "in">> \notin held
          /\ ~ {"local", "out"} \subseteq open =>
               /\ "in" \notin open
               /\ waiting["dial"] = 0 /\ <<"dial", "in">> \notin held
               /\ waiting["out"] = 0 /\ <<"out", "local">> \notin held
      BY <2>1, <2>8 DEF ReplyOK
    <3>3. waiting["dial"] = 0 /\ <<"dial", "in">> \notin held
      <4>1. CASE c \in held
        BY <1>3, <2>2, <2>3, <2>4, <3>1, <3>2, <4>1, FourCopies
      <4>2. CASE c \notin held
        BY <1>3, <2>1, <3>2, <4>2, FourCopies, Peers
      <4> QED
        BY <4>1, <4>2
    <3>4. c \in ConsumerCopies =>
             /\ "in" \notin open
             /\ waiting["out"] = 0 /\ <<"out", "local">> \notin held
      <4>1. CASE c \in held
        BY <1>3, <2>2, <2>3, <2>4, <3>1, <3>2, <4>1, FourCopies DEF ConsumerCopies
      <4>2. CASE c \notin held
        BY <1>3, <2>1, <3>2, <4>2, FourCopies, Peers DEF ConsumerCopies
      <4> QED
        BY <4>1, <4>2
    <3>5. c \notin ConsumerCopies => open \cap {"local", "out"} \subseteq open'
      BY <1>1, FourCopies DEF ConsumerCopies
    <3>6. /\ waiting'["dial"] = waiting["dial"] /\ waiting'["out"] = waiting["out"]
          /\ waiting'["client"] = waiting["client"]
      BY <1>2, <3>3, FlowIs, FourCopies DEF StreamEnds
    <3>7. /\ Holds(<<"dial", "in">>)' = Holds(<<"dial", "in">>)
          /\ Holds(<<"out", "local">>)' = Holds(<<"out", "local">>)
      <4>1. Holds(<<"dial", "in">>) = 0
        BY <3>3 DEF Holds
      <4>2. c = <<"out", "local">> => Holds(<<"out", "local">>) = 0
        BY <3>4 DEF Holds, ConsumerCopies
      <4> QED
        BY <1>4, <4>1, <4>2
    <3>8. ReplyUnderWay' = ReplyUnderWay
      BY <3>6, <3>7 DEF ReplyUnderWay
    <3> QED
      BY <1>1, <3>2, <3>3, <3>4, <3>5, <3>6, <3>8
  <2>9. bridge = "bridged" /\ given = ReplyLen => ReplyUnderWay + got = given
    BY <2>1 DEF ReplyOK
  <2> QED
    BY <1>1, <2>6, <2>7, <2>8, <2>9
<1> QED
  BY <1>5, <1>6, <1>7

\* A process that has ended stays so.
LEMMA AliveBefore == SidecarInv /\ SidecarNext /\ Alive' => Alive
BY DEF SidecarNext, SidecarRuns, StartSidecar, Monitor, MonitorChecks, NewCommand,
   CommandStarts, Fork, WaitReturns, Wake, ForkFails, Signal, StopReads, StopKills,
   MainReturns, ContextKills, ChildListens, ChildEnds, ForeignListens, ForeignCloses, Alive

LEMMA ProcessesHold ==
  ASSUME TunnelInv, SidecarInv, SidecarNext, EndsClosed
  PROVE  TunnelInv'
<1> USE DEF TunnelInv
<1>1. /\ EndsGone \subseteq {"server", "in", "dial"}
      /\ Alive' => EndsGone \subseteq {"server"}
  BY DEF EndsGone
<1>2. /\ open' = open \ EndsGone /\ copying' \subseteq copying /\ held' = held \cap copying'
      /\ Alive' => copying' = copying
      /\ UNCHANGED <<bridge, server, sent, taken, given, got, lost>>
  BY DEF EndsClosed, Close
<1>3. /\ waiting' \in [Ends -> 0 .. Buffer]
      /\ \A e \in Ends : waiting'[e] = IF e \in EndsGone \ StreamEnds THEN 0 ELSE waiting[e]
  BY ClosedIs DEF EndsClosed
<1>4. FlowOK'
  BY <1>2, <1>3, LessFlows
<1>5. ChainOK'
  BY <1>1, <1>2 DEF ChainOK
<1>6. ReplyOK'
  <2> SUFFICES ASSUME Good' PROVE ReplyOK!2'
    BY DEF ReplyOK
  <2>1. Good /\ open' \subseteq open /\ open \subseteq open' \cup {"server"} /\ held' = held
    BY <1>1, <1>2, AliveBefore DEF Good, ChainOK
  <2>2. /\ waiting'["dial"] = waiting["dial"] /\ waiting'["out"] = waiting["out"]
        /\ waiting'["client"] = waiting["client"]
    BY <1>1, <1>3, FlowIs DEF Good
  <2>3. ReplyUnderWay' = ReplyUnderWay
    BY <2>1, <2>2 DEF ReplyUnderWay, Holds
  <2> QED
    BY <1>2, <2>1, <2>2, <2>3 DEF ReplyOK
<1> QED
  BY <1>4, <1>5, <1>6

-----------------------------------------------------------------------------
IInv == StartupInv /\ SidecarInv /\ TunnelInv

\* Only the provider's own steps change it.
LEMMA ProviderSteps == Next => [SidecarNext]_sidecarVars
BY DEF Next, Accept, OpenStream, OpenStreamFails, DialSidecar, DialFails,
   CopyStep, CopyReads, CopyWrites, CopyEnds,
   ClientSends, ClientReads, ClientCloses, ServerReads, ServerAnswers, ServerCloses,
   ConnectionLost

LEMMA StepHolds == IInv /\ [Next]_vars => IInv'
<1> SUFFICES ASSUME IInv, [Next]_vars PROVE IInv'
  OBVIOUS
<1>1. StartupInv' /\ SidecarInv'
  BY ProviderSteps, ProviderHolds DEF IInv, vars
<1>2. TunnelInv'
  <2>1. CASE Next
    BY <2>1, EndsHold, SetUpHolds, CopyReadsHolds, CopyWritesHolds, CopyEndsHolds, ProcessesHold
    DEF IInv, Next, CopyStep
  <2>2. CASE UNCHANGED vars
    BY <2>2
    DEF IInv, vars, sidecarVars, tunnelVars, TunnelInv, FlowOK, ChainOK, ReplyOK, Good,
        RequestUnderWay, ReplyUnderWay, Holds, Alive
  <2> QED
    BY <2>1, <2>2
<1> QED
  BY <1>1, <1>2 DEF IInv

LEMMA InvariantHolds == Spec => []IInv
<1>1. Init => IInv
  BY StartupStarts, TunnelStarts DEF IInv
<1> QED
  BY <1>1, StepHolds, PTL DEF Spec

-----------------------------------------------------------------------------
\* Type correctness of the provider and of the connection through the tunnel.
THEOREM TunnelTypes == Spec => []TypeOK
<1>1. IInv => TypeOK
  <2> SUFFICES ASSUME IInv PROVE TypeOK
    OBVIOUS
  <2>1. FlowOK /\ ChainOK /\ SidecarTypeOK
    BY DEF IInv, TunnelInv, SidecarInv
  <2>2. taken \in 0 .. RequestLen /\ got \in 0 .. ReplyLen
    BY <2>1, FlowIs
  <2> QED
    BY <2>1, <2>2 DEF TypeOK, FlowOK, ChainOK
<1> QED
  BY InvariantHolds, <1>1, PTL

\* Once Stop has killed a llama-rpc-server, none runs again, wherever the
\* goroutine that restarts it was at that time.
THEOREM KilledIsForGood == Spec => []KilledForGood
<1>1. IInv => KilledForGood
  BY DEF IInv, SidecarInv, StopOK, KilledForGood
<1> QED
  BY InvariantHolds, <1>1, PTL

\* However often starts break off or fail, a node has one identity, unless its
\* key was there and could not be read.
THEOREM IdentityIsStable == Spec => []IdentityStable
<1>1. IInv => IdentityStable
  <2> SUFFICES ASSUME IInv, ~ misread PROVE Cardinality(announced) <= 1
    BY DEF IdentityStable
  <2>1. announced = {} \/ announced = {keyFile}
    BY DEF IInv, StartupInv, IdentityOK
  <2>2. Cardinality({}) = 0 /\ Cardinality({keyFile}) = 1
    BY FS_EmptySet, FS_Singleton
  <2> QED
    BY <2>1, <2>2
<1> QED
  BY InvariantHolds, <1>1, PTL

\* A client that sees the end of a reply that was given in full has all of it,
\* for any lengths of the request and the reply.
THEOREM RepliesAreComplete == Spec => []ReplyComplete
<1>1. IInv => ReplyComplete
  <2> SUFFICES ASSUME IInv, "client" \in open, "local" \notin open,
                      waiting["client"] = 0, given = ReplyLen, ~ lost, Alive
               PROVE  got = ReplyLen
    BY DEF ReplyComplete
  <2>1. Good /\ FlowOK /\ ChainOK /\ ReplyOK
    BY DEF IInv, TunnelInv, Good
  <2>2. bridge = "bridged"
    BY <2>1, LengthsAssumption DEF ChainOK
  <2>3. /\ waiting["dial"] = 0 /\ <<"dial", "in">> \notin held
        /\ waiting["out"] = 0 /\ <<"out", "local">> \notin held
        /\ ReplyUnderWay + got = given
    BY <2>1, <2>2 DEF ReplyOK
  <2>4. ReplyUnderWay = 0
    BY <2>3 DEF ReplyUnderWay, Holds
  <2> QED
    BY <2>1, <2>3, <2>4, FlowIs
<1> QED
  BY InvariantHolds, <1>1, PTL

-----------------------------------------------------------------------------
\* A copy goes on: in its write there is room or an error, in its read a unit or an end.
CopyCanMove(c) ==
    /\ c \in copying
    /\ IF c \in held THEN Refused(c[2]) \/ HasRoom(c[2])
       ELSE c[1] \notin open \/ SourceEnds(c) \/ waiting[c[1]] > 0

\* No goroutine that copies waits for ever in a chain that is broken, but for a program that
\* does not read: while one is left, or an end between the two programs is open, some copy
\* of the four has what to do.
BreakIsSeen ==
    Broken /\ ~ TornDown /\ ~ Unread("client") /\ ~ Unread("server") =>
        \E c \in Copies : CopyCanMove(c)

\* How many steps the copies take at most: a unit of the request or the reply is read and
\* written twice, and each copy ends once.
Remaining(c) == IF c \in copying THEN 1 ELSE 0

RequestBurden ==
    4 * (RequestLen - sent) + 4 * waiting["local"] + 3 * Holds(<<"local", "out">>)
        + 2 * waiting["in"] + Holds(<<"in", "dial">>)

ReplyBurden ==
    4 * (ReplyLen - given) + 4 * waiting["dial"] + 3 * Holds(<<"dial", "in">>)
        + 2 * waiting["out"] + Holds(<<"out", "local">>)

CopyBurden ==
    Remaining(<<"local", "out">>) + Remaining(<<"out", "local">>)
        + Remaining(<<"in", "dial">>) + Remaining(<<"dial", "in">>)

Burden == RequestBurden + ReplyBurden + CopyBurden

\* A broken chain stays broken, each step of a copy makes what is left for the four less,
\* and nothing else makes it more.
BreakIsFinal ==
    [][/\ Broken => Broken' /\ Burden' <= Burden
       /\ (\E c \in Copies : CopyStep(c)) => Burden' < Burden]_vars

\* A copy that has ended has closed its ends, and the provider's are there only while the
\* chain is whole.
CopiesOK ==
    /\ bridge = "accepted" => open \subseteq {"client", "local"}
    /\ bridge # "bridged" => "dial" \notin open
    /\ bridge = "failed" => "in" \notin open
    /\ bridge \in {"dialling", "bridged", "failed"} =>
         ConsumerCopies \subseteq copying \/ {"local", "out"} \cap open = {}
    /\ bridge = "bridged" =>
         ProviderCopies \subseteq copying \/ {"in", "dial"} \cap open = {}

TearInv == IInv /\ CopiesOK

\* Ends are closed, and copies end with theirs.
LEMMA ClosingKeepsCopies ==
  ASSUME CopiesOK, bridge' = bridge, copying' = copying, open' \subseteq open
  PROVE  CopiesOK'
BY DEF CopiesOK

LEMMA CopiesHold == TearInv /\ [Next]_vars => TearInv'
<1> SUFFICES ASSUME TearInv, [Next]_vars PROVE CopiesOK'
  BY StepHolds DEF TearInv
<1>1. ChainOK /\ CopiesOK
  BY DEF TearInv, IInv, TunnelInv
<1>2. CASE \/ ClientSends \/ ClientReads \/ ClientCloses
           \/ ServerReads \/ ServerAnswers \/ ServerCloses
           \/ \E c \in Copies : CopyReads(c) \/ CopyWrites(c)
           \/ ConnectionLost \/ UNCHANGED vars
  <2>1. bridge' = bridge /\ copying' = copying /\ open' \subseteq open
    BY <1>2
    DEF ClientSends, ClientReads, ClientCloses, ServerReads, ServerAnswers, ServerCloses,
        CopyReads, CopyWrites, ConnectionLost, Close, vars, tunnelVars
  <2> QED
    BY <1>1, <2>1, ClosingKeepsCopies
<1>3. CASE Accept
  BY <1>3 DEF Accept, CopiesOK
<1>4. CASE OpenStream
  BY <1>1, <1>4 DEF OpenStream, CopiesOK
<1>5. CASE OpenStreamFails
  BY <1>1, <1>5 DEF OpenStreamFails, Close, CopiesOK
<1>6. CASE DialSidecar
  BY <1>1, <1>6 DEF DialSidecar, CopiesOK
<1>7. CASE DialFails
  BY <1>1, <1>7 DEF DialFails, CopiesOK
<1>8. CASE \E c \in Copies : CopyEnds(c)
  <2>1. PICK c \in Copies : CopyEnds(c)
    BY <1>8
  <2>2. /\ bridge' = bridge /\ copying' = copying \ {c}
        /\ open' = open \ {c[1], c[2]}
    BY <2>1 DEF CopyEnds, Close, ClosedBy
  <2>3. CASE c \in ConsumerCopies
    <3>1. {c[1], c[2]} = {"local", "out"} /\ c \notin ProviderCopies
      BY <2>3 DEF ConsumerCopies, ProviderCopies
    <3> QED
      BY <1>1, <2>2, <3>1 DEF CopiesOK
  <2>4. CASE c \in ProviderCopies
    <3>1. {c[1], c[2]} = {"in", "dial"} /\ c \notin ConsumerCopies
      BY <2>4 DEF ConsumerCopies, ProviderCopies
    <3> QED
      BY <1>1, <2>2, <3>1 DEF CopiesOK
  <2> QED
    BY <2>3, <2>4 DEF Copies
<1>9. CASE SidecarNext /\ EndsClosed
  <2>1. CASE Alive'
    <3>1. bridge' = bridge /\ copying' = copying /\ open' \subseteq open
      BY <1>9, <2>1 DEF EndsClosed, Close
    <3> QED
      BY <1>1, <3>1, ClosingKeepsCopies
  <2>2. CASE ~ Alive'
    <3>1. /\ bridge' = bridge /\ copying' = copying \ ProviderCopies
          /\ open' \subseteq open /\ {"in", "dial"} \cap open' = {}
      BY <1>9, <2>2 DEF EndsClosed, Close, EndsGone
    <3>2. ConsumerCopies \cap ProviderCopies = {}
      BY DEF ConsumerCopies, ProviderCopies
    <3> QED
      BY <1>1, <3>1, <3>2 DEF CopiesOK
  <2> QED
    BY <2>1, <2>2
<1> QED
  BY <1>2, <1>3, <1>4, <1>5, <1>6, <1>7, <1>8, <1>9 DEF Next, CopyStep

LEMMA TearInvAlways == Spec => []TearInv
<1>1. Init => TearInv
  BY StartupStarts, TunnelStarts DEF IInv, TearInv, Init, CopiesOK
<1> QED
  BY <1>1, CopiesHold, PTL DEF Spec

\* When one side disconnects, or the chain could not be made, and the programs that are
\* left read what fills their buffers, no copy waits for ever for a unit, for room in a
\* window or for an end that nobody will close: the four goroutines of proxyStream end each
\* other, whichever comes first.
THEOREM BreaksAreSeen == Spec => []BreakIsSeen
<1>1. TearInv => BreakIsSeen
  <2> SUFFICES ASSUME TearInv, Broken, ~ Unread("client"), ~ Unread("server"),
                      \A c \in Copies : ~ CopyCanMove(c)
               PROVE  TornDown
    BY DEF BreakIsSeen
  <2>1. CopiesOK /\ ChainOK /\ FlowOK
    BY DEF TearInv, IInv, TunnelInv
  <2>2. ASSUME NEW c \in Copies, c \in copying
        PROVE  IF c \in held
               THEN /\ c[2] \in open /\ waiting[Peer[c[2]]] >= Buffer
                    /\ Peer[c[2]] \in open \/ c[2] \in StreamEnds
               ELSE c[1] \in open /\ Peer[c[1]] \in open /\ waiting[c[1]] = 0
    <3>1. ~ CopyCanMove(c) /\ c[1] \in Ends /\ Peer[c[2]] \in Ends
      BY <2>2, FourCopies, Peers DEF Ends
    <3>2. waiting[c[1]] \in Nat /\ waiting[Peer[c[2]]] \in Nat /\ Buffer \in Nat
      BY <2>1, <3>1, FlowIs
    <3> QED
      BY <2>2, <3>1, <3>2 DEF CopyCanMove, Refused, HasRoom, SourceEnds
  <2>3. <<"out", "local">> \notin held
    BY <2>1, <2>2, FourCopies, Peers DEF Unread, StreamEnds, ChainOK
  <2>4. <<"in", "dial">> \notin held
    BY <2>1, <2>2, FourCopies, Peers DEF Unread, StreamEnds, ChainOK
  <2>5. /\ <<"out", "local">> \in copying =>
             "out" \in open /\ "in" \in open /\ waiting["out"] = 0
        /\ <<"in", "dial">> \in copying =>
             "in" \in open /\ "out" \in open /\ waiting["in"] = 0
    BY <2>2, <2>3, <2>4, FourCopies, Peers
  <2>6. bridge \in {"failed", "bridged"} /\ Buffer \in Nat \ {0}
    BY <2>1, FlowIs DEF Broken
  <2>7. "out" \in open => "in" \in open /\ waiting["out"] = 0
    BY <2>1, <2>5, <2>6 DEF CopiesOK, ConsumerCopies
  <2>8. "in" \in open => "out" \in open /\ waiting["in"] = 0
    BY <2>1, <2>5, <2>6 DEF CopiesOK, ProviderCopies
  <2>9. <<"local", "out">> \notin held
    BY <2>1, <2>2, <2>6, <2>7, <2>8, FourCopies, Peers DEF ChainOK
  <2>10. <<"dial", "in">> \notin held
    BY <2>1, <2>2, <2>6, <2>7, <2>8, FourCopies, Peers DEF ChainOK
  <2>11. /\ <<"local", "out">> \in copying => "local" \in open /\ "client" \in open
         /\ <<"dial", "in">> \in copying => "dial" \in open /\ "server" \in open
    BY <2>2, <2>9, <2>10, FourCopies, Peers
  <2>12. copying \subseteq Copies /\ open \subseteq Ends
    BY <2>1 DEF ChainOK
  <2>13. CASE bridge = "failed"
    <3>1. copying \subseteq ConsumerCopies /\ {"in", "dial"} \cap open = {}
      BY <2>1, <2>13 DEF ChainOK, CopiesOK
    <3>2. {"local", "out"} \cap open = {}
      BY <2>1, <2>5, <2>13, <3>1 DEF CopiesOK, ConsumerCopies
    <3> QED
      BY <2>5, <2>11, <2>12, <3>1, <3>2 DEF TornDown, ConsumerCopies, Ends
  <2>14. CASE bridge = "bridged" /\ ~ {"client", "server"} \subseteq open
    <3>1. /\ ConsumerCopies \subseteq copying \/ {"local", "out"} \cap open = {}
          /\ ProviderCopies \subseteq copying \/ {"in", "dial"} \cap open = {}
      BY <2>1, <2>14 DEF CopiesOK
    <3>2. {"local", "out"} \cap open = {} /\ {"in", "dial"} \cap open = {}
      BY <2>5, <2>11, <2>14, <3>1 DEF ConsumerCopies, ProviderCopies
    <3> QED
      BY <2>5, <2>11, <2>12, <3>2, FourCopies DEF TornDown, Ends
  <2> QED
    BY <2>13, <2>14 DEF Broken
<1> QED
  BY <1>1, TearInvAlways, PTL

-----------------------------------------------------------------------------
\* What is left for the copies, in its parts.
LEMMA BurdenIs ==
  ASSUME IInv
  PROVE  /\ TunnelInv /\ FlowOK
         /\ RequestLen - sent \in Nat /\ ReplyLen - given \in Nat
         /\ \A c : Remaining(c) \in {0, 1} /\ Remaining(c) \in Nat
         /\ RequestBurden \in Nat /\ ReplyBurden \in Nat /\ CopyBurden \in Nat
<1>1. TunnelInv /\ FlowOK
  BY DEF IInv, TunnelInv
<1>2. RequestLen - sent \in Nat /\ ReplyLen - given \in Nat
  BY <1>1, FlowIs
<1>3. \A c : Remaining(c) \in {0, 1} /\ Remaining(c) \in Nat
  BY DEF Remaining
<1>4. RequestBurden \in Nat /\ ReplyBurden \in Nat
  BY <1>1, <1>2, FlowIs DEF RequestBurden, ReplyBurden
<1>5. CopyBurden \in Nat
  BY <1>3 DEF CopyBurden
<1> QED
  BY <1>1, <1>2, <1>3, <1>4, <1>5

LEMMA BurdenIsNat == IInv => Burden \in Nat
BY BurdenIs DEF Burden

\* Nothing is read, written, held or copied more than before.
LEMMA LessIsNoBurden ==
  ASSUME IInv, UNCHANGED <<sent, given>>, copying' \subseteq copying, held' \subseteq held,
         waiting' \in [Ends -> Nat], \A e \in Ends : waiting'[e] <= waiting[e]
  PROVE  /\ RequestBurden' <= RequestBurden /\ RequestBurden' \in Nat
         /\ ReplyBurden' <= ReplyBurden /\ ReplyBurden' \in Nat
         /\ CopyBurden' <= CopyBurden /\ CopyBurden' \in Nat
         /\ Burden' <= Burden
<1>1. \A c : Holds(c)' \in Nat /\ Holds(c)' <= Holds(c)
  BY DEF Holds
<1>2. \A c : Remaining(c)' \in Nat /\ Remaining(c)' <= Remaining(c)
  BY DEF Remaining
<1>3. /\ RequestBurden' <= RequestBurden /\ RequestBurden' \in Nat
      /\ ReplyBurden' <= ReplyBurden /\ ReplyBurden' \in Nat
  BY <1>1, BurdenIs, FlowIs DEF RequestBurden, ReplyBurden
<1>4. CopyBurden' <= CopyBurden /\ CopyBurden' \in Nat
  BY <1>2, BurdenIs DEF CopyBurden
<1> QED
  BY <1>3, <1>4, BurdenIs DEF Burden

LEMMA CopyEases ==
  ASSUME IInv, NEW c \in Copies, CopyReads(c) \/ CopyWrites(c)
  PROVE  Burden' < Burden /\ Burden' <= Burden
<1>1. UNCHANGED <<sent, given, copying>>
  BY DEF CopyReads, CopyWrites
<1>2. CopyBurden' = CopyBurden
  BY <1>1 DEF CopyBurden, Remaining
<1>3. \/ RequestBurden' < RequestBurden /\ ReplyBurden' = ReplyBurden
      \/ RequestBurden' = RequestBurden /\ ReplyBurden' < ReplyBurden
  <2>1. CASE CopyReads(c)
    <3>1. CASE c = <<"local", "out">>
      BY <1>1, <2>1, <3>1, UnitRead, BurdenIs, FlowIs, FourCopies DEF RequestBurden, ReplyBurden
    <3>2. CASE c = <<"out", "local">>
      BY <1>1, <2>1, <3>2, UnitRead, BurdenIs, FlowIs, FourCopies DEF RequestBurden, ReplyBurden
    <3>3. CASE c = <<"in", "dial">>
      <4>1. /\ waiting'["in"] = waiting["in"] - 1
            /\ \A e \in Ends \ {"in"} : waiting'[e] = waiting[e]
            /\ Holds(<<"in", "dial">>) = 0 /\ Holds(<<"in", "dial">>)' = 1
            /\ \A d \in Copies \ {c} : Holds(d)' = Holds(d)
        BY <2>1, <3>3, UnitRead, BurdenIs
      <4> QED
        BY <1>1, <3>3, <4>1, BurdenIs, FlowIs, FourCopies DEF RequestBurden, ReplyBurden
    <3>4. CASE c = <<"dial", "in">>
      <4>1. /\ waiting'["dial"] = waiting["dial"] - 1
            /\ \A e \in Ends \ {"dial"} : waiting'[e] = waiting[e]
            /\ Holds(<<"dial", "in">>) = 0 /\ Holds(<<"dial", "in">>)' = 1
            /\ \A d \in Copies \ {c} : Holds(d)' = Holds(d)
        BY <2>1, <3>4, UnitRead, BurdenIs
      <4> QED
        BY <1>1, <3>4, <4>1, BurdenIs, FlowIs, FourCopies DEF RequestBurden, ReplyBurden
    <3> QED
      BY <3>1, <3>2, <3>3, <3>4, FourCopies
  <2>2. CASE CopyWrites(c)
    <3>1. CASE c = <<"local", "out">>
      BY <1>1, <2>2, <3>1, UnitWritten, BurdenIs, FlowIs, FourCopies, Peers
      DEF RequestBurden, ReplyBurden, StreamEnds
    <3>2. CASE c = <<"out", "local">>
      BY <1>1, <2>2, <3>2, UnitWritten, BurdenIs, FlowIs, FourCopies, Peers
      DEF RequestBurden, ReplyBurden
    <3>3. CASE c = <<"in", "dial">>
      BY <1>1, <2>2, <3>3, UnitWritten, BurdenIs, FlowIs, FourCopies, Peers
      DEF RequestBurden, ReplyBurden
    <3>4. CASE c = <<"dial", "in">>
      BY <1>1, <2>2, <3>4, UnitWritten, BurdenIs, FlowIs, FourCopies, Peers
      DEF RequestBurden, ReplyBurden, StreamEnds
    <3> QED
      BY <3>1, <3>2, <3>3, <3>4, FourCopies
  <2> QED
    BY <2>1, <2>2
<1>4. RequestBurden' \in Int /\ ReplyBurden' \in Int
  <2>1. FlowOK'
    BY CopyReadsHolds, CopyWritesHolds, BurdenIs DEF TunnelInv
  <2>2. /\ \A e \in Ends : waiting'[e] \in Nat
        /\ \A d : Holds(d)' \in Nat
    BY <2>1, FlowIs DEF FlowOK, Holds
  <2> QED
    BY <1>1, <2>2, BurdenIs, FlowIs DEF RequestBurden, ReplyBurden
<1> QED
  BY <1>2, <1>3, <1>4, BurdenIs DEF Burden

LEMMA EndingEases ==
  ASSUME IInv, NEW c \in Copies, CopyEnds(c)
  PROVE  Burden' < Burden /\ Burden' <= Burden
<1>1. /\ c \in copying /\ copying' = copying \ {c} /\ held' = held \ {c}
      /\ UNCHANGED <<sent, given>>
  BY DEF CopyEnds
<1>2. waiting' \in [Ends -> Nat] /\ \A e \in Ends : waiting'[e] <= waiting[e]
  BY BurdenIs, FlowIs, ClosedIs DEF CopyEnds
<1>3. /\ RequestBurden' <= RequestBurden /\ RequestBurden' \in Nat
      /\ ReplyBurden' <= ReplyBurden /\ ReplyBurden' \in Nat
      /\ CopyBurden' <= CopyBurden /\ CopyBurden' \in Nat
  BY <1>1, <1>2, LessIsNoBurden
<1>4. /\ Remaining(c) = 1 /\ Remaining(c)' = 0
      /\ \A d : d # c => Remaining(d)' = Remaining(d)
  BY <1>1 DEF Remaining
<1> HIDE DEF Remaining
<1>5. CopyBurden' = CopyBurden - 1
  <2>1. CASE c = <<"local", "out">>
    BY <1>4, <2>1, BurdenIs, FourCopies DEF CopyBurden
  <2>2. CASE c = <<"out", "local">>
    BY <1>4, <2>2, BurdenIs, FourCopies DEF CopyBurden
  <2>3. CASE c = <<"in", "dial">>
    BY <1>4, <2>3, BurdenIs, FourCopies DEF CopyBurden
  <2>4. CASE c = <<"dial", "in">>
    BY <1>4, <2>4, BurdenIs, FourCopies DEF CopyBurden
  <2> QED
    BY <2>1, <2>2, <2>3, <2>4, FourCopies
<1> QED
  BY <1>3, <1>5, BurdenIs DEF Burden

\* The two programs at the ends bring nothing that was not counted, and whoever else
\* closes or resets a connection takes something away.
LEMMA OthersDoNotBurden ==
  ASSUME IInv,
         \/ ClientSends \/ ClientReads \/ ClientCloses
         \/ ServerReads \/ ServerAnswers \/ ServerCloses
         \/ ConnectionLost \/ (SidecarNext /\ EndsClosed)
  PROVE  Burden' <= Burden
<1>1. CASE ClientSends
  <2>1. /\ sent < RequestLen /\ sent' = sent + 1 /\ UNCHANGED <<given, copying, held>>
    BY <1>1 DEF ClientSends
  <2>2. /\ waiting' \in [Ends -> 0 .. Buffer]
        /\ waiting'["local"] \in {waiting["local"], waiting["local"] + 1}
        /\ \A e \in Ends \ {"local"} : waiting'[e] = waiting[e]
    BY <1>1, BurdenIs, FlowIs, DeliveredIs, Peers DEF ClientSends
  <2>3. /\ \A d : Holds(d)' = Holds(d)
        /\ CopyBurden' = CopyBurden
    BY <2>1 DEF Holds, CopyBurden, Remaining
  <2>4. ReplyBurden' = ReplyBurden
    BY <2>1, <2>2, <2>3, FlowIs, BurdenIs DEF ReplyBurden
  <2>5. RequestBurden' <= RequestBurden /\ RequestBurden' \in Int
    BY <2>1, <2>2, <2>3, FlowIs, BurdenIs DEF RequestBurden
  <2> QED
    BY <2>3, <2>4, <2>5, BurdenIs DEF Burden
<1>2. CASE ServerAnswers
  <2>1. /\ given < ReplyLen /\ given' = given + 1 /\ UNCHANGED <<sent, copying, held>>
    BY <1>2 DEF ServerAnswers
  <2>2. /\ waiting' \in [Ends -> 0 .. Buffer]
        /\ waiting'["dial"] \in {waiting["dial"], waiting["dial"] + 1}
        /\ \A e \in Ends \ {"dial"} : waiting'[e] = waiting[e]
    BY <1>2, BurdenIs, FlowIs, DeliveredIs, Peers DEF ServerAnswers
  <2>3. /\ \A d : Holds(d)' = Holds(d)
        /\ CopyBurden' = CopyBurden
    BY <2>1 DEF Holds, CopyBurden, Remaining
  <2>4. RequestBurden' = RequestBurden
    BY <2>1, <2>2, <2>3, FlowIs, BurdenIs DEF RequestBurden
  <2>5. ReplyBurden' <= ReplyBurden /\ ReplyBurden' \in Int
    BY <2>1, <2>2, <2>3, FlowIs, BurdenIs DEF ReplyBurden
  <2> QED
    BY <2>3, <2>4, <2>5, BurdenIs DEF Burden
<1>3. CASE \/ ClientReads \/ ClientCloses \/ ServerReads \/ ServerCloses \/ ConnectionLost
           \/ (SidecarNext /\ EndsClosed)
  <2>1. UNCHANGED <<sent, given>> /\ copying' \subseteq copying /\ held' \subseteq held
    BY <1>3
    DEF ClientReads, ClientCloses, ServerReads, ServerCloses, ConnectionLost, EndsClosed
  <2>2. waiting' \in [Ends -> Nat] /\ \A e \in Ends : waiting'[e] <= waiting[e]
    <3>1. CASE ClientReads \/ ServerReads \/ ConnectionLost
      BY <3>1, BurdenIs, FlowIs DEF ClientReads, ServerReads, ConnectionLost
    <3>2. CASE ClientCloses \/ ServerCloses \/ EndsClosed
      BY <3>2, BurdenIs, FlowIs, ClosedIs DEF ClientCloses, ServerCloses, EndsClosed
    <3> QED
      BY <1>3, <3>1, <3>2
  <2> QED
    BY <2>1, <2>2, LessIsNoBurden
<1> QED
  BY <1>1, <1>2, <1>3

\* A broken chain is never made again, and the copies take at most Burden steps from there
\* on, whatever the programs, the connection and the provider's process do meanwhile.
THEOREM BreaksAreFinal == Spec => [](Burden \in Nat) /\ BreakIsFinal
<1> DEFINE A == /\ Broken => Broken' /\ Burden' <= Burden
                /\ (\E c \in Copies : CopyStep(c)) => Burden' < Burden
<1>1. ASSUME IInv, Next
      PROVE  A
  <2>1. (\E c \in Copies : CopyStep(c)) => Burden' < Burden
    BY <1>1, CopyEases, EndingEases DEF CopyStep
  <2>2. ASSUME Broken
        PROVE  Broken' /\ Burden' <= Burden
    <3>1. /\ bridge \in {"failed", "bridged"}
          /\ ~ (Accept \/ OpenStream \/ OpenStreamFails \/ DialSidecar \/ DialFails)
      BY <2>2 DEF Broken, Accept, OpenStream, OpenStreamFails, DialSidecar, DialFails
    <3>2. bridge' = bridge /\ open' \subseteq open
      BY <1>1, <3>1
      DEF Next, ClientSends, ClientReads, ClientCloses, ServerReads, ServerAnswers,
          ServerCloses, CopyStep, CopyReads, CopyWrites, CopyEnds, ConnectionLost,
          EndsClosed, Close
    <3>3. Burden' <= Burden
      <4>1. CASE \E c \in Copies : CopyStep(c)
        BY <1>1, <4>1, CopyEases, EndingEases DEF CopyStep
      <4> QED
        BY <1>1, <3>1, <4>1, OthersDoNotBurden DEF Next
    <3> QED
      BY <2>2, <3>2, <3>3 DEF Broken
  <2> QED
    BY <2>1, <2>2
<1>2. IInv /\ [Next]_vars => [A]_vars
  BY <1>1
<1>3. Spec => [](Burden \in Nat)
  BY InvariantHolds, BurdenIsNat, PTL
<1>4. Spec => BreakIsFinal
  BY <1>2, InvariantHolds, PTL DEF Spec, BreakIsFinal
<1> QED
  BY <1>3, <1>4

-----------------------------------------------------------------------------
\* What SidecarComesBack assumes for good: the provider runs, its binary is whole, and
\* no other process has the port.
Undisturbed == main = "running" /\ ~ done /\ port # "foreign" /\ binary = "whole"

\* The loop, or the subprocess, has what to do.
SidecarCanMove ==
    \/ child /\ port = "free"
    \/ ~ child /\ monitor \in {"check", "command", "start", "fork", "wait", "sleep"}

\* A subprocess is one the loop waits for, and the loop returns with its context only.
MonitorOK ==
    /\ main = "starting" => monitor = "off"
    /\ main = "running" /\ ~ done => monitor \notin {"off", "returned"}
    /\ child => monitor = "wait"
    /\ port = "child" => child

\* Until it listens there is always a step to take.
SidecarGoesOn == Undisturbed /\ port # "child" => SidecarCanMove

\* How many steps there are from each place of the loop until it listens.
StepsToListen ==
    IF port = "child" THEN 0
    ELSE IF child THEN 1
    ELSE [fork |-> 2, start |-> 3, command |-> 4, check |-> 5, sleep |-> 6, wait |-> 7,
          off |-> 8, returned |-> 8][monitor]

\* Without another fault, each step of the loop and the subprocess is one step less,
\* and no step makes it more.
SidecarApproaches ==
    [][(Undisturbed /\ Undisturbed' /\ faults' = faults) =>
          /\ StepsToListen' <= StepsToListen
          /\ <<port, child, monitor>>' # <<port, child, monitor>> =>
                StepsToListen' < StepsToListen]_vars

LEMMA MonitorHolds == IInv /\ MonitorOK /\ [Next]_vars => MonitorOK'
<1> SUFFICES ASSUME IInv, MonitorOK, [Next]_vars PROVE MonitorOK'
  OBVIOUS
<1> USE DEF MonitorOK
<1>1. SidecarTypeOK
  BY DEF IInv, SidecarInv
<1>2. CASE StartSidecar \/ Signal \/ StopReads \/ StopKills \/ MainReturns
  BY <1>1, <1>2 DEF StartSidecar, Signal, StopReads, StopKills, MainReturns, Released
<1>3. CASE MonitorChecks \/ NewCommand \/ CommandStarts
  BY <1>1, <1>3 DEF MonitorChecks, NewCommand, CommandStarts
<1>4. CASE Fork \/ WaitReturns \/ Wake \/ ForkFails
  BY <1>1, <1>4 DEF Fork, WaitReturns, AfterExit, Wake, ForkFails
<1>5. CASE ContextKills \/ ChildListens \/ ChildEnds \/ ForeignListens \/ ForeignCloses
  BY <1>1, <1>5
  DEF ContextKills, ChildListens, ChildEnds, ForeignListens, ForeignCloses, Released
<1>6. CASE UNCHANGED <<port, child, monitor, main, done>>
  BY <1>6
<1>7. [SidecarNext]_sidecarVars
  BY ProviderSteps DEF vars
<1> QED
  BY <1>2, <1>3, <1>4, <1>5, <1>6, <1>7 DEF SidecarNext, SidecarRuns, Monitor, sidecarVars

LEMMA Approaching ==
  ASSUME IInv, MonitorOK, [Next]_vars, Undisturbed, Undisturbed', faults' = faults
  PROVE  /\ StepsToListen \in Nat /\ StepsToListen' \in Nat
         /\ StepsToListen' <= StepsToListen
         /\ <<port, child, monitor>>' # <<port, child, monitor>> =>
               StepsToListen' < StepsToListen
<1>1. SidecarTypeOK /\ SidecarTypeOK' /\ MonitorOK'
  BY StepHolds, MonitorHolds DEF IInv, SidecarInv
<1>2. StepsToListen \in Nat /\ StepsToListen' \in Nat
  BY <1>1 DEF StepsToListen, SidecarTypeOK
<1>3. faults \in Nat /\ ~ Fault
  BY FaultsAssumption DEF IInv, StartupInv, StartupTypeOK, Fault
<1>4. [SidecarNext]_sidecarVars
  BY ProviderSteps DEF vars
<1> USE DEF SidecarTypeOK, MonitorOK, Undisturbed, StepsToListen
<1>5. CASE MonitorChecks \/ NewCommand \/ CommandStarts
  BY <1>1, <1>5 DEF MonitorChecks, NewCommand, CommandStarts, StartRefused
<1>6. CASE Fork
  BY <1>1, <1>6 DEF Fork
<1>7. CASE WaitReturns \/ Wake
  BY <1>1, <1>7 DEF WaitReturns, AfterExit, Wake
<1>8. CASE ChildListens
  BY <1>1, <1>8 DEF ChildListens
<1>9. ~ (ForkFails \/ ForeignListens \/ ForeignCloses \/ ContextKills \/ ChildEnds)
  BY <1>3 DEF ForkFails, ForeignListens, ForeignCloses, ContextKills, ChildEnds
<1>10. ~ (StartSidecar \/ Signal \/ StopReads \/ StopKills \/ MainReturns)
  BY DEF StartSidecar, Signal, StopReads, StopKills, MainReturns
<1>11. CASE UNCHANGED <<port, child, monitor>>
  BY <1>2, <1>11
<1> QED
  BY <1>2, <1>4, <1>5, <1>6, <1>7, <1>8, <1>9, <1>10, <1>11
  DEF SidecarNext, SidecarRuns, Monitor, sidecarVars

\* sidecar.go:134: a provider that is not disturbed has at most seven steps to a
\* llama-rpc-server that listens, wherever an exit, a failed start or a fork left the
\* loop, and one it can take until then: the loop does not return and waits for no
\* subprocess that is gone.
THEOREM SidecarsRecover == Spec => []SidecarGoesOn /\ SidecarApproaches
<1>1. Init => MonitorOK
  BY DEF Init, SidecarInit, MonitorOK
<1>2. Spec => [](IInv /\ MonitorOK)
  BY InvariantHolds, MonitorHolds, <1>1, PTL DEF Spec
<1>3. IInv /\ MonitorOK => SidecarGoesOn
  BY DEF IInv, SidecarInv, SidecarTypeOK, MonitorOK, SidecarGoesOn, SidecarCanMove,
     Undisturbed
<1>4. Spec => []SidecarGoesOn
  BY <1>2, <1>3, PTL
<1>5. Spec => SidecarApproaches
  BY <1>2, Approaching, PTL DEF Spec, SidecarApproaches
<1> QED
  BY <1>4, <1>5
=============================================================================
