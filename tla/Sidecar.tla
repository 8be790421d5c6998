------------------------------ MODULE Sidecar -------------------------------
(***************************************************************************)
(* llamacpp.Sidecar (execution/llamacpp/sidecar.go) in the provider's main *)
(* (cmd/provider/main.go): the goroutine that keeps llama-rpc-server       *)
(* running on a port that was found free once, and Stop, which main defers *)
(* and which reads s.cmd without synchronization while the goroutine       *)
(* assigns it.                                                             *)
(***************************************************************************)
EXTENDS Startup

VARIABLES port,             \* who listens on s.port
          child,            \* a llama-rpc-server that was started runs
          monitor,          \* where monitorLoop is
          cmd,              \* s.cmd: its Process is nil until it is started
          main,             \* where main is
          done,             \* ctx is done
          killed            \* Stop has called Kill

sidecarVars == <<port, child, monitor, cmd, main, done, killed, faults, startupVars>>

SidecarInit ==
    /\ StartupInit
    /\ port = "free" /\ child = FALSE
    /\ monitor = "off" /\ cmd = "nil"
    /\ main = "starting" /\ done = FALSE /\ killed = FALSE

Alive == main \notin {"exited", "panicked"}

\* What a subprocess that ends leaves of its port.
Released == IF port = "child" THEN "free" ELSE port

\* Start finds a free port, closes the listener it found it with, and starts
\* the goroutine.
StartSidecar ==
    /\ boot = "ready" /\ main = "starting"
    /\ main' = "running" /\ monitor' = "check"
    /\ UNCHANGED <<port, child, cmd, done, killed, faults>>

MonitorChecks ==
    /\ Alive /\ monitor = "check"
    /\ monitor' = IF done THEN "returned" ELSE "command"
    /\ UNCHANGED <<port, child, cmd, main, done, killed, faults>>

NewCommand ==
    /\ Alive /\ monitor = "command"
    /\ cmd' = "new" /\ monitor' = "start"
    /\ UNCHANGED <<port, child, main, done, killed, faults>>

\* Mutant: exec.Command instead of exec.CommandContext.
StartRefusedNever == FALSE

\* A command with a context does not start when the context is done.
StartRefused == done

CommandStarts ==
    /\ Alive /\ monitor = "start"
    /\ monitor' = IF StartRefused THEN "sleep" ELSE "fork"
    /\ UNCHANGED <<port, child, cmd, main, done, killed, faults>>

Fork ==
    /\ Alive /\ monitor = "fork" /\ binary = "whole"
    /\ child' = TRUE /\ cmd' = "started" /\ monitor' = "wait"
    /\ UNCHANGED <<port, main, done, killed, faults>>

\* The binary is missing or does not run.
ForkFails ==
    /\ Alive /\ monitor = "fork"
    /\ \/ binary # "whole" /\ UNCHANGED faults
       \/ binary = "whole" /\ Fault
    /\ monitor' = "sleep"
    /\ UNCHANGED <<port, child, cmd, main, done, killed>>

\* Mutant: an exit without an error ends the loop.
AfterExitReturns == {"returned"}

\* The loop ends on an error with a context that is done, else it goes on.
AfterExit == IF done THEN {"returned", "sleep"} ELSE {"sleep"}

WaitReturns ==
    /\ Alive /\ monitor = "wait" /\ ~ child
    /\ monitor' \in AfterExit
    /\ UNCHANGED <<port, child, cmd, main, done, killed, faults>>

Wake ==
    /\ Alive /\ monitor = "sleep"
    /\ monitor' = "check"
    /\ UNCHANGED <<port, child, cmd, main, done, killed, faults>>

-----------------------------------------------------------------------------
\* The signal handler cancels the context main waits for.
Signal ==
    /\ Alive /\ main # "starting" /\ ~ done
    /\ done' = TRUE
    /\ UNCHANGED <<port, child, monitor, cmd, main, killed, faults>>

\* Stop: s.cmd # nil and s.cmd.Process # nil, then s.cmd.Process once more.
StopReads ==
    /\ main = "running" /\ done
    /\ main' = IF cmd = "started" THEN "killing" ELSE "closing"
    /\ UNCHANGED <<port, child, monitor, cmd, done, killed, faults>>

StopKills ==
    /\ main = "killing"
    /\ IF cmd = "started"
       THEN /\ child' = FALSE /\ port' = Released
            /\ killed' = TRUE /\ main' = "closing"
       ELSE /\ main' = "panicked"
            /\ UNCHANGED <<port, child, killed>>
    /\ UNCHANGED <<monitor, cmd, done, faults>>

MainReturns ==
    /\ main = "closing"
    /\ main' = "exited"
    /\ UNCHANGED <<port, child, monitor, cmd, done, killed, faults>>

\* The goroutine of os/exec kills the process when the context is done.
ContextKills ==
    /\ Alive /\ done /\ monitor = "wait" /\ child
    /\ child' = FALSE /\ port' = Released
    /\ UNCHANGED <<monitor, cmd, main, done, killed, faults>>

\* llama-rpc-server listens on its port, and it ends when it cannot or crashes.
ChildListens ==
    /\ child /\ port = "free"
    /\ port' = "child"
    /\ UNCHANGED <<child, monitor, cmd, main, done, killed, faults>>

ChildEnds ==
    /\ child
    /\ \/ port = "foreign" /\ UNCHANGED faults
       \/ Fault
    /\ child' = FALSE /\ port' = Released
    /\ UNCHANGED <<monitor, cmd, main, done, killed>>

\* The port is any process's while the subprocess does not listen.
ForeignListens ==
    /\ main # "starting" /\ port = "free" /\ Fault
    /\ port' = "foreign"
    /\ UNCHANGED <<child, monitor, cmd, main, done, killed>>

ForeignCloses ==
    /\ port = "foreign"
    /\ port' = "free"
    /\ UNCHANGED <<child, monitor, cmd, main, done, killed, faults>>

Monitor ==
    MonitorChecks \/ NewCommand \/ CommandStarts \/ Fork \/ WaitReturns \/ Wake

SidecarRuns == (StartSidecar \/ Monitor) /\ UNCHANGED startupVars

SidecarNext ==
    \/ SidecarRuns
    \/ /\ \/ ForkFails
          \/ Signal \/ StopReads \/ StopKills \/ MainReturns
          \/ ContextKills \/ ChildListens \/ ChildEnds
          \/ ForeignListens \/ ForeignCloses
       /\ UNCHANGED startupVars
    \/ StartupNext /\ UNCHANGED <<port, child, monitor, cmd, main, done, killed>>

-----------------------------------------------------------------------------
SidecarTypeOK ==
    /\ port \in {"free", "child", "foreign"}
    /\ child \in BOOLEAN
    /\ monitor \in {"off", "check", "command", "start", "fork", "wait", "sleep", "returned"}
    /\ cmd \in {"nil", "new", "started"}
    /\ main \in {"starting", "running", "killing", "closing", "exited", "panicked"}
    /\ done \in BOOLEAN /\ killed \in BOOLEAN
    /\ StartupTypeOK

\* sidecar.go:171: once Stop has called Kill no llama-rpc-server is left, also
\* when the process it killed was an old one and the loop was about to start
\* the next.
KilledForGood == killed => ~ child

\* sidecar.go:134: while the provider runs, no other process holds the port, and the
\* binary was downloaded in full, llama-rpc-server comes back after exits and failed
\* starts, and it listens.
SidecarComesBack ==
    (<>[](main = "running" /\ ~ done /\ port # "foreign" /\ binary = "whole")) =>
        <>[](port = "child")
=============================================================================
