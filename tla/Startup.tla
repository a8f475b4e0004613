------------------------------ MODULE Startup ------------------------------
(***************************************************************************)
(* How the process comes up and goes down: main of cmd/kraclaw/main.go.    *)
(* It opens the store, NATS, the broker and the queue, starts the          *)
(* orchestrator and the credential proxy as goroutines that report an      *)
(* error on a channel of their own, serves until the context is cancelled  *)
(* or a listener fails, and stops everything in turn.  os.Exit leaves at   *)
(* once; return runs the deferred closes, last opened first.               *)
(***************************************************************************)
EXTENDS Naturals, Sequences, SequencesExt

VARIABLES
  at,         \* where main is
  cancelled,  \* the root context
  opened,     \* the resources with a deferred close, in the order of their opening
  orch,       \* the goroutine that runs Orchestrator.Start
  proxy,      \* the goroutine that runs Proxy.Start
  serving,    \* the gRPC and REST servers accept calls
  joined      \* the orchestrator's channels are connected

boot == <<at, cancelled, opened, orch, proxy, serving, joined>>
services == <<orch, proxy, serving, joined>>

BootInit ==
  /\ at = "store" /\ cancelled = FALSE
  /\ opened = <<>>
  /\ orch = "off" /\ proxy = "off" /\ serving = FALSE /\ joined = FALSE

At(p) == at = p
To(p) == at' = p

\* os.Exit(1) and return.
Exit == at' = "exit"
Return == at' = "closing"

-----------------------------------------------------------------------------
(* Coming up.                                                               *)

\* A resource is opened and its close deferred, or the process exits.
Open(r, p) ==
  /\ \/ To(p) /\ opened' = Append(opened, r)
     \/ Exit /\ UNCHANGED opened
  /\ UNCHANGED <<cancelled, services>>

OpenStore == At("store") /\ Open("store", "nats")
OpenNATS == At("nats") /\ Open("nats", "broker")
OpenBroker == At("broker") /\ Open("broker", "queue")
OpenQueue == At("queue") /\ Open("queue", "kubernetes")

\* Without Kubernetes the process runs on degraded; a controller that cannot be made
\* ends it.
ConnectKubernetes ==
  /\ At("kubernetes") /\ (To("resolver") \/ Return)
  /\ UNCHANGED <<cancelled, opened, services>>

MakeResolver ==
  /\ At("resolver") /\ (To("orchestrator") \/ Exit)
  /\ UNCHANGED <<cancelled, opened, services>>

StartOrchestrator ==
  /\ At("orchestrator")
  /\ \/ To("orchestrator wait") /\ orch' = "starting"
     \/ Return /\ UNCHANGED orch
  /\ UNCHANGED <<cancelled, opened, proxy, serving, joined>>

\* The select of a wait: an error of a service that nobody cancelled ends the
\* process; the timer lets main go on, with an error that has just come still in its
\* channel.
Waited(service, p, after) ==
  \/ service = "failed" /\ after = "reaped" /\ (IF cancelled THEN To(p) ELSE Exit)
  \/ after = service /\ To(p)

WaitOrchestrator ==
  /\ At("orchestrator wait")
  /\ orch' \in {orch, "reaped"} /\ Waited(orch, "proxy", orch')
  /\ UNCHANGED <<cancelled, opened, proxy, serving, joined>>

StartProxy ==
  /\ At("proxy")
  /\ \/ To("proxy wait") /\ proxy' = "starting"
     \/ Exit /\ UNCHANGED proxy
  /\ UNCHANGED <<cancelled, opened, orch, serving, joined>>

WaitProxy ==
  /\ At("proxy wait")
  /\ proxy' \in {proxy, "reaped"} /\ Waited(proxy, "server", proxy')
  /\ UNCHANGED <<cancelled, opened, orch, serving, joined>>

StartServer ==
  /\ At("server")
  /\ \/ To("serving") /\ serving' = TRUE
     \/ Exit /\ UNCHANGED serving
  /\ UNCHANGED <<cancelled, opened, orch, proxy, joined>>

-----------------------------------------------------------------------------
(* The goroutines.                                                          *)

Signal ==
  /\ ~At("exit") /\ ~cancelled /\ cancelled' = TRUE
  /\ UNCHANGED <<at, opened, services>>

\* Orchestrator.Start fails before it is up, or blocks until the context is done.
OrchestratorUp ==
  /\ ~At("exit") /\ orch = "starting"
  /\ \/ orch' = "running" /\ joined' = TRUE
     \/ orch' = "failed" /\ UNCHANGED joined
  /\ UNCHANGED <<at, cancelled, opened, proxy, serving>>

OrchestratorReturns ==
  /\ ~At("exit") /\ orch = "running" /\ cancelled
  /\ orch' = "failed"
  /\ UNCHANGED <<at, cancelled, opened, proxy, serving, joined>>

\* Proxy.Start: a listener that fails, now or later, and the end of the context.
ProxyUp ==
  /\ ~At("exit")
  /\ \/ proxy = "starting" /\ proxy' \in {"running", "failed"}
     \/ proxy = "running" /\ proxy' = "failed"
     \/ proxy = "running" /\ cancelled /\ proxy' = "stopped"
  /\ UNCHANGED <<at, cancelled, opened, orch, serving, joined>>

\* The monitors take over the error channels once main has stopped waiting.
MonitorOrchestrator ==
  /\ at \notin {"orchestrator wait", "exit"} /\ orch = "failed"
  /\ orch' = "reaped" /\ cancelled' = TRUE
  /\ UNCHANGED <<at, opened, proxy, serving, joined>>

\* Variant: a proxy that dies later is only logged.
MonitorProxyLogs ==
  /\ at \notin {"proxy wait", "exit"} /\ proxy = "failed"
  /\ UNCHANGED boot

MonitorProxy ==
  /\ at \notin {"proxy wait", "exit"} /\ proxy = "failed"
  /\ proxy' = "reaped" /\ cancelled' = TRUE
  /\ UNCHANGED <<at, opened, orch, serving, joined>>

-----------------------------------------------------------------------------
(* Going down.                                                              *)

\* Server.Start returns when the context is done or a listener fails.
ServerReturns ==
  /\ At("serving") /\ To("stop server")
  /\ UNCHANGED <<cancelled, opened, services>>

StopServer ==
  /\ At("stop server") /\ To("stop orchestrator")
  /\ serving' = FALSE
  /\ UNCHANGED <<cancelled, opened, orch, proxy, joined>>

\* Orchestrator.Stop disconnects the channels; a Start still under way connects them
\* again.
StopChannels ==
  /\ At("stop orchestrator") /\ To("stop proxy")
  /\ joined' = FALSE
  /\ UNCHANGED <<cancelled, opened, orch, proxy, serving>>

\* Proxy.Stop: a Start that nobody cancelled takes the closed listener for an error.
StopProxy ==
  /\ At("stop proxy") /\ Return
  /\ proxy' = IF proxy # "running" THEN proxy ELSE IF cancelled THEN "stopped" ELSE "failed"
  /\ UNCHANGED <<cancelled, opened, orch, serving, joined>>

CloseLast ==
  /\ At("closing") /\ opened # <<>>
  /\ opened' = Front(opened)
  /\ UNCHANGED <<at, cancelled, services>>

\* The last deferred call cancels the context.
LastCancel ==
  /\ At("closing") /\ opened = <<>> /\ Exit
  /\ cancelled' = TRUE
  /\ UNCHANGED <<opened, services>>

-----------------------------------------------------------------------------
Up ==
  \/ OpenStore \/ OpenNATS \/ OpenBroker \/ OpenQueue \/ ConnectKubernetes \/ MakeResolver
  \/ StartOrchestrator \/ WaitOrchestrator \/ StartProxy \/ WaitProxy \/ StartServer
Down == StopServer \/ StopChannels \/ StopProxy \/ CloseLast \/ LastCancel
Monitors == MonitorOrchestrator \/ MonitorProxy

BootNext ==
  \/ Up \/ ServerReturns \/ Down \/ Monitors
  \/ Signal \/ OrchestratorUp \/ OrchestratorReturns \/ ProxyUp

\* Every step of main is bounded by a timer or a timeout, the monitors wait for
\* nothing but their channel, and Server.Start watches the context.
BootSpec ==
  /\ BootInit /\ [][BootNext]_boot
  /\ WF_boot(Up \/ Down \/ (cancelled /\ ServerReturns))
  /\ WF_boot(MonitorOrchestrator) /\ WF_boot(MonitorProxy)

-----------------------------------------------------------------------------
(* Properties.                                                              *)

\* A service that fails, at whatever moment of the start or later, brings the whole
\* process down.
FailureEndsProcess ==
  []<>({orch, proxy} \cap {"failed", "reaped"} # {} => At("exit"))

=============================================================================
