---------------------------- MODULE GubaldProcess ----------------------------
(***************************************************************************)
(* The gubald process (cmd/gubald/main.go) and what keeps it running: an   *)
(* errgroup of the service, the metrics listener and a waiter for the      *)
(* group's context, and a kubelet that asks /healthz on the service's      *)
(* port. A listener that fails cancels the group's context, which nothing  *)
(* but the waiter looks at: the group waits on for the other listener.     *)
(***************************************************************************)
EXTENDS Naturals

CONSTANTS
  MaxBreaks   \* bound: how often start-up or a listener fails, or the pod is replaced

VARIABLES
  proc,       \* the process
  service,    \* the listener of -bind
  metrics,    \* the listener of -metrics-bind
  breaks

procVars == <<proc, service, metrics, breaks>>

Listener == {"closed", "serving", "failed"}

ProcTypeOK ==
  /\ proc \in {"down", "setup", "up"}
  /\ service \in Listener /\ metrics \in Listener
  /\ breaks \in 0..MaxBreaks

ProcInit ==
  /\ proc = "down" /\ service = "closed" /\ metrics = "closed"
  /\ breaks = 0

Serving == proc = "up" /\ service = "serving"

\* With the process everything it keeps is gone.
Ends == proc' = "down" /\ service' = "closed" /\ metrics' = "closed"

Breaks == breaks < MaxBreaks /\ breaks' = breaks + 1

\* The kubelet starts the container.
StartProcess ==
  /\ proc = "down" /\ proc' = "setup"
  /\ UNCHANGED <<service, metrics, breaks>>

\* run returns an error before the group exists: log.Fatal.
SetupFails ==
  /\ proc = "setup" /\ Breaks
  /\ Ends

SetupDone ==
  /\ proc = "setup" /\ proc' = "up"
  /\ UNCHANGED <<service, metrics, breaks>>

\* ListenAndServe, twice.
Listens ==
  /\ proc = "up"
  /\ \/ service = "closed" /\ service' = "serving" /\ UNCHANGED metrics
     \/ metrics = "closed" /\ metrics' = "serving" /\ UNCHANGED service
  /\ UNCHANGED <<proc, breaks>>

\* ... and how either may return, at once or later.
ListenerFails ==
  /\ proc = "up" /\ Breaks
  /\ \/ service # "failed" /\ service' = "failed" /\ UNCHANGED metrics
     \/ metrics # "failed" /\ metrics' = "failed" /\ UNCHANGED service
  /\ UNCHANGED proc

\* g.Wait is over when all three are.
WaitReturns ==
  /\ proc = "up" /\ service = "failed" /\ metrics = "failed"
  /\ Ends
  /\ UNCHANGED breaks

\* Mutant: /healthz is served next to /metrics.
HealthyOnMetrics == metrics # "failed"

\* A listener that is starting has the initial delay.
Healthy == service # "failed"

HealthcheckFails ==
  /\ proc = "up" /\ ~Healthy
  /\ Ends
  /\ UNCHANGED breaks

\* A new image, a drained node, a panic.
Replaced ==
  /\ proc # "down" /\ Breaks
  /\ Ends

ProcProgress == StartProcess \/ SetupDone \/ Listens \/ WaitReturns \/ HealthcheckFails

ProcNext == ProcProgress \/ SetupFails \/ ListenerFails \/ Replaced

\* Whatever fails, the service is served again before long. The failing listener
\* itself does not see to that: the process stays half alive until the probe ends
\* it (main.go:121-143).
ServiceComesBack == [](~Serving => <>Serving)
==============================================================================
