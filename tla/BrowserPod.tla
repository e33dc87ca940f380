------------------------------ MODULE BrowserPod ------------------------------
(***************************************************************************)
(* The container of a browser image. Its entrypoint (entrypoint.sh for     *)
(* Chrome, firefox-entrypoint.sh for foxbridge and Firefox) checks the     *)
(* binary, starts the DevTools server and by default becomes socat, which  *)
(* relays the port to it; without the bridge it becomes the server itself. *)
(* The container lives as long as what the entrypoint became. The kubelet  *)
(* asks DevTools for /json/version and restarts a container that does not  *)
(* answer.                                                                 *)
(***************************************************************************)
EXTENDS Naturals

CONSTANTS
  MaxFaults   \* bound: how often the DevTools server dies or stops answering

VARIABLES
  bridge,     \* CHROME_SOCAT_BRIDGE, FOXBRIDGE_SOCAT_BRIDGE
  installed,  \* is the image's binary there, and does it tell its version?
  main,       \* what tini waits for: the entrypoint and what it became
  devtools,   \* the DevTools server, Chrome or foxbridge
  faults

podVars == <<bridge, installed, main, devtools, faults>>

PodTypeOK ==
  /\ bridge \in BOOLEAN /\ installed \in BOOLEAN
  /\ main \in {"none", "script", "launched", "socat", "browser"}
  /\ devtools \in {"none", "starting", "serving", "hung", "dead"}
  /\ faults \in 0..MaxFaults

PodInit ==
  /\ bridge \in BOOLEAN /\ installed \in BOOLEAN
  /\ main = "script" /\ devtools = "none" /\ faults = 0

\* Port 9222 leads to a DevTools server that answers.
Answers == main \in {"socat", "browser"} /\ devtools = "serving"

\* A connection to it is taken, but no answer ever comes.
Silent == main \in {"socat", "browser"} /\ devtools = "hung"

\* The container is over, and every process in it.
Ends == main' = "none" /\ devtools' = "none"

------------------------------------------------------------------------------
(* The entrypoint *)

\* No version, or no binary: exit 1.
CheckFails ==
  /\ main = "script" /\ ~installed
  /\ Ends
  /\ UNCHANGED <<bridge, installed, faults>>

\* With the bridge, the server goes to the background ...
LaunchBehindBridge ==
  /\ main = "script" /\ installed /\ bridge
  /\ main' = "launched" /\ devtools' = "starting"
  /\ UNCHANGED <<bridge, installed, faults>>

\* ... and the script becomes socat. Its EXIT trap goes with the script.
ExecSocat ==
  /\ main = "launched"
  /\ main' = "socat"
  /\ UNCHANGED <<bridge, installed, devtools, faults>>

ExecBrowser ==
  /\ main = "script" /\ installed /\ ~bridge
  /\ main' = "browser" /\ devtools' = "starting"
  /\ UNCHANGED <<bridge, installed, faults>>

Listens ==
  /\ devtools = "starting"
  /\ devtools' = "serving"
  /\ UNCHANGED <<bridge, installed, main, faults>>

\* The server stops answering, or exits. Behind the bridge nobody waits for it.
Fault ==
  /\ devtools \in {"starting", "serving"} /\ faults < MaxFaults
  /\ faults' = faults + 1
  /\ \/ devtools' = "hung" /\ UNCHANGED main
     \/ IF main = "browser" THEN Ends ELSE devtools' = "dead" /\ UNCHANGED main
  /\ UNCHANGED <<bridge, installed>>

------------------------------------------------------------------------------
(* The kubelet *)

\* Mutant: a probe that only connects to the port, which socat lets it do.
ProbeConnects == main \in {"none", "script", "launched", "socat"} \/ devtools # "dead"

\* livenessProbe, three times. A server that is starting has the initial delay.
ProbePasses == devtools \notin {"dead", "hung"}

LivenessFails ==
  /\ main \in {"launched", "socat", "browser"} /\ ~ProbePasses
  /\ Ends
  /\ UNCHANGED <<bridge, installed, faults>>

Restart ==
  /\ main = "none"
  /\ main' = "script"
  /\ UNCHANGED <<bridge, installed, devtools, faults>>

------------------------------------------------------------------------------

PodProgress ==
  \/ CheckFails \/ LaunchBehindBridge \/ ExecSocat \/ ExecBrowser \/ Listens
  \/ LivenessFails \/ Restart

PodNext == PodProgress \/ Fault

\* A browser that dies or hangs is back before long, although the trap that was
\* to take socat down with it is gone after exec: the probe asks through socat
\* (entrypoint.sh:108-114, k8s/deployment.yaml:55-61).
BrowserComesBack == installed => [](devtools \in {"dead", "hung"} => <>Answers)
==============================================================================
