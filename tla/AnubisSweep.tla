----------------------------- MODULE AnubisSweep -----------------------------
(***************************************************************************)
(* chromesweep.Run as seen by the shared Anubis Deployment: prepareAnubis  *)
(* snapshots it and may re-image it, the frame collector is brought up,    *)
(* the policies are applied one after the other, the browsers are measured *)
(* under each, and the deferred calls take the collector down and restore  *)
(* the snapshot. Runs follow each other (the service admits one at a time) *)
(* and the process may die anywhere in one.                                *)
(*                                                                         *)
(* The Deployment is what the API server and the deployment controller     *)
(* keep of it: the pod template, whether the newest generation has been    *)
(* observed, whether the last written replica counts say "rolled out", and *)
(* whether anybody has written the object since the sweep last read it.    *)
(* Anubis parses its ruleset when a pod starts.                            *)
(***************************************************************************)
EXTENDS Naturals, Sequences, FiniteSets

CONSTANTS
  Policies,      \* policy names, as numbers: rulesets are applied in name order
  Rules,         \* ruleset contents a request may carry
  BadRules,      \* the rulesets with which Anubis never becomes ready
  DefaultRules,  \* the ruleset built into Anubis, used without POLICY_FNAME
  NoRules,       \* no ConfigMap; the request does not name the policy
  ManifestImage, \* the image in the Anubis manifest on gubald's disk
  LiveImages,    \* the images the live Deployment may be running
  OverrideImage, \* the image a request may ask for
  NoImage,       \* the request asks for no image
  Browsers,      \* len(cfg.Browsers)
  Faults,        \* may API calls fail for reasons of their own?
  MaxRuns,       \* bound: number of runs
  MaxCrashes     \* bound: number of crashes

ASSUME SweepAssumption ==
  /\ Policies \subseteq Nat \ {0}
  /\ IsFiniteSet(Policies)
  /\ BadRules \subseteq Rules
  /\ NoRules \notin Rules /\ DefaultRules \notin BadRules \cup {NoRules}
  /\ NoImage # OverrideImage
  /\ Browsers \in Nat \ {0}
  /\ Faults \in BOOLEAN
  /\ MaxRuns \in Nat /\ MaxCrashes \in Nat

VARIABLES
  tmpl,       \* spec.template of the Anubis Deployment: [image, policy]
  seen,       \* metadata.generation = status.observedGeneration
  complete,   \* the replica counts in status say "rolled out"
  touched,    \* the object was written since the sweep's last Get of it
  pod,        \* the serving Anubis pod: [image, policy, rules]
  cms,        \* contents of the ConfigMaps anubis-policy-<name>
  collector,  \* the frame collector pod
  pc,         \* where Run stands
  cfg,        \* its request: [image, rules]
  todo,       \* policies still to be applied
  cur,        \* the policy of the current pass
  browser,    \* the browser measured next in this pass
  snap,       \* the snapshot of the pod template
  got,        \* the template in the Deployment object read last
  repImage,   \* Report.AnubisImage
  results,    \* Report.Results, one per policy and browser
  runErr,     \* Run returns an error
  ended,      \* the context of the run has ended
  runs, crashes,
  original,   \* history: the template before the first run
  clean,      \* history: no run so far was cut off or failed to restore
  inherited   \* history: policies Anubis was wired to when the run started

live == <<tmpl, seen, complete>>
cluster == <<tmpl, seen, complete, touched, pod, cms, collector>>
report == <<repImage, results, runErr>>
history == <<runs, crashes, original, clean, inherited>>
vars == <<cluster, pc, cfg, todo, cur, browser, snap, got, report, ended, history>>

\* The policy name "": sweep against whatever Anubis is running.
NoPolicy == 0

Images == LiveImages \cup {ManifestImage, OverrideImage}
Template == [image : Images, policy : Policies \cup {NoPolicy}]
Pod == [image : Images, policy : Policies \cup {NoPolicy},
        rules : Rules \cup {DefaultRules}]
Result ==
  [policy : Policies \cup {NoPolicy}, browser : 1..Browsers, measured : {TRUE},
   image : Images, rules : Rules \cup {DefaultRules}]
  \cup [policy : Policies \cup {NoPolicy}, browser : 1..Browsers, measured : {FALSE}]

PCs == {"idle", "snapshot", "setImage", "waitImage", "staleCollector",
        "collectorGone", "createCollector", "waitCollector", "nextPolicy",
        "configMap", "getAnubis", "wirePolicy", "waitPolicy", "measure",
        "deleteCollector", "restoreGet", "restoreUpdate", "restoreWait"}

TypeOK ==
  /\ tmpl \in Template
  /\ seen \in BOOLEAN /\ complete \in BOOLEAN /\ touched \in BOOLEAN
  /\ pod \in Pod
  /\ cms \in [Policies -> Rules \cup {NoRules}]
  /\ collector \in {"absent", "pending", "running", "terminating"}
  /\ pc \in PCs
  /\ cfg \in [image : {OverrideImage, NoImage}, rules : [Policies -> Rules \cup {NoRules}]]
  /\ todo \subseteq Policies \cup {NoPolicy}
  /\ cur \in Policies \cup {NoPolicy}
  /\ browser \in 1..Browsers
  /\ snap \in Template /\ got \in Template
  /\ repImage \in Images
  /\ results \in Seq(Result)
  /\ runErr \in BOOLEAN /\ ended \in BOOLEAN
  /\ runs \in 0..MaxRuns /\ crashes \in 0..MaxCrashes
  /\ original \in Template /\ clean \in BOOLEAN
  /\ inherited \subseteq Policies \cup {NoPolicy}

Init ==
  /\ \E i \in LiveImages :
       /\ tmpl = [image |-> i, policy |-> NoPolicy]
       /\ pod = [image |-> i, policy |-> NoPolicy, rules |-> DefaultRules]
  /\ seen = TRUE /\ complete = TRUE /\ touched = FALSE
  /\ cms = [p \in Policies |-> NoRules]
  /\ collector = "absent"
  /\ pc = "idle"
  /\ cfg = [image |-> NoImage, rules |-> [p \in Policies |-> NoRules]]
  /\ todo = {} /\ cur = NoPolicy /\ browser = 1
  /\ snap = tmpl /\ got = tmpl /\ repImage = ManifestImage
  /\ results = <<>> /\ runErr = FALSE /\ ended = FALSE
  /\ runs = 0 /\ crashes = 0 /\ original = tmpl /\ clean = TRUE
  /\ inherited = {}

------------------------------------------------------------------------------
(* The API server, as the sweep's calls meet it *)

\* A call under the run's context goes through only while that is alive; any
\* call may fail when Faults says so.
Alive == ~ended
MayFail == Faults \/ ended

\* Writing a template: a change bumps the generation, which the controller has
\* yet to observe, and leaves the status as it was; an equal one changes nothing.
SetTemplate(t) ==
  /\ tmpl' = t
  /\ seen' = (seen /\ t = tmpl)
  /\ UNCHANGED complete

\* A write of t that reports an error may or may not have been applied.
FailedWrite(t) == SetTemplate(t) \/ UNCHANGED live

\* The counts alone, which may be those of the previous generation.
ReadyByCounts == complete

\* The condition WaitDeploymentReady polls for.
Ready == seen /\ complete

\* It gives up on a timeout, on any error of Get, or when its context ends.
ReadyTimesOut(mayFail) == mayFail \/ ~Ready

------------------------------------------------------------------------------
(* The deployment controller and the kubelet (external) *)

\* The controller takes note of the newest generation and rewrites the counts;
\* they are right at once only if the pods already run this template.
ControllerObserves ==
  /\ ~seen
  /\ seen' = TRUE
  /\ complete' \in {FALSE, tmpl = [image |-> pod.image, policy |-> pod.policy]}
  /\ touched' = TRUE
  /\ UNCHANGED <<tmpl, pod, cms, collector, pc, cfg, todo, cur, browser, snap, got,
                 report, ended, history>>

RulesFor(t) == IF t.policy = NoPolicy THEN DefaultRules ELSE cms[t.policy]

\* A pod of the newest template becomes ready and replaces the old one, reading
\* its ruleset as it starts; a pod that already runs this template is kept.
RolloutCompletes ==
  /\ seen /\ ~complete
  /\ complete' = TRUE
  /\ touched' = TRUE
  /\ IF tmpl = [image |-> pod.image, policy |-> pod.policy]
     THEN UNCHANGED pod
     ELSE /\ RulesFor(tmpl) \notin BadRules \cup {NoRules}
          /\ pod' = [image |-> tmpl.image, policy |-> tmpl.policy, rules |-> RulesFor(tmpl)]
  /\ UNCHANGED <<tmpl, seen, cms, collector, pc, cfg, todo, cur, browser, snap, got,
                 report, ended, history>>

\* While a rollout is under way its progress is written to the status.
RolloutProgresses ==
  /\ seen /\ ~complete /\ ~touched
  /\ touched' = TRUE
  /\ UNCHANGED <<live, pod, cms, collector, pc, cfg, todo, cur, browser, snap, got,
                 report, ended, history>>

Kubelet ==
  /\ \/ collector = "pending" /\ collector' = "running"
     \/ collector = "terminating" /\ collector' = "absent"
  /\ UNCHANGED <<live, touched, pod, cms, pc, cfg, todo, cur, browser, snap, got,
                 report, ended, history>>

Controller == ControllerObserves \/ RolloutCompletes

------------------------------------------------------------------------------
(* Run *)

\* The request, and the fresh state of a call of Run. No policies at all means
\* one pass under the name "".
Start ==
  /\ pc = "idle" /\ runs < MaxRuns
  /\ runs' = runs + 1
  /\ cfg' \in [image : {OverrideImage, NoImage}, rules : [Policies -> Rules \cup {NoRules}]]
  /\ LET named == {p \in Policies : cfg'.rules[p] # NoRules}
     IN  todo' = IF named = {} THEN {NoPolicy} ELSE named
  /\ pc' = "snapshot"
  /\ results' = <<>> /\ runErr' = FALSE /\ ended' = FALSE
  /\ inherited' = {tmpl.policy, pod.policy}
  /\ UNCHANGED <<cluster, cur, browser, snap, got, repImage, crashes, original, clean>>

\* The run's context ends: deadline of a submit, caller of SmokeTest gone.
ContextEnds ==
  /\ pc # "idle" /\ ~ended
  /\ ended' = TRUE
  /\ UNCHANGED <<cluster, pc, cfg, todo, cur, browser, snap, got, report, history>>

\* prepareAnubis, first part. Without a snapshot Run returns at once.
Snapshot ==
  /\ pc = "snapshot"
  /\ \/ /\ Alive
        /\ snap' = tmpl
        /\ repImage' = ManifestImage
        /\ pc' = IF cfg.image # NoImage THEN "setImage" ELSE "staleCollector"
        /\ UNCHANGED runErr
     \/ /\ MayFail
        /\ pc' = "idle" /\ runErr' = TRUE
        /\ UNCHANGED <<snap, repImage>>
  /\ UNCHANGED <<cluster, cfg, todo, cur, browser, got, results, ended, history>>

\* prepareAnubis, second part: the image override is a patch, so it never
\* conflicts. On an error the snapshot is restored before Run returns it.
SetImage ==
  /\ pc = "setImage"
  /\ LET t == [tmpl EXCEPT !.image = cfg.image] IN
     \/ /\ Alive /\ SetTemplate(t)
        /\ pc' = "waitImage" /\ UNCHANGED runErr
     \/ /\ MayFail /\ FailedWrite(t)
        /\ pc' = "restoreGet" /\ runErr' = TRUE
  /\ UNCHANGED <<touched, pod, cms, collector, cfg, todo, cur, browser, snap, got,
                 repImage, results, ended, history>>

\* Returning the error of the rollout without restoring first.
WaitImageJustReturns ==
  /\ pc = "waitImage"
  /\ \/ /\ Alive /\ Ready
        /\ repImage' = cfg.image
        /\ pc' = "staleCollector" /\ UNCHANGED runErr
     \/ /\ ReadyTimesOut(MayFail)
        /\ pc' = "idle" /\ runErr' = TRUE
        /\ UNCHANGED repImage
  /\ UNCHANGED <<cluster, cfg, todo, cur, browser, snap, got, results, ended, history>>

WaitImage ==
  /\ pc = "waitImage"
  /\ \/ /\ Alive /\ Ready
        /\ repImage' = cfg.image
        /\ pc' = "staleCollector" /\ UNCHANGED runErr
     \/ /\ ReadyTimesOut(MayFail)
        /\ pc' = "restoreGet" /\ runErr' = TRUE
        /\ UNCHANGED repImage
  /\ UNCHANGED <<cluster, cfg, todo, cur, browser, snap, got, results, ended, history>>

------------------------------------------------------------------------------
(* EnsureCollector: delete a stale pod, wait until it is gone, create, wait *)
(* until it runs. On an error Run returns it; the restore is deferred by    *)
(* then, the deletion of the collector is not.                              *)

CollectorFails == MayFail /\ pc' = "restoreGet" /\ runErr' = TRUE

CollectorStep(from, to) ==
  /\ pc = from /\ Alive /\ pc' = to /\ UNCHANGED runErr

EnsureCollector ==
  /\ \/ /\ CollectorStep("staleCollector", "createCollector")
        /\ collector = "absent" /\ UNCHANGED collector
     \/ /\ CollectorStep("staleCollector", "collectorGone")
        /\ collector # "absent" /\ collector' = "terminating"
     \/ /\ CollectorStep("collectorGone", "createCollector")
        /\ collector = "absent" /\ UNCHANGED collector
     \/ /\ CollectorStep("createCollector", "waitCollector")
        /\ collector' = "pending"
     \/ /\ CollectorStep("waitCollector", "nextPolicy")
        /\ collector = "running" /\ UNCHANGED collector
     \/ /\ pc = "createCollector" /\ CollectorFails
        /\ collector' \in {collector, "pending"}
     \/ /\ pc \in {"staleCollector", "collectorGone", "waitCollector"} /\ CollectorFails
        /\ UNCHANGED collector
  /\ UNCHANGED <<live, touched, pod, cms, cfg, todo, cur, browser, snap, got,
                 repImage, results, ended, history>>

\* The two polls also give up after ReadyTimeout.
CollectorTimesOut ==
  /\ \/ pc = "collectorGone" /\ collector # "absent"
     \/ pc = "waitCollector" /\ collector # "running"
  /\ pc' = "restoreGet" /\ runErr' = TRUE
  /\ UNCHANGED <<cluster, cfg, todo, cur, browser, snap, got, repImage, results,
                 ended, history>>

------------------------------------------------------------------------------
(* The policy loop *)

First(S) == CHOOSE p \in S : \A q \in S : p <= q

NextPolicy ==
  /\ pc = "nextPolicy" /\ todo # {}
  /\ cur' = First(todo)
  /\ todo' = todo \ {First(todo)}
  /\ browser' = 1
  /\ pc' = IF First(todo) = NoPolicy THEN "measure" ELSE "configMap"
  /\ UNCHANGED <<cluster, cfg, snap, got, report, ended, history>>

PoliciesDone ==
  /\ pc = "nextPolicy" /\ todo = {}
  /\ pc' = "deleteCollector"
  /\ UNCHANGED <<cluster, cfg, todo, cur, browser, snap, got, report, ended, history>>

\* A StatusError or StatusNotReady result says nothing about Anubis.
Errored(b) == [policy |-> cur, browser |-> b, measured |-> FALSE]

\* A pass or a failure of the smoke Job says what Anubis did then.
Judged(b) == [policy |-> cur, browser |-> b, measured |-> TRUE,
              image |-> pod.image, rules |-> pod.rules]

\* A policy that cannot be applied is left out of the report.
PolicyFailsSilently == UNCHANGED results /\ pc' = "nextPolicy"

\* policyErrorResults: one error per browser, and on to the next policy.
PolicyFails ==
  /\ results' = results \o [b \in 1..Browsers |-> Errored(b)]
  /\ pc' = "nextPolicy"

\* A ConfigMap that is there already is kept as it is.
WriteConfigMapOnce ==
  /\ pc = "configMap"
  /\ LET written == [cms EXCEPT ![cur] = IF @ = NoRules THEN cfg.rules[cur] ELSE @] IN
     \/ /\ Alive /\ cms' = written
        /\ pc' = "getAnubis" /\ UNCHANGED results
     \/ /\ MayFail /\ cms' \in {cms, written}
        /\ PolicyFails
  /\ UNCHANGED <<live, touched, pod, collector, cfg, todo, cur, browser, snap, got,
                 repImage, runErr, ended, history>>

\* applyPolicy, first call: CreateOrReplaceConfigMap. Nobody else writes it.
WriteConfigMap ==
  /\ pc = "configMap"
  /\ LET written == [cms EXCEPT ![cur] = cfg.rules[cur]] IN
     \/ /\ Alive /\ cms' = written
        /\ pc' = "getAnubis" /\ UNCHANGED results
     \/ /\ MayFail /\ cms' \in {cms, written}
        /\ PolicyFails
  /\ UNCHANGED <<live, touched, pod, collector, cfg, todo, cur, browser, snap, got,
                 repImage, runErr, ended, history>>

\* Reading the Deployment for a later update remembers its resourceVersion.
GetDeployment == got' = tmpl /\ touched' = FALSE

\* applyPolicy, second call: SetAnubisPolicy reads the Deployment ...
GetAnubis ==
  /\ pc = "getAnubis"
  /\ \/ /\ Alive /\ GetDeployment
        /\ pc' = "wirePolicy" /\ UNCHANGED results
     \/ /\ MayFail /\ PolicyFails
        /\ UNCHANGED <<got, touched>>
  /\ UNCHANGED <<live, pod, cms, collector, cfg, todo, cur, browser, snap,
                 repImage, runErr, ended, history>>

\* The policy wired into the snapshot instead of the live template.
WirePolicyIntoSnapshot ==
  /\ pc = "wirePolicy"
  /\ LET t == [snap EXCEPT !.policy = cur] IN
     \/ /\ Alive /\ ~touched /\ SetTemplate(t)
        /\ pc' = "waitPolicy" /\ UNCHANGED results
     \/ /\ touched /\ UNCHANGED live
        /\ PolicyFails
     \/ /\ MayFail /\ ~touched /\ FailedWrite(t)
        /\ PolicyFails
  /\ UNCHANGED <<touched, pod, cms, collector, cfg, todo, cur, browser, snap, got,
                 repImage, runErr, ended, history>>

\* ... and updates what it read, which is a conflict if somebody wrote it since.
WirePolicy ==
  /\ pc = "wirePolicy"
  /\ LET t == [got EXCEPT !.policy = cur] IN
     \/ /\ Alive /\ ~touched /\ SetTemplate(t)
        /\ pc' = "waitPolicy" /\ UNCHANGED results
     \/ /\ touched /\ UNCHANGED live
        /\ PolicyFails
     \/ /\ MayFail /\ ~touched /\ FailedWrite(t)
        /\ PolicyFails
  /\ UNCHANGED <<touched, pod, cms, collector, cfg, todo, cur, browser, snap, got,
                 repImage, runErr, ended, history>>

\* Polling for a rollout without a timeout.
WaitPolicyForever ==
  /\ pc = "waitPolicy"
  /\ \/ Alive /\ Ready /\ pc' = "measure" /\ UNCHANGED results
     \/ MayFail /\ PolicyFails
  /\ UNCHANGED <<cluster, cfg, todo, cur, browser, snap, got, repImage, runErr,
                 ended, history>>

\* applyPolicy, third call.
WaitPolicy ==
  /\ pc = "waitPolicy"
  /\ \/ Alive /\ Ready /\ pc' = "measure" /\ UNCHANGED results
     \/ ReadyTimesOut(MayFail) /\ PolicyFails
  /\ UNCHANGED <<cluster, cfg, todo, cur, browser, snap, got, repImage, runErr,
                 ended, history>>

\* An off-by-one at the last browser.
MeasurePastTheEnd ==
  /\ pc = "measure"
  /\ \/ Alive /\ results' = Append(results, Judged(browser))
     \/ results' = Append(results, Errored(browser))
  /\ IF browser <= Browsers
     THEN browser' = browser + 1 /\ UNCHANGED pc
     ELSE pc' = "nextPolicy" /\ UNCHANGED browser
  /\ UNCHANGED <<cluster, cfg, todo, cur, snap, got, repImage, runErr, ended, history>>

\* sweepBrowsers: each browser meets the Anubis pod that serves at that time,
\* or ends in an error of its own (always so once the context has ended).
Measure ==
  /\ pc = "measure"
  /\ \/ Alive /\ results' = Append(results, Judged(browser))
     \/ results' = Append(results, Errored(browser))
  /\ IF browser < Browsers
     THEN browser' = browser + 1 /\ UNCHANGED pc
     ELSE pc' = "nextPolicy" /\ UNCHANGED browser
  /\ UNCHANGED <<cluster, cfg, todo, cur, snap, got, repImage, runErr, ended, history>>

------------------------------------------------------------------------------
(* The deferred calls, last registered first, on a context of their own *)

DeleteCollector ==
  /\ pc = "deleteCollector"
  /\ \/ collector' = IF collector = "absent" THEN "absent" ELSE "terminating"
     \/ Faults /\ UNCHANGED collector
  /\ pc' = "restoreGet"
  /\ UNCHANGED <<live, touched, pod, cms, cfg, todo, cur, browser, snap, got, report,
                 ended, history>>

RestoreFails == pc' = "idle" /\ clean' = FALSE

RestoreGet ==
  /\ pc = "restoreGet"
  /\ \/ GetDeployment /\ pc' = "restoreUpdate" /\ UNCHANGED clean
     \/ Faults /\ RestoreFails /\ UNCHANGED <<got, touched>>
  /\ UNCHANGED <<live, pod, cms, collector, cfg, todo, cur, browser, snap, report,
                 ended, runs, crashes, original, inherited>>

\* Reverting the image only.
RestoreUpdateImage ==
  /\ pc = "restoreUpdate"
  /\ LET t == [got EXCEPT !.image = snap.image] IN
     \/ ~touched /\ SetTemplate(t) /\ pc' = "restoreWait" /\ UNCHANGED clean
     \/ touched /\ UNCHANGED live /\ RestoreFails
     \/ Faults /\ ~touched /\ FailedWrite(t) /\ RestoreFails
  /\ UNCHANGED <<touched, pod, cms, collector, cfg, todo, cur, browser, snap, got,
                 report, ended, runs, crashes, original, inherited>>

RestoreUpdate ==
  /\ pc = "restoreUpdate"
  /\ \/ ~touched /\ SetTemplate(snap) /\ pc' = "restoreWait" /\ UNCHANGED clean
     \/ touched /\ UNCHANGED live /\ RestoreFails
     \/ Faults /\ ~touched /\ FailedWrite(snap) /\ RestoreFails
  /\ UNCHANGED <<touched, pod, cms, collector, cfg, todo, cur, browser, snap, got,
                 report, ended, runs, crashes, original, inherited>>

RestoreWait ==
  /\ pc = "restoreWait"
  /\ Ready \/ ReadyTimesOut(Faults)
  /\ pc' = "idle"
  /\ UNCHANGED <<cluster, cfg, todo, cur, browser, snap, got, report, ended, history>>

\* The process dies: the deferred calls never run.
Crash ==
  /\ pc # "idle" /\ crashes < MaxCrashes
  /\ crashes' = crashes + 1
  /\ pc' = "idle" /\ runErr' = TRUE /\ clean' = FALSE
  /\ UNCHANGED <<cluster, cfg, todo, cur, browser, snap, got, repImage, results,
                 ended, runs, original, inherited>>

------------------------------------------------------------------------------

RunStep ==
  \/ Snapshot \/ SetImage \/ WaitImage \/ EnsureCollector \/ CollectorTimesOut
  \/ NextPolicy \/ PoliciesDone \/ WriteConfigMap \/ GetAnubis \/ WirePolicy
  \/ WaitPolicy \/ Measure
  \/ DeleteCollector \/ RestoreGet \/ RestoreUpdate \/ RestoreWait

Next ==
  \/ Start \/ RunStep \/ ContextEnds \/ Crash
  \/ ControllerObserves \/ RolloutCompletes \/ RolloutProgresses \/ Kubelet

SafetySpec == Init /\ [][Next]_vars

\* Every call of Run returns, and the controller does its work.
Spec == SafetySpec /\ WF_vars(RunStep) /\ WF_vars(Controller)

------------------------------------------------------------------------------
(* Properties *)

Measured == {i \in DOMAIN results : results[i].measured}

\* A browser reported under a policy met an Anubis that serves the ruleset the
\* request carries for it, unless the run found Anubis already wired to a policy
\* of that name (sweep.go:95-115, cluster.go:65-83).
MeasuredUnderItsPolicy ==
  \A i \in Measured :
    LET p == results[i].policy IN
    p \notin inherited \cup {NoPolicy} => results[i].rules = cfg.rules[p]

\* What applyPolicy's comment promises without exception: "waits for the
\* resulting rollout so subsequent browser requests hit the new ruleset"
\* (sweep.go:95-97).
RequestsHitTheNewRuleset ==
  \A i \in Measured :
    LET p == results[i].policy IN p # NoPolicy => results[i].rules = cfg.rules[p]

\* The image override survives the policy edits made on top of it: every
\* browser is measured against the requested image, which is also the one
\* reported (sweep.go:206-218, cluster.go:444-469).
OverrideIsMeasured ==
  \A i \in Measured :
    cfg.image # NoImage => results[i].image = cfg.image /\ repImage = cfg.image

\* A run that returns a report has one result for every policy and browser of
\* the request, in order, whatever failed on the way (sweep.go:80-92, 117-134).
Passes == LET named == {p \in Policies : cfg.rules[p] # NoRules}
          IN  IF named = {} THEN {NoPolicy} ELSE named
ReportIsComplete ==
  (pc = "idle" /\ runs > 0 /\ ~runErr) =>
    /\ Len(results) = Cardinality(Passes) * Browsers
    /\ \A p \in Passes, b \in 1..Browsers :
         \E i \in DOMAIN results : results[i].policy = p /\ results[i].browser = b
    /\ \A i, j \in DOMAIN results : i < j => results[i].policy <= results[j].policy

\* Between runs the Deployment is as the first run found it, as long as no run
\* was cut off by a crash and no restore failed (sweep.go:191-204).
LeftAsFound == (pc = "idle" /\ clean) => tmpl = original

\* "the original Anubis pod template is restored at the end" (sweep.go:54-55).
RestoredAtTheEnd == (pc = "idle" /\ runs > 0 /\ crashes = 0) => tmpl = original

\* After a run with a working restore Anubis serves its own template again.
AnubisComesBack ==
  (pc = "idle" /\ clean) ~>
    \/ pod.image = original.image /\ pod.policy = original.policy
    \/ pc # "idle"

------------------------------------------------------------------------------
(* A run keeps the contract of a sweep *)

NthPass(n) == CHOOSE p \in Passes : Cardinality({q \in Passes : q < p}) = n - 1

RowsWanted ==
  [i \in 1..Cardinality(Passes) * Browsers |->
    <<NthPass(((i - 1) \div Browsers) + 1), ((i - 1) % Browsers) + 1>>]
RowsGiven == [i \in DOMAIN results |-> <<results[i].policy, results[i].browser>>]
RunAnswer ==
  IF runs = 0 THEN "none" ELSE IF pc # "idle" THEN "running"
  ELSE IF runErr THEN "error" ELSE "report"

Contract == INSTANCE SweepContract WITH
  Keys <- (Policies \cup {NoPolicy}) \X (1..Browsers),
  wanted <- RowsWanted, given <- RowsGiven, answer <- RunAnswer

\* Whatever fails on the way, rows come in the order of the matrix and stay, a
\* report has all of them, and a run that cannot get there says so: which is what
\* the service takes Run for. It always gets to one or the other, so that no rollout,
\* collector or context that fails to arrive keeps the slot for ever
\* (sweep.go:49-93, 117-134).
RunContract == Contract!Spec
==============================================================================
