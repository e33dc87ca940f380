----------------------------- MODULE VersionStack -----------------------------
(***************************************************************************)
(* sweepOne for one browser version, pass after pass. Every pass replaces  *)
(* the version's Deployment, Service and NetworkPolicy, waits for the      *)
(* browser, replaces the smoke Job, waits for its verdict, reads the logs  *)
(* and deletes the four objects again. The next pass (the next policy, or  *)
(* a sweep after a crash) uses the same names while the garbage collector  *)
(* may still be at work on what the last one left.                         *)
(*                                                                         *)
(* An object is known by the pass that made it. The pods of a kind are     *)
(* numbered pairs <<pass, attempt>>: a Job makes a new one for each retry. *)
(***************************************************************************)
EXTENDS Naturals, FiniteSets

CONSTANTS
  MaxPasses,    \* bound: number of passes
  MaxCrashes,   \* bound: number of crashes of gubald
  BackoffLimit, \* retries of the smoke Job
  Flaky         \* the kinds of API server to consider: see flaky

ASSUME StackAssumption ==
  /\ MaxPasses \in Nat /\ MaxCrashes \in Nat
  /\ BackoffLimit \in Nat
  /\ Flaky \subseteq BOOLEAN

VARIABLES
  flaky,    \* may calls fail for reasons of their own?
  obj,      \* the objects of the version: what the API server has, by kind
  maker,    \* the pass that made each
  podsOf,   \* the pods of the Deployment and of the Job
  depReady, \* the Deployment's status says rolled out
  jobPod,   \* how the newest pod of the Job ended, or that it runs
  jobState, \* the condition in the Job's status
  pc,       \* where sweepOne stands
  kind,     \* the object it is at
  pass,     \* this pass
  ended,    \* its context has ended
  result,   \* Result.Status, and the pods its verdict and its logs are from
  spared,   \* history: the objects this pass could not delete at its end
  clean,    \* history: no teardown so far spared any
  crashes

cluster == <<obj, maker, podsOf, depReady, jobPod, jobState>>
progress == <<pc, kind, pass, ended>>
history == <<spared, clean, crashes>>
vars == <<flaky, cluster, progress, result, history>>

Kinds == {"deployment", "service", "networkpolicy", "job"}
Owners == {"deployment", "job"}

\* sweepOne and DeleteVersionResources go through them in this order.
After == [deployment |-> "service", service |-> "networkpolicy", networkpolicy |-> "job"]

Passes == 1..MaxPasses
Attempts == 0..BackoffLimit
NoPass == 0
NoPod == <<NoPass, 0>>
Pods == Passes \X Attempts

Blank == [status |-> "none", verdictOf |-> NoPod, logsOf |-> NoPod]

TypeOK ==
  /\ flaky \in Flaky
  /\ obj \in [Kinds -> {"absent", "present", "terminating"}]
  /\ maker \in [Kinds -> Passes \cup {NoPass}]
  /\ podsOf \in [Owners -> SUBSET Pods]
  /\ depReady \in BOOLEAN
  /\ jobPod \in {"none", "running", "succeeded", "failed"}
  /\ jobState \in {"none", "complete", "failed"}
  /\ pc \in {"idle", "delete", "gone", "create", "waitReady", "waitJob", "logs", "teardown"}
  /\ kind \in Kinds
  /\ pass \in Passes \cup {NoPass}
  /\ ended \in BOOLEAN
  /\ result \in [status : {"none", "pass", "fail", "not_ready", "error"},
                 verdictOf : Pods \cup {NoPod}, logsOf : Pods \cup {NoPod}]
  /\ spared \subseteq Kinds
  /\ clean \in BOOLEAN
  /\ crashes \in 0..MaxCrashes

Init ==
  /\ flaky \in Flaky
  /\ obj = [k \in Kinds |-> "absent"] /\ maker = [k \in Kinds |-> NoPass]
  /\ podsOf = [k \in Owners |-> {}]
  /\ depReady = FALSE /\ jobPod = "none" /\ jobState = "none"
  /\ pc = "idle" /\ kind = "deployment" /\ pass = NoPass /\ ended = FALSE
  /\ result = Blank
  /\ spared = {} /\ clean = TRUE /\ crashes = 0

Alive == ~ended
MayFail == flaky \/ ended

------------------------------------------------------------------------------
(* The API server and its controllers (external) *)

\* Deleting with foreground propagation keeps the object until its pods are gone;
\* in the background it goes at once and the pods follow. Only a Deployment or a
\* Job has pods. What is terminating already stays so.
Deleted(k, foreground) ==
  IF k \in Owners /\ foreground /\ obj[k] = "present" THEN "terminating"
  ELSE IF obj[k] = "terminating" THEN "terminating" ELSE "absent"

\* A pod goes once nothing present owns it.
PodGoes ==
  /\ \E k \in Owners : \E p \in podsOf[k] :
       /\ obj[k] # "present" \/ maker[k] # p[1]
       /\ podsOf' = [podsOf EXCEPT ![k] = @ \ {p}]
  /\ UNCHANGED <<flaky, obj, maker, depReady, jobPod, jobState, progress, result, history>>

\* A terminating owner goes when the last of its pods has gone.
OwnerGoes ==
  /\ \E k \in Owners :
       /\ obj[k] = "terminating"
       /\ \A p \in podsOf[k] : p[1] # maker[k]
       /\ obj' = [obj EXCEPT ![k] = "absent"]
  /\ UNCHANGED <<flaky, maker, podsOf, depReady, jobPod, jobState, progress, result, history>>

\* The Deployment's pod starts and passes its readiness probe, or never does.
BrowserStarts ==
  /\ obj["deployment"] = "present" /\ ~depReady
  /\ podsOf' = [podsOf EXCEPT !["deployment"] = @ \cup {<<maker["deployment"], 0>>}]
  /\ depReady' \in BOOLEAN
  /\ UNCHANGED <<flaky, obj, maker, jobPod, jobState, progress, result, history>>

JobPods == {p \in podsOf["job"] : p[1] = maker["job"]}

\* The Job controller starts a pod, and after a failure the next one ...
JobPodStarts ==
  /\ obj["job"] = "present" /\ jobState = "none" /\ jobPod \in {"none", "failed"}
  /\ Cardinality(JobPods) <= BackoffLimit
  /\ podsOf' = [podsOf EXCEPT !["job"] = @ \cup {<<maker["job"], Cardinality(JobPods)>>}]
  /\ jobPod' = "running"
  /\ UNCHANGED <<flaky, obj, maker, depReady, jobState, progress, result, history>>

JobPodEnds ==
  /\ obj["job"] = "present" /\ jobPod = "running"
  /\ jobPod' \in {"succeeded", "failed"}
  /\ UNCHANGED <<flaky, obj, maker, podsOf, depReady, jobState, progress, result, history>>

\* ... until one succeeds or the retries are used up.
JobEnds ==
  /\ obj["job"] = "present" /\ jobState = "none"
  /\ \/ jobPod = "succeeded" /\ jobState' = "complete"
     \/ /\ jobPod = "failed" /\ Cardinality(JobPods) > BackoffLimit
        /\ jobState' = "failed"
  /\ UNCHANGED <<flaky, obj, maker, podsOf, depReady, jobPod, progress, result, history>>

Controllers ==
  PodGoes \/ OwnerGoes \/ BrowserStarts \/ JobPodStarts \/ JobPodEnds \/ JobEnds

------------------------------------------------------------------------------
(* sweepOne *)

\* The policies of one sweep share its context; another sweep has a new one.
Start ==
  /\ pc = "idle" /\ pass < MaxPasses
  /\ pass' = pass + 1
  /\ pc' = "delete" /\ kind' = "deployment"
  /\ ended' \in {ended, FALSE}
  /\ result' = Blank /\ spared' = {}
  /\ UNCHANGED <<flaky, cluster, clean, crashes>>

ContextEnds ==
  /\ pc # "idle" /\ ~ended
  /\ ended' = TRUE
  /\ UNCHANGED <<flaky, cluster, pc, kind, pass, result, history>>

\* An early return from before the teardown was deferred.
FailsUndeferred(status) ==
  /\ result' = [result EXCEPT !.status = status]
  /\ pc' = "idle" /\ kind' = "deployment"

\* Every error sets the status and returns, into the deferred teardown.
Fails(status) ==
  /\ result' = [result EXCEPT !.status = status]
  /\ pc' = "teardown" /\ kind' = "deployment"

\* A new object, with the empty status of a new object.
Created ==
  /\ obj' = [obj EXCEPT ![kind] = "present"]
  /\ maker' = [maker EXCEPT ![kind] = pass]
  /\ depReady' = (depReady /\ kind # "deployment")
  /\ jobPod' = IF kind = "job" THEN "none" ELSE jobPod
  /\ jobState' = IF kind = "job" THEN "none" ELSE jobState

Proceed ==
  /\ pc' = CASE kind \in {"deployment", "service"} -> "delete"
             [] kind = "networkpolicy" -> "waitReady"
             [] kind = "job" -> "waitJob"
  /\ kind' = IF kind = "job" THEN "job" ELSE After[kind]

\* Keeping an object of that name that is already there.
DeleteOldReuses ==
  /\ pc = "delete"
  /\ \/ /\ Alive /\ obj[kind] = "absent"
        /\ pc' = "create" /\ UNCHANGED <<kind, result>>
     \/ Alive /\ obj[kind] # "absent" /\ Proceed /\ UNCHANGED result
     \/ MayFail /\ Fails("error")
  /\ UNCHANGED <<flaky, cluster, pass, ended, history>>

\* CreateOrReplace* and ReplaceJob begin with a Delete: the Job's in the
\* foreground, the others with the default of the API, the background.
DeleteOld ==
  /\ pc = "delete"
  /\ \/ /\ Alive /\ obj[kind] = "absent"
        /\ pc' = "create" /\ UNCHANGED <<obj, kind, result>>
     \/ /\ Alive /\ obj[kind] # "absent"
        /\ obj' = [obj EXCEPT ![kind] = Deleted(kind, kind = "job")]
        /\ pc' = "gone" /\ UNCHANGED <<kind, result>>
     \/ /\ MayFail /\ Fails("error")
        /\ obj' \in {obj, [obj EXCEPT ![kind] = Deleted(kind, kind = "job")]}
  /\ UNCHANGED <<flaky, maker, podsOf, depReady, jobPod, jobState, pass, ended, history>>

\* waitGone: NotFound, or else an error, a timeout or the end of the context.
WaitGone ==
  /\ pc = "gone"
  /\ \/ Alive /\ obj[kind] = "absent" /\ pc' = "create" /\ UNCHANGED <<kind, result>>
     \/ (MayFail \/ obj[kind] # "absent") /\ Fails("error")
  /\ UNCHANGED <<flaky, cluster, pass, ended, history>>

\* Going on although the object could not be made.
CreateRegardless ==
  /\ pc = "create"
  /\ Proceed
  /\ \/ Alive /\ obj[kind] = "absent" /\ Created
     \/ MayFail /\ UNCHANGED <<obj, maker, depReady, jobPod, jobState>>
  /\ UNCHANGED <<flaky, podsOf, pass, ended, result, history>>

\* A call that reports an error may yet have made the object.
Create ==
  /\ pc = "create"
  /\ \/ Alive /\ obj[kind] = "absent" /\ Created /\ Proceed /\ UNCHANGED result
     \/ /\ MayFail \/ obj[kind] # "absent"
        /\ Fails("error")
        /\ \/ obj[kind] = "absent" /\ Created
           \/ UNCHANGED <<obj, maker, depReady, jobPod, jobState>>
  /\ UNCHANGED <<flaky, podsOf, pass, ended, history>>

\* WaitDeploymentReady polls the status of the Deployment of that name.
WaitReady ==
  /\ pc = "waitReady"
  /\ \/ Alive /\ depReady /\ pc' = "delete" /\ UNCHANGED <<kind, result>>
     \/ (MayFail \/ ~depReady) /\ Fails("not_ready")
  /\ UNCHANGED <<flaky, cluster, pass, ended, history>>

\* Polling without a timeout.
WaitJobForever ==
  /\ pc = "waitJob"
  /\ \/ /\ Alive /\ obj["job"] # "absent" /\ jobState # "none"
        /\ result' = [result EXCEPT
             !.status = IF jobState = "complete" THEN "pass" ELSE "fail",
             !.verdictOf = <<maker["job"], Cardinality(JobPods) - 1>>]
        /\ pc' = "logs" /\ UNCHANGED kind
     \/ MayFail /\ Fails("error")
  /\ UNCHANGED <<flaky, cluster, pass, ended, history>>

\* WaitJob polls the conditions of the Job of that name.
WaitJob ==
  /\ pc = "waitJob"
  /\ \/ /\ Alive /\ obj["job"] # "absent" /\ jobState # "none"
        /\ result' = [result EXCEPT
             !.status = IF jobState = "complete" THEN "pass" ELSE "fail",
             !.verdictOf = <<maker["job"], Cardinality(JobPods) - 1>>]
        /\ pc' = "logs" /\ UNCHANGED kind
     \/ (MayFail \/ jobState = "none") /\ Fails("error")
  /\ UNCHANGED <<flaky, cluster, pass, ended, history>>

\* podLogsBySelector: the newest pod of the Job by that name.
Newer(p, q) == p[1] > q[1] \/ (p[1] = q[1] /\ p[2] > q[2])
Newest(S) == CHOOSE p \in S : \A q \in S \ {p} : Newer(p, q)

\* The logs are wanted but not needed: without them the verdict stands.
ReadLogs ==
  /\ pc = "logs"
  /\ \/ /\ Alive /\ podsOf["job"] # {}
        /\ result' = [result EXCEPT !.logsOf = Newest(podsOf["job"])]
     \/ (MayFail \/ podsOf["job"] = {}) /\ UNCHANGED result
  /\ pc' = "teardown" /\ kind' = "deployment"
  /\ UNCHANGED <<flaky, cluster, pass, ended, history>>

\* Deletion in the background, as CreateOrReplaceDeployment's own.
TeardownInBackground ==
  /\ pc = "teardown"
  /\ \/ /\ obj' = [obj EXCEPT ![kind] = Deleted(kind, FALSE)]
        /\ UNCHANGED spared
     \/ flaky /\ UNCHANGED obj /\ spared' = spared \cup {kind}
  /\ IF kind = "job"
     THEN pc' = "idle" /\ clean' = (clean /\ spared' = {}) /\ UNCHANGED kind
     ELSE kind' = After[kind] /\ UNCHANGED <<pc, clean>>
  /\ UNCHANGED <<flaky, maker, podsOf, depReady, jobPod, jobState, pass, ended, result, crashes>>

\* Returning the first error instead of joining them all.
TeardownStopsAtAnError ==
  /\ pc = "teardown"
  /\ \/ /\ obj' = [obj EXCEPT ![kind] = Deleted(kind, TRUE)]
        /\ UNCHANGED spared
     \/ flaky /\ UNCHANGED obj /\ spared' = spared \cup {kind}
  /\ IF kind = "job" \/ spared' # {}
     THEN pc' = "idle" /\ clean' = (clean /\ spared' = {}) /\ UNCHANGED kind
     ELSE kind' = After[kind] /\ UNCHANGED <<pc, clean>>
  /\ UNCHANGED <<flaky, maker, podsOf, depReady, jobPod, jobState, pass, ended, result, crashes>>

\* DeleteVersionResources on a context of its own: each object in turn, the
\* Deployment and the Job in the foreground, whatever became of the one before.
Teardown ==
  /\ pc = "teardown"
  /\ \/ /\ obj' = [obj EXCEPT ![kind] = Deleted(kind, TRUE)]
        /\ UNCHANGED spared
     \/ /\ flaky
        /\ obj' \in {obj, [obj EXCEPT ![kind] = Deleted(kind, TRUE)]}
        /\ spared' = spared \cup {kind}
  /\ IF kind = "job"
     THEN pc' = "idle" /\ clean' = (clean /\ spared' = {}) /\ UNCHANGED kind
     ELSE kind' = After[kind] /\ UNCHANGED <<pc, clean>>
  /\ UNCHANGED <<flaky, maker, podsOf, depReady, jobPod, jobState, pass, ended, result, crashes>>

\* gubald dies: no teardown, and no result reaches a report.
Crash ==
  /\ pc # "idle" /\ crashes < MaxCrashes
  /\ crashes' = crashes + 1
  /\ pc' = "idle" /\ spared' = Kinds /\ clean' = FALSE
  /\ result' = Blank
  /\ UNCHANGED <<flaky, cluster, kind, pass, ended>>

------------------------------------------------------------------------------

SweepStep ==
  DeleteOld \/ WaitGone \/ Create \/ WaitReady \/ WaitJob \/ ReadLogs \/ Teardown

Next == Start \/ SweepStep \/ ContextEnds \/ Crash \/ Controllers

SafetySpec == Init /\ [][Next]_vars

\* Every poll has a timeout and every call an end, and the garbage collector does
\* its work. A browser or a Job may hang for ever.
Spec == SafetySpec /\ WF_vars(SweepStep) /\ WF_vars(PodGoes \/ OwnerGoes)

------------------------------------------------------------------------------
(* Properties *)

\* A pass or a failure is the verdict of the Job this pass made, and the logs
\* reported with it are those of the pod that decided it, never of an earlier
\* attempt or of an earlier pass by the same name; and whatever happens there is
\* some status by the time of the teardown (sweep.go:261-315, cluster.go:102-121,
\* 257-281).
VerdictIsOwn ==
  /\ result.status \in {"pass", "fail"} =>
       /\ result.verdictOf[1] = pass
       /\ result.logsOf \in {NoPod, result.verdictOf}
  /\ pc = "teardown" => result.status # "none"

\* The Job runs against the stack of its own pass: all three objects are there
\* and of this pass from the Job's creation until its verdict is in, and as long as
\* every teardown went through the only browser pod behind the Service is that of
\* this pass: the foreground deletion holds the name until the old pods are gone
\* (sweep.go:238-271, cluster.go:126-145, 196-201).
JobHasItsStack ==
  /\ (pc \in {"waitJob", "logs"} \/ (pc = "create" /\ kind = "job")) =>
       \A k \in Kinds \ {"job"} : obj[k] = "present" /\ maker[k] = pass
  /\ (pc \in {"waitJob", "logs"} /\ clean) => podsOf["deployment"] \subseteq {<<pass, 0>>}

\* Whatever failed in a pass, each of its objects is deleted at its end unless
\* the deletion of that very object failed or gubald died (sweep.go:230-236,
\* cluster.go:196-212).
TeardownTriesEverything ==
  pc = "idle" => \A k \in Kinds \ spared : obj[k] # "present"

\* sweepOne always comes back, and what it leaves behind goes away unless a deletion
\* failed (sweep.go:222-236, cluster.go:193-240).
SweepOneEnds ==
  /\ pc # "idle" ~> pc = "idle"
  /\ (pc = "idle" /\ spared = {}) ~>
       ((\A k \in Kinds : obj[k] = "absent") \/ pc # "idle")

==============================================================================
