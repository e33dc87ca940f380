--------------------------- MODULE VersionStackProofs ---------------------------
(***************************************************************************)
(* Theorems about VersionStack, for any number of passes, crashes and Job  *)
(* retries, and for an API server that may fail anywhere.                  *)
(*                                                                         *)
(* What the properties say about a verdict or a browser pod rests on which *)
(* pass made which object. The inductive invariant says it in parts, each  *)
(* kept by few actions: the objects a pass has made so far are there and   *)
(* its own (MadeSoFar); makers and pods never come from a later pass, and  *)
(* not from this one before it made the object (OlderIsOlder); the pods of *)
(* a Job are numbered without a gap (PodsInOrder); a teardown leaves       *)
(* nothing it got at (TornDown); and while every teardown went through,    *)
(* the browser pods are those of the Deployment there is (OneBrowser).     *)
(***************************************************************************)
EXTENDS VersionStack, TLAPS, FiniteSetTheorems

\* The kinds sweepOne and DeleteVersionResources come to before a kind.
Before(k) ==
  CASE k = "deployment" -> {}
    [] k = "service" -> {"deployment"}
    [] k = "networkpolicy" -> {"deployment", "service"}
    [] k = "job" -> {"deployment", "service", "networkpolicy"}

\* The kinds this pass has made.
Made ==
  CASE pc \in {"delete", "gone", "create"} -> Before(kind)
    [] pc = "waitReady" -> Before("job")
    [] pc \in {"waitJob", "logs"} -> Kinds
    [] OTHER -> {}

\* What the control state says about the place in the order and the pass.
InPlace ==
  /\ pc \in {"waitReady", "waitJob", "logs"} => kind = "job"
  /\ pc # "idle" => pass # NoPass

\* An object that is there was made by some pass, and what this pass made so far is
\* there and its own.
MadeSoFar ==
  /\ \A k \in Kinds : obj[k] = "present" => maker[k] # NoPass
  /\ \A k \in Made : obj[k] = "present" /\ maker[k] = pass

\* Nothing comes from a later pass, and no Job from this one before it is made.
OlderIsOlder ==
  /\ maker["job"] <= pass
  /\ \A p \in podsOf["job"] : p[1] <= maker["job"]
  /\ pc \in {"delete", "gone", "create", "waitReady"} => maker["job"] < pass

\* The attempts of the Job that is there, without a gap; none ended before it began.
PodsInOrder ==
  obj["job"] = "present" =>
    /\ Cardinality(JobPods) \in 0..(BackoffLimit + 1)
    /\ JobPods = {maker["job"]} \X (0..(Cardinality(JobPods) - 1))
    /\ jobPod # "none" => Cardinality(JobPods) > 0
    /\ jobState # "none" => jobPod # "none"

\* The verdict is of the last attempt, and the logs are its own or not there yet.
Verdict ==
  /\ VerdictIsOwn
  /\ pc \notin {"idle", "teardown"} => result.logsOf = NoPod
  /\ pc = "logs" =>
       /\ result.status \in {"pass", "fail"}
       /\ jobState # "none"
       /\ result.verdictOf = <<maker["job"], Cardinality(JobPods) - 1>>
  /\ pc \notin {"idle", "teardown", "logs"} => result.status = "none"

\* What a teardown has come to is gone, or going, or it could not be deleted.
TornDown ==
  /\ TeardownTriesEverything
  /\ pc = "teardown" => \A k \in Before(kind) \ spared : obj[k] # "present"
  /\ clean /\ pc = "idle" => spared = {}

\* While every teardown went through: the Deployment's name is not free, and no new
\* Deployment there, as long as pods of the old one are left.
OneBrowser ==
  clean =>
    /\ podsOf["deployment"] \subseteq {<<maker["deployment"], 0>>}
    /\ obj["deployment"] = "absent" => podsOf["deployment"] = {}
    /\ pc \in {"delete", "gone", "create"} /\ kind = "deployment" =>
         obj["deployment"] # "present"

IInv ==
  /\ TypeOK /\ InPlace /\ MadeSoFar /\ OlderIsOlder /\ PodsInOrder
  /\ Verdict /\ TornDown /\ OneBrowser

\* The bounds of the model are naturals.
LEMMA Bounds ==
  /\ BackoffLimit \in Nat /\ MaxPasses \in Nat /\ MaxCrashes \in Nat
  /\ 0 \in Attempts /\ NoPass \notin Passes
BY StackAssumption DEF Attempts, Passes, NoPass

\* The values of result and of an object.
Results == [status : {"none", "pass", "fail", "not_ready", "error"},
            verdictOf : Pods \cup {NoPod}, logsOf : Pods \cup {NoPod}]
States == {"absent", "present", "terminating"}

\* Setting a field of the result keeps its type.
LEMMA ResultFields ==
  ASSUME NEW r \in Results
  PROVE  /\ \A s \in {"none", "pass", "fail", "not_ready", "error"} :
              LET q == [r EXCEPT !.status = s]
              IN  q \in Results /\ q.status = s
                  /\ q.verdictOf = r.verdictOf /\ q.logsOf = r.logsOf
         /\ \A s \in {"pass", "fail"}, p \in Pods :
              LET q == [r EXCEPT !.status = s, !.verdictOf = p]
              IN  q \in Results /\ q.status = s /\ q.verdictOf = p /\ q.logsOf = r.logsOf
         /\ \A p \in Pods :
              LET q == [r EXCEPT !.logsOf = p]
              IN  q \in Results /\ q.status = r.status
                  /\ q.verdictOf = r.verdictOf /\ q.logsOf = p
BY DEF Results

\* An empty result is one.
LEMMA BlankIsTyped == Blank \in Results /\ Blank.status = "none" /\ Blank.logsOf = NoPod
BY DEF Blank, Results

\* Pods are pairs.
LEMMA PodFacts ==
  /\ \A p \in Pods : p = <<p[1], p[2]>> /\ p[1] \in Passes /\ p[2] \in Attempts
  /\ \A m \in Passes, a \in Attempts :
       <<m, a>> \in Pods /\ <<m, a>>[1] = m /\ <<m, a>>[2] = a
BY DEF Pods

\* The newest of a set of pods that has one above all others.
LEMMA NewestIs ==
  ASSUME NEW S \in SUBSET Pods, NEW p \in S, \A q \in S \ {p} : Newer(p, q)
  PROVE  Newest(S) = p
<1>1. \A q \in Pods : q[1] \in Nat /\ q[2] \in Nat
  BY PodFacts, Bounds DEF Passes, Attempts
<1>2. \A q, r \in Pods : ~(Newer(q, r) /\ Newer(r, q))
  BY <1>1 DEF Newer
<1>3. ASSUME NEW q \in S, \A r \in S \ {q} : Newer(q, r) PROVE q = p
  BY <1>2, <1>3
<1>4. QED
  BY <1>3 DEF Newest

\* The pods numbered from 0 are as many as the number they stop at.
LEMMA NumberedPods ==
  ASSUME NEW m, NEW n \in Nat
  PROVE  /\ IsFiniteSet({m} \X (0..(n - 1)))
         /\ Cardinality({m} \X (0..(n - 1))) = n
         /\ ({m} \X (0..(n - 1))) \cup {<<m, n>>} = {m} \X (0..n)
<1>1. IsFiniteSet({m}) /\ Cardinality({m}) = 1
  BY FS_Singleton
<1>2. IsFiniteSet(0..(n - 1)) /\ Cardinality(0..(n - 1)) = n
  BY FS_Interval
<1>3. Cardinality({m} \X (0..(n - 1))) = 1 * n /\ IsFiniteSet({m} \X (0..(n - 1)))
  BY <1>1, <1>2, FS_Product
<1>4. 0..n = (0..(n - 1)) \cup {n}
  OBVIOUS
<1>5. QED
  BY <1>3, <1>4

\* The Job that is there, the pass that made it and how many pods it has had.
LEMMA JobFacts ==
  ASSUME TypeOK, MadeSoFar, PodsInOrder, obj["job"] = "present"
  PROVE  /\ maker["job"] \in Passes
         /\ Cardinality(JobPods) \in Nat /\ Cardinality(JobPods) - 1 \in Int
         /\ Cardinality(JobPods) <= BackoffLimit => Cardinality(JobPods) \in Attempts
         /\ Cardinality(JobPods) > 0 => Cardinality(JobPods) - 1 \in Attempts
<1>1. maker["job"] \in Passes
  BY DEF TypeOK, MadeSoFar, Kinds
<1>2. QED
  BY <1>1, Bounds DEF PodsInOrder, Attempts

\* A failure changes the status and nothing else of the result.
LEMMA FailsIsTyped ==
  ASSUME result \in Results, NEW s \in {"error", "not_ready"}, Fails(s)
  PROVE  /\ result' \in Results /\ result'.status = s
         /\ result'.verdictOf = result.verdictOf /\ result'.logsOf = result.logsOf
<1>1. result' = [result EXCEPT !.status = s]
  BY DEF Fails
<1>2. QED
  BY <1>1 DEF Results

\* The newest pod of the Job that is there is its last attempt, although pods of
\* earlier passes may still be around.
LEMMA NewestPod ==
  ASSUME TypeOK, MadeSoFar, OlderIsOlder, PodsInOrder,
         obj["job"] = "present", jobPod # "none"
  PROVE  /\ <<maker["job"], Cardinality(JobPods) - 1>> \in Pods
         /\ Newest(podsOf["job"]) = <<maker["job"], Cardinality(JobPods) - 1>>
<1> DEFINE n == Cardinality(JobPods) - 1
           last == <<maker["job"], n>>
<1>1. n \in Nat /\ maker["job"] \in Passes /\ JobPods = {maker["job"]} \X (0..n)
  BY JobFacts DEF PodsInOrder
<1>2. last \in podsOf["job"] /\ last \in Pods
  <2>1. last \in JobPods
    BY <1>1
  <2>2. QED
    BY <2>1 DEF JobPods, TypeOK, Owners
<1>3. ASSUME NEW q \in podsOf["job"] \ {last} PROVE Newer(last, q)
  <2>1. q \in Pods /\ q[1] <= maker["job"]
    BY DEF TypeOK, Owners, OlderIsOlder
  <2>2. CASE q[1] = maker["job"]
    <3>1. q \in JobPods
      BY <2>2 DEF JobPods
    <3>2. PICK i \in 0..n : q = <<maker["job"], i>>
      BY <1>1, <3>1
    <3>3. i < n
      BY <1>1, <3>2
    <3>4. QED
      BY <3>2, <3>3 DEF Newer
  <2>3. CASE q[1] # maker["job"]
    <3>1. q[1] \in Nat /\ maker["job"] \in Nat
      BY <1>1, <2>1, PodFacts, Bounds DEF Passes
    <3>2. q[1] < maker["job"]
      BY <2>1, <2>3, <3>1
    <3>3. QED
      BY <3>2 DEF Newer
  <2>4. QED
    BY <2>2, <2>3
<1>4. podsOf["job"] \in SUBSET Pods
  BY DEF TypeOK, Owners
<1>5. QED
  BY <1>2, <1>3, <1>4, NewestIs

\* Every step keeps type correctness.
LEMMA TypeStep == IInv /\ [Next]_vars => TypeOK'
<1> SUFFICES ASSUME IInv, [Next]_vars PROVE TypeOK'
  OBVIOUS
<1> USE DEF IInv
<1>0. result \in Results /\ obj \in [Kinds -> States]
  BY DEF TypeOK, Results, States
<1>1. CASE Start
  <2>1. pass' \in Passes \cup {NoPass}
    BY <1>1, Bounds DEF TypeOK, Start, Passes, NoPass
  <2>2. result' \in Results
    BY <1>1, BlankIsTyped DEF Start
  <2>3. QED
    BY <1>1, <2>1, <2>2 DEF TypeOK, Start, cluster, Results, Kinds
<1>2. CASE DeleteOld
  <2>1. obj' \in [Kinds -> States]
    BY <1>0, <1>2 DEF DeleteOld, Deleted, States
  <2>2. result' \in Results
    BY <1>0, <1>2, FailsIsTyped DEF DeleteOld
  <2>3. QED
    BY <1>2, <2>1, <2>2 DEF TypeOK, DeleteOld, Fails, history, States, Results, Kinds
<1>3. CASE WaitGone
  <2>1. result' \in Results
    BY <1>0, <1>3, FailsIsTyped DEF WaitGone
  <2>2. QED
    BY <1>3, <2>1 DEF TypeOK, WaitGone, Fails, cluster, history, Results, Kinds
<1>4. CASE Create
  <2>1. obj' \in [Kinds -> States] /\ maker' \in [Kinds -> Passes \cup {NoPass}]
    BY <1>0, <1>4 DEF TypeOK, Create, Created, States
  <2>2. result' \in Results
    BY <1>0, <1>4, FailsIsTyped DEF Create
  <2>3. kind' \in Kinds
    BY <1>4 DEF TypeOK, Create, Proceed, Fails, After, Kinds
  <2>4. pc' \in {"teardown", "delete", "waitReady", "waitJob"}
    BY <1>4 DEF TypeOK, Create, Proceed, Fails, Kinds
  <2>5. /\ depReady' \in BOOLEAN
        /\ jobPod' \in {"none", "running", "succeeded", "failed"}
        /\ jobState' \in {"none", "complete", "failed"}
    BY <1>4 DEF TypeOK, Create, Created
  <2>6. QED
    BY <1>4, <2>1, <2>2, <2>3, <2>4, <2>5 DEF TypeOK, Create, history, States, Results
<1>5. CASE WaitReady
  <2>1. result' \in Results
    BY <1>0, <1>5, FailsIsTyped DEF WaitReady
  <2>2. QED
    BY <1>5, <2>1 DEF TypeOK, WaitReady, Fails, cluster, history, Results, Kinds
<1>6. CASE WaitJob
  <2>1. CASE jobState # "none" /\ obj["job"] = "present"
    <3>1. <<maker["job"], Cardinality(JobPods) - 1>> \in Pods
      BY <2>1, JobFacts, PodFacts DEF PodsInOrder
    <3>2. result' \in Results
      <4>1. CASE Fails("error")
        BY <1>0, <4>1, FailsIsTyped
      <4>2. CASE ~Fails("error")
        <5>1. PICK s \in {"pass", "fail"} :
                result' = [result EXCEPT !.status = s,
                             !.verdictOf = <<maker["job"], Cardinality(JobPods) - 1>>]
          BY <1>6, <4>2 DEF WaitJob
        <5>2. QED
          BY <1>0, <3>1, <5>1, ResultFields
      <4>3. QED
        BY <4>1, <4>2
    <3>3. QED
      BY <1>6, <3>2 DEF TypeOK, WaitJob, Fails, cluster, history, Results, Kinds
  <2>2. CASE jobState = "none" \/ obj["job"] # "present"
    <3>1. obj["job"] = "present"
      BY <1>6 DEF WaitJob, MadeSoFar, Made, Kinds
    <3>2. Fails("error")
      BY <1>6, <2>2, <3>1 DEF WaitJob
    <3>3. result' \in Results
      BY <1>0, <3>2, FailsIsTyped
    <3>4. QED
      BY <1>6, <3>3 DEF TypeOK, WaitJob, Fails, cluster, history, Results, Kinds
  <2>3. QED
    BY <2>1, <2>2
<1>7. CASE ReadLogs
  <2>1. Newest(podsOf["job"]) \in Pods
    BY <1>7, NewestPod DEF ReadLogs, Verdict, MadeSoFar, Made, Kinds, PodsInOrder
  <2>2. result' \in Results
    BY <1>0, <1>7, <2>1 DEF ReadLogs, Results
  <2>3. QED
    BY <1>7, <2>2 DEF TypeOK, ReadLogs, cluster, history, Results, Kinds
<1>8. CASE Teardown
  <2>1. obj' \in [Kinds -> States]
    BY <1>0, <1>8 DEF Teardown, Deleted, States
  <2>2. spared' \subseteq Kinds /\ clean' \in BOOLEAN
    BY <1>8 DEF TypeOK, Teardown
  <2>3. kind' \in Kinds /\ pc' \in {"idle", "teardown"}
    BY <1>8 DEF TypeOK, Teardown, After, Kinds
  <2>4. QED
    BY <1>8, <2>1, <2>2, <2>3 DEF TypeOK, Teardown, States
<1>9. CASE ContextEnds
  BY <1>9 DEF TypeOK, ContextEnds, cluster, history
<1>10. CASE Crash
  <2>1. crashes' \in 0..MaxCrashes
    BY <1>10, Bounds DEF TypeOK, Crash
  <2>2. result' \in Results
    BY <1>10, BlankIsTyped DEF Crash
  <2>3. QED
    BY <1>10, <2>1, <2>2 DEF TypeOK, Crash, cluster, Results
<1>11. CASE PodGoes
  BY <1>11 DEF TypeOK, PodGoes, progress, history
<1>12. CASE OwnerGoes
  <2>1. obj' \in [Kinds -> States]
    BY <1>0, <1>12 DEF OwnerGoes, States
  <2>2. QED
    BY <1>12, <2>1 DEF TypeOK, OwnerGoes, progress, history, States
<1>13. CASE BrowserStarts
  <2>1. <<maker["deployment"], 0>> \in Pods
    BY <1>13, Bounds, PodFacts DEF TypeOK, BrowserStarts, MadeSoFar, Kinds
  <2>2. podsOf' \in [Owners -> SUBSET Pods]
    BY <1>13, <2>1 DEF TypeOK, BrowserStarts
  <2>3. QED
    BY <1>13, <2>2 DEF TypeOK, BrowserStarts, progress, history
<1>14. CASE JobPodStarts
  <2>1. <<maker["job"], Cardinality(JobPods)>> \in Pods
    BY <1>14, JobFacts, PodFacts DEF JobPodStarts
  <2>2. podsOf' \in [Owners -> SUBSET Pods]
    BY <1>14, <2>1 DEF TypeOK, JobPodStarts
  <2>3. QED
    BY <1>14, <2>2 DEF TypeOK, JobPodStarts, progress, history
<1>15. CASE JobPodEnds
  BY <1>15 DEF TypeOK, JobPodEnds, progress, history
<1>16. CASE JobEnds
  BY <1>16 DEF TypeOK, JobEnds, progress, history
<1>17. CASE UNCHANGED vars
  BY <1>17 DEF TypeOK, vars, cluster, progress, history
<1>18. QED
  BY <1>1, <1>2, <1>3, <1>4, <1>5, <1>6, <1>7, <1>8, <1>9, <1>10, <1>11, <1>12, <1>13,
     <1>14, <1>15, <1>16, <1>17 DEF Next, SweepStep, Controllers

\* A deletion touches the object it is for, and none is made by it.
LEMMA DeletionFacts ==
  ASSUME TypeOK, DeleteOld \/ Teardown
  PROVE  /\ \A k \in Kinds : obj'[k] = "present" => obj[k] = "present"
         /\ \A k \in Kinds \ {kind} : obj'[k] = obj[k]
         /\ maker' = maker /\ podsOf' = podsOf
<1>1. PICK fg \in BOOLEAN : obj' \in {obj, [obj EXCEPT ![kind] = Deleted(kind, fg)]}
  BY DEF DeleteOld, Teardown
<1>2. Deleted(kind, fg) # "present"
  BY DEF Deleted
<1>3. QED
  BY <1>1, <1>2 DEF TypeOK, DeleteOld, Teardown

\* A call that makes the object, alone and for this pass.
LEMMA CreationFacts ==
  ASSUME TypeOK, Create
  PROVE  /\ \A k \in Kinds \ {kind} : obj'[k] = obj[k] /\ maker'[k] = maker[k]
         /\ podsOf' = podsOf
         /\ \/ obj'[kind] = "present" /\ maker'[kind] = pass /\ Created
            \/ UNCHANGED <<obj, maker, depReady, jobPod, jobState>> /\ Fails("error")
BY DEF TypeOK, Create, Created

\* Every step keeps the control state in its place in the order of objects.
LEMMA PlaceStep == TypeOK /\ InPlace /\ [Next]_vars => InPlace'
<1> SUFFICES ASSUME TypeOK /\ InPlace, [Next]_vars PROVE InPlace'
  OBVIOUS
<1> USE DEF TypeOK, InPlace, Kinds, Passes, NoPass
<1>1. CASE Start
  BY <1>1 DEF Start, cluster
<1>2. CASE DeleteOld
  BY <1>2 DEF DeleteOld, Fails, Alive, MayFail, history
<1>3. CASE WaitGone
  BY <1>3 DEF WaitGone, Fails, Alive, MayFail, cluster, history
<1>4. CASE Create
  BY <1>4 DEF Create, Fails, Alive, MayFail, Created, Proceed, After, history
<1>5. CASE WaitReady
  BY <1>5 DEF WaitReady, Fails, Alive, MayFail, cluster, history
<1>6. CASE WaitJob
  BY <1>6 DEF WaitJob, Fails, Alive, MayFail, cluster, history
<1>7. CASE ReadLogs
  BY <1>7 DEF ReadLogs, Alive, MayFail, cluster, history
<1>8. CASE Teardown
  BY <1>8 DEF Teardown, After
<1>9. CASE ContextEnds
  BY <1>9 DEF ContextEnds, cluster, history
<1>10. CASE Crash
  BY <1>10 DEF Crash, cluster
<1>11. CASE PodGoes
  BY <1>11 DEF PodGoes, progress, history
<1>12. CASE OwnerGoes
  BY <1>12 DEF OwnerGoes, progress, history
<1>13. CASE BrowserStarts
  BY <1>13 DEF BrowserStarts, progress, history
<1>14. CASE JobPodStarts
  BY <1>14 DEF JobPodStarts, progress, history
<1>15. CASE JobPodEnds
  BY <1>15 DEF JobPodEnds, progress, history
<1>16. CASE JobEnds
  BY <1>16 DEF JobEnds, progress, history
<1>17. CASE UNCHANGED vars
  BY <1>17 DEF vars, cluster, progress, history
<1>18. QED
  BY <1>1, <1>2, <1>3, <1>4, <1>5, <1>6, <1>7, <1>8, <1>9, <1>10, <1>11, <1>12, <1>13,
     <1>14, <1>15, <1>16, <1>17 DEF Next, SweepStep, Controllers

\* Every step keeps what the pass has made so far: a deletion is of the object it is
\* at, which is not among them, and no controller takes an object that is present.
LEMMA MadeStep == TypeOK /\ InPlace /\ MadeSoFar /\ [Next]_vars => MadeSoFar'
<1> SUFFICES ASSUME TypeOK /\ InPlace /\ MadeSoFar, [Next]_vars PROVE MadeSoFar'
  OBVIOUS
<1> USE DEF TypeOK, InPlace, MadeSoFar, Made, Before, Kinds, Passes, NoPass
<1>1. CASE Start
  BY <1>1 DEF Start, cluster
<1>2. CASE DeleteOld
  <2> HIDE DEF Made, Before
  <2>1. Made' \subseteq Made \ {kind}
    BY <1>2 DEF DeleteOld, Fails, Made, Before, TypeOK, Kinds
  <2>2. pass' = pass /\ Made \subseteq Kinds
    BY <1>2 DEF DeleteOld, Made, Before, TypeOK, Kinds
  <2>3. QED
    BY <1>2, <2>1, <2>2, DeletionFacts DEF MadeSoFar
<1>3. CASE WaitGone
  BY <1>3 DEF WaitGone, Fails, Alive, MayFail, cluster, history
<1>4. CASE Create
  BY <1>4 DEF Create, Fails, Alive, MayFail, Created, Proceed, After, history
<1>5. CASE WaitReady
  BY <1>5 DEF WaitReady, Fails, Alive, MayFail, cluster, history
<1>6. CASE WaitJob
  BY <1>6 DEF WaitJob, Fails, Alive, MayFail, cluster, history
<1>7. CASE ReadLogs
  BY <1>7 DEF ReadLogs, Alive, MayFail, cluster, history
<1>8. CASE Teardown
  <2> HIDE DEF Made, Before
  <2>1. Made' = {}
    BY <1>8 DEF Teardown, Made
  <2>2. QED
    BY <1>8, <2>1, DeletionFacts DEF MadeSoFar
<1>9. CASE ContextEnds
  BY <1>9 DEF ContextEnds, cluster, history
<1>10. CASE Crash
  BY <1>10 DEF Crash, cluster
<1>11. CASE PodGoes
  BY <1>11 DEF PodGoes, progress, history
<1>12. CASE OwnerGoes
  BY <1>12 DEF OwnerGoes, progress, history
<1>13. CASE BrowserStarts
  BY <1>13 DEF BrowserStarts, progress, history
<1>14. CASE JobPodStarts
  BY <1>14 DEF JobPodStarts, progress, history
<1>15. CASE JobPodEnds
  BY <1>15 DEF JobPodEnds, progress, history
<1>16. CASE JobEnds
  BY <1>16 DEF JobEnds, progress, history
<1>17. CASE UNCHANGED vars
  BY <1>17 DEF vars, cluster, progress, history
<1>18. QED
  BY <1>1, <1>2, <1>3, <1>4, <1>5, <1>6, <1>7, <1>8, <1>9, <1>10, <1>11, <1>12, <1>13,
     <1>14, <1>15, <1>16, <1>17 DEF Next, SweepStep, Controllers

\* Every step keeps makers and pods from being newer than the pass that can have made
\* them.
LEMMA OlderStep == TypeOK /\ OlderIsOlder /\ [Next]_vars => OlderIsOlder'
<1> SUFFICES ASSUME TypeOK /\ OlderIsOlder, [Next]_vars PROVE OlderIsOlder'
  OBVIOUS
<1> USE DEF TypeOK, OlderIsOlder, Kinds, Passes, NoPass
<1>1. CASE Start
  BY <1>1 DEF Start, cluster
<1>2. CASE DeleteOld
  BY <1>2 DEF DeleteOld, Fails, Alive, MayFail, history
<1>3. CASE WaitGone
  BY <1>3 DEF WaitGone, Fails, Alive, MayFail, cluster, history
<1>4. CASE Create
  <2>1. maker'["job"] \in {maker["job"], pass} /\ podsOf' = podsOf /\ pass' = pass
    BY <1>4, CreationFacts DEF Create, TypeOK, Kinds
  <2>2. pc' \in {"delete", "gone", "create", "waitReady"} =>
          kind # "job" /\ maker'["job"] = maker["job"]
    BY <1>4, CreationFacts DEF Create, Proceed, Fails, TypeOK, Kinds
  <2>3. maker["job"] \in Nat /\ pass \in Nat
    BY DEF TypeOK, Passes, NoPass, Kinds
  <2>4. \A p \in podsOf["job"] : p[1] \in Nat
    BY PodFacts DEF TypeOK, Passes, Owners
  <2>5. QED
    BY <1>4, <2>1, <2>2, <2>3, <2>4 DEF OlderIsOlder, Create
<1>5. CASE WaitReady
  BY <1>5 DEF WaitReady, Fails, Alive, MayFail, cluster, history
<1>6. CASE WaitJob
  BY <1>6 DEF WaitJob, Fails, Alive, MayFail, cluster, history
<1>7. CASE ReadLogs
  BY <1>7 DEF ReadLogs, Alive, MayFail, cluster, history
<1>8. CASE Teardown
  BY <1>8 DEF Teardown, After
<1>9. CASE ContextEnds
  BY <1>9 DEF ContextEnds, cluster, history
<1>10. CASE Crash
  BY <1>10 DEF Crash, cluster
<1>11. CASE PodGoes
  BY <1>11 DEF PodGoes, progress, history
<1>12. CASE OwnerGoes
  BY <1>12 DEF OwnerGoes, progress, history
<1>13. CASE BrowserStarts
  BY <1>13 DEF BrowserStarts, progress, history
<1>14. CASE JobPodStarts
  BY <1>14 DEF JobPodStarts, progress, history
<1>15. CASE JobPodEnds
  BY <1>15 DEF JobPodEnds, progress, history
<1>16. CASE JobEnds
  BY <1>16 DEF JobEnds, progress, history
<1>17. CASE UNCHANGED vars
  BY <1>17 DEF vars, cluster, progress, history
<1>18. QED
  BY <1>1, <1>2, <1>3, <1>4, <1>5, <1>6, <1>7, <1>8, <1>9, <1>10, <1>11, <1>12, <1>13,
     <1>14, <1>15, <1>16, <1>17 DEF Next, SweepStep, Controllers

\* Every step keeps the pods of the Job numbered without a gap: a new Job has none,
\* although pods of earlier passes may be left, and a retry adds the next number.
LEMMA PodsStep == IInv /\ [Next]_vars => PodsInOrder'
<1> SUFFICES ASSUME IInv, [Next]_vars PROVE PodsInOrder'
  OBVIOUS
<1> USE DEF IInv, TypeOK, PodsInOrder, JobPods
<1>1. CASE Start
  BY <1>1 DEF Start, cluster
<1>2. CASE DeleteOld
  <2>1. JobPods' = JobPods /\ maker' = maker
    BY <1>2, DeletionFacts DEF JobPods, IInv
  <2>2. obj'["job"] = "present" => obj["job"] = "present"
    BY <1>2, DeletionFacts DEF IInv, Kinds
  <2>3. QED
    BY <1>2, <2>1, <2>2 DEF IInv, PodsInOrder, DeleteOld
<1>3. CASE WaitGone
  BY <1>3 DEF WaitGone, Fails, Alive, MayFail, cluster, history
<1>4. CASE Create
  <2> HIDE DEF JobPods, PodsInOrder, TypeOK, IInv
  <2>1. CASE kind = "job" /\ Created
    <3>1. maker'["job"] = pass /\ podsOf' = podsOf /\ jobPod' = "none" /\ jobState' = "none"
      BY <1>4, <2>1 DEF IInv, TypeOK, Create, Created
    <3>2. \A p \in podsOf["job"] : p[1] # pass
      <4>1. \A p \in podsOf["job"] : p[1] \in Nat
        BY PodFacts DEF IInv, TypeOK, Passes, Owners
      <4>2. maker["job"] \in Nat /\ pass \in Nat /\ maker["job"] < pass
        BY <1>4 DEF IInv, OlderIsOlder, Create, TypeOK, Passes, NoPass, Kinds
      <4>3. QED
        BY <4>1, <4>2 DEF IInv, OlderIsOlder
    <3>3. JobPods' = {}
      BY <3>1, <3>2 DEF JobPods
    <3>4. Cardinality(JobPods') = 0 /\ JobPods' = {maker'["job"]} \X (0..(0 - 1))
      BY <3>3, FS_EmptySet
    <3>5. QED
      BY <3>1, <3>4, Bounds DEF PodsInOrder
  <2>2. CASE kind # "job" \/ ~Created
    <3>1. /\ obj'["job"] = obj["job"] /\ maker'["job"] = maker["job"] /\ podsOf' = podsOf
          /\ jobPod' = jobPod /\ jobState' = jobState
      BY <1>4, <2>2, CreationFacts DEF IInv, TypeOK, Kinds, Created
    <3>2. JobPods' = JobPods
      BY <3>1 DEF JobPods
    <3>3. QED
      BY <3>1, <3>2 DEF IInv, PodsInOrder
  <2>3. QED
    BY <2>1, <2>2
<1>5. CASE WaitReady
  BY <1>5 DEF WaitReady, Fails, Alive, MayFail, cluster, history
<1>6. CASE WaitJob
  BY <1>6 DEF WaitJob, Fails, Alive, MayFail, cluster, history
<1>7. CASE ReadLogs
  BY <1>7 DEF ReadLogs, Alive, MayFail, cluster, history
<1>8. CASE Teardown
  <2>1. JobPods' = JobPods /\ maker' = maker
    BY <1>8, DeletionFacts DEF JobPods, IInv
  <2>2. obj'["job"] = "present" => obj["job"] = "present"
    BY <1>8, DeletionFacts DEF IInv, Kinds
  <2>3. QED
    BY <1>8, <2>1, <2>2 DEF IInv, PodsInOrder, Teardown
<1>9. CASE ContextEnds
  BY <1>9 DEF ContextEnds, cluster, history
<1>10. CASE Crash
  BY <1>10 DEF Crash, cluster
<1>11. CASE PodGoes
  <2>1. obj["job"] = "present" => JobPods' = JobPods
    BY <1>11 DEF IInv, TypeOK, PodGoes, JobPods, Owners
  <2>2. QED
    BY <1>11, <2>1 DEF IInv, PodsInOrder, PodGoes
<1>12. CASE OwnerGoes
  <2>1. JobPods' = JobPods
    BY <1>12 DEF OwnerGoes, JobPods
  <2>2. obj'["job"] = "present" => obj["job"] = "present"
    BY <1>12 DEF IInv, TypeOK, OwnerGoes, Kinds, Owners
  <2>3. QED
    BY <1>12, <2>1, <2>2 DEF IInv, PodsInOrder, OwnerGoes
<1>13. CASE BrowserStarts
  BY <1>13 DEF BrowserStarts, progress, history
<1>14. CASE JobPodStarts
  <2> HIDE DEF JobPods, PodsInOrder, TypeOK, IInv
  <2>1. PICK n \in Nat : n = Cardinality(JobPods)
    BY <1>14, JobFacts DEF IInv, JobPodStarts
  <2>2. n <= BackoffLimit /\ JobPods = {maker["job"]} \X (0..(n - 1))
    BY <1>14, <2>1 DEF IInv, PodsInOrder, JobPodStarts
  <2>3. JobPods' = JobPods \cup {<<maker["job"], n>>}
    BY <1>14, <2>1 DEF IInv, TypeOK, JobPodStarts, JobPods, Owners
  <2>4. PICK m \in Nat : m = n + 1
    BY <2>1
  <2>5. 0..n = 0..(m - 1) /\ m \in 0..(BackoffLimit + 1) /\ m > 0
    BY <2>2, <2>4, Bounds
  <2>6. JobPods' = {maker["job"]} \X (0..(m - 1))
    BY <2>2, <2>3, <2>5, NumberedPods
  <2>7. Cardinality(JobPods') = m
    BY <2>6, NumberedPods
  <2>8. QED
    BY <1>14, <2>5, <2>6, <2>7 DEF PodsInOrder, JobPodStarts
<1>15. CASE JobPodEnds
  BY <1>15 DEF JobPodEnds, progress, history
<1>16. CASE JobEnds
  BY <1>16 DEF JobEnds, progress, history
<1>17. CASE UNCHANGED vars
  BY <1>17 DEF vars, cluster, progress, history
<1>18. QED
  BY <1>1, <1>2, <1>3, <1>4, <1>5, <1>6, <1>7, <1>8, <1>9, <1>10, <1>11, <1>12, <1>13,
     <1>14, <1>15, <1>16, <1>17 DEF Next, SweepStep, Controllers

\* Every step keeps the verdict with the attempt that decided it. PodGoes and the
\* controllers cannot disturb it while the logs are read, because the Job is there.
LEMMA VerdictStep == IInv /\ [Next]_vars => Verdict'
<1> SUFFICES ASSUME IInv, [Next]_vars PROVE Verdict'
  OBVIOUS
<1> USE DEF IInv, TypeOK, Verdict, VerdictIsOwn, JobPods
<1>1. CASE Start
  BY <1>1, BlankIsTyped DEF IInv, Verdict, VerdictIsOwn, Start
<1>2. CASE DeleteOld
  BY <1>2 DEF DeleteOld, Fails, Alive, MayFail, history
<1>3. CASE WaitGone
  BY <1>3 DEF WaitGone, Fails, Alive, MayFail, cluster, history
<1>4. CASE Create
  <2>1. pc' # "logs" /\ pass' = pass
    BY <1>4 DEF IInv, TypeOK, Create, Proceed, Fails, Kinds
  <2>2. CASE Fails("error")
    BY <1>4, <2>1, <2>2, FailsIsTyped DEF IInv, Verdict, VerdictIsOwn, TypeOK, Results,
       Fails
  <2>3. CASE result' = result /\ pc' # "teardown"
    BY <1>4, <2>1, <2>3 DEF IInv, Verdict, VerdictIsOwn, Create
  <2>4. QED
    BY <1>4, <2>2, <2>3 DEF IInv, TypeOK, Create, Proceed, Kinds
<1>5. CASE WaitReady
  BY <1>5 DEF WaitReady, Fails, Alive, MayFail, cluster, history
<1>6. CASE WaitJob
  <2> HIDE DEF JobPods, TypeOK, IInv
  <2>1. obj["job"] = "present" /\ maker["job"] = pass
    BY <1>6 DEF IInv, MadeSoFar, Made, WaitJob, Kinds
  <2>2. CASE Fails("error")
    BY <1>6, <2>2, FailsIsTyped DEF IInv, Verdict, VerdictIsOwn, TypeOK, Results, Fails,
       WaitJob
  <2>3. CASE ~Fails("error")
    <3>1. PICK s \in {"pass", "fail"} :
            result' = [result EXCEPT !.status = s,
                         !.verdictOf = <<maker["job"], Cardinality(JobPods) - 1>>]
      BY <1>6, <2>3 DEF WaitJob
    <3>2. /\ result'.status = s /\ result'.logsOf = result.logsOf
          /\ result'.verdictOf = <<maker["job"], Cardinality(JobPods) - 1>>
      BY <3>1 DEF IInv, TypeOK
    <3>3. JobPods' = JobPods /\ maker' = maker /\ jobState' # "none" /\ pc' = "logs"
          /\ pass' = pass
      BY <1>6, <2>3 DEF WaitJob, JobPods, cluster
    <3>4. result.logsOf = NoPod
      BY <1>6 DEF IInv, Verdict, WaitJob
    <3>5. QED
      BY <2>1, <3>2, <3>3, <3>4 DEF Verdict, VerdictIsOwn
  <2>4. QED
    BY <2>2, <2>3
<1>7. CASE ReadLogs
  <2>1. obj["job"] = "present" /\ jobPod # "none"
    BY <1>7 DEF IInv, MadeSoFar, Made, Verdict, PodsInOrder, ReadLogs, Kinds
  <2>2. Newest(podsOf["job"]) = result.verdictOf
    BY <1>7, <2>1, NewestPod DEF IInv, Verdict, ReadLogs
  <2>3. result' \in {result, [result EXCEPT !.logsOf = result.verdictOf]}
    BY <1>7, <2>2 DEF ReadLogs
  <2>4. /\ result'.status = result.status /\ result'.verdictOf = result.verdictOf
        /\ result'.logsOf \in {result.logsOf, result.verdictOf}
    BY <2>3 DEF IInv, TypeOK
  <2>5. QED
    BY <1>7, <2>4 DEF IInv, Verdict, VerdictIsOwn, ReadLogs
<1>8. CASE Teardown
  BY <1>8 DEF Teardown, After
<1>9. CASE ContextEnds
  BY <1>9 DEF ContextEnds, cluster, history
<1>10. CASE Crash
  BY <1>10, BlankIsTyped DEF IInv, Verdict, VerdictIsOwn, Crash
<1>11. CASE PodGoes
  <2>1. pc = "logs" => obj["job"] = "present"
    BY DEF IInv, MadeSoFar, Made, Kinds
  <2>2. obj["job"] = "present" => JobPods' = JobPods
    BY <1>11 DEF IInv, TypeOK, PodGoes, JobPods, Owners
  <2>3. QED
    BY <1>11, <2>1, <2>2 DEF IInv, Verdict, VerdictIsOwn, PodGoes, progress
<1>12. CASE OwnerGoes
  BY <1>12 DEF OwnerGoes, progress, history
<1>13. CASE BrowserStarts
  BY <1>13 DEF BrowserStarts, progress, history
<1>14. CASE JobPodStarts
  BY <1>14 DEF JobPodStarts, progress, history
<1>15. CASE JobPodEnds
  BY <1>15 DEF JobPodEnds, progress, history
<1>16. CASE JobEnds
  BY <1>16 DEF JobEnds, progress, history
<1>17. CASE UNCHANGED vars
  BY <1>17 DEF vars, cluster, progress, history
<1>18. QED
  BY <1>1, <1>2, <1>3, <1>4, <1>5, <1>6, <1>7, <1>8, <1>9, <1>10, <1>11, <1>12, <1>13,
     <1>14, <1>15, <1>16, <1>17 DEF Next, SweepStep, Controllers

\* Every step keeps what a teardown has come to gone, unless a call for it failed.
LEMMA TornStep == IInv /\ [Next]_vars => TornDown'
<1> SUFFICES ASSUME IInv, [Next]_vars PROVE TornDown'
  OBVIOUS
<1> USE DEF IInv, TypeOK, Kinds, TornDown, TeardownTriesEverything, Before
<1>1. CASE Start
  BY <1>1 DEF Start, cluster
<1>2. CASE DeleteOld
  BY <1>2 DEF DeleteOld, Fails, Alive, MayFail, history
<1>3. CASE WaitGone
  BY <1>3 DEF WaitGone, Fails, Alive, MayFail, cluster, history
<1>4. CASE Create
  BY <1>4 DEF Create, Fails, Alive, MayFail, Created, Proceed, After, history
<1>5. CASE WaitReady
  BY <1>5 DEF WaitReady, Fails, Alive, MayFail, cluster, history
<1>6. CASE WaitJob
  BY <1>6 DEF WaitJob, Fails, Alive, MayFail, cluster, history
<1>7. CASE ReadLogs
  BY <1>7 DEF ReadLogs, Alive, MayFail, cluster, history
<1>8. CASE Teardown
  <2>1. obj'[kind] # "present" \/ kind \in spared'
    BY <1>8 DEF IInv, TypeOK, Teardown, Deleted
  <2>2. \A k \in Kinds \ {kind} : obj'[k] = obj[k]
    BY <1>8, DeletionFacts DEF IInv
  <2>3. spared \subseteq spared' /\ kind \in Kinds
    BY <1>8 DEF Teardown, IInv, TypeOK
  <2>4. CASE kind = "job"
    <3>1. pc' = "idle" /\ clean' = (clean /\ spared' = {})
      BY <1>8, <2>4 DEF Teardown
    <3>2. Kinds = Before("job") \cup {"job"}
      BY DEF Before, Kinds
    <3>3. \A k \in Before("job") \ spared : obj[k] # "present"
      BY <1>8, <2>4 DEF IInv, TornDown, Teardown
    <3>4. QED
      BY <2>1, <2>2, <2>3, <2>4, <3>1, <3>2, <3>3 DEF TornDown, TeardownTriesEverything
  <2>5. CASE kind # "job"
    <3>1. pc' = "teardown" /\ kind' = After[kind]
      BY <1>8, <2>5 DEF Teardown
    <3>2. Before(kind') = Before(kind) \cup {kind} /\ Before(kind) \subseteq Kinds
      BY <2>3, <2>5, <3>1 DEF After, Before, Kinds
    <3>3. \A k \in Before(kind) \ spared : obj[k] # "present"
      BY <1>8 DEF IInv, TornDown, Teardown
    <3>4. QED
      BY <2>1, <2>2, <2>3, <3>1, <3>2, <3>3 DEF TornDown, TeardownTriesEverything
  <2>6. QED
    BY <2>4, <2>5
<1>9. CASE ContextEnds
  BY <1>9 DEF ContextEnds, cluster, history
<1>10. CASE Crash
  BY <1>10 DEF Crash, cluster
<1>11. CASE PodGoes
  BY <1>11 DEF PodGoes, progress, history
<1>12. CASE OwnerGoes
  BY <1>12 DEF OwnerGoes, progress, history
<1>13. CASE BrowserStarts
  BY <1>13 DEF BrowserStarts, progress, history
<1>14. CASE JobPodStarts
  BY <1>14 DEF JobPodStarts, progress, history
<1>15. CASE JobPodEnds
  BY <1>15 DEF JobPodEnds, progress, history
<1>16. CASE JobEnds
  BY <1>16 DEF JobEnds, progress, history
<1>17. CASE UNCHANGED vars
  BY <1>17 DEF vars, cluster, progress, history
<1>18. QED
  BY <1>1, <1>2, <1>3, <1>4, <1>5, <1>6, <1>7, <1>8, <1>9, <1>10, <1>11, <1>12, <1>13,
     <1>14, <1>15, <1>16, <1>17 DEF Next, SweepStep, Controllers

\* Every step keeps the pods of the Deployment its own, while teardowns go through.
LEMMA BrowserStep == IInv /\ [Next]_vars => OneBrowser'
<1> SUFFICES ASSUME IInv, [Next]_vars PROVE OneBrowser'
  OBVIOUS
<1> USE DEF IInv, TypeOK, InPlace, TornDown, TeardownTriesEverything, OneBrowser, Kinds, Owners
<1>1. CASE Start
  BY <1>1 DEF Start, cluster
<1>2. CASE DeleteOld
  <2>1. CASE kind = "deployment"
    <3>1. clean => obj["deployment"] # "present"
      BY <1>2, <2>1 DEF IInv, OneBrowser, DeleteOld
    <3>2. clean => obj' = obj
      BY <1>2, <2>1, <3>1 DEF IInv, TypeOK, DeleteOld, Deleted, States, Kinds
    <3>3. QED
      BY <1>2, <3>1, <3>2 DEF IInv, OneBrowser, DeleteOld, history
  <2>2. CASE kind # "deployment"
    <3>1. obj'["deployment"] = obj["deployment"] /\ podsOf' = podsOf /\ maker' = maker
      BY <1>2, <2>2, DeletionFacts DEF IInv, Kinds
    <3>2. ~(pc' \in {"delete", "gone", "create"} /\ kind' = "deployment")
      BY <1>2, <2>2 DEF DeleteOld, Fails
    <3>3. QED
      BY <1>2, <3>1, <3>2 DEF IInv, OneBrowser, DeleteOld, history
  <2>3. QED
    BY <2>1, <2>2
<1>3. CASE WaitGone
  BY <1>3 DEF WaitGone, Fails, Alive, MayFail, cluster, history
<1>4. CASE Create
  BY <1>4 DEF Create, Fails, Alive, MayFail, Created, Proceed, After, history
<1>5. CASE WaitReady
  BY <1>5 DEF WaitReady, Fails, Alive, MayFail, cluster, history
<1>6. CASE WaitJob
  BY <1>6 DEF WaitJob, Fails, Alive, MayFail, cluster, history
<1>7. CASE ReadLogs
  BY <1>7 DEF ReadLogs, Alive, MayFail, cluster, history
<1>8. CASE Teardown
  <2>1. clean' => clean
    BY <1>8 DEF Teardown
  <2>2. obj'["deployment"] = "absent" => obj["deployment"] = "absent"
    BY <1>8 DEF IInv, TypeOK, Teardown, Deleted, Kinds, Owners
  <2>3. pc' \notin {"delete", "gone", "create"} /\ podsOf' = podsOf /\ maker' = maker
    BY <1>8 DEF Teardown
  <2>4. QED
    BY <2>1, <2>2, <2>3 DEF IInv, OneBrowser
<1>9. CASE ContextEnds
  BY <1>9 DEF ContextEnds, cluster, history
<1>10. CASE Crash
  BY <1>10 DEF Crash, cluster
<1>11. CASE PodGoes
  BY <1>11 DEF PodGoes, progress, history
<1>12. CASE OwnerGoes
  BY <1>12 DEF OwnerGoes, progress, history
<1>13. CASE BrowserStarts
  BY <1>13 DEF BrowserStarts, progress, history
<1>14. CASE JobPodStarts
  BY <1>14 DEF JobPodStarts, progress, history
<1>15. CASE JobPodEnds
  BY <1>15 DEF JobPodEnds, progress, history
<1>16. CASE JobEnds
  BY <1>16 DEF JobEnds, progress, history
<1>17. CASE UNCHANGED vars
  BY <1>17 DEF vars, cluster, progress, history
<1>18. QED
  BY <1>1, <1>2, <1>3, <1>4, <1>5, <1>6, <1>7, <1>8, <1>9, <1>10, <1>11, <1>12, <1>13,
     <1>14, <1>15, <1>16, <1>17 DEF Next, SweepStep, Controllers

\* The initial states satisfy the inductive invariant.
LEMMA InitIInv == Init => IInv
<1> SUFFICES ASSUME Init PROVE IInv
  OBVIOUS
<1>1. TypeOK
  <2>1. result \in Results
    BY BlankIsTyped DEF Init
  <2>2. crashes \in 0..MaxCrashes
    BY Bounds DEF Init
  <2>3. QED
    BY <2>1, <2>2 DEF Init, TypeOK, Results, Kinds, Owners
<1>2. InPlace /\ MadeSoFar
  BY DEF Init, InPlace, MadeSoFar, Made, Kinds
<1>3. OlderIsOlder /\ PodsInOrder
  BY DEF Init, OlderIsOlder, PodsInOrder, Kinds, Owners, NoPass
<1>4. Verdict
  BY BlankIsTyped DEF Init, Verdict, VerdictIsOwn
<1>5. TornDown /\ OneBrowser
  BY DEF Init, TornDown, TeardownTriesEverything, OneBrowser, Kinds, Owners
<1>6. QED
  BY <1>1, <1>2, <1>3, <1>4, <1>5 DEF IInv

\* The invariant holds in every reachable state.
THEOREM Invariance == SafetySpec => []IInv
<1>1. IInv /\ [Next]_vars => IInv'
  BY TypeStep, PlaceStep, MadeStep, OlderStep, PodsStep, VerdictStep, TornStep,
     BrowserStep
     DEF IInv
<1>2. QED
  BY InitIInv, <1>1, PTL DEF SafetySpec

\* Every variable keeps its type, for any bounds.
THEOREM TypeCorrect == SafetySpec => []TypeOK
<1>1. IInv => TypeOK
  BY DEF IInv
<1>2. QED
  BY Invariance, <1>1, PTL

\* The verdict of a pass is the one on the Job it made, and the logs are those of the
\* pod that decided it, whatever earlier passes, retries and crashes left behind
\* (sweep.go:261-315, cluster.go:102-121, 257-281).
THEOREM VerdictsAreOwn == SafetySpec => []VerdictIsOwn
<1>1. IInv => VerdictIsOwn
  BY DEF IInv, Verdict
<1>2. QED
  BY Invariance, <1>1, PTL

\* The smoke Job meets the objects of its own pass, and, while teardowns go through,
\* its own browser alone (sweep.go:238-271, cluster.go:126-145, 196-201).
THEOREM JobsMeetTheirStack == SafetySpec => []JobHasItsStack
<1>1. IInv => JobHasItsStack
  <2> SUFFICES ASSUME IInv PROVE JobHasItsStack
    OBVIOUS
  <2>1. ASSUME pc \in {"waitJob", "logs"} \/ (pc = "create" /\ kind = "job")
        PROVE  \A k \in Kinds \ {"job"} : obj[k] = "present" /\ maker[k] = pass
    BY <2>1 DEF IInv, MadeSoFar, Made, Before, Kinds
  <2>2. ASSUME pc \in {"waitJob", "logs"}, clean
        PROVE  podsOf["deployment"] \subseteq {<<pass, 0>>}
    BY <2>1, <2>2 DEF IInv, OneBrowser, Kinds
  <2>3. QED
    BY <2>1, <2>2 DEF JobHasItsStack
<1>2. QED
  BY Invariance, <1>1, PTL

\* At the end of a pass each of its objects is gone or going, unless the deletion of
\* that very object failed or gubald died (sweep.go:230-236, cluster.go:196-212).
THEOREM TeardownIsComplete == SafetySpec => []TeardownTriesEverything
<1>1. IInv => TeardownTriesEverything
  BY DEF IInv, TornDown
<1>2. QED
  BY Invariance, <1>1, PTL

============================================================================
