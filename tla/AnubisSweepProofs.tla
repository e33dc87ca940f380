--------------------------- MODULE AnubisSweepProofs ---------------------------
(***************************************************************************)
(* Theorems about AnubisSweep, for any policies, rulesets and images, any  *)
(* number of browsers, runs and crashes, and calls that may fail anywhere. *)
(*                                                                         *)
(* The inductive invariant has three parts. TInv is type correctness, with *)
(* what it needs about the image override. RInv follows a ruleset from the *)
(* request into its ConfigMap, from there into the pod that starts under   *)
(* the template wired to it, and says when "rolled out" can be believed.   *)
(* SInv follows the image of the override and the snapshot.                *)
(*                                                                         *)
(* MInv is about the report alone and rests on TInv: the rows so far are   *)
(* the first of the matrix of policies and browsers, and the loop over the *)
(* policies says how many there are. From it follow that a report is       *)
(* complete and that a run keeps the contract of a sweep.                  *)
(***************************************************************************)
EXTENDS AnubisSweep, TLAPS, WellFoundedInduction, SequenceTheorems, FiniteSetTheorems

\* The two steps of the image override happen only if there is one.
ImageIsSet == pc \in {"setImage", "waitImage"} => cfg.image = OverrideImage

\* Type correctness and what it rests on.
TInv == TypeOK /\ ImageIsSet

\* The policy taken next is one of those left, and the least of them: policies are
\* naturals, so there is a first one.
LEMMA FirstOf ==
  ASSUME NEW S, S \subseteq Policies \cup {NoPolicy}, S # {}
  PROVE  First(S) \in S /\ \A q \in S : First(S) <= q
<1>1. S \subseteq Nat
  BY SweepAssumption DEF NoPolicy
<1>2. PICK x \in S : \A y \in S : <<y, x>> \notin OpToRel(<, Nat)
  BY <1>1, NatLessThanWellFounded, WFMin
<1>3. ASSUME NEW y \in S PROVE x <= y
  <2>1. ~(y < x)
    BY <1>1, <1>2, <1>3 DEF OpToRel
  <2>2. x \in Nat /\ y \in Nat
    BY <1>1, <1>3
  <2>3. QED
    BY <2>1, <2>2
<1>4. QED
  BY <1>3 DEF First

\* The images of the manifest and of the request are images.
LEMMA ImageFacts == ManifestImage \in Images /\ OverrideImage \in Images
BY DEF Images

\* What the edits of a pod template keep and what they change.
LEMMA TemplateFacts ==
  ASSUME NEW t \in Template
  PROVE  /\ t.image \in Images /\ t.policy \in Policies \cup {NoPolicy}
         /\ \A i \in Images :
              LET u == [t EXCEPT !.image = i]
              IN  u \in Template /\ u.image = i /\ u.policy = t.policy
         /\ \A p \in Policies \cup {NoPolicy} :
              LET u == [t EXCEPT !.policy = p]
              IN  u \in Template /\ u.policy = p /\ u.image = t.image
BY DEF Template

\* The fields of the serving pod.
LEMMA PodFacts ==
  /\ \A p \in Pod : p.image \in Images /\ p.policy \in Policies \cup {NoPolicy}
                    /\ p.rules \in Rules \cup {DefaultRules}
  /\ \A i \in Images, p \in Policies \cup {NoPolicy}, r \in Rules \cup {DefaultRules} :
       [image |-> i, policy |-> p, rules |-> r] \in Pod
BY DEF Pod

\* The initial states are type correct.
LEMMA InitTInv == Init => TInv
<1> SUFFICES ASSUME Init PROVE TInv
  OBVIOUS
<1>1. <<>> \in Seq(Result)
  BY EmptySeq
<1>2. PICK i \in LiveImages :
        /\ tmpl = [image |-> i, policy |-> NoPolicy]
        /\ pod = [image |-> i, policy |-> NoPolicy, rules |-> DefaultRules]
  BY DEF Init
<1>3. tmpl \in Template /\ pod \in Pod
  BY <1>2 DEF Template, Pod, Images
<1>4. 1 \in 1..Browsers /\ 0 \in 0..MaxRuns /\ 0 \in 0..MaxCrashes
  BY SweepAssumption
<1>5. QED
  BY <1>1, <1>3, <1>4, ImageFacts DEF Init, TInv, TypeOK, ImageIsSet, PCs

\* policyErrorResults yields results.
LEMMA ErrorsAreResults ==
  ASSUME TypeOK
  PROVE  results \o [b \in 1..Browsers |-> Errored(b)] \in Seq(Result)
<1>1. Browsers \in Nat
  BY SweepAssumption
<1>2. [b \in 1..Browsers |-> Errored(b)] \in [1..Browsers -> Result]
  BY DEF TypeOK, Errored, Result
<1>3. [b \in 1..Browsers |-> Errored(b)] \in Seq(Result)
  BY <1>1, <1>2, SeqDef
<1>4. QED
  BY <1>3, ConcatProperties DEF TypeOK

\* Every step keeps type correctness.
LEMMA NextTInv == TInv /\ [Next]_vars => TInv'
<1> SUFFICES ASSUME TInv, [Next]_vars PROVE TInv'
  OBVIOUS
<1> USE DEF TInv
<1>1. CASE Start
  <2>1. runs' \in 0..MaxRuns
    BY <1>1, SweepAssumption DEF TypeOK, Start, cluster
  <2>2. todo' \subseteq Policies \cup {NoPolicy}
    BY <1>1 DEF TypeOK, Start, cluster
  <2>3. cfg' \in [image : {OverrideImage, NoImage}, rules : [Policies -> Rules \cup {NoRules}]]
    BY <1>1 DEF TypeOK, Start, cluster
  <2>4. results' \in Seq(Result)
    BY <1>1, EmptySeq DEF TypeOK, Start, cluster
  <2>5. inherited' \subseteq Policies \cup {NoPolicy}
    BY <1>1, TemplateFacts, PodFacts DEF TypeOK, Start, cluster
  <2>6. pc' \in PCs
    BY <1>1 DEF TypeOK, Start, cluster, PCs
  <2>7. ImageIsSet'
    BY <1>1 DEF TypeOK, Start, cluster, ImageIsSet
  <2>8. QED
    BY <1>1, <2>1, <2>2, <2>3, <2>4, <2>5, <2>6, <2>7 DEF TypeOK, Start, cluster
<1>2. CASE Snapshot
  <2>1. snap' \in Template /\ repImage' \in Images
    BY <1>2, ImageFacts DEF TypeOK, Snapshot, cluster, history
  <2>2. runErr' \in BOOLEAN
    BY <1>2 DEF TypeOK, Snapshot, cluster, history
  <2>3. pc' \in PCs
    BY <1>2 DEF TypeOK, Snapshot, cluster, history, PCs
  <2>4. ImageIsSet'
    BY <1>2 DEF TypeOK, Snapshot, cluster, history, ImageIsSet
  <2>5. QED
    BY <1>2, <2>1, <2>2, <2>3, <2>4 DEF TypeOK, Snapshot, cluster, history
<1>3. CASE SetImage
  <2>1. cfg.image = OverrideImage
    BY <1>3 DEF TypeOK, SetImage, SetTemplate, FailedWrite, history, live, ImageIsSet
  <2>2. [tmpl EXCEPT !.image = cfg.image] \in Template
    BY <1>3, <2>1, TemplateFacts, ImageFacts
       DEF TypeOK, SetImage, SetTemplate, FailedWrite, history, live
  <2>3. tmpl' \in Template
    BY <1>3, <2>2
       DEF TypeOK, SetImage, SetTemplate, FailedWrite, history, live, MayFail, Alive
  <2>4. seen' \in BOOLEAN /\ complete' \in BOOLEAN
    BY <1>3
       DEF TypeOK, SetImage, SetTemplate, FailedWrite, history, live, MayFail, Alive
  <2>5. runErr' \in BOOLEAN
    BY <1>3 DEF TypeOK, SetImage, SetTemplate, FailedWrite, history, live
  <2>6. pc' \in PCs
    BY <1>3 DEF TypeOK, SetImage, SetTemplate, FailedWrite, history, live, PCs
  <2>7. ImageIsSet'
    BY <1>3 DEF TypeOK, SetImage, SetTemplate, FailedWrite, history, live, ImageIsSet
  <2>8. QED
    BY <1>3, <2>1, <2>2, <2>3, <2>4, <2>5, <2>6, <2>7
       DEF TypeOK, SetImage, SetTemplate, FailedWrite, history, live
<1>4. CASE WaitImage
  <2>1. repImage' \in Images
    BY <1>4, ImageFacts DEF TypeOK, WaitImage, cluster, history, ImageIsSet
  <2>2. runErr' \in BOOLEAN
    BY <1>4 DEF TypeOK, WaitImage, cluster, history
  <2>3. pc' \in PCs
    BY <1>4 DEF TypeOK, WaitImage, cluster, history, PCs
  <2>4. ImageIsSet'
    BY <1>4 DEF TypeOK, WaitImage, cluster, history, ImageIsSet
  <2>5. QED
    BY <1>4, <2>1, <2>2, <2>3, <2>4 DEF TypeOK, WaitImage, cluster, history
<1>5. CASE EnsureCollector
  <2>1. collector' \in {"absent", "pending", "running", "terminating"}
    BY <1>5 DEF TypeOK, EnsureCollector, CollectorStep, CollectorFails, live, history
  <2>2. runErr' \in BOOLEAN
    BY <1>5 DEF TypeOK, EnsureCollector, CollectorStep, CollectorFails, live, history
  <2>3. pc' \in PCs /\ ImageIsSet'
    BY <1>5
       DEF TypeOK, EnsureCollector, CollectorStep, CollectorFails, live, history, PCs,
           ImageIsSet
  <2>4. QED
    BY <1>5, <2>1, <2>2, <2>3
       DEF TypeOK, EnsureCollector, CollectorStep, CollectorFails, live, history
<1>6. CASE CollectorTimesOut
  BY <1>6 DEF TypeOK, ImageIsSet, PCs, CollectorTimesOut, cluster, history
<1>7. CASE NextPolicy
  <2>1. cur' \in Policies \cup {NoPolicy}
    BY <1>7, FirstOf DEF TypeOK, NextPolicy, cluster, report, history
  <2>2. todo' \subseteq Policies \cup {NoPolicy}
    BY <1>7 DEF TypeOK, NextPolicy, cluster, report, history
  <2>3. browser' \in 1..Browsers
    BY <1>7, SweepAssumption DEF TypeOK, NextPolicy, cluster, report, history
  <2>4. pc' \in PCs
    BY <1>7 DEF TypeOK, NextPolicy, cluster, report, history, PCs
  <2>5. ImageIsSet'
    BY <1>7 DEF TypeOK, NextPolicy, cluster, report, history, ImageIsSet
  <2>6. QED
    BY <1>7, <2>1, <2>2, <2>3, <2>4, <2>5
       DEF TypeOK, NextPolicy, cluster, report, history
<1>8. CASE PoliciesDone
  BY <1>8 DEF TypeOK, ImageIsSet, PCs, PoliciesDone, cluster, report, history
<1>9. CASE WriteConfigMap
  <2>1. cms' \in [Policies -> Rules \cup {NoRules}]
    BY <1>9 DEF TypeOK, WriteConfigMap, PolicyFails, live, history
  <2>2. results' \in Seq(Result)
    BY <1>9, ErrorsAreResults DEF TypeOK, WriteConfigMap, PolicyFails, live, history
  <2>3. pc' \in PCs /\ ImageIsSet'
    BY <1>9 DEF TypeOK, WriteConfigMap, PolicyFails, live, history, PCs, ImageIsSet
  <2>4. QED
    BY <1>9, <2>1, <2>2, <2>3 DEF TypeOK, WriteConfigMap, PolicyFails, live, history
<1>10. CASE GetAnubis
  <2>1. results' \in Seq(Result)
    BY <1>10, ErrorsAreResults
       DEF TypeOK, GetAnubis, GetDeployment, PolicyFails, live, history
  <2>2. got' \in Template /\ touched' \in BOOLEAN
    BY <1>10 DEF TypeOK, GetAnubis, GetDeployment, PolicyFails, live, history
  <2>3. pc' \in PCs /\ ImageIsSet'
    BY <1>10
       DEF TypeOK, GetAnubis, GetDeployment, PolicyFails, live, history, PCs, ImageIsSet
  <2>4. QED
    BY <1>10, <2>1, <2>2, <2>3
       DEF TypeOK, GetAnubis, GetDeployment, PolicyFails, live, history
<1>11. CASE WirePolicy
  <2>1. [got EXCEPT !.policy = cur] \in Template
    BY <1>11, TemplateFacts
       DEF TypeOK, WirePolicy, SetTemplate, live, PolicyFails, FailedWrite, history
  <2>2. tmpl' \in Template
    BY <1>11, <2>1
       DEF TypeOK, WirePolicy, SetTemplate, live, PolicyFails, FailedWrite, history
  <2>3. seen' \in BOOLEAN /\ complete' \in BOOLEAN
    BY <1>11
       DEF TypeOK, WirePolicy, SetTemplate, live, PolicyFails, FailedWrite, history
  <2>4. results' \in Seq(Result)
    BY <1>11, ErrorsAreResults
       DEF TypeOK, WirePolicy, SetTemplate, live, PolicyFails, FailedWrite, history
  <2>5. pc' \in PCs /\ ImageIsSet'
    BY <1>11
       DEF TypeOK, WirePolicy, SetTemplate, live, PolicyFails, FailedWrite, history, PCs,
           ImageIsSet
  <2>6. QED
    BY <1>11, <2>1, <2>2, <2>3, <2>4, <2>5
       DEF TypeOK, WirePolicy, SetTemplate, live, PolicyFails, FailedWrite, history
<1>12. CASE WaitPolicy
  <2>1. results' \in Seq(Result)
    BY <1>12, ErrorsAreResults DEF TypeOK, WaitPolicy, PolicyFails, cluster, history
  <2>2. pc' \in PCs /\ ImageIsSet'
    BY <1>12 DEF TypeOK, WaitPolicy, PolicyFails, cluster, history, PCs, ImageIsSet
  <2>3. QED
    BY <1>12, <2>1, <2>2 DEF TypeOK, WaitPolicy, PolicyFails, cluster, history
<1>13. CASE Measure
  <2>1. Judged(browser) \in Result /\ Errored(browser) \in Result
    BY <1>13, PodFacts DEF TypeOK, Measure, cluster, history, Judged, Errored, Result
  <2>2. \E x \in Result : results' = Append(results, x)
    BY <1>13, <2>1 DEF TypeOK, Measure, cluster, history
  <2>3. results' \in Seq(Result)
    BY <1>13, <2>2, AppendProperties DEF TypeOK, Measure, cluster, history
  <2>4. browser' \in 1..Browsers
    BY <1>13, SweepAssumption DEF TypeOK, Measure, cluster, history
  <2>5. pc' \in PCs /\ ImageIsSet'
    BY <1>13 DEF TypeOK, Measure, cluster, history, PCs, ImageIsSet
  <2>6. QED
    BY <1>13, <2>1, <2>2, <2>3, <2>4, <2>5 DEF TypeOK, Measure, cluster, history
<1>14. CASE DeleteCollector
  <2>1. collector' \in {"absent", "pending", "running", "terminating"}
    BY <1>14 DEF TypeOK, DeleteCollector, live, report, history
  <2>2. pc' \in PCs
    BY <1>14 DEF TypeOK, DeleteCollector, live, report, history, PCs
  <2>3. ImageIsSet'
    BY <1>14 DEF TypeOK, DeleteCollector, live, report, history, ImageIsSet
  <2>4. QED
    BY <1>14, <2>1, <2>2, <2>3 DEF TypeOK, DeleteCollector, live, report, history
<1>15. CASE RestoreGet
  <2>1. got' \in Template /\ touched' \in BOOLEAN
    BY <1>15 DEF TypeOK, RestoreGet, GetDeployment, RestoreFails, live, report
  <2>2. clean' \in BOOLEAN
    BY <1>15 DEF TypeOK, RestoreGet, GetDeployment, RestoreFails, live, report
  <2>3. pc' \in PCs /\ ImageIsSet'
    BY <1>15
       DEF TypeOK, RestoreGet, GetDeployment, RestoreFails, live, report, PCs, ImageIsSet
  <2>4. QED
    BY <1>15, <2>1, <2>2, <2>3
       DEF TypeOK, RestoreGet, GetDeployment, RestoreFails, live, report
<1>16. CASE RestoreUpdate
  <2>1. tmpl' \in Template
    BY <1>16
       DEF TypeOK, RestoreUpdate, SetTemplate, live, RestoreFails, FailedWrite, report
  <2>2. seen' \in BOOLEAN /\ complete' \in BOOLEAN
    BY <1>16
       DEF TypeOK, RestoreUpdate, SetTemplate, live, RestoreFails, FailedWrite, report
  <2>3. clean' \in BOOLEAN
    BY <1>16
       DEF TypeOK, RestoreUpdate, SetTemplate, live, RestoreFails, FailedWrite, report
  <2>4. pc' \in PCs /\ ImageIsSet'
    BY <1>16
       DEF TypeOK, RestoreUpdate, SetTemplate, live, RestoreFails, FailedWrite, report,
           PCs, ImageIsSet
  <2>5. QED
    BY <1>16, <2>1, <2>2, <2>3, <2>4
       DEF TypeOK, RestoreUpdate, SetTemplate, live, RestoreFails, FailedWrite, report
<1>17. CASE RestoreWait
  BY <1>17 DEF TypeOK, ImageIsSet, PCs, RestoreWait, cluster, report, history
<1>18. CASE ContextEnds
  BY <1>18 DEF TypeOK, ImageIsSet, PCs, ContextEnds, cluster, report, history
<1>19. CASE Crash
  <2>1. crashes' \in 0..MaxCrashes
    BY <1>19, SweepAssumption DEF TypeOK, Crash, cluster
  <2>2. pc' \in PCs
    BY <1>19 DEF TypeOK, Crash, cluster, PCs
  <2>3. ImageIsSet'
    BY <1>19 DEF TypeOK, Crash, cluster, ImageIsSet
  <2>4. QED
    BY <1>19, <2>1, <2>2, <2>3 DEF TypeOK, Crash, cluster
<1>20. CASE ControllerObserves
  <2>1. complete' \in BOOLEAN
    BY <1>20 DEF TypeOK, ControllerObserves, report, history
  <2>2. pc' \in PCs
    BY <1>20 DEF TypeOK, ControllerObserves, report, history, PCs
  <2>3. ImageIsSet'
    BY <1>20 DEF TypeOK, ControllerObserves, report, history, ImageIsSet
  <2>4. QED
    BY <1>20, <2>1, <2>2, <2>3 DEF TypeOK, ControllerObserves, report, history
<1>21. CASE RolloutCompletes
  <2>1. RulesFor(tmpl) \notin BadRules \cup {NoRules}
         => RulesFor(tmpl) \in Rules \cup {DefaultRules}
    BY <1>21, TemplateFacts DEF TypeOK, RolloutCompletes, report, history, RulesFor
  <2>2. RulesFor(tmpl) \in Rules \cup {DefaultRules}
         => [image |-> tmpl.image, policy |-> tmpl.policy,
             rules |-> RulesFor(tmpl)] \in Pod
    BY <1>21, TemplateFacts DEF TypeOK, RolloutCompletes, report, history, Pod
  <2>3. pod' \in Pod
    BY <1>21, <2>1, <2>2 DEF TypeOK, RolloutCompletes, report, history
  <2>4. pc' \in PCs
    BY <1>21 DEF TypeOK, RolloutCompletes, report, history, PCs
  <2>5. ImageIsSet'
    BY <1>21 DEF TypeOK, RolloutCompletes, report, history, ImageIsSet
  <2>6. QED
    BY <1>21, <2>1, <2>2, <2>3, <2>4, <2>5 DEF TypeOK, RolloutCompletes, report, history
<1>22. CASE RolloutProgresses
  BY <1>22 DEF TypeOK, ImageIsSet, PCs, RolloutProgresses, live, report, history
<1>23. CASE Kubelet
  BY <1>23 DEF TypeOK, ImageIsSet, PCs, Kubelet, live, report, history
<1>24. CASE UNCHANGED vars
  BY <1>24 DEF TypeOK, ImageIsSet, PCs, vars, cluster, live, report, history
<1>25. QED
  BY <1>1, <1>2, <1>3, <1>4, <1>5, <1>6, <1>7, <1>8, <1>9, <1>10, <1>11, <1>12, <1>13,
     <1>14, <1>15, <1>16, <1>17, <1>18, <1>19, <1>20, <1>21, <1>22, <1>23, <1>24
     DEF Next, RunStep

\* A policy that Anubis was not wired to when the run started.
Fresh(p) == p \in Policies \ inherited

\* When generation and counts say rolled out, the serving pod runs the
\* template. This is why WaitDeploymentReady has to compare both.
Serves == (seen /\ complete) => tmpl = [image |-> pod.image, policy |-> pod.policy]

\* A pod wired to a fresh policy started in this run, and read this run's
\* ruleset.
PodIsFresh == (pc # "idle" /\ Fresh(pod.policy)) => pod.rules = cfg.rules[pod.policy]

\* A template wired to a fresh policy was wired in this run, after its
\* ConfigMap was written.
TemplateIsFresh ==
  (pc # "idle" /\ Fresh(tmpl.policy)) => cms[tmpl.policy] = cfg.rules[tmpl.policy]

\* applyPolicy writes the ConfigMap before it touches the Deployment.
Written ==
  /\ pc \in {"configMap", "getAnubis", "wirePolicy", "waitPolicy"} => cur \in Policies
  /\ pc \in {"getAnubis", "wirePolicy", "waitPolicy"} => cms[cur] = cfg.rules[cur]

\* The wait is for a template wired to the current policy, and it holds still
\* while the browsers are measured.
Wired ==
  /\ pc = "waitPolicy" => tmpl.policy = cur
  /\ (pc = "measure" /\ cur # NoPolicy) => seen /\ complete /\ tmpl.policy = cur

\* The snapshot is wired as Anubis was when the run started, so restoring it
\* wires no fresh policy.
SnapshotIsInherited ==
  /\ pc = "snapshot" => tmpl.policy \in inherited
  /\ pc \notin {"idle", "snapshot"} => snap.policy \in inherited

\* The way of a ruleset from the request to the pod.
RInv == Serves /\ PodIsFresh /\ TemplateIsFresh /\ Written /\ Wired /\ SnapshotIsInherited

\* Nothing is wired to a policy in the initial states.
LEMMA InitRInv == Init => RInv
BY DEF Init, RInv, Serves, PodIsFresh, TemplateIsFresh, Written, Wired,
       SnapshotIsInherited, NoPolicy

\* Every step keeps a ruleset on its way.
LEMMA NextRInv == TInv /\ RInv /\ [Next]_vars => RInv'
<1> SUFFICES ASSUME TInv, RInv, [Next]_vars PROVE RInv'
  OBVIOUS
<1> USE DEF TInv, RInv
<1>1. CASE Start
  BY <1>1
     DEF TypeOK, Serves, PodIsFresh, TemplateIsFresh, Written, Wired, SnapshotIsInherited,
         Fresh, Start, cluster
<1>2. CASE Snapshot
  BY <1>2
     DEF TypeOK, Serves, PodIsFresh, TemplateIsFresh, Written, Wired, SnapshotIsInherited,
         Fresh, Snapshot, cluster, history
<1>3. CASE SetImage
  <2>1. Serves'
    BY <1>3 DEF TypeOK, Serves, SetImage, SetTemplate, FailedWrite, history, live
  <2>2. PodIsFresh'
    BY <1>3
       DEF TypeOK, PodIsFresh, Fresh, SetImage, SetTemplate, FailedWrite, history, live
  <2>3. TemplateIsFresh'
    <3>1. cfg.image \in Images
      BY <1>3, ImageFacts DEF ImageIsSet, SetImage
    <3>2. [tmpl EXCEPT !.image = cfg.image].policy = tmpl.policy
      BY <3>1, TemplateFacts DEF TypeOK
    <3>3. tmpl'.policy = tmpl.policy
      BY <1>3, <3>2 DEF SetImage, SetTemplate, FailedWrite, live
    <3>4. QED
      BY <1>3, <3>3 DEF TemplateIsFresh, Fresh, SetImage, history
  <2>4. Written'
    BY <1>3 DEF TypeOK, Written, SetImage, SetTemplate, FailedWrite, history, live
  <2>5. Wired'
    BY <1>3 DEF TypeOK, Wired, SetImage, SetTemplate, FailedWrite, history, live
  <2>6. SnapshotIsInherited'
    BY <1>3
       DEF TypeOK, SnapshotIsInherited, SetImage, SetTemplate, FailedWrite, history, live
  <2>7. QED
    BY <2>1, <2>2, <2>3, <2>4, <2>5, <2>6
<1>4. CASE WaitImage
  BY <1>4
     DEF TypeOK, Serves, PodIsFresh, TemplateIsFresh, Written, Wired, SnapshotIsInherited,
         Fresh, WaitImage, cluster, history
<1>5. CASE EnsureCollector
  BY <1>5
     DEF TypeOK, Serves, PodIsFresh, TemplateIsFresh, Written, Wired, SnapshotIsInherited,
         Fresh, EnsureCollector, CollectorStep, CollectorFails, live, history
<1>6. CASE CollectorTimesOut
  BY <1>6
     DEF TypeOK, Serves, PodIsFresh, TemplateIsFresh, Written, Wired, SnapshotIsInherited,
         Fresh, CollectorTimesOut, cluster, history
<1>7. CASE NextPolicy
  <2>1. Serves'
    BY <1>7 DEF TypeOK, Serves, NextPolicy, cluster, report, history
  <2>2. PodIsFresh'
    BY <1>7 DEF TypeOK, PodIsFresh, Fresh, NextPolicy, cluster, report, history
  <2>3. TemplateIsFresh'
    BY <1>7 DEF TypeOK, TemplateIsFresh, Fresh, NextPolicy, cluster, report, history
  <2>4. Written'
    BY <1>7, FirstOf DEF TypeOK, Written, NextPolicy, cluster, report, history, NoPolicy
  <2>5. Wired'
    BY <1>7 DEF TypeOK, Wired, NextPolicy, cluster, report, history
  <2>6. SnapshotIsInherited'
    BY <1>7 DEF TypeOK, SnapshotIsInherited, NextPolicy, cluster, report, history
  <2>7. QED
    BY <2>1, <2>2, <2>3, <2>4, <2>5, <2>6
<1>8. CASE PoliciesDone
  BY <1>8
     DEF TypeOK, Serves, PodIsFresh, TemplateIsFresh, Written, Wired, SnapshotIsInherited,
         Fresh, PoliciesDone, cluster, report, history
<1>9. CASE WriteConfigMap
  BY <1>9
     DEF TypeOK, Serves, PodIsFresh, TemplateIsFresh, Written, Wired, SnapshotIsInherited,
         Fresh, WriteConfigMap, PolicyFails, live, history
<1>10. CASE GetAnubis
  BY <1>10
     DEF TypeOK, Serves, PodIsFresh, TemplateIsFresh, Written, Wired, SnapshotIsInherited,
         Fresh, GetAnubis, GetDeployment, PolicyFails, live, history
<1>11. CASE WirePolicy
  <2>1. Serves'
    BY <1>11
       DEF TypeOK, Serves, WirePolicy, SetTemplate, live, PolicyFails, FailedWrite, history
  <2>2. PodIsFresh'
    BY <1>11 DEF TypeOK, PodIsFresh, Fresh, WirePolicy, SetTemplate, live, PolicyFails,
           FailedWrite, history
  <2>3. TemplateIsFresh'
    <3>1. [got EXCEPT !.policy = cur].policy = cur
      BY TemplateFacts DEF TypeOK
    <3>2. tmpl'.policy \in {tmpl.policy, cur}
      BY <1>11, <3>1 DEF WirePolicy, SetTemplate, FailedWrite, live
    <3>3. QED
      BY <1>11, <3>2 DEF TemplateIsFresh, Fresh, WirePolicy, history, Written
  <2>4. Written'
    BY <1>11
       DEF TypeOK, Written, WirePolicy, SetTemplate, live, PolicyFails, FailedWrite,
           history
  <2>5. Wired'
    <3>1. [got EXCEPT !.policy = cur].policy = cur
      BY TemplateFacts DEF TypeOK
    <3>2. QED
      BY <1>11, <3>1 DEF Wired, WirePolicy, SetTemplate, PolicyFails
  <2>6. SnapshotIsInherited'
    BY <1>11
       DEF TypeOK, SnapshotIsInherited, WirePolicy, SetTemplate, live, PolicyFails,
           FailedWrite, history
  <2>7. QED
    BY <2>1, <2>2, <2>3, <2>4, <2>5, <2>6
<1>12. CASE WaitPolicy
  <2>1. Serves'
    BY <1>12 DEF TypeOK, Serves, WaitPolicy, PolicyFails, cluster, history
  <2>2. PodIsFresh'
    BY <1>12 DEF TypeOK, PodIsFresh, Fresh, WaitPolicy, PolicyFails, cluster, history
  <2>3. TemplateIsFresh'
    BY <1>12
       DEF TypeOK, TemplateIsFresh, Fresh, WaitPolicy, PolicyFails, cluster, history
  <2>4. Written'
    BY <1>12 DEF TypeOK, Written, WaitPolicy, PolicyFails, cluster, history
  <2>5. Wired'
    BY <1>12 DEF TypeOK, Wired, WaitPolicy, PolicyFails, cluster, history, Ready
  <2>6. SnapshotIsInherited'
    BY <1>12 DEF TypeOK, SnapshotIsInherited, WaitPolicy, PolicyFails, cluster, history
  <2>7. QED
    BY <2>1, <2>2, <2>3, <2>4, <2>5, <2>6
<1>13. CASE Measure
  BY <1>13
     DEF TypeOK, Serves, PodIsFresh, TemplateIsFresh, Written, Wired, SnapshotIsInherited,
         Fresh, Measure, cluster, history
<1>14. CASE DeleteCollector
  BY <1>14
     DEF TypeOK, Serves, PodIsFresh, TemplateIsFresh, Written, Wired, SnapshotIsInherited,
         Fresh, DeleteCollector, live, report, history
<1>15. CASE RestoreGet
  BY <1>15
     DEF TypeOK, Serves, PodIsFresh, TemplateIsFresh, Written, Wired, SnapshotIsInherited,
         Fresh, RestoreGet, GetDeployment, RestoreFails, live, report
<1>16. CASE RestoreUpdate
  <2>1. Serves'
    BY <1>16
       DEF TypeOK, Serves, RestoreUpdate, SetTemplate, live, RestoreFails, FailedWrite,
           report
  <2>2. PodIsFresh'
    BY <1>16
       DEF TypeOK, PodIsFresh, Fresh, RestoreUpdate, SetTemplate, live, RestoreFails,
           FailedWrite, report
  <2>3. TemplateIsFresh'
    BY <1>16
       DEF TypeOK, TemplateIsFresh, Fresh, RestoreUpdate, SetTemplate, live, RestoreFails,
           FailedWrite, report, SnapshotIsInherited
  <2>4. Written'
    BY <1>16
       DEF TypeOK, Written, RestoreUpdate, SetTemplate, live, RestoreFails, FailedWrite,
           report
  <2>5. Wired'
    BY <1>16
       DEF TypeOK, Wired, RestoreUpdate, SetTemplate, live, RestoreFails, FailedWrite,
           report
  <2>6. SnapshotIsInherited'
    BY <1>16
       DEF TypeOK, SnapshotIsInherited, RestoreUpdate, SetTemplate, live, RestoreFails,
           FailedWrite, report
  <2>7. QED
    BY <2>1, <2>2, <2>3, <2>4, <2>5, <2>6
<1>17. CASE RestoreWait
  BY <1>17
     DEF TypeOK, Serves, PodIsFresh, TemplateIsFresh, Written, Wired, SnapshotIsInherited,
         Fresh, RestoreWait, cluster, report, history
<1>18. CASE ContextEnds
  BY <1>18
     DEF TypeOK, Serves, PodIsFresh, TemplateIsFresh, Written, Wired, SnapshotIsInherited,
         Fresh, ContextEnds, cluster, report, history
<1>19. CASE Crash
  BY <1>19
     DEF TypeOK, Serves, PodIsFresh, TemplateIsFresh, Written, Wired, SnapshotIsInherited,
         Fresh, Crash, cluster
<1>20. CASE ControllerObserves
  BY <1>20
     DEF TypeOK, Serves, PodIsFresh, TemplateIsFresh, Written, Wired, SnapshotIsInherited,
         Fresh, ControllerObserves, report, history
<1>21. CASE RolloutCompletes
  <2>1. Serves'
    <3>1. tmpl = [image |-> tmpl.image, policy |-> tmpl.policy]
      BY DEF TypeOK, Template
    <3>2. CASE tmpl = [image |-> pod.image, policy |-> pod.policy]
      BY <1>21, <3>2 DEF Serves, RolloutCompletes
    <3>3. CASE tmpl # [image |-> pod.image, policy |-> pod.policy]
      <4>1. pod'.image = tmpl.image /\ pod'.policy = tmpl.policy
        BY <1>21, <3>3 DEF RolloutCompletes
      <4>2. QED
        BY <1>21, <3>1, <4>1 DEF Serves, RolloutCompletes
    <3>4. QED
      BY <3>2, <3>3
  <2>2. PodIsFresh'
    BY <1>21, SweepAssumption
       DEF TypeOK, PodIsFresh, Fresh, RolloutCompletes, report, history, TemplateIsFresh,
           RulesFor, NoPolicy
  <2>3. TemplateIsFresh'
    BY <1>21 DEF TypeOK, TemplateIsFresh, Fresh, RolloutCompletes, report, history
  <2>4. Written'
    BY <1>21 DEF TypeOK, Written, RolloutCompletes, report, history
  <2>5. Wired'
    BY <1>21 DEF TypeOK, Wired, RolloutCompletes, report, history
  <2>6. SnapshotIsInherited'
    BY <1>21 DEF TypeOK, SnapshotIsInherited, RolloutCompletes, report, history
  <2>7. QED
    BY <2>1, <2>2, <2>3, <2>4, <2>5, <2>6
<1>22. CASE RolloutProgresses
  BY <1>22
     DEF TypeOK, Serves, PodIsFresh, TemplateIsFresh, Written, Wired, SnapshotIsInherited,
         Fresh, RolloutProgresses, live, report, history
<1>23. CASE Kubelet
  BY <1>23
     DEF TypeOK, Serves, PodIsFresh, TemplateIsFresh, Written, Wired, SnapshotIsInherited,
         Fresh, Kubelet, live, report, history
<1>24. CASE UNCHANGED vars
  BY <1>24
     DEF Serves, PodIsFresh, TemplateIsFresh, Written, Wired, SnapshotIsInherited, Fresh,
         vars, cluster, live, report, history
<1>25. QED
  BY <1>1, <1>2, <1>3, <1>4, <1>5, <1>6, <1>7, <1>8, <1>9, <1>10, <1>11, <1>12, <1>13,
     <1>14, <1>15, <1>16, <1>17, <1>18, <1>19, <1>20, <1>21, <1>22, <1>23, <1>24
     DEF Next, RunStep

\* Where Run stands between prepareAnubis and its deferred calls.
Prepared == {"staleCollector", "collectorGone", "createCollector", "waitCollector",
             "nextPolicy", "configMap", "getAnubis", "wirePolicy", "waitPolicy", "measure"}

\* No browser is measured before Anubis is prepared.
NothingYet == pc \in {"snapshot", "setImage", "waitImage"} => results = <<>>

\* From its rollout to the end of the last policy the requested image stays in
\* the template, in the serving pod and in the report.
OverrideInPlace ==
  cfg.image # NoImage =>
    /\ pc = "waitImage" => tmpl.image = cfg.image
    /\ pc \in Prepared =>
         tmpl.image = cfg.image /\ pod.image = cfg.image /\ repImage = cfg.image
    /\ pc = "wirePolicy" => got.image = cfg.image

\* As long as no run was cut off or failed to restore, what is there between
\* runs, and what a run snapshots, is the original template.
SnapshotIsOriginal ==
  clean => /\ pc \in {"idle", "snapshot", "restoreWait"} => tmpl = original
           /\ pc \notin {"idle", "snapshot"} => snap = original

\* The way of the image and of the snapshot.
SInv == NothingYet /\ OverrideInPlace /\ SnapshotIsOriginal

\* The original template is there at first.
LEMMA InitSInv == Init => SInv
BY DEF Init, SInv, NothingYet, OverrideInPlace, SnapshotIsOriginal, Prepared

\* Every step keeps the image and the snapshot.
LEMMA NextSInv == TInv /\ RInv /\ SInv /\ [Next]_vars => SInv'
<1> SUFFICES ASSUME TInv, RInv, SInv, [Next]_vars PROVE SInv'
  OBVIOUS
<1> USE DEF TInv, RInv, SInv
<1>1. CASE Start
  BY <1>1
     DEF TypeOK, NothingYet, OverrideInPlace, SnapshotIsOriginal, Prepared, Start, cluster
<1>2. CASE Snapshot
  BY <1>2
     DEF TypeOK, NothingYet, OverrideInPlace, SnapshotIsOriginal, Prepared, Snapshot,
         cluster, history
<1>3. CASE SetImage
  <2>1. NothingYet'
    BY <1>3 DEF TypeOK, NothingYet, SetImage, SetTemplate, FailedWrite, history, live
  <2>2. OverrideInPlace'
    <3>1. cfg.image \in Images
      BY <1>3, ImageFacts DEF ImageIsSet, SetImage
    <3>2. [tmpl EXCEPT !.image = cfg.image].image = cfg.image
      BY <3>1, TemplateFacts DEF TypeOK
    <3>3. pc' = "waitImage" => tmpl'.image = cfg.image
      BY <1>3, <3>2 DEF SetImage, SetTemplate
    <3>4. QED
      BY <1>3, <3>3 DEF OverrideInPlace, Prepared, SetImage
  <2>3. SnapshotIsOriginal'
    BY <1>3
       DEF TypeOK, SnapshotIsOriginal, SetImage, SetTemplate, FailedWrite, history, live
  <2>4. QED
    BY <2>1, <2>2, <2>3
<1>4. CASE WaitImage
  <2>1. NothingYet'
    BY <1>4 DEF TypeOK, NothingYet, WaitImage, cluster, history
  <2>2. OverrideInPlace'
    BY <1>4
       DEF TypeOK, OverrideInPlace, Prepared, WaitImage, cluster, history, Ready, Serves
  <2>3. SnapshotIsOriginal'
    BY <1>4 DEF TypeOK, SnapshotIsOriginal, WaitImage, cluster, history
  <2>4. QED
    BY <2>1, <2>2, <2>3
<1>5. CASE EnsureCollector
  BY <1>5 DEF TypeOK, NothingYet, OverrideInPlace, SnapshotIsOriginal, Prepared,
         EnsureCollector, CollectorStep, CollectorFails, live, history
<1>6. CASE CollectorTimesOut
  BY <1>6 DEF TypeOK, NothingYet, OverrideInPlace, SnapshotIsOriginal, Prepared,
         CollectorTimesOut, cluster, history
<1>7. CASE NextPolicy
  BY <1>7
     DEF TypeOK, NothingYet, OverrideInPlace, SnapshotIsOriginal, Prepared, NextPolicy,
         cluster, report, history
<1>8. CASE PoliciesDone
  BY <1>8
     DEF TypeOK, NothingYet, OverrideInPlace, SnapshotIsOriginal, Prepared, PoliciesDone,
         cluster, report, history
<1>9. CASE WriteConfigMap
  BY <1>9
     DEF TypeOK, NothingYet, OverrideInPlace, SnapshotIsOriginal, Prepared, WriteConfigMap,
         PolicyFails, live, history
<1>10. CASE GetAnubis
  BY <1>10
     DEF TypeOK, NothingYet, OverrideInPlace, SnapshotIsOriginal, Prepared, GetAnubis,
         GetDeployment, PolicyFails, live, history
<1>11. CASE WirePolicy
  <2>1. NothingYet'
    BY <1>11
       DEF TypeOK, NothingYet, WirePolicy, SetTemplate, live, PolicyFails, FailedWrite,
           history
  <2>2. OverrideInPlace'
    <3>1. [got EXCEPT !.policy = cur].image = got.image
      BY TemplateFacts DEF TypeOK
    <3>2. tmpl'.image \in {tmpl.image, got.image}
      BY <1>11, <3>1 DEF WirePolicy, SetTemplate, FailedWrite, live
    <3>3. QED
      BY <1>11, <3>2 DEF OverrideInPlace, Prepared, WirePolicy, PolicyFails
  <2>3. SnapshotIsOriginal'
    BY <1>11 DEF TypeOK, SnapshotIsOriginal, WirePolicy, SetTemplate, live, PolicyFails,
           FailedWrite, history
  <2>4. QED
    BY <2>1, <2>2, <2>3
<1>12. CASE WaitPolicy
  BY <1>12
     DEF TypeOK, NothingYet, OverrideInPlace, SnapshotIsOriginal, Prepared, WaitPolicy,
         PolicyFails, cluster, history
<1>13. CASE Measure
  BY <1>13
     DEF TypeOK, NothingYet, OverrideInPlace, SnapshotIsOriginal, Prepared, Measure,
         cluster, history
<1>14. CASE DeleteCollector
  BY <1>14 DEF TypeOK, NothingYet, OverrideInPlace, SnapshotIsOriginal, Prepared,
         DeleteCollector, live, report, history
<1>15. CASE RestoreGet
  BY <1>15
     DEF TypeOK, NothingYet, OverrideInPlace, SnapshotIsOriginal, Prepared, RestoreGet,
         GetDeployment, RestoreFails, live, report
<1>16. CASE RestoreUpdate
  BY <1>16
     DEF TypeOK, NothingYet, OverrideInPlace, SnapshotIsOriginal, Prepared, RestoreUpdate,
         SetTemplate, live, RestoreFails, FailedWrite, report
<1>17. CASE RestoreWait
  BY <1>17
     DEF TypeOK, NothingYet, OverrideInPlace, SnapshotIsOriginal, Prepared, RestoreWait,
         cluster, report, history
<1>18. CASE ContextEnds
  BY <1>18
     DEF TypeOK, NothingYet, OverrideInPlace, SnapshotIsOriginal, Prepared, ContextEnds,
         cluster, report, history
<1>19. CASE Crash
  BY <1>19
     DEF TypeOK, NothingYet, OverrideInPlace, SnapshotIsOriginal, Prepared, Crash, cluster
<1>20. CASE ControllerObserves
  BY <1>20 DEF TypeOK, NothingYet, OverrideInPlace, SnapshotIsOriginal, Prepared,
         ControllerObserves, report, history
<1>21. CASE RolloutCompletes
  BY <1>21 DEF TypeOK, NothingYet, OverrideInPlace, SnapshotIsOriginal, Prepared,
         RolloutCompletes, report, history
<1>22. CASE RolloutProgresses
  BY <1>22 DEF TypeOK, NothingYet, OverrideInPlace, SnapshotIsOriginal, Prepared,
         RolloutProgresses, live, report, history
<1>23. CASE Kubelet
  BY <1>23
     DEF TypeOK, NothingYet, OverrideInPlace, SnapshotIsOriginal, Prepared, Kubelet, live,
         report, history
<1>24. CASE UNCHANGED vars
  BY <1>24
     DEF NothingYet, OverrideInPlace, SnapshotIsOriginal, Prepared, vars, cluster, live,
         report, history
<1>25. QED
  BY <1>1, <1>2, <1>3, <1>4, <1>5, <1>6, <1>7, <1>8, <1>9, <1>10, <1>11, <1>12, <1>13,
     <1>14, <1>15, <1>16, <1>17, <1>18, <1>19, <1>20, <1>21, <1>22, <1>23, <1>24
     DEF Next, RunStep

\* A result once reported stays; a new one is an error or a judgement of the
\* browser at hand.
LEMMA NextResults ==
  ASSUME TInv, [Next]_vars
  PROVE  \/ Start
         \/ /\ UNCHANGED <<cfg, inherited>>
            /\ \A i \in DOMAIN results' :
                 \/ i \in DOMAIN results /\ results'[i] = results[i]
                 \/ results'[i].measured = FALSE
                 \/ Measure /\ results'[i] = Judged(browser)
<1>1. CASE Measure
  <2>1. Judged(browser) \in Result /\ Errored(browser) \in Result
    BY PodFacts DEF TInv, TypeOK, Judged, Errored, Result
  <2>2. PICK x \in {Judged(browser), Errored(browser)} : results' = Append(results, x)
    BY <1>1 DEF Measure
  <2>3. /\ DOMAIN results' = 1..(Len(results) + 1)
        /\ results'[Len(results) + 1] = x
        /\ \A i \in 1..Len(results) : i \in DOMAIN results /\ results'[i] = results[i]
    BY <2>1, <2>2, AppendProperties DEF TInv, TypeOK
  <2>4. Errored(browser).measured = FALSE
    BY DEF Errored
  <2>5. UNCHANGED <<cfg, inherited>>
    BY <1>1 DEF Measure, history
  <2>6. Len(results) \in Nat
    BY DEF TInv, TypeOK
  <2>7. ASSUME NEW i \in DOMAIN results', i \notin 1..Len(results)
        PROVE  i = Len(results) + 1
    BY <2>3, <2>6, <2>7
  <2>8. QED
    BY <1>1, <2>2, <2>3, <2>4, <2>5, <2>7
<1>2. CASE PolicyFails /\ UNCHANGED <<cfg, inherited>>
  <2> DEFINE more == [b \in 1..Browsers |-> Errored(b)]
  <2>1. Browsers \in Nat
    BY SweepAssumption
  <2>2. more \in [1..Browsers -> Result]
    BY DEF TInv, TypeOK, Errored, Result
  <2>3. more \in Seq(Result) /\ Len(more) = Browsers
    BY <2>1, <2>2, SeqDef, LenProperties
  <2>4. \A i \in 1..Browsers : more[i].measured = FALSE
    BY DEF Errored
  <2>5. results' = results \o more
    BY <1>2 DEF PolicyFails
  <2>6. results \in Seq(Result) /\ Len(results) \in Nat /\ DOMAIN results = 1..Len(results)
    BY DEF TInv, TypeOK
  <2> HIDE DEF more
  <2>7. /\ results' \in Seq(Result)
        /\ Len(results') = Len(results) + Browsers
        /\ \A i \in 1..(Len(results) + Browsers) :
             results'[i] = IF i <= Len(results) THEN results[i] ELSE more[i - Len(results)]
    BY <2>3, <2>5, <2>6, ConcatProperties
  <2>8. DOMAIN results' = 1..(Len(results) + Browsers)
    BY <2>7, LenProperties
  <2>9. ASSUME NEW i \in DOMAIN results', i \notin DOMAIN results
        PROVE  results'[i].measured = FALSE
    <3>1. i > Len(results) /\ i - Len(results) \in 1..Browsers
      BY <2>1, <2>6, <2>8, <2>9
    <3>2. results'[i] = more[i - Len(results)]
      BY <2>6, <2>7, <2>8, <2>9, <3>1
    <3>3. QED
      BY <2>4, <3>1, <3>2
  <2>10. \A i \in DOMAIN results : i \in DOMAIN results' /\ results'[i] = results[i]
    BY <2>1, <2>6, <2>7, <2>8
  <2>11. QED
    BY <1>2, <2>9, <2>10
<1>3. CASE UNCHANGED <<results, cfg, inherited>>
  BY <1>3
<1>4. \/ Start \/ Measure
      \/ PolicyFails /\ UNCHANGED <<cfg, inherited>>
      \/ UNCHANGED <<results, cfg, inherited>>
  BY DEF Next, RunStep, vars, report, history, Snapshot, SetImage, WaitImage,
         EnsureCollector, CollectorTimesOut, NextPolicy, PoliciesDone, WriteConfigMap,
         GetAnubis,
         WirePolicy, WaitPolicy, DeleteCollector, RestoreGet, RestoreUpdate,
         RestoreWait,
         ContextEnds, Crash, ControllerObserves, RolloutCompletes, RolloutProgresses,
         Kubelet
<1>5. QED
  BY <1>1, <1>2, <1>3, <1>4

\* A new judgement is made under its own policy, an old one stays right.
LEMMA NextMeasured ==
  TInv /\ RInv /\ MeasuredUnderItsPolicy /\ [Next]_vars => MeasuredUnderItsPolicy'
<1> SUFFICES ASSUME TInv, RInv, MeasuredUnderItsPolicy, [Next]_vars
             PROVE  MeasuredUnderItsPolicy'
  OBVIOUS
<1>1. CASE Start
  BY <1>1 DEF Start, MeasuredUnderItsPolicy, Measured
<1>2. CASE ~Start
  <2>1. UNCHANGED <<cfg, inherited>>
    BY <1>2, NextResults
  <2>2. ASSUME NEW i \in DOMAIN results', results'[i].measured,
               results'[i].policy \notin inherited \cup {NoPolicy}
        PROVE  results'[i].rules = cfg.rules[results'[i].policy]
    <3>1. CASE i \in DOMAIN results /\ results'[i] = results[i]
      BY <2>2, <3>1 DEF MeasuredUnderItsPolicy, Measured
    <3>2. CASE Measure /\ results'[i] = Judged(browser)
      <4>1. results'[i].policy = cur /\ results'[i].rules = pod.rules
        BY <3>2 DEF Judged
      <4>2. Fresh(cur)
        BY <2>2, <4>1 DEF Fresh, TInv, TypeOK
      <4>3. tmpl.policy = cur /\ tmpl = [image |-> pod.image, policy |-> pod.policy]
        BY <2>2, <3>2, <4>1 DEF Measure, RInv, Wired, Serves
      <4>4. pod.policy = cur
        BY <4>3
      <4>5. QED
        BY <3>2, <4>1, <4>2, <4>4 DEF Measure, RInv, PodIsFresh
    <3>3. QED
      BY <1>2, <2>2, <3>1, <3>2, NextResults
  <2>3. QED
    BY <2>1, <2>2 DEF MeasuredUnderItsPolicy, Measured
<1>3. QED
  BY <1>1, <1>2

\* A new judgement is made of the requested image, an old one stays right.
LEMMA NextOverride ==
  TInv /\ SInv /\ OverrideIsMeasured /\ [Next]_vars => OverrideIsMeasured'
<1> SUFFICES ASSUME TInv, SInv, OverrideIsMeasured, [Next]_vars
             PROVE  OverrideIsMeasured'
  OBVIOUS
<1>1. CASE Start
  BY <1>1 DEF Start, OverrideIsMeasured, Measured
<1>2. CASE ~Start
  <2>1. UNCHANGED cfg
    BY <1>2, NextResults
  <2>2. results' = <<>> \/ UNCHANGED repImage
    BY <1>2 DEF Next, RunStep, NothingYet, SInv, vars, report, history, Start, Snapshot,
           SetImage, WaitImage, EnsureCollector, CollectorTimesOut, NextPolicy,
           PoliciesDone,
           WriteConfigMap, GetAnubis, WirePolicy, WaitPolicy, Measure, DeleteCollector,
           RestoreGet, RestoreUpdate, RestoreWait, ContextEnds, Crash,
           ControllerObserves,
           RolloutCompletes, RolloutProgresses, Kubelet
  <2>3. ASSUME NEW i \in DOMAIN results', results'[i].measured, cfg.image # NoImage
        PROVE  results'[i].image = cfg.image /\ repImage' = cfg.image
    <3>1. UNCHANGED repImage
      BY <2>2, <2>3
    <3>2. CASE i \in DOMAIN results /\ results'[i] = results[i]
      BY <2>3, <3>1, <3>2 DEF OverrideIsMeasured, Measured
    <3>3. CASE Measure /\ results'[i] = Judged(browser)
      <4>1. results'[i].image = pod.image
        BY <3>3 DEF Judged
      <4>2. pc \in Prepared
        BY <3>3 DEF Measure, Prepared
      <4>3. QED
        BY <2>3, <3>1, <4>1, <4>2 DEF SInv, OverrideInPlace
    <3>4. QED
      BY <1>2, <2>3, <3>2, <3>3, NextResults
  <2>4. QED
    BY <2>1, <2>3 DEF OverrideIsMeasured, Measured
<1>3. QED
  BY <1>1, <1>2

\* The inductive invariant.
IInv == TInv /\ RInv /\ SInv /\ MeasuredUnderItsPolicy /\ OverrideIsMeasured

\* The inductive invariant holds throughout, runs, crashes and all
\* (sweep.go:48-134).
THEOREM Invariance == SafetySpec => []IInv
<1>1. Init => IInv
  <2>1. Init => MeasuredUnderItsPolicy /\ OverrideIsMeasured
    BY DEF Init, MeasuredUnderItsPolicy, OverrideIsMeasured, Measured
  <2>2. QED
    BY <2>1, InitTInv, InitRInv, InitSInv DEF IInv
<1>2. IInv /\ [Next]_vars => IInv'
  BY NextTInv, NextRInv, NextSInv, NextMeasured, NextOverride DEF IInv
<1>3. QED
  BY <1>1, <1>2, PTL DEF SafetySpec

\* Type correctness of the model of Run.
THEOREM TypeCorrect == SafetySpec => []TypeOK
<1>1. IInv => TypeOK
  BY DEF IInv, TInv
<1>2. QED
  BY <1>1, Invariance, PTL

\* A browser reported under a policy met an Anubis serving the ruleset of the
\* request, unless Anubis was wired to a policy of that name when the run
\* started (sweep.go:95-115, cluster.go:65-83).
THEOREM RulesetIsTheRequested == SafetySpec => []MeasuredUnderItsPolicy
<1>1. IInv => MeasuredUnderItsPolicy
  BY DEF IInv
<1>2. QED
  BY <1>1, Invariance, PTL

\* A browser measured under an image override met that image, and the report
\* names it (sweep.go:206-218).
THEOREM ImageIsTheRequested == SafetySpec => []OverrideIsMeasured
<1>1. IInv => OverrideIsMeasured
  BY DEF IInv
<1>2. QED
  BY <1>1, Invariance, PTL

\* Unless a run was cut off or its restore failed, Anubis has its original
\* template between runs (sweep.go:191-204).
THEOREM DeploymentIsRestored == SafetySpec => []LeftAsFound
<1>1. IInv => LeftAsFound
  BY DEF IInv, SInv, SnapshotIsOriginal, LeftAsFound
<1>2. QED
  BY <1>1, Invariance, PTL

------------------------------------------------------------------------------
(* The matrix of a report *)

\* The policies that come before p in the order of passes, and those a run has taken.
Before(p) == {q \in Passes : q < p}
Taken == Passes \ todo

\* The key of the i-th row of the matrix.
Row(i) == <<NthPass(((i - 1) \div Browsers) + 1), ((i - 1) % Browsers) + 1>>

Preparing == {"snapshot", "setImage", "waitImage", "staleCollector", "collectorGone",
              "createCollector", "waitCollector"}
Applying == {"configMap", "getAnubis", "wirePolicy", "waitPolicy"}
Over == {"restoreGet", "restoreUpdate", "restoreWait", "idle"}

\* What rows there are is a beginning of the matrix, and how long it is says where the
\* loop over the policies stands.
RowsAreFirst ==
  /\ Len(results) <= Cardinality(Passes) * Browsers
  /\ \A i \in DOMAIN results : results[i].policy = Row(i)[1] /\ results[i].browser = Row(i)[2]
TakenComeFirst ==
  /\ pc # "idle" => runs > 0
  /\ pc \notin Over => todo \subseteq Passes /\ ~runErr
  /\ pc \notin Over => \A p \in todo, q \in Taken : q < p
RowsSoFar ==
  /\ pc \in Preparing => todo = Passes /\ results = <<>>
  /\ pc = "nextPolicy" => Len(results) = Cardinality(Taken) * Browsers
  /\ pc \in Applying \cup {"measure"} =>
       /\ cur \in Taken /\ \A q \in Taken : q <= cur
       /\ Len(results) = Cardinality(Before(cur)) * Browsers + (browser - 1)
  /\ pc \in Applying => browser = 1
  /\ (pc = "deleteCollector" \/ (pc \in Over /\ runs > 0 /\ ~runErr)) =>
       Len(results) = Cardinality(Passes) * Browsers

MInv == RowsAreFirst /\ TakenComeFirst /\ RowsSoFar

\* Multiples of the number of browsers.
LEMMA Multiples ==
  ASSUME NEW n \in Nat, NEW r \in Nat
  PROVE  /\ r * n \in Nat /\ (r + 1) * n = r * n + n
         /\ \A s \in Nat : r <= s => r * n <= s * n
OBVIOUS

\* Division undoes the numbering of rows.
LEMMA Divided ==
  ASSUME NEW n \in Nat \ {0}, NEW r \in Nat, NEW b \in 1..n
  PROVE  ((r * n + b) - 1) \div n = r /\ ((r * n + b) - 1) % n = b - 1
OBVIOUS

\* Every row belongs to one pass and one browser, later rows not to earlier passes.
LEMMA RowsDivide ==
  ASSUME NEW n \in Nat \ {0}, NEW c \in Nat, NEW i \in 1..(c * n)
  PROVE  /\ ((i - 1) \div n) + 1 \in 1..c /\ ((i - 1) % n) + 1 \in 1..n
         /\ \A j \in 1..(c * n) : i < j => (i - 1) \div n <= (j - 1) \div n
<1>1. ASSUME NEW k \in 1..(c * n)
      PROVE  (k - 1) \div n \in Nat /\ (k - 1) \div n < c
  <2>1. k - 1 \in Nat
    OBVIOUS
  <2>2. (k - 1) \div n \in Nat /\ k - 1 = n * ((k - 1) \div n) + ((k - 1) % n)
        /\ (k - 1) % n \in Nat
    BY <2>1
  <2>3. CASE (k - 1) \div n >= c
    <3>1. c * n <= ((k - 1) \div n) * n
      BY <2>2, <2>3, Multiples
    <3>2. k - 1 >= c * n
      BY <2>2, <3>1
    <3>3. QED
      BY <3>2
  <2>4. QED
    BY <2>2, <2>3
<1>2. (i - 1) % n \in 0..(n - 1)
  OBVIOUS
<1>3. ASSUME NEW j \in 1..(c * n), i < j
      PROVE  (i - 1) \div n <= (j - 1) \div n
  <2> DEFINE d == (i - 1) \div n
             e == (j - 1) \div n
  <2>1. /\ i - 1 \in Nat /\ d \in Nat /\ (i - 1) % n \in Nat
        /\ i - 1 = n * d + ((i - 1) % n)
    OBVIOUS
  <2>2. /\ j - 1 \in Nat /\ e \in Nat /\ (j - 1) % n \in 0..(n - 1)
        /\ j - 1 = n * e + ((j - 1) % n)
    OBVIOUS
  <2> HIDE DEF d, e
  <2>3. CASE e + 1 <= d
    <3>1. (e + 1) * n <= d * n
      BY <2>1, <2>2, <2>3, Multiples
    <3>2. j - 1 < i - 1
      BY <2>1, <2>2, <3>1
    <3>3. QED
      BY <1>3, <3>2
  <2>4. QED
    BY <2>1, <2>2, <2>3 DEF d, e
<1>4. QED
  BY <1>1, <1>2, <1>3

\* The passes are finitely many naturals, and there is one.
LEMMA PassesFacts ==
  ASSUME cfg.rules \in [Policies -> Rules \cup {NoRules}]
  PROVE  /\ Passes \subseteq Nat /\ Passes \subseteq Policies \cup {NoPolicy} /\ Passes # {}
         /\ IsFiniteSet(Passes) /\ Cardinality(Passes) \in Nat
<1>1. IsFiniteSet({NoPolicy})
  BY FS_Singleton
<1>2. {p \in Policies : cfg.rules[p] # NoRules} \in SUBSET Policies
  OBVIOUS
<1>3. IsFiniteSet({p \in Policies : cfg.rules[p] # NoRules})
  BY <1>2, FS_Subset, SweepAssumption
<1>4. IsFiniteSet(Passes)
  BY <1>1, <1>3 DEF Passes
<1>5. Passes \subseteq Policies \cup {NoPolicy} /\ Passes # {}
  BY DEF Passes
<1>6. Passes \subseteq Nat
  BY <1>5, SweepAssumption DEF NoPolicy
<1>7. QED
  BY <1>4, <1>5, <1>6, FS_CardinalityType

\* How many passes come before one tells which it is, and each number is that of a pass:
\* NthPass counts the passes in the order of their names.
LEMMA PassesInOrder ==
  ASSUME cfg.rules \in [Policies -> Rules \cup {NoRules}]
  PROVE  /\ \A p \in Passes : /\ Cardinality(Before(p)) \in 0..(Cardinality(Passes) - 1)
                              /\ NthPass(Cardinality(Before(p)) + 1) = p
         /\ \A n \in 1..Cardinality(Passes) : NthPass(n) \in Passes
         /\ \A m, n \in 1..Cardinality(Passes) : m <= n => NthPass(m) <= NthPass(n)
<1> DEFINE rank == [p \in Passes |-> Cardinality(Before(p))]
<1>0. PICK c \in Nat : c = Cardinality(Passes)
  BY PassesFacts
<1>1. ASSUME NEW p \in Passes
      PROVE  IsFiniteSet(Before(p)) /\ rank[p] \in 0..(c - 1) /\ rank[p] \in Nat
  <2>1. IsFiniteSet(Passes \ {p}) /\ Cardinality(Passes \ {p}) = c - 1
    BY <1>0, FS_RemoveElement, PassesFacts
  <2>2. p \in Nat
    BY PassesFacts
  <2>3. Before(p) \in SUBSET (Passes \ {p})
    BY <2>2 DEF Before
  <2>4. IsFiniteSet(Before(p)) /\ Cardinality(Before(p)) <= c - 1
    BY <2>1, <2>3, FS_Subset
  <2>5. Cardinality(Before(p)) \in Nat
    BY <2>4, FS_CardinalityType
  <2>6. QED
    BY <1>0, <2>4, <2>5
<1>2. ASSUME NEW p \in Passes, NEW q \in Passes, p < q PROVE rank[p] < rank[q]
  <2>1. p \in Nat /\ q \in Nat
    BY PassesFacts
  <2>2. p \in Before(q) /\ IsFiniteSet(Before(q))
    BY <1>1, <1>2 DEF Before
  <2>3. /\ IsFiniteSet(Before(q) \ {p})
        /\ Cardinality(Before(q) \ {p}) = Cardinality(Before(q)) - 1
    BY <2>2, FS_RemoveElement
  <2>4. \A r \in Passes : r \in Nat
    BY PassesFacts
  <2>5. Before(p) \in SUBSET (Before(q) \ {p})
    <3>1. ASSUME NEW r \in Before(p) PROVE r \in Passes /\ r < q /\ r # p
      BY <1>2, <2>1, <2>4 DEF Before
    <3>2. QED
      BY <3>1 DEF Before
  <2>6. Cardinality(Before(p)) <= Cardinality(Before(q)) - 1
    BY <2>3, <2>5, FS_Subset
  <2>7. rank[p] \in Nat /\ rank[q] \in Nat
    BY <1>1
  <2>8. QED
    BY <2>6, <2>7
<1>3. \A p, q \in Passes : p \in Nat /\ q \in Nat /\ (p < q \/ q < p \/ p = q)
  BY PassesFacts
<1>4. \A p, q \in Passes : rank[p] \in Nat /\ (rank[p] = rank[q] => p = q)
  <2>1. \A p \in Passes : rank[p] \in Nat
    BY <1>1
  <2> HIDE DEF rank
  <2>2. QED
    BY <1>2, <1>3, <2>1
<1>5. \A k \in 0..(c - 1) : \E p \in Passes : rank[p] = k
  <2>1. rank \in [Passes -> 0..(c - 1)]
    BY <1>1
  <2>2. rank \in Injection(Passes, 0..(c - 1))
    <3> HIDE DEF rank
    <3>1. QED
      BY <1>4, <2>1 DEF Injection, IsInjective
  <2>3. IsFiniteSet(0..(c - 1)) /\ Cardinality(0..(c - 1)) = c
    BY FS_Interval
  <2>4. rank \in Surjection(Passes, 0..(c - 1))
    BY <1>0, <2>2, <2>3, FS_Injection
  <2> HIDE DEF rank
  <2>5. QED
    BY <2>4 DEF Surjection
<1>6. ASSUME NEW n \in 1..c PROVE NthPass(n) \in Passes /\ rank[NthPass(n)] = n - 1
  <2>1. NthPass(n) = CHOOSE p \in Passes : Cardinality(Before(p)) = n - 1
    BY DEF NthPass, Before
  <2>2. \E p \in Passes : Cardinality(Before(p)) = n - 1
    <3>1. n - 1 \in 0..(c - 1)
      OBVIOUS
    <3>2. QED
      BY <1>5, <3>1
  <2>3. NthPass(n) \in Passes /\ Cardinality(Before(NthPass(n))) = n - 1
    BY <2>1, <2>2
  <2>4. QED
    BY <2>3
<1>7. ASSUME NEW p \in Passes PROVE rank[p] \in 0..(c - 1) /\ NthPass(rank[p] + 1) = p
  <2>1. rank[p] \in 0..(c - 1) /\ rank[p] + 1 \in 1..c /\ rank[p] \in Nat
    BY <1>1
  <2> HIDE DEF rank
  <2>2. rank[NthPass(rank[p] + 1)] = rank[p] /\ NthPass(rank[p] + 1) \in Passes
    BY <1>6, <2>1
  <2>3. QED
    BY <1>4, <2>1, <2>2
<1>8. ASSUME NEW m \in 1..c, NEW n \in 1..c, m <= n PROVE NthPass(m) <= NthPass(n)
  <2> HIDE DEF rank
  <2>1. /\ NthPass(m) \in Passes /\ rank[NthPass(m)] = m - 1
        /\ NthPass(n) \in Passes /\ rank[NthPass(n)] = n - 1
    BY <1>6
  <2>2. CASE NthPass(n) < NthPass(m)
    BY <1>2, <1>8, <2>1, <2>2
  <2>3. QED
    BY <1>3, <2>1, <2>2
<1>9. \A p \in Passes : rank[p] = Cardinality(Before(p))
  OBVIOUS
<1> HIDE DEF rank
<1>10. QED
  BY <1>0, <1>6, <1>7, <1>8, <1>9

\* The row of a policy and a browser, by how many policies come before it.
LEMMA RowOf ==
  ASSUME TInv, NEW p \in Passes, NEW b \in 1..Browsers
  PROVE  LET i == Cardinality(Before(p)) * Browsers + b
         IN  i \in 1..(Cardinality(Passes) * Browsers) /\ Row(i) = <<p, b>>
<1> DEFINE r == Cardinality(Before(p))
           c == Cardinality(Passes)
<1>1. Browsers \in Nat \ {0}
  BY SweepAssumption
<1>2. r \in 0..(c - 1) /\ NthPass(r + 1) = p /\ c \in Nat
  BY PassesInOrder, PassesFacts DEF TInv, TypeOK
<1>3. Row(r * Browsers + b)
        = <<NthPass((((r * Browsers + b) - 1) \div Browsers) + 1),
            (((r * Browsers + b) - 1) % Browsers) + 1>>
  BY DEF Row
<1> HIDE DEF r, c
<1>4. r \in Nat /\ r + 1 <= c
  BY <1>2
<1>5. /\ r * Browsers \in Nat /\ (r + 1) * Browsers = r * Browsers + Browsers
      /\ (r + 1) * Browsers <= c * Browsers
  BY <1>1, <1>2, <1>4, Multiples
<1>6. r * Browsers + b \in 1..(c * Browsers)
  <2>1. c * Browsers \in Nat
    BY <1>1, <1>2, Multiples
  <2>2. QED
    BY <1>1, <1>5, <2>1
<1>7. ((r * Browsers + b) - 1) \div Browsers = r /\ ((r * Browsers + b) - 1) % Browsers = b - 1
  BY <1>1, <1>4, Divided
<1>8. Row(r * Browsers + b) = <<p, b>>
  BY <1>2, <1>3, <1>7
<1>9. QED
  BY <1>6, <1>8 DEF r, c

\* Where a step of the run that leaves its request, its loop and its rows alone can go.
Onward ==
  \/ pc' = pc
  \/ pc \in Preparing /\ pc' \in Preparing \cup {"nextPolicy"}
  \/ pc \in Applying /\ pc' \in Applying \cup {"measure"}
  \/ pc = "nextPolicy" /\ todo = {} /\ pc' = "deleteCollector"
  \/ pc = "deleteCollector" /\ pc' = "restoreGet"
  \/ pc \in Over \ {"idle"} /\ pc' \in Over

loop == <<cfg, todo, cur, browser, runs>>

\* What a step can do to the rows of a run and to its loop over the policies.
LEMMA StepKinds ==
  ASSUME TInv, [Next]_vars
  PROVE  \/ Start
         \/ UNCHANGED <<loop, results, runErr>> /\ Onward
         \/ UNCHANGED <<loop, results>> /\ runErr' /\ pc # "idle" /\ pc' \in Over
         \/ NextPolicy
         \/ UNCHANGED <<loop, runErr>> /\ pc \in Applying /\ PolicyFails
         \/ Measure
<1> USE DEF Onward, loop, Preparing, Applying, Over, cluster, live, report, history
<1>1. CASE Snapshot
  BY <1>1 DEF Snapshot
<1>2. CASE SetImage
  BY <1>2 DEF SetImage, SetTemplate, FailedWrite
<1>3. CASE WaitImage
  BY <1>3 DEF WaitImage
<1>4. CASE EnsureCollector
  BY <1>4 DEF EnsureCollector, CollectorStep, CollectorFails
<1>5. CASE CollectorTimesOut
  BY <1>5 DEF CollectorTimesOut
<1>6. CASE PoliciesDone
  BY <1>6 DEF PoliciesDone
<1>7. CASE WriteConfigMap
  BY <1>7 DEF WriteConfigMap
<1>8. CASE GetAnubis
  BY <1>8 DEF GetAnubis, GetDeployment
<1>9. CASE WirePolicy
  BY <1>9 DEF WirePolicy, SetTemplate, FailedWrite
<1>10. CASE WaitPolicy
  BY <1>10 DEF WaitPolicy
<1>11. CASE DeleteCollector
  BY <1>11 DEF DeleteCollector
<1>12. CASE RestoreGet
  BY <1>12 DEF RestoreGet, GetDeployment, RestoreFails
<1>13. CASE RestoreUpdate
  BY <1>13 DEF RestoreUpdate, SetTemplate, FailedWrite, RestoreFails
<1>14. CASE RestoreWait
  BY <1>14 DEF RestoreWait
<1>15. CASE ContextEnds
  BY <1>15 DEF ContextEnds
<1>16. CASE Crash
  BY <1>16 DEF Crash
<1>17. CASE ControllerObserves
  BY <1>17 DEF ControllerObserves
<1>18. CASE RolloutCompletes
  BY <1>18 DEF RolloutCompletes
<1>19. CASE RolloutProgresses
  BY <1>19 DEF RolloutProgresses
<1>20. CASE Kubelet
  BY <1>20 DEF Kubelet
<1>21. CASE UNCHANGED vars
  BY <1>21 DEF vars
<1>22. QED
  BY <1>1, <1>2, <1>3, <1>4, <1>5, <1>6, <1>7, <1>8, <1>9, <1>10, <1>11, <1>12, <1>13,
     <1>14, <1>15, <1>16, <1>17, <1>18, <1>19, <1>20, <1>21 DEF Next, RunStep

\* The matrix has a natural number of rows.
LEMMA MatrixSize ==
  TInv => /\ Cardinality(Passes) * Browsers \in Nat
          /\ Passes \subseteq Nat /\ Passes \subseteq Policies \cup {NoPolicy}
<1> SUFFICES ASSUME TInv
             PROVE  /\ Cardinality(Passes) * Browsers \in Nat
                    /\ Passes \subseteq Nat /\ Passes \subseteq Policies \cup {NoPolicy}
  OBVIOUS
<1>1. Cardinality(Passes) \in Nat /\ Passes \subseteq Nat
      /\ Passes \subseteq Policies \cup {NoPolicy}
  BY PassesFacts DEF TInv, TypeOK
<1>2. QED
  BY <1>1, Multiples, SweepAssumption

\* While the request stays, so does the matrix.
LEMMA MatrixStays ==
  ASSUME UNCHANGED cfg
  PROVE  /\ Passes' = Passes /\ \A i : Row(i)' = Row(i)
         /\ \A p : Before(p)' = Before(p)
BY DEF Passes, Row, Before, NthPass

\* The pass under way is the last one taken: what comes before it is what was taken
\* earlier.
LEMMA PassUnderWay ==
  ASSUME TInv, cur \in Taken, \A q \in Taken : q <= cur, TakenComeFirst, pc \notin Over
  PROVE  Cardinality(Taken) = Cardinality(Before(cur)) + 1
<1>1. Passes \subseteq Nat /\ IsFiniteSet(Passes)
  BY PassesFacts DEF TInv, TypeOK
<1>2. Taken \in SUBSET Passes /\ cur \in Passes /\ cur \notin Before(cur)
  BY <1>1 DEF Taken, Before
<1>3. ASSUME NEW q \in Passes PROVE q \in Taken <=> q = cur \/ q \in Before(cur)
  <2>1. q \in Nat /\ cur \in Nat
    BY <1>1, <1>2
  <2>2. q \in Taken => q <= cur
    OBVIOUS
  <2>3. q \notin Taken => q \in todo /\ cur < q
    BY DEF Taken, TakenComeFirst
  <2>4. q \in Before(cur) <=> q < cur
    BY DEF Before
  <2>5. QED
    BY <2>1, <2>2, <2>3, <2>4
<1>4. Before(cur) \in SUBSET Passes
  BY DEF Before
<1>5. Taken = Before(cur) \cup {cur}
  BY <1>2, <1>3, <1>4
<1>6. IsFiniteSet(Before(cur))
  BY <1>1, <1>4, FS_Subset
<1>7. QED
  BY <1>2, <1>5, <1>6, FS_AddElement

\* The rows of a policy that could not be applied are the rows of its pass.
LEMMA ErrorRows ==
  ASSUME TInv, MInv, pc \in Applying, PolicyFails, UNCHANGED cfg
  PROVE  /\ RowsAreFirst'
         /\ Len(results) = Cardinality(Before(cur)) * Browsers
         /\ Len(results') = (Cardinality(Before(cur)) + 1) * Browsers
<1> DEFINE more == [b \in 1..Browsers |-> Errored(b)]
           r == Cardinality(Before(cur))
           size == Cardinality(Passes) * Browsers
<1>1. Browsers \in Nat \ {0} /\ size \in Nat
  BY SweepAssumption, MatrixSize
<1>2. cur \in Passes /\ browser = 1
  BY DEF MInv, RowsSoFar, Taken
<1>3. r \in Nat
  <2>1. r \in 0..(Cardinality(Passes) - 1)
    BY <1>2, PassesInOrder DEF TInv, TypeOK
  <2>2. QED
    BY <2>1
<1>4. r * Browsers \in Nat /\ (r + 1) * Browsers = r * Browsers + Browsers
  BY <1>1, <1>3, Multiples
<1>5. Len(results) = r * Browsers
  <2>1. Len(results) = r * Browsers + (browser - 1)
    BY DEF MInv, RowsSoFar
  <2> HIDE DEF r
  <2>2. QED
    BY <1>2, <1>4, <2>1
<1>6. \A b \in 1..Browsers :
        r * Browsers + b \in 1..size /\ Row(r * Browsers + b) = <<cur, b>>
  BY <1>2, RowOf
<1>7. more \in Seq(Result) /\ Len(more) = Browsers
  <2>1. more \in [1..Browsers -> Result]
    BY DEF TInv, TypeOK, Errored, Result
  <2>2. QED
    BY <1>1, <2>1, SeqDef, LenProperties
<1>8. \A b \in 1..Browsers : more[b].policy = cur /\ more[b].browser = b
  BY DEF Errored
<1>9. results \in Seq(Result) /\ DOMAIN results = 1..Len(results) /\ Len(results) \in Nat
  BY DEF TInv, TypeOK
<1>10. results' = results \o more
  BY DEF PolicyFails
<1>11. \A i \in 1..Len(results) :
         results[i].policy = Row(i)[1] /\ results[i].browser = Row(i)[2]
  BY <1>9 DEF MInv, RowsAreFirst
<1> HIDE DEF more, r, size
<1>12. /\ results' \in Seq(Result)
       /\ Len(results') = Len(results) + Browsers
       /\ \A i \in 1..(Len(results) + Browsers) :
            results'[i] = IF i <= Len(results) THEN results[i] ELSE more[i - Len(results)]
  BY ONLY <1>1, <1>7, <1>9, <1>10, ConcatProperties
<1>13. DOMAIN results' = 1..(Len(results) + Browsers)
  BY <1>12, LenProperties
<1>14. Len(results') <= size
  <2>1. r * Browsers + Browsers \in 1..size
    BY <1>1, <1>6
  <2>2. QED
    BY <1>5, <1>12, <2>1
<1>15. ASSUME NEW i \in 1..(Len(results) + Browsers)
       PROVE  results'[i].policy = Row(i)[1] /\ results'[i].browser = Row(i)[2]
  <2>1. CASE i <= Len(results)
    <3>1. i \in 1..Len(results) /\ results'[i] = results[i]
      BY <1>9, <1>12, <2>1
    <3>2. QED
      BY <1>11, <3>1
  <2>2. CASE ~(i <= Len(results))
    <3>1. i - Len(results) \in 1..Browsers /\ i = r * Browsers + (i - Len(results))
      BY <1>1, <1>4, <1>5, <1>9, <2>2
    <3>2. results'[i] = more[i - Len(results)]
      BY <1>12, <2>2
    <3>3. Row(i) = <<cur, i - Len(results)>>
      BY <1>6, <3>1
    <3>4. QED
      BY <1>8, <3>1, <3>2, <3>3
  <2>3. QED
    BY <2>1, <2>2
<1>16. RowsAreFirst'
  BY <1>13, <1>14, <1>15, MatrixStays DEF RowsAreFirst, size
<1>17. QED
  BY <1>4, <1>5, <1>12, <1>16 DEF r

\* The row of a browser that was measured is the next of its pass.
LEMMA MeasuredRow ==
  ASSUME TInv, MInv, Measure
  PROVE  /\ RowsAreFirst'
         /\ Len(results) = Cardinality(Before(cur)) * Browsers + (browser - 1)
         /\ Len(results') = Cardinality(Before(cur)) * Browsers + browser
<1> DEFINE r == Cardinality(Before(cur))
           size == Cardinality(Passes) * Browsers
<1>1. Browsers \in Nat \ {0} /\ size \in Nat /\ UNCHANGED cfg
  BY SweepAssumption, MatrixSize DEF Measure
<1>2. cur \in Passes /\ browser \in 1..Browsers
  BY DEF MInv, RowsSoFar, Taken, Measure, TInv, TypeOK
<1>3. r * Browsers \in Nat
  <2>1. r \in 0..(Cardinality(Passes) - 1)
    BY <1>2, PassesInOrder DEF TInv, TypeOK
  <2>2. r \in Nat
    BY <2>1
  <2>3. QED
    BY <1>1, <2>2, Multiples
<1>4. Len(results) = r * Browsers + (browser - 1)
  BY DEF MInv, RowsSoFar, Measure
<1>5. r * Browsers + browser \in 1..size /\ Row(r * Browsers + browser) = <<cur, browser>>
  BY <1>2, RowOf
<1>6. \E x \in Result :
        results' = Append(results, x) /\ x.policy = cur /\ x.browser = browser
  <2>1. Judged(browser) \in Result /\ Errored(browser) \in Result
    BY PodFacts DEF TInv, TypeOK, Judged, Errored, Result
  <2>2. /\ Judged(browser).policy = cur /\ Judged(browser).browser = browser
        /\ Errored(browser).policy = cur /\ Errored(browser).browser = browser
    BY DEF Judged, Errored
  <2>3. \E x \in {Judged(browser), Errored(browser)} : results' = Append(results, x)
    BY DEF Measure
  <2>4. QED
    BY <2>1, <2>2, <2>3
<1>7. PICK x \in Result :
        results' = Append(results, x) /\ x.policy = cur /\ x.browser = browser
  BY <1>6
<1>8. results \in Seq(Result) /\ DOMAIN results = 1..Len(results) /\ Len(results) \in Nat
  BY DEF TInv, TypeOK
<1>9. \A i \in 1..Len(results) :
        results[i].policy = Row(i)[1] /\ results[i].browser = Row(i)[2]
  BY <1>8 DEF MInv, RowsAreFirst
<1>10. /\ Len(results') = Len(results) + 1
       /\ DOMAIN results' = 1..(Len(results) + 1)
       /\ results'[Len(results) + 1] = x
       /\ \A i \in 1..Len(results) : results'[i] = results[i]
  BY ONLY <1>7, <1>8, AppendProperties
<1> HIDE DEF r, size
<1>11. Len(results) + 1 = r * Browsers + browser
  BY <1>2, <1>3, <1>4
<1>12. ASSUME NEW i \in 1..(Len(results) + 1)
       PROVE  results'[i].policy = Row(i)[1] /\ results'[i].browser = Row(i)[2]
  <2>1. i \in 1..Len(results) \/ i = Len(results) + 1
    BY <1>8
  <2>2. QED
    BY <1>5, <1>7, <1>9, <1>10, <1>11, <2>1
<1>13. Len(results') <= size
  BY <1>1, <1>5, <1>10, <1>11
<1>14. RowsAreFirst'
  BY <1>1, <1>10, <1>12, <1>13, MatrixStays DEF RowsAreFirst, size
<1>15. QED
  BY <1>4, <1>10, <1>11, <1>14 DEF r

\* What steps that leave the loop and the rows alone keep.
LEMMA OnwardMInv ==
  ASSUME TInv, MInv, UNCHANGED <<loop, results, runErr>>, Onward
  PROVE  MInv'
<1> USE DEF MInv, loop
<1>1. /\ Passes' = Passes /\ Taken' = Taken /\ \A i : Row(i)' = Row(i)
      /\ \A p : Before(p)' = Before(p)
  BY MatrixStays DEF Taken
<1>2. RowsAreFirst'
  BY <1>1 DEF RowsAreFirst
<1>3. TakenComeFirst'
  BY <1>1 DEF TakenComeFirst, Onward, Preparing, Applying, Over
<1>4. Browsers \in Nat \ {0} /\ Len(results) \in Nat
  BY SweepAssumption DEF TInv, TypeOK
<1>5. ASSUME pc \in Preparing, pc' = "nextPolicy"
      PROVE  Len(results) = Cardinality(Taken) * Browsers
  <2>1. Taken = {} /\ results = <<>>
    BY <1>5 DEF RowsSoFar, Taken
  <2>2. Cardinality(Taken) = 0 /\ Len(results) = 0
    BY <2>1, FS_EmptySet
  <2>3. QED
    BY <1>4, <2>2
<1>6. ASSUME pc = "nextPolicy", todo = {} PROVE Len(results) = Cardinality(Passes) * Browsers
  <2>1. Taken = Passes
    BY <1>6 DEF Taken
  <2>2. QED
    BY <1>6, <2>1 DEF RowsSoFar
<1>7. RowsSoFar'
  <2>1. CASE pc' = pc
    BY <1>1, <2>1 DEF RowsSoFar
  <2>2. CASE pc \in Preparing /\ pc' \in Preparing
    BY <1>1, <2>2 DEF RowsSoFar, Preparing, Applying, Over
  <2>3. CASE pc \in Preparing /\ pc' = "nextPolicy"
    BY <1>1, <1>5, <2>3 DEF RowsSoFar, Preparing, Applying, Over
  <2>4. CASE pc \in Applying /\ pc' \in Applying \cup {"measure"}
    BY <1>1, <2>4 DEF RowsSoFar, Preparing, Applying, Over
  <2>5. CASE pc = "nextPolicy" /\ todo = {} /\ pc' = "deleteCollector"
    BY <1>1, <1>6, <2>5 DEF RowsSoFar, Preparing, Applying, Over
  <2>6. CASE pc = "deleteCollector" /\ pc' = "restoreGet"
    BY <1>1, <2>6 DEF RowsSoFar, Preparing, Applying, Over
  <2>7. CASE pc \in Over \ {"idle"} /\ pc' \in Over
    BY <1>1, <2>7 DEF RowsSoFar, Preparing, Applying, Over
  <2>8. QED
    BY <2>1, <2>2, <2>3, <2>4, <2>5, <2>6, <2>7 DEF Onward
<1>8. QED
  BY <1>2, <1>3, <1>7

\* A new run has no rows and all its passes before it.
LEMMA StartMInv == TInv /\ TInv' /\ Start => MInv'
<1> SUFFICES ASSUME TInv, TInv', Start PROVE MInv'
  OBVIOUS
<1>1. (Cardinality(Passes) * Browsers \in Nat)'
  BY MatrixSize, PTL
<1>2. todo' = Passes' /\ results' = <<>> /\ pc' = "snapshot" /\ ~runErr'
  BY DEF Start, Passes
<1>3. Len(results') = 0 /\ DOMAIN results' = {}
  BY <1>2
<1>4. RowsAreFirst'
  BY <1>1, <1>3 DEF RowsAreFirst
<1>5. runs' > 0
  BY SweepAssumption DEF Start, TInv, TypeOK
<1>6. Taken' = {}
  BY <1>2 DEF Taken
<1>7. TakenComeFirst'
  BY <1>2, <1>5, <1>6 DEF TakenComeFirst, Over
<1>8. RowsSoFar'
  BY <1>2 DEF RowsSoFar, Preparing, Applying, Over
<1>9. QED
  BY <1>4, <1>7, <1>8 DEF MInv

\* The next pass comes after all that were taken and before all that are left.
LEMMA NextPolicyMInv == TInv /\ MInv /\ NextPolicy => MInv'
<1> SUFFICES ASSUME TInv, MInv, NextPolicy PROVE MInv'
  OBVIOUS
<1> DEFINE p == First(todo)
<1>1. /\ pc = "nextPolicy" /\ todo # {} /\ cur' = p /\ todo' = todo \ {p} /\ browser' = 1
      /\ pc' \in {"measure", "configMap"}
      /\ UNCHANGED <<cfg, results, runErr, runs>>
  BY DEF NextPolicy, report, history
<1>2. p \in todo /\ \A q \in todo : p <= q
  BY <1>1, FirstOf DEF TInv, TypeOK
<1> HIDE DEF p
<1>3. todo \subseteq Passes /\ ~runErr /\ runs > 0 /\ \A t \in todo, q \in Taken : q < t
  BY <1>1 DEF MInv, TakenComeFirst, Over
<1>4. Passes \subseteq Nat /\ Len(results) = Cardinality(Taken) * Browsers
  BY <1>1, PassesFacts DEF MInv, RowsSoFar, TInv, TypeOK
<1>5. /\ Passes' = Passes /\ \A i : Row(i)' = Row(i) /\ \A q : Before(q)' = Before(q)
  BY <1>1, MatrixStays
<1>6. Taken' = Taken \cup {p}
  BY <1>1, <1>2, <1>3, <1>5 DEF Taken
<1>7. Before(p) = Taken
  <2>1. ASSUME NEW q \in Passes PROVE q < p <=> q \notin todo
    <3>1. q \in Nat /\ p \in Nat
      BY <1>2, <1>3, <1>4
    <3>2. q \in todo => p <= q
      BY <1>2
    <3>3. q \notin todo => q < p
      BY <1>2, <1>3 DEF Taken
    <3>4. QED
      BY <3>1, <3>2, <3>3
  <2>2. QED
    BY <2>1 DEF Before, Taken
<1>8. RowsAreFirst'
  BY <1>1, <1>5 DEF MInv, RowsAreFirst
<1>9. ASSUME NEW t \in todo', NEW q \in Taken' PROVE q < t
  <2>1. t \in todo /\ t # p /\ t \in Nat /\ p \in Nat
    BY <1>1, <1>2, <1>3, <1>4, <1>9
  <2>2. CASE q \in Taken
    BY <1>3, <2>1, <2>2
  <2>3. CASE q = p
    BY <1>2, <2>1, <2>3
  <2>4. QED
    BY <1>6, <2>2, <2>3
<1>10. TakenComeFirst'
  BY <1>1, <1>3, <1>5, <1>9 DEF TakenComeFirst, Over
<1>11. ASSUME NEW q \in Taken' PROVE q <= p
  <2>1. q \in Nat /\ p \in Nat
    BY <1>2, <1>3, <1>4, <1>6 DEF Taken
  <2>2. q = p \/ q < p
    BY <1>2, <1>3, <1>6
  <2>3. QED
    BY <2>1, <2>2
<1>12. Len(results) = Cardinality(Before(p)) * Browsers + (1 - 1)
  <2>1. Len(results) \in Nat
    BY DEF TInv, TypeOK
  <2>2. QED
    BY <1>4, <1>7, <2>1
<1>13. RowsSoFar'
  <2>1. cur' \in Taken' /\ \A q \in Taken' : q <= cur'
    BY <1>1, <1>6, <1>11
  <2>2. Len(results') = Cardinality(Before(cur)') * Browsers + (browser' - 1)
    BY <1>1, <1>5, <1>12 DEF Before
  <2>3. QED
    BY <1>1, <2>1, <2>2 DEF RowsSoFar, Preparing, Applying, Over
<1>14. QED
  BY <1>8, <1>10, <1>13 DEF MInv

\* Every step keeps the matrix invariant.
LEMMA NextMInv == TInv /\ TInv' /\ MInv /\ [Next]_vars => MInv'
<1> SUFFICES ASSUME TInv, TInv', MInv, [Next]_vars PROVE MInv'
  OBVIOUS
<1>1. CASE Start
  BY <1>1, StartMInv
<1>2. CASE UNCHANGED <<loop, results, runErr>> /\ Onward
  BY <1>2, OnwardMInv
<1>3. CASE UNCHANGED <<loop, results>> /\ runErr' /\ pc # "idle" /\ pc' \in Over
  <2>1. RowsAreFirst'
    BY <1>3, MatrixStays DEF MInv, RowsAreFirst, loop
  <2>2. TakenComeFirst'
    BY <1>3 DEF MInv, TakenComeFirst, loop
  <2>3. RowsSoFar'
    BY <1>3 DEF RowsSoFar, Preparing, Applying, Over
  <2>4. QED
    BY <2>1, <2>2, <2>3 DEF MInv
<1>4. CASE NextPolicy
  BY <1>4, NextPolicyMInv
<1>5. CASE UNCHANGED <<loop, runErr>> /\ pc \in Applying /\ PolicyFails
  <2>1. pc \notin Over /\ pc' = "nextPolicy" /\ UNCHANGED <<cfg, todo, runErr, runs>>
    BY <1>5 DEF Applying, Over, PolicyFails, loop
  <2>2. Passes' = Passes /\ Taken' = Taken
    BY <2>1, MatrixStays DEF Taken
  <2>3. /\ RowsAreFirst'
        /\ Len(results') = (Cardinality(Before(cur)) + 1) * Browsers
    BY <1>5, <2>1, ErrorRows
  <2>4. TakenComeFirst'
    BY <2>1, <2>2 DEF MInv, TakenComeFirst, Over
  <2>5. Cardinality(Taken) = Cardinality(Before(cur)) + 1
    BY <1>5, <2>1, PassUnderWay DEF MInv, RowsSoFar
  <2>6. RowsSoFar'
    BY <2>1, <2>2, <2>3, <2>5 DEF RowsSoFar, Preparing, Applying, Over
  <2>7. QED
    BY <2>3, <2>4, <2>6 DEF MInv
<1>6. CASE Measure
  <2>1. /\ pc = "measure" /\ pc \notin Over /\ UNCHANGED <<cfg, todo, cur, runErr, runs>>
        /\ \/ browser < Browsers /\ browser' = browser + 1 /\ pc' = "measure"
           \/ ~(browser < Browsers) /\ pc' = "nextPolicy"
    BY <1>6 DEF Measure, Over, history
  <2>2. Passes' = Passes /\ Taken' = Taken /\ \A p : Before(p)' = Before(p)
    BY <2>1, MatrixStays DEF Taken
  <2>3. /\ RowsAreFirst'
        /\ Len(results') = Cardinality(Before(cur)) * Browsers + browser
    BY <1>6, MeasuredRow
  <2>4. TakenComeFirst'
    BY <2>1, <2>2 DEF MInv, TakenComeFirst, Over
  <2>5. cur \in Taken /\ \A q \in Taken : q <= cur
    BY <2>1 DEF MInv, RowsSoFar
  <2>6. Cardinality(Taken) = Cardinality(Before(cur)) + 1
    BY <2>1, <2>5, PassUnderWay DEF MInv
  <2>7. Browsers \in Nat \ {0} /\ browser \in 1..Browsers
    BY SweepAssumption DEF TInv, TypeOK
  <2>8. CASE pc' = "measure"
    <3>1. browser = browser' - 1
      BY <2>1, <2>7, <2>8
    <3>2. Len(results') = Cardinality(Before(cur)') * Browsers + (browser' - 1)
      BY <2>1, <2>2, <2>3, <3>1 DEF Before
    <3>3. RowsSoFar'
      BY <2>1, <2>2, <2>5, <2>8, <3>2 DEF RowsSoFar, Preparing, Applying, Over
    <3>4. QED
      BY <2>3, <2>4, <3>3 DEF MInv
  <2>9. CASE pc' = "nextPolicy"
    <3>1. browser = Browsers
      BY <2>1, <2>7, <2>9
    <3>2. Cardinality(Before(cur)) \in Nat
      <4>1. cur \in Passes
        BY <2>5 DEF Taken
      <4>2. Cardinality(Before(cur)) \in 0..(Cardinality(Passes) - 1)
        BY <4>1, PassesInOrder DEF TInv, TypeOK
      <4>3. QED
        BY <4>2
    <3>3. (Cardinality(Before(cur)) + 1) * Browsers
            = Cardinality(Before(cur)) * Browsers + Browsers
      BY <2>7, <3>2, Multiples
    <3>4. Len(results') = Cardinality(Taken) * Browsers
      BY <2>3, <2>6, <3>1, <3>3
    <3>5. RowsSoFar'
      BY <2>2, <2>9, <3>4 DEF RowsSoFar, Preparing, Applying, Over
    <3>6. QED
      BY <2>3, <2>4, <3>5 DEF MInv
  <2>10. QED
    BY <2>1, <2>8, <2>9
<1>7. QED
  BY <1>1, <1>2, <1>3, <1>4, <1>5, <1>6, StepKinds

\* The initial state has no run, and so no matrix to fill.
LEMMA InitMInv == Init /\ TInv => MInv
<1> SUFFICES ASSUME Init, TInv PROVE MInv
  OBVIOUS
<1>1. Cardinality(Passes) * Browsers \in Nat
  BY MatrixSize
<1>2. results = <<>> /\ pc = "idle" /\ runs = 0 /\ Len(results) = 0 /\ DOMAIN results = {}
  BY DEF Init
<1>3. RowsAreFirst
  BY <1>1, <1>2 DEF RowsAreFirst
<1>4. TakenComeFirst /\ RowsSoFar
  BY <1>2 DEF TakenComeFirst, RowsSoFar, Preparing, Applying, Over
<1>5. QED
  BY <1>3, <1>4 DEF MInv

\* What rows a run has are always a beginning of its matrix, and as many as its loop has
\* come to (sweep.go:80-92, 117-134).
THEOREM MatrixInvariance == SafetySpec => []MInv
<1>1. Init => TInv
  BY InitTInv
<1>2. Init => MInv
  BY <1>1, InitMInv
<1>3. TInv /\ [Next]_vars => TInv'
  BY NextTInv
<1>4. TInv /\ TInv' /\ MInv /\ [Next]_vars => MInv'
  BY NextMInv
<1>5. QED
  BY <1>1, <1>2, <1>3, <1>4, PTL DEF SafetySpec

\* The matrix in full: every pass and browser, in the order of the passes.
LEMMA FullMatrix ==
  ASSUME TInv, RowsAreFirst, Len(results) = Cardinality(Passes) * Browsers
  PROVE  /\ \A p \in Passes, b \in 1..Browsers :
              \E i \in DOMAIN results : results[i].policy = p /\ results[i].browser = b
         /\ \A i, j \in DOMAIN results : i < j => results[i].policy <= results[j].policy
<1>1. DOMAIN results = 1..(Cardinality(Passes) * Browsers)
  BY DEF TInv, TypeOK
<1>2. ASSUME NEW p \in Passes, NEW b \in 1..Browsers
      PROVE  \E i \in DOMAIN results : results[i].policy = p /\ results[i].browser = b
  <2>1. PICK i \in 1..(Cardinality(Passes) * Browsers) : Row(i) = <<p, b>>
    BY RowOf
  <2>2. QED
    BY <1>1, <2>1 DEF RowsAreFirst
<1>3. ASSUME NEW i \in DOMAIN results, NEW j \in DOMAIN results, i < j
      PROVE  results[i].policy <= results[j].policy
  <2> DEFINE m == ((i - 1) \div Browsers) + 1
             n == ((j - 1) \div Browsers) + 1
  <2>1. Cardinality(Passes) \in Nat /\ Browsers \in Nat \ {0}
    BY PassesFacts, SweepAssumption DEF TInv, TypeOK
  <2>2. /\ m \in 1..Cardinality(Passes) /\ n \in 1..Cardinality(Passes)
        /\ (i - 1) \div Browsers <= (j - 1) \div Browsers
    BY <1>1, <1>3, <2>1, RowsDivide
  <2>3. Row(i)[1] = NthPass(m) /\ Row(j)[1] = NthPass(n)
    BY DEF Row
  <2>4. results[i].policy = Row(i)[1] /\ results[j].policy = Row(j)[1]
    BY DEF RowsAreFirst
  <2>5. m <= n
    BY <1>1, <1>3, <2>1, <2>2
  <2> HIDE DEF m, n
  <2>6. NthPass(m) <= NthPass(n)
    BY <2>2, <2>5, PassesInOrder DEF TInv, TypeOK
  <2>7. QED
    BY <2>3, <2>4, <2>6
<1>4. QED
  BY <1>2, <1>3

\* A run that returns a report has one result for every policy and browser of the
\* request, in order, whatever failed on the way (sweep.go:80-92, 117-134).
THEOREM ReportsAreComplete == SafetySpec => []ReportIsComplete
<1>1. TInv /\ MInv => ReportIsComplete
  <2> SUFFICES ASSUME TInv, MInv, pc = "idle", runs > 0, ~runErr
               PROVE  ReportIsComplete
    BY DEF ReportIsComplete
  <2>1. RowsAreFirst /\ Len(results) = Cardinality(Passes) * Browsers
    BY DEF MInv, RowsSoFar, Over
  <2>2. QED
    BY <2>1, FullMatrix DEF ReportIsComplete
<1>2. IInv => TInv
  BY DEF IInv
<1>3. QED
  BY <1>1, <1>2, Invariance, MatrixInvariance, PTL

------------------------------------------------------------------------------
(* A run keeps the contract of a sweep, as far as it is about safety *)

\* The matrix asked for is a sequence of keys.
LEMMA WantedIsKeys ==
  TInv => /\ RowsWanted \in Seq((Policies \cup {NoPolicy}) \X (1..Browsers))
          /\ Len(RowsWanted) = Cardinality(Passes) * Browsers
          /\ \A i \in 1..(Cardinality(Passes) * Browsers) : RowsWanted[i] = Row(i)
<1> SUFFICES ASSUME TInv
             PROVE  /\ RowsWanted \in Seq((Policies \cup {NoPolicy}) \X (1..Browsers))
                    /\ Len(RowsWanted) = Cardinality(Passes) * Browsers
                    /\ \A i \in 1..(Cardinality(Passes) * Browsers) : RowsWanted[i] = Row(i)
  OBVIOUS
<1> DEFINE size == Cardinality(Passes) * Browsers
           K == (Policies \cup {NoPolicy}) \X (1..Browsers)
<1>1. /\ Cardinality(Passes) \in Nat /\ Browsers \in Nat \ {0} /\ size \in Nat
      /\ Passes \subseteq Policies \cup {NoPolicy}
  BY PassesFacts, MatrixSize, SweepAssumption DEF TInv, TypeOK
<1>2. RowsWanted = [i \in 1..size |-> Row(i)]
  BY DEF RowsWanted, Row
<1>3. ASSUME NEW i \in 1..size PROVE Row(i) \in K
  <2>1. /\ ((i - 1) \div Browsers) + 1 \in 1..Cardinality(Passes)
        /\ ((i - 1) % Browsers) + 1 \in 1..Browsers
    BY <1>1, RowsDivide
  <2>2. NthPass(((i - 1) \div Browsers) + 1) \in Passes
    BY <2>1, PassesInOrder DEF TInv, TypeOK
  <2>3. QED
    BY <1>1, <2>1, <2>2 DEF Row
<1> HIDE DEF size, K
<1>4. RowsWanted \in [1..size -> K]
  BY <1>2, <1>3
<1>5. RowsWanted \in Seq(K) /\ Len(RowsWanted) = size
  BY <1>1, <1>4, SeqDef, LenProperties
<1>6. QED
  BY <1>2, <1>5 DEF size, K

\* The keys of the rows so far are the first of the matrix.
LEMMA GivenIsFirst ==
  TInv /\ RowsAreFirst =>
    /\ RowsGiven \in Seq((Policies \cup {NoPolicy}) \X (1..Browsers))
    /\ Len(RowsGiven) = Len(results) /\ Len(results) <= Len(RowsWanted)
    /\ RowsGiven = SubSeq(RowsWanted, 1, Len(results))
<1> SUFFICES ASSUME TInv, RowsAreFirst
             PROVE  /\ RowsGiven \in Seq((Policies \cup {NoPolicy}) \X (1..Browsers))
                    /\ Len(RowsGiven) = Len(results) /\ Len(results) <= Len(RowsWanted)
                    /\ RowsGiven = SubSeq(RowsWanted, 1, Len(results))
  OBVIOUS
<1> DEFINE K == (Policies \cup {NoPolicy}) \X (1..Browsers)
           n == Len(results)
<1>1. n \in Nat /\ DOMAIN results = 1..n
  BY DEF TInv, TypeOK
<1>2. /\ RowsWanted \in Seq(K) /\ n <= Len(RowsWanted)
      /\ \A i \in 1..Len(RowsWanted) : RowsWanted[i] = Row(i)
  BY WantedIsKeys DEF RowsAreFirst
<1>3. RowsGiven = [i \in 1..n |-> <<results[i].policy, results[i].browser>>]
  BY <1>1 DEF RowsGiven
<1>4. ASSUME NEW i \in 1..n
      PROVE  i \in 1..Len(RowsWanted) /\ RowsGiven[i] = RowsWanted[i] /\ RowsGiven[i] \in K
  <2>1. i \in 1..Len(RowsWanted)
    BY <1>1, <1>2
  <2>2. RowsWanted[i] = Row(i) /\ RowsWanted[i] \in K
    BY <1>2, <2>1
  <2>3. results[i].policy = Row(i)[1] /\ results[i].browser = Row(i)[2]
    BY <1>1 DEF RowsAreFirst
  <2>4. Row(i) = <<Row(i)[1], Row(i)[2]>>
    BY DEF Row
  <2>5. QED
    BY <1>3, <2>1, <2>2, <2>3, <2>4
<1> HIDE DEF K, n
<1>5. RowsGiven \in [1..n -> K]
  BY <1>3, <1>4
<1>6. RowsGiven \in Seq(K) /\ Len(RowsGiven) = n
  BY <1>1, <1>5, SeqDef, LenProperties
<1>7. /\ SubSeq(RowsWanted, 1, n) \in Seq(K) /\ Len(SubSeq(RowsWanted, 1, n)) = n
      /\ \A i \in 1..n : SubSeq(RowsWanted, 1, n)[i] = RowsWanted[i]
  BY <1>1, <1>2, SubSeqProperties
<1>8. RowsGiven = SubSeq(RowsWanted, 1, n)
  BY <1>4, <1>6, <1>7, SeqEqual
<1>9. QED
  BY <1>2, <1>6, <1>8 DEF K, n

\* The initial states of the model are initial states of the contract: no run was asked
\* for, and there are no rows.
LEMMA ContractInit == Init /\ TInv => Contract!Init
<1> SUFFICES ASSUME Init, TInv PROVE Contract!Init
  OBVIOUS
<1>1. RowsWanted \in Seq((Policies \cup {NoPolicy}) \X (1..Browsers))
  BY WantedIsKeys
<1>2. RowsGiven = <<>>
  BY DEF Init, RowsGiven
<1>3. RunAnswer = "none"
  BY DEF Init, RunAnswer
<1>4. QED
  BY <1>1, <1>2, <1>3 DEF Contract!Init

\* While the request stays, the matrix asked for does, and rows that stay are rows given.
LEMMA ContractStays ==
  /\ UNCHANGED cfg => UNCHANGED RowsWanted
  /\ UNCHANGED results => UNCHANGED RowsGiven
<1>1. ASSUME UNCHANGED cfg PROVE RowsWanted' = RowsWanted
  <2>1. Passes' = Passes
    BY <1>1 DEF Passes
  <2>2. \A n : NthPass(n)' = NthPass(n)
    BY <2>1 DEF NthPass
  <2>3. QED
    BY <2>1, <2>2 DEF RowsWanted
<1>2. ASSUME UNCHANGED results PROVE RowsGiven' = RowsGiven
  BY <1>2 DEF RowsGiven
<1>3. QED
  BY <1>1, <1>2

\* More rows of the same matrix are given.
LEMMA GiveStep ==
  ASSUME TInv, TInv', RowsAreFirst', UNCHANGED cfg, Len(results') > Len(results),
         RunAnswer = "running", RunAnswer' = "running"
  PROVE  Contract!Give
<1>1. /\ RowsGiven' = SubSeq(RowsWanted', 1, Len(results'))
      /\ Len(results') <= Len(RowsWanted')
  <2>1. (/\ RowsGiven \in Seq((Policies \cup {NoPolicy}) \X (1..Browsers))
         /\ Len(RowsGiven) = Len(results) /\ Len(results) <= Len(RowsWanted)
         /\ RowsGiven = SubSeq(RowsWanted, 1, Len(results)))'
    BY GivenIsFirst, PTL
  <2>2. QED
    BY <2>1
<1>2. RowsWanted' = RowsWanted
  BY ContractStays
<1>3. Len(RowsGiven) = Len(results)
  <2>1. results \in Seq(Result)
    BY DEF TInv, TypeOK
  <2>2. DOMAIN results = 1..Len(results) /\ Len(results) \in Nat
    BY <2>1
  <2>3. RowsGiven = [i \in 1..Len(results) |-> <<results[i].policy, results[i].browser>>]
    BY <2>2 DEF RowsGiven
  <2>4. QED
    BY <2>2, <2>3
<1>4. Len(results) \in Nat /\ Len(results') \in Nat
  BY DEF TInv, TypeOK
<1>5. Len(results') \in (Len(RowsGiven) + 1)..Len(RowsWanted)
  <2>1. Len(RowsWanted) \in Nat
    BY WantedIsKeys, MatrixSize
  <2>2. QED
    BY <1>1, <1>2, <1>3, <1>4, <2>1
<1>6. QED
  BY <1>1, <1>2, <1>5 DEF Contract!Give

\* Every step of the model is a step of the contract, or one its caller does not see: a
\* policy that fails and a browser measured give rows, the end of the last deferred call
\* is the report or the error, and so is every earlier way out the error.
LEMMA ContractStep ==
  TInv /\ TInv' /\ MInv /\ [Next]_vars => [Contract!Next]_(Contract!contractVars)
<1> SUFFICES ASSUME TInv, TInv', MInv, [Next]_vars
             PROVE  Contract!Next \/ UNCHANGED <<RowsWanted, RowsGiven, RunAnswer>>
  BY DEF Contract!contractVars
<1>0. runs \in Nat /\ (pc # "idle" => runs # 0)
  BY SweepAssumption DEF TInv, TypeOK, MInv, TakenComeFirst
<1>1. CASE Start
  <2>1. (RowsWanted \in Seq((Policies \cup {NoPolicy}) \X (1..Browsers)))'
    BY WantedIsKeys, PTL
  <2>2. RowsGiven' = <<>>
    BY <1>1 DEF Start, RowsGiven
  <2>3. RunAnswer # "running" /\ RunAnswer' = "running"
    BY <1>0, <1>1 DEF Start, RunAnswer
  <2>4. QED
    BY <2>1, <2>2, <2>3 DEF Contract!Next, Contract!Ask
<1>2. CASE UNCHANGED <<loop, results, runErr>> /\ Onward
  <2>1. UNCHANGED <<RowsWanted, RowsGiven>> /\ runs' = runs /\ runErr' = runErr
    BY <1>2, ContractStays DEF loop
  <2>2. CASE pc' = pc \/ (pc # "idle" /\ pc' # "idle")
    <3>1. RunAnswer' = RunAnswer
      BY <2>1, <2>2 DEF RunAnswer
    <3>2. QED
      BY <2>1, <3>1
  <2>3. CASE pc # "idle" /\ pc' = "idle"
    <3>1. pc \in Over
      BY <1>2, <2>3 DEF Onward, Preparing, Applying
    <3>2. RunAnswer = "running" /\ RunAnswer' = IF runErr THEN "error" ELSE "report"
      BY <1>0, <2>1, <2>3 DEF RunAnswer
    <3>3. CASE runErr
      BY <2>1, <3>2, <3>3 DEF Contract!Next, Contract!Fail
    <3>4. CASE ~runErr
      <4>1. Len(results) = Cardinality(Passes) * Browsers /\ RowsAreFirst
        BY <1>0, <2>3, <3>1, <3>4 DEF MInv, RowsSoFar
      <4>2. /\ RowsWanted \in Seq((Policies \cup {NoPolicy}) \X (1..Browsers))
            /\ Len(RowsWanted) = Len(results)
            /\ RowsGiven = SubSeq(RowsWanted, 1, Len(results))
        BY <4>1, WantedIsKeys, GivenIsFirst
      <4>3. RowsGiven = RowsWanted
        BY <4>2
      <4>4. QED
        BY <2>1, <3>2, <3>4, <4>3 DEF Contract!Next, Contract!Report
    <3>5. QED
      BY <3>3, <3>4
  <2>4. pc' = pc \/ pc # "idle"
    BY <1>2 DEF Onward, Preparing, Applying, Over
  <2>5. QED
    BY <2>2, <2>3, <2>4
<1>3. CASE UNCHANGED <<loop, results>> /\ runErr' /\ pc # "idle" /\ pc' \in Over
  <2>1. UNCHANGED <<RowsWanted, RowsGiven>> /\ runs' = runs
    BY <1>3, ContractStays DEF loop
  <2>2. RunAnswer = "running"
    BY <1>0, <1>3 DEF RunAnswer
  <2>3. RunAnswer' \in {"running", "error"}
    BY <1>0, <1>3, <2>1 DEF RunAnswer
  <2>4. QED
    BY <2>1, <2>2, <2>3 DEF Contract!Next, Contract!Fail
<1>4. CASE NextPolicy
  <2>1. /\ UNCHANGED <<cfg, results, runs>> /\ pc = "nextPolicy"
        /\ pc' \in {"measure", "configMap"}
    BY <1>4 DEF NextPolicy, report, history
  <2>2. UNCHANGED <<RowsWanted, RowsGiven>>
    BY <2>1, ContractStays
  <2>3. RunAnswer' = RunAnswer
    BY <1>0, <2>1 DEF RunAnswer
  <2>4. QED
    BY <2>2, <2>3
<1>5. CASE UNCHANGED <<loop, runErr>> /\ pc \in Applying /\ PolicyFails
  <2>1. UNCHANGED <<cfg, runs>> /\ pc # "idle" /\ pc' = "nextPolicy"
    BY <1>5 DEF Applying, PolicyFails, loop
  <2>2. RunAnswer = "running" /\ RunAnswer' = "running"
    BY <1>0, <2>1 DEF RunAnswer
  <2>3. /\ RowsAreFirst'
        /\ Len(results) = Cardinality(Before(cur)) * Browsers
        /\ Len(results') = (Cardinality(Before(cur)) + 1) * Browsers
    BY <1>5, <2>1, ErrorRows
  <2>4. Cardinality(Before(cur)) \in Nat /\ Browsers \in Nat \ {0}
    <3>1. cur \in Passes
      BY <1>5 DEF MInv, RowsSoFar, Taken
    <3>2. Cardinality(Before(cur)) \in 0..(Cardinality(Passes) - 1)
      BY <3>1, PassesInOrder DEF TInv, TypeOK
    <3>3. QED
      BY <3>2, SweepAssumption
  <2>5. Len(results') > Len(results)
    <3>1. /\ Cardinality(Before(cur)) * Browsers \in Nat
          /\ (Cardinality(Before(cur)) + 1) * Browsers
               = Cardinality(Before(cur)) * Browsers + Browsers
      BY <2>4, Multiples
    <3>2. QED
      BY <2>3, <2>4, <3>1
  <2>6. QED
    BY <2>1, <2>2, <2>3, <2>5, GiveStep DEF Contract!Next
<1>6. CASE Measure
  <2>1. UNCHANGED <<cfg, runs>> /\ pc # "idle" /\ pc' # "idle"
    BY <1>6 DEF Measure, history
  <2>2. RunAnswer = "running" /\ RunAnswer' = "running"
    BY <1>0, <2>1 DEF RunAnswer
  <2>3. /\ RowsAreFirst'
        /\ Len(results) = Cardinality(Before(cur)) * Browsers + (browser - 1)
        /\ Len(results') = Cardinality(Before(cur)) * Browsers + browser
    BY <1>6, MeasuredRow
  <2>4. Len(results') > Len(results)
    <3>1. cur \in Passes
      BY <1>6 DEF MInv, RowsSoFar, Taken, Measure
    <3>2. Cardinality(Before(cur)) \in 0..(Cardinality(Passes) - 1)
      BY <3>1, PassesInOrder DEF TInv, TypeOK
    <3>3. Cardinality(Before(cur)) \in Nat /\ Browsers \in Nat /\ browser \in 1..Browsers
      BY <3>2, SweepAssumption DEF TInv, TypeOK
    <3>4. Cardinality(Before(cur)) * Browsers \in Nat
      BY <3>3, Multiples
    <3>5. QED
      BY <2>3, <3>3, <3>4
  <2>5. QED
    BY <2>1, <2>2, <2>3, <2>4, GiveStep DEF Contract!Next
<1>7. QED
  BY <1>1, <1>2, <1>3, <1>4, <1>5, <1>6, StepKinds

\* Whatever fails on the way, rows come in the order of the matrix and stay, a report has
\* all of them, and a run that cannot get there says so: the safety part of what the
\* service takes Run for (sweep.go:49-93, 117-134).
THEOREM RunKeepsContract == SafetySpec => Contract!SafetySpec
<1>1. Init => Contract!Init
  BY InitTInv, ContractInit
<1>2. TInv /\ TInv' /\ MInv /\ [Next]_vars => [Contract!Next]_(Contract!contractVars)
  BY ContractStep
<1>3. IInv => TInv
  BY DEF IInv
<1>4. QED
  BY <1>1, <1>2, <1>3, Invariance, MatrixInvariance, PTL DEF SafetySpec, Contract!SafetySpec
================================================================================
