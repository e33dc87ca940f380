------------------------------- MODULE SweepPool -------------------------------
(***************************************************************************)
(* sweepBrowsers: the browsers of a policy pass one after the other, and   *)
(* the versions of each in goroutines of their own, at most Parallelism at *)
(* a time. The channel sem holds a token for each goroutine let go, the    *)
(* WaitGroup counts those not done, and each goroutine fills the element   *)
(* of brResults that the loop gave it. sweepOne is a step that comes back  *)
(* with some status; VersionStack says what it does.                       *)
(***************************************************************************)
EXTENDS Integers, Sequences, FiniteSets

CONSTANTS
  Versions,     \* <<n1, n2, ...>>: how many versions each browser has
  Parallelisms, \* what a request may carry as its parallelism
  Unset         \* the Status of the zero Result

\* What sweepOne returns, in one word.
Statuses == {"pass", "fail", "not_ready", "error"}

ASSUME PoolAssumption ==
  /\ Versions \in Seq(Nat)
  /\ Parallelisms \subseteq Int
  /\ Unset \notin Statuses

VARIABLES
  parallelism, \* cfg.Parallelism
  pc,        \* where the loop stands
  b,         \* the browser it is at
  next,      \* the version it starts next
  sem,       \* tokens in the channel
  wg,        \* the WaitGroup's counter
  worker,    \* the goroutine of each version of browser b
  brResults, \* its results
  results    \* the results of the browsers done

vars == <<parallelism, pc, b, next, sem, wg, worker, brResults, results>>

Browsers == 1..Len(Versions)
Tags == IF b \in Browsers THEN 1..Versions[b] ELSE {}
\* Taken as it comes, a zero would make a channel nobody can send on.
CapacityAsGiven == parallelism
Capacity == IF parallelism < 1 THEN 1 ELSE parallelism

Row(br, tag, status) == [browser |-> br, tag |-> tag, status |-> status]

TypeOK ==
  /\ parallelism \in Parallelisms
  /\ pc \in {"load", "add", "acquire", "go", "wait", "done"}
  /\ b \in 1..(Len(Versions) + 1)
  /\ next \in Nat \ {0}
  /\ sem \in 0..Capacity
  /\ wg \in Nat
  /\ worker \in [Tags -> {"none", "running", "returned", "released", "gone"}]
  /\ brResults \in [Tags -> Statuses \cup {Unset}]
  /\ results \in Seq([browser : Browsers, tag : Nat \ {0}, status : Statuses \cup {Unset}])

Init ==
  /\ parallelism \in Parallelisms
  /\ pc = IF Versions = <<>> THEN "done" ELSE "load"
  /\ b = 1 /\ next = 1
  /\ sem = 0 /\ wg = 0
  /\ worker = [t \in Tags |-> "none"]
  /\ brResults = [t \in Tags |-> Unset]
  /\ results = <<>>

\* The next browser: a channel, a WaitGroup and results of its own.
NextBrowser ==
  /\ UNCHANGED parallelism
  /\ b' = b + 1 /\ next' = 1
  /\ pc' = IF b = Len(Versions) THEN "done" ELSE "load"
  /\ sem' = 0 /\ wg' = 0
  /\ worker' = [t \in Tags' |-> "none"]
  /\ brResults' = [t \in Tags' |-> Unset]

\* A browser whose manifests cannot be read is left out.
LoadFailsSilently ==
  /\ pc = "load"
  /\ UNCHANGED results
  /\ NextBrowser

\* loadBaseManifests fails: an error for every version of this browser.
LoadFails ==
  /\ pc = "load"
  /\ results' = results \o [t \in Tags |-> Row(b, t, "error")]
  /\ NextBrowser

Load ==
  /\ pc = "load"
  /\ pc' = "add"
  /\ UNCHANGED <<parallelism, b, next, sem, wg, worker, brResults, results>>

\* wg.Add(1), in the loop and not in the goroutine.
Add ==
  /\ pc = "add" /\ next \in Tags
  /\ wg' = wg + 1
  /\ pc' = "acquire"
  /\ UNCHANGED <<parallelism, b, next, sem, worker, brResults, results>>

\* A token taken by the goroutine itself lets the loop run ahead.
AcquireUnbounded ==
  /\ pc = "acquire"
  /\ sem' = sem
  /\ pc' = "go"
  /\ UNCHANGED <<parallelism, b, next, wg, worker, brResults, results>>

\* A channel that takes more tokens than it has room for.
AcquireOverfull ==
  /\ pc = "acquire"
  /\ sem' = sem + 1
  /\ pc' = "go"
  /\ UNCHANGED <<parallelism, b, next, wg, worker, brResults, results>>

\* sem <- struct{}{} blocks while the channel is full.
Acquire ==
  /\ pc = "acquire" /\ sem < Capacity
  /\ sem' = sem + 1
  /\ pc' = "go"
  /\ UNCHANGED <<parallelism, b, next, wg, worker, brResults, results>>

Go ==
  /\ pc = "go"
  /\ worker' = [worker EXCEPT ![next] = "running"]
  /\ next' = next + 1
  /\ pc' = "add"
  /\ UNCHANGED <<parallelism, b, sem, wg, brResults, results>>

AllStarted ==
  /\ pc = "add" /\ next \notin Tags
  /\ pc' = "wait"
  /\ UNCHANGED <<parallelism, b, next, sem, wg, worker, brResults, results>>

\* Without wg.Wait() the results are taken before they are there.
WaitForgotten ==
  /\ pc = "wait"
  /\ results' = results \o [t \in Tags |-> Row(b, t, brResults[t])]
  /\ NextBrowser

\* wg.Wait(), and the results of this browser join the others.
Wait ==
  /\ pc = "wait" /\ wg = 0
  /\ results' = results \o [t \in Tags |-> Row(b, t, brResults[t])]
  /\ NextBrowser

\* brResults[i] = sweepOne(...)
Sweep(t) ==
  /\ worker[t] = "running"
  /\ \E s \in Statuses : brResults' = [brResults EXCEPT ![t] = s]
  /\ worker' = [worker EXCEPT ![t] = "returned"]
  /\ UNCHANGED <<parallelism, pc, b, next, sem, wg, results>>

\* A version that fails comes back without giving its token back.
ReleaseUnlessFailed(t) ==
  /\ worker[t] = "returned"
  /\ sem' = IF brResults[t] = "error" THEN sem ELSE sem - 1
  /\ worker' = [worker EXCEPT ![t] = "released"]
  /\ UNCHANGED <<parallelism, pc, b, next, wg, brResults, results>>

\* The deferred <-sem runs first, being registered last ...
Release(t) ==
  /\ worker[t] = "returned"
  /\ sem' = sem - 1
  /\ worker' = [worker EXCEPT ![t] = "released"]
  /\ UNCHANGED <<parallelism, pc, b, next, wg, brResults, results>>

\* ... and wg.Done() last.
WorkerDone(t) ==
  /\ worker[t] = "released"
  /\ wg' = wg - 1
  /\ worker' = [worker EXCEPT ![t] = "gone"]
  /\ UNCHANGED <<parallelism, pc, b, next, sem, brResults, results>>

Loop == LoadFails \/ Load \/ Add \/ Acquire \/ Go \/ AllStarted \/ Wait
Goroutine(t) == Sweep(t) \/ Release(t) \/ WorkerDone(t)
Next == Loop \/ (\E t \in Tags : Goroutine(t))

SafetySpec == Init /\ [][Next]_vars

\* The scheduler runs every goroutine that can run; sweepOne returns.
Spec ==
  /\ SafetySpec
  /\ WF_vars(Loop)
  /\ \A br \in Browsers : \A t \in 1..Versions[br] : WF_vars(b = br /\ Goroutine(t))

------------------------------------------------------------------------------
(* Properties *)

Running == {t \in Tags : worker[t] = "running"}

\* At most Parallelism versions are in the cluster at a time, one when the
\* request carries zero or less; the tokens are exactly those of the goroutines
\* that hold one (sweep.go:140-143, 158-166).
PoolBounded ==
  /\ Cardinality(Running) <= Capacity
  /\ sem = Cardinality({t \in Tags : worker[t] \in {"running", "returned"}})
             + (IF pc = "go" THEN 1 ELSE 0)

\* Every version of every browser gone through has its result, a status that
\* sweepOne or a failed load gave it and never the zero Result, in the order of
\* browsers and versions whatever order the goroutines came back in
\* (sweep.go:146-169).
Before(r, s) == r.browser < s.browser \/ (r.browser = s.browser /\ r.tag < s.tag)
Ordered == \A i, j \in DOMAIN results : i < j => Before(results[i], results[j])
NoHole == \A i \in DOMAIN results : results[i].status # Unset
Complete ==
  \A br \in Browsers : \A t \in 1..Versions[br] :
    br < b => \E i \in DOMAIN results : results[i].browser = br /\ results[i].tag = t
ReportHasNoHole == Ordered /\ NoHole /\ Complete

\* The pool keeps the contract of a sweep, one key for each browser and version: the
\* rows of a browser come together, behind those of the one before, and the last
\* with the end of the loop, which never blocks on the channel or the WaitGroup for
\* good (sweep.go:136-172).
Offset[br \in Nat] == IF br <= 1 THEN 0 ELSE Offset[br - 1] + Versions[br - 1]
RowsWanted ==
  [i \in 1..Offset[Len(Versions) + 1] |->
    LET br == CHOOSE x \in Browsers : Offset[x] < i /\ i <= Offset[x + 1]
    IN  <<br, i - Offset[br]>>]
Contract == INSTANCE SweepContract WITH
  Keys <- Browsers \X Nat,
  wanted <- RowsWanted,
  given <- [i \in DOMAIN results |-> <<results[i].browser, results[i].tag>>],
  answer <- IF Versions = <<>> THEN "none" ELSE IF pc = "done" THEN "report" ELSE "running"
PoolContract == Contract!Spec
==============================================================================
