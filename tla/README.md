# Gubal in TLA+

Gubal smoke-tests [Anubis](https://github.com/TecharoHQ/anubis) with archived browser
versions in a Kubernetes cluster. `gubald` accepts requests over Twirp, runs one *sweep* at
a time (every browser version under every Anubis policy) against one shared Anubis
Deployment, and reports on the pull request the request came from. The browsers come from
an archive that shell scripts fill and from images built from it.

This directory holds TLA+ models of that code, TLC configurations that check them on small
instances, and TLAPS proofs about them. Paths below are relative to the repository.

## Inventory

| Part | Code | State it keeps | Operations | Talks to |
|---|---|---|---|---|
| smoke-test service | `cmd/gubald/svc/smoketest` | `sweepSem` (a channel with one place), a goroutine per accepted submit, a temporary frames directory per sweep, comments on a pull request | `SmokeTest`, `SubmitSmokeTest`, `runSweep`, `executeSweep`, `Comment` | `chromesweep.Run`, GitHub, the bucket |
| a run over the live Anubis | `chromesweep/sweep.go`, `cluster.go`, `policies.go` | pod template of the Anubis Deployment, ConfigMaps `anubis-policy-*`, frame collector pod, snapshot, results | `Run`, `prepareAnubis`, `EnsureCollector`, `applyPolicy`, `RestorePodTemplate` | API server, deployment controller, kubelet |
| browser/version pool | `sweepBrowsers` in `sweep.go` | `sem`, `wg`, `brResults` | the loop, one goroutine per version | `sweepOne` |
| one version's resources | `sweepOne` in `sweep.go`, `cluster.go` | Deployment, Service, NetworkPolicy and Job `<browser>-<tag>`, their pods | `CreateOrReplace*`, `ReplaceJob`, `WaitDeploymentReady`, `WaitJob`, `podLogsBySelector`, `DeleteVersionResources` | API server, garbage collector, Job controller |
| version archive | `scripts/archive-*-versions.sh` | objects in a bucket, `manifest.json` | fetch, discover, validate, upload, push | vendors' mirrors, the bucket |
| image builds | `scripts/build-*-images.sh`, `docker/Dockerfile.*` | a copy of the manifest; images and tags in a registry | one image per manifest entry, two pushes | the bucket, docker, the registry |
| report and bundle | `chromesweep/report.go`, `bundle.go` | none | tallies, Markdown, archive of frames and logs | |
| logs and comment bodies | `chromesweep/parse.go`, `svc/smoketest/comments.go` | none | the frame's path from chrome-bully's log; capping to GitHub's limit | |
| manifests and configuration | `chromesweep/retarget.go`, `config.go` | none | renaming objects per version | |
| chrome-bully | `cmd/chrome-bully` | a connection, a tab per capture, console lines, frames | drive one browser past the challenge, once or on an interval | DevTools |
| entrypoints | `docker/*.sh` | relay and browser processes | check, start, become the relay | the kubelet's probe |
| command lines | `cmd/gubalctl`, `cmd/chrome-sweep` | none | flags, policy directories, one request or one run, exit code | the service, `Run` |
| gubald process | `cmd/gubald/main.go` | two listeners and a waiter in an errgroup | start-up, serve | the kubelet's health check |

### How the parts meet

* Both handlers try `sweepSem` without waiting. A synchronous request holds it until it
  returns; for a submit the *goroutine* holds it and outlives the handler.
* The holder calls `Run`, which is alone with the shared Anubis because of the semaphore.
  `Run` prepares Anubis, applies a policy, and calls `sweepBrowsers`; that calls `sweepOne`
  for the versions of a browser, `Parallelism` at a time; then the next policy.
* `sweepOne` uses names that depend on browser and version only. Every later pass over the
  same version, in the same run or in one after a restart, meets whatever is left of them.
* The smoke Job of a version runs `chrome-bully` against that version's browser container.
  The only thing that goes back is its log: `sweepOne` looks in it for the line that names
  the frame, and takes the browser's version out of that name.
* `gubalctl` is one call of either method; `chrome-sweep` calls `Run` itself, outside
  `gubald` and its semaphore.
* The build scripts read the manifest the archive scripts write, once, and docker reads the
  objects behind it later.
* Nothing is persisted by `gubald`. What survives it is the cluster and the pull request.

### What is hard, and what makes each part correct

* **Service.** Who gives the token back, on which path; the caller's context, the job
  deadline and a fresh context govern different comments; the directory has to live through
  the upload and no longer. Correct: one sweep at a time, a token exactly while there is one,
  a closing comment for everything accepted.
* **Run.** Rollouts are asynchronous and may never finish; statuses lag behind the object;
  ConfigMaps keep their names while pods read them only when they start; Get-then-Update races
  with the controller; the process may die with Anubis re-wired. Correct: every verdict is
  about the ruleset and image asked for, the report is complete, Anubis is put back.
* **Pool.** A token or a WaitGroup count not returned stops the service's only slot for good;
  results are written concurrently. Correct: bounded, complete, ordered, ends.
* **Version.** Same names pass after pass while deletion is asynchronous; the Job retries.
  Correct: the verdict and logs are those of this pass, against this pass's browser, and
  nothing stays.
* **Archive.** Runs are interrupted, mirrors serve stubs, the manifest is read once and
  rewritten whole. Correct: an entry always has its object, and no entry is lost.
* **Images.** The order of the manifest is that of text; every entry pushes its major's tag;
  docker downloads long after the manifest was read. Correct: an image is what its tags say,
  success means everything is there, a good archive builds.
* **chrome-bully and its browser.** Events come between any two steps, contexts end at any of
  them, the browser hangs or dies behind a relay that lives on. Correct: the log says what
  happened, the screenshot is of what was waited for, every run that should end does.
* **From the command line to the outcome.** Lists, policies, rows, tallies, sections, bundle
  entries and comments are all views of one matrix; sizes and integers have limits.
  Correct: what is swept is what was typed, all views agree, exit codes and comments tell
  the outcome, and versions side by side do not meet.
* **Process.** A listener that fails leaves the process half alive. Correct: the service comes
  back.

`PROJECT.json` lists these hazards at their lines with the properties aimed at them.

## Modules

| Module | Models | Built on |
|---|---|---|
| `SweepSlot` | abstract: one slot; admit, refuse (only while taken), finish, restart | |
| `SmokeService` | the two handlers, the goroutine, the semaphore, comments, crashes | implements `SweepSlot` |
| `AnubisSweep` | `Run` as the shared Anubis sees it, run after run, with the deployment controller | |
| `SweepPool` | `sweepBrowsers` | |
| `VersionStack` | `sweepOne`, pass after pass, with garbage collector and Job controller | |
| `VersionArchive` | both archive scripts (`script` says which) | |
| `ImageBuild` | the build script of the same browser, next to the archive | extends `VersionArchive` |
| `SweepContract` | abstract: a matrix is asked for; rows come in order; a report has all of them, or an error | implemented by `AnubisSweep` and by `SweepPool` |
| `LogScan` | what `sweepOne` reads out of chrome-bully's log | |
| `BrowserPod` | the container of a browser: entrypoint, relay, DevTools server, probe | |
| `ChromeBully` | one run of chrome-bully against that container | extends `BrowserPod`, `LogScan` |
| `GubaldProcess` | the errgroup, its listeners, the health check | |
| `VersionNames` | presets and retargeted manifests, by what refers to what | |
| `SweepReport` | report, RPC result, names, bundle, comment bodies, as operators on rows | |
| `SmokeRequest` | one `gubalctl` call or one `chrome-sweep`, from the command line to exit code and comments | extends `GubaldProcess`, `VersionNames`, `SweepReport` |
| `MC*` | instances for TLC | |
| `SmokeServiceProofs`, `AnubisSweepProofs`, `SweepPoolProofs`, `VersionStackProofs`, `VersionArchiveProofs`, `ChromeBullyProofs`, `SmokeRequestProofs` | theorems | the module of that name |
| `ImageBuildProofs` | theorems | `ImageBuild`, `VersionArchiveProofs` |

Where components interact on shared state they are composed: a build with the archive runs
that change what it reads, chrome-bully with the container it drives and with the reader of
its log, a request with the process that serves it. The sweep itself is layered: `Run` is one
step with two outcomes in `SmokeService` and `SmokeRequest`, a browser is one step in
`AnubisSweep` (`Measure`), `sweepOne` is one step in `SweepPool` (`Sweep`) and is spelled out
in `VersionStack`. What a layer assumes of the one below is what is checked of that one: a
run and a pool keep `SweepContract` (`RunContract`, `PoolContract`), a pass ends
(`SweepOneEnds`), there is one run at a time (`OneSweepAtATime`).

### State and actions against the code

`SmokeService`. `sem` is `len(sweepSem)`. `call[r]` is the handler of request `r`, `job[r]`
the code between the send on the channel and the deferred receive (in the goroutine for a
submit). `Enter` is validation and the allowlist; `SmokeTestAcquire`/`SmokeTestBusy` and
`SubmitAcquire`/`SubmitBusy` are the two `select` statements; `PostAck`, `Prepare`,
`RunFails`/`RunReports`, `Upload`, `PostResult`, `Cleanup`, `Release` are the rest of the
sweep in its order. `cut` and `late` say whose request context, and whose `bg`, has
ended: by a hang-up or a deadline, or because the code returned and cancelled it.

`AnubisSweep`. `tmpl`, `seen` and `complete` are what the API server keeps of the
Deployment: pod template, `generation = observedGeneration`, and whether the replica counts
say rolled out. Both of the latter are needed because `WaitDeploymentReady` compares both,
and a status of an older generation looks complete. `touched` is whether the
`resourceVersion` read last is out of date. `pod` is the pod that serves; `RolloutCompletes`
lets it read its ruleset as it starts. A policy is a number, because policies are applied in
name order; 0 is the pass without any. `pc` walks through `prepareAnubis`, `EnsureCollector`,
the policy loop with the three calls of `applyPolicy`, and the deferred calls in their order.
`inherited` and `clean` are history variables that the properties need.

`SweepPool`. `parallelism` is the request's, chosen at the start and never changed;
`pc`/`b`/`next` are the loop, `worker[t]` the goroutine of version `t`: the
deferred receive on `sem` and the deferred `wg.Done()` are two steps.

`VersionStack`. For each kind of object: absent, present, or terminating (foreground deletion
keeps the name until the pods have gone), and the pass that made it. Pods are
`<<pass, attempt>>`. `DeleteOld`, `WaitGone`, `Create` are `CreateOrReplace*`/`ReplaceJob`
for each `kind` in turn. `flaky` says whether calls may fail at all in this behaviour, so
that one run asks both kinds of question: what holds whatever fails, and what is left behind
when nothing does.

`VersionArchive`. `script` says which of the two scripts is run, from the start; `misread`
remembers that some run took an existing manifest for a missing one. `bucket` and `manifest`
survive a run; `existing` is the downloaded
manifest, `new` the entries of this run. `Abort` is `set -e` or an interruption, anywhere.

`ImageBuild`. `snapshot` is the copy of the manifest in the order of its text keys, where
`TextRank` places a number among others as text and `InOrder` places an entry by how many
sort before it; `results` has one entry for each one gone
through, so `Current` is the next. `Downloads` and `Installs` are what a Dockerfile checks:
the sum of the build argument, and that apt or tar can use what it got. `DepsOf` is the
package that stands for an Ubuntu release (Chrome only). `PushFull` and `PushMajor` are two
steps because either may fail.

`BrowserPod`. `main` is the process tini waits for: the script, and by `exec` socat or the
server itself. `devtools` is the server. The kubelet's probe sees only whether DevTools
answers through the port.

`ChromeBully`. `pc` is `run` and `capture`; each `chromedp.Run` works, fails or is cut off
(`RunWorks`, `RunFails`). There are three contexts: the browser's, derived from the signal's,
the capture's, derived from the browser's with a deadline, and chromedp's own end of either
when the connection is lost (`PodMoves`). `log` is stderr, a line being what `LogScan` sees
of it. `ConsoleEvent` is chromedp's goroutine.

`SmokeRequest`. `client` and `exit` are the tool, `worker` is the handler with its goroutine
(or `chrome-sweep`'s `run`), `targets`, `policies`, `rows`, `frames`, `zip`, `bucket` are the
data as it goes along. `Busy` is a slot somebody else has. `ProcMoves` is `GubaldProcess`
under it: when the process goes, so do `worker` and the connection.

`SweepReport` and `VersionNames` are operators on data, used by `SmokeRequest` on whatever
reaches them. A rune is its size in bytes, an object its labels, selectors and names.

Definitions that stand right before the one they resemble and are used nowhere
(`ReadyByCounts` before `Ready`, `ReleaseUnlessFailed` before `Release`, ...) are broken
variants, each a bug one could plausibly write there. `PROJECT.json` pairs each with a
property that TLC finds violated when the variant takes the place of the original: this is how
the properties are known to say something about the code.

## Runs

Each line of `runs` in `PROJECT.json` is `tlc -config <cfg> <module>`.

| Run | Shows | Bounds |
|---|---|---|
| `smoke_service` | one sweep at a time, token = holder, frames directory exactly while used, comments in order | 3 requests (a holder, one refused, one admitted later), one crash; requests are symmetric |
| `smoke_service_live` | every accepted submit gets its closing comment; refinement of `SweepSlot` with its fairness | 2 requests, one crash |
| `anubis_sweep` | measured under its own policy and image whatever the first run left behind, report complete and ordered, Deployment restored | 2 runs, a crash, 2 policies, a ruleset Anubis accepts and one it rejects, a live image other than the manifest's, 2 browsers, failing calls |
| `anubis_live` | every run ends, keeps `SweepContract` with its liveness, Anubis comes back | 2 runs, a crash, 1 policy, 2 browsers, a rejected ruleset, calls that work |
| `sweep_pool` | bound, complete ordered report, termination, refinement of `SweepContract` | 3 versions / none / 2; a parallelism of 0 (one token) and of 2 |
| `version_stack` | verdict and logs of this pass, own stack with one browser behind the Service, teardown tries all, every pass ends and leaves nothing where calls work | 2 passes, one crash, one Job retry, an API server that may fail and one that does not |
| `images` | entries have whole objects behind them; of the Chrome script no stub is recorded; only a misread manifest drops entries; images are what manifest and tags say; success means pushed; a major's tag is its newest; a good archive builds | either script, 2 majors of 2 patches, 2 archive runs that may be cut off, an unreadable manifest, one build with any options at any time, failing builds and pushes |
| `chrome_bully` | the log tells the outcome; the screenshot follows the text; no message is missed; an interval run outlives failures; single runs and runs asked to stop end; the browser comes back | once or interval (2 captures), with or without text, quiet or not, with the relay or without, a product with a dash in its name, one console event that is short or has to be cut, one fault, one signal |
| `smoke_request` | the rows are what was typed, in that order; tallies agree; the bundle is whole; exit codes and comments tell the outcome; selectors find their own pods; the service comes back; the call ends | see below |

Every module with variables of its own states a `TypeOK`, and each is proved (those of
`AnubisSweep` and `SweepPool` are checked by runs, too).

The remaining three are in "Where the code and its documentation disagree".

Bounds of `smoke_request`: some hundred command lines around two that go through (two
versions of one browser, one of the other, up to two policies), which vary lists (blank,
junk, twice, too low, too wide), directories (no ruleset, an empty, an unreadable, a badly
named, an overlong one) and targets (none, allowed, another, malformed; pull request 0, one
that wraps below zero, one that wraps to another; a sha that leaves no room); one break of
the process; one row that is not a plain pass. An int32 has 8 bits (`Half` is 128) and a comment
14 bytes, so
that wrapping and capping happen on small data: the smallest report is longer than what
remains beside header, link and note for some requests and not for others.

Why these bounds are enough: the interesting cases need one actor that holds, one that is
turned away and one that comes later (3 requests); a policy before and a policy after, one of
which fails (2 policies); a state left behind by a crash, by a failed call or by a normal end,
and a run that meets it (2 runs, 2 passes); fewer tokens than goroutines, and a browser
without versions between two that have some; an archive run that is
interrupted and one that meets what it left, next to a build that reads before, between or
after them; two patch levels, since one is built over the tag of the other; a second capture,
which finds what the first left of contexts and connection; one fault, because everything
after a fault is to be as it was before it. The theorems below take most of these bounds away.

`CHECK_DEADLOCK FALSE` stands in the configurations of models that come to rest: when the
last run, pass or loop is over, nothing needs to happen. That they do not stop *earlier* is
what `RunContract`, `PoolContract`, `SweepOneEnds`, `RunsEnd` and `CallEnds` say.

### Where the code and its documentation disagree

Three runs are expected to find a violation; each states a sentence of the repository.

* `anubis_restored`: "the original Anubis pod template is restored at the end"
  (`chromesweep/sweep.go:54`). `RestorePodTemplate` is one Get and one Update without a
  retry; a status write of the controller in between is a conflict, which is only logged.
  The trace: a run sets the override image, the wait for its rollout times out, the
  restore that follows meets the controller's next status write, and Anubis stays on the
  override image. No policy takes part in it. `LeftAsFound` is what does hold: unless a
  restore failed or the process died.
* `anubis_new_ruleset`: `applyPolicy` "waits for the resulting rollout so subsequent browser
  requests hit the new ruleset" (`sweep.go:95`). If Anubis is found wired to a policy of that
  name already, the template does not change and there is no rollout. `MeasuredUnderItsPolicy`
  is what does hold, and is proved.
* `archive_dropped`: the archive script adds versions "without dropping previously-archived
  versions" (`archive-chrome-versions.sh:9`). Any failure to fetch the manifest is taken for a
  first run, and the push replaces it.

Further places where a comment and the code differ, seen while modelling and too small for a
run of their own:

* `report.go:43` calls `Report.AnubisImage` the image "they were tested against". Without an
  override it is the image of a manifest on disk (`sweep.go:205`), compared with nothing.
* `archive-firefox-versions.sh:5` says it verifies what it downloads; only the Chrome script
  does. A truncated tarball is recorded with its own sum. `Installs` keeps it out of an image
  (tar cannot unpack it), so `ImagesAreAsRecorded` holds for both scripts.
* `build-chrome-images.sh:112` says the per-version install "never downgrades" because targets
  are not lower than the package that stands for the release. That package is the *first* of
  the lowest major in text order: with patch levels 9 and 10 it is 10, and 9 fails to build.
  `AGoodArchiveBuilds` names the exception; with such patch levels the run passes as well.
* `entrypoint.sh:110` wants Chrome's death to take the bridge down. The trap would kill Chrome
  and not the bridge, and `exec` discards it. The liveness probe does the work
  (`BrowserComesBack`).
* `build-chrome-images.sh:132` skips a file name without a version; `set -e` and `pipefail`
  end the script one line earlier. The archive scripts never record such a name.
* `lastLines` (`report.go`) is said to trim one trailing newline and trims all of them.

### Fairness

* `SmokeService`: weak fairness of each request's handler and sweep. Go schedules runnable
  goroutines, and what they wait for has a limit: the polls of the cluster `ReadyTimeout` and
  `JobTimeout`, an asynchronous sweep the deadline of its job, the upload and the comment
  timeouts of their own. The restore of Anubis, the removal of the collector and the
  teardown of a version run on a background context (`sweep.go:196-204`, `68`, `233`): their
  single calls have no deadline but the client's, and that each returns is assumed, here and
  in `AnubisSweep` and `VersionStack`. None for callers, deadlines or GitHub;
  `AcceptedIsClosed` assumes GitHub answers.
* `AnubisSweep`: `Run` takes its steps (each poll has a timeout, which is a step), and the
  deployment controller observes what is written and completes rollouts that can complete. A
  rollout of a rejected ruleset cannot. None for the kubelet.
* `SweepPool`: the loop and each goroutine; that `sweepOne` returns is `SweepOneEnds`.
* `VersionStack`: the steps of `sweepOne` and the garbage collector; none for browsers or
  Jobs, which may hang for ever.
* `VersionArchive` and `ImageBuild` have no liveness properties: a script may be interrupted at
  any time.
* `ChromeBully`: chrome-bully's steps, the timer of a capture, and the pod's own steps: the
  entrypoint, the server's start and the kubelet's probe and restart. None for pages, console
  events, signals, faults or the next tick. `RunsEnd` needs the kubelet: while it connects
  chrome-bully has no deadline and waits for a silent browser to be restarted.
* `SmokeRequest`: tools and handlers run, and the kubelet starts and probes the process
  (`manifest/app.yaml`); listeners come up. None for what breaks. The fairness of the closing
  comment is stated by what the step does to `worker`, which says the same.

### What the models assume

* A call to the API server that reports an error took effect before the next call or never.
* One replica of `gubald` and one runner of the archive scripts, as the repository's
  manifests and the scripts' headers have it.
* Nobody but the sweep and the cluster's own controllers writes the Anubis Deployment.
* Anubis reads its ruleset when a pod starts, and not again.
* `gubald` can always write to its disk once `MkdirTemp` succeeded.
* A server that starts is up within the probe's initial delay.
* When chromedp loses its connection it may or may not cancel the browser's context, and it
  does not connect again.
* Tags of browser versions hold no dash; policy names may.
* docker reads each object at one moment. The registry keeps what was pushed.
* In `SmokeRequest`, `Run` returns a row for every version and policy, in order and with any
  status, or fails: that is `SweepContract`, with `SweepPool`'s rows in `AnubisSweep`'s passes.
  A GitHub that is away is in `SmokeService`; here it refuses what is too long.
* URLs of console events, and the texts of exceptions, which `console.go` does not cut either,
  fit a log line (`UrlSizes`); nothing in the code sees to that. It is a hypothesis
  (`LinesFit`) of the one theorem that needs it.
* Left out: wording and layout of comments and reports (their sizes and what they name are
  kept), the time to live of finished Jobs.

## Proofs

All theorems hold for every value of the constants that the named assumption of the module
allows. They are about the specification without its fairness (`SafetySpec`, or `Spec` and
`BuildSpec` where there is none; `ChromeBullyProofs` does not use that of `Spec`).

**SmokeService** (`RequestsAssumption`: `NoOwner` is no request). A send on `sweepSem`
succeeds on the *count* of tokens alone, so `OneSweepAtATime` is not inductive: a lost or
doubled token would break it later. `IInv` adds `SlotMatchesHolder`, a token exactly while
some request is between its send and its deferred receive, and the same for the frames
directory. From it: `TypeCorrect`, `MutualExclusion`, `TokenIsNeverLost`, `FramesAreOwned`.
`CommentsInOrder` looks back at comments of sweeps that have long ended; `ThreadIInv` says how
far the request of each comment has come since (`CommentsBehind`, `OnwardStep`: no request
goes back) and that nothing but busy notes stands between an ack and the comments of its sweep
(`NothingBetween`), for which mutual exclusion is needed. `ImplementsSlot` is the safety
part of the refinement: each step of the service is one of the abstract slot or leaves it
alone. `OwnerLemma` ties the mapped owner to the unique holder; most steps are shown to
stutter by `SlotStutters`.

**AnubisSweep** (`SweepAssumption`: policies are positive naturals, rulesets and images are
distinct from the markers). `MeasuredUnderItsPolicy` is about a result, a consequence of a
chain several components long: the ruleset goes into a ConfigMap, the ConfigMap's name into
the template, a pod starting under the template reads the ConfigMap, and the counts say
rolled out. `RInv` has a conjunct for each link (`Written`, `TemplateIsFresh`, `PodIsFresh`,
`Wired`) and `Serves`: if the status is of this generation *and* complete then the serving
pod is the template's. A policy the run found already wired (`inherited`) is excepted, and
`SnapshotIsInherited` keeps the restore, which
writes an old template late in a run, from wiring any other policy. `SInv` follows
the image of the override and the snapshot. The proof of `NextTInv` needs that a non-empty
set of policies has a first one (`FirstOf`, by well-foundedness of the naturals). From these:
`TypeCorrect`, `RulesetIsTheRequested`, `ImageIsTheRequested`, `DeploymentIsRestored`, for any
number of policies, browsers, runs and crashes, with calls that fail anywhere.

The report is the second half. `MInv` ties the length of `results` to where the loop stands:
passes taken times browsers, and `browser - 1` more in the middle of a pass (`RowsSoFar`). That
row `i` belongs to the policy that long division makes of `i` (`RowOf`) rests on passes being
taken in order and on counting them (`PassesInOrder`). From it `ReportsAreComplete`, and
`RunKeepsContract`: every step of a run is one of `SweepContract` or none its caller sees.
`StepKinds` says once and for all what a step may do to rows, `pc` and `todo`; both proofs
use nothing else about the actions.

**SweepPool** (`PoolAssumption`: finitely many versions per browser). `TokensAreHeld` counts
tokens and WaitGroup by the goroutines that own them, `StartedInOrder` says which exist, and
`FilledIn` that one that came back wrote its element. So `wg = 0` after the last start means
a full `brResults`; `RowsJoin` shows that appending its rows keeps the report ordered,
complete and without a hole. From these: `TypeCorrect`, `AtMostParallelism`,
`ReportIsWhole`, for any matrix and any parallelism. `PoolKeepsContract` maps the pool to the
same `SweepContract`, where a row is a number: `Offset`, the rows of the browsers before, is
defined by recursion, and the induction that shows it equal to its definition is done by hand,
as the least number for which it would fail (`OffsetsAgree`, `OffsetsExist`).

**VersionStack** (`StackAssumption`). Same names, pass after pass: `MadeSoFar` says that what
this pass has made so far is there and its own, `OlderIsOlder` that nothing is from later
and no Job from this pass before it makes one, `PodsInOrder` that attempts have no gap, so that
counting pods gives the last one. `VerdictsAreOwn`, `JobsMeetTheirStack` and
`TeardownIsComplete` follow, the second with `OneBrowser` for how many browser pods a Service
can find, for any number of passes, retries and crashes and an API server that fails anywhere.

**VersionArchive** (`ArchiveAssumption`: majors and patch levels are numbers, any of them).
`EntriesAreStored` is not inductive, since an upload writes over what is under its key.
`CopyOrNothing` (what a run read is the manifest, or nothing, and that is remembered)
and `NewIsNew` (it never comes to a recorded key, nor to one twice) keep uploads away from
recorded objects; `ObjectsFirst` puts an object behind an entry before the entry is there. From
these `NoEntryWithoutObject` and the action property `NothingIsDropped`, for either script and
runs cut off anywhere. What a run that misread the manifest writes over is the exception
the property names for Firefox; of the Chrome script one whole object takes another's place.

**ImageBuild** (`BuildAssumption`: patch levels are below 100, which is as far as `TextRank`
sorts as text does). `ArchiveGoesOn` is a refinement: leaving the build out of a behaviour
leaves a behaviour of `VersionArchive`, so all that was proved of it holds here
(`ArchiveKeepsItsWord`). `InOrderSorts` shows that placing entries by counting those before
them sorts them and leaves none out, by cardinalities alone. The rest says what a build has come
to: the image being pushed is that of the entry it is at (`AtPush`), what was built was pushed
(`Accounted`), and a major's tag is with the last entry built (`LastHasTheTag`), which
is the newest only as far as text sorts like numbers. `TagsTellTheTruth`, `ExitZeroIsComplete`
and `GoodArchivesBuild` follow for manifests of any length and archive runs at any moment.

**ChromeBully** (`BullyAssumption`). The reader of the log goes by one line among many.
`LastWord` says that a run that goes on has written none that decides, and one that is over
exactly one, whatever console events lie around it; `Reasons` says why a context may be
cancelled, `Listened` and `Captured` what a page and a name are good for. From these
`TextBeforeShot`, `EveryMessageIsLogged`, `IntervalsGoOn` and `OutcomeIsTold`. The last has a
hypothesis: with `LinesFit` false, a console event with a very long address or exception text ends
the scan before it comes to the deciding line (`parse.go:55`, a limit of 1 MiB), and the
outcome is not told.

**SmokeRequest** (`RequestAssumption`: sizes and bounds are numbers, and a comment has room for
header, link and note. `InvocationsAssumption`: fields of a list are numbers, blanks or junk; a
directory has finitely many entries; the policies in it have names of their own, in the order
of `rank`, as files of one directory do). Two things are proved here, what the
operators compute and how far a request has come.

*The operators.* A sweep is built by joining sequences of sequences (`Matrix`), looked at again
through the maps of `report.go` (`FirstSeen`, `OfPolicy`, `OfBrowser`), joined again (`Shown`)
and added up (`Size`). Everything that counts through a set or picks places of a sequence is
built from `Ascending` and `At`, so their facts are proved once (`AscendingFacts`, by a count
of those below, and `AtFacts`). Joining and adding up are defined by recursion in the community
modules. That such a function exists and takes its steps (`JoinedExists`, `SummedExists`) is an
induction over its arguments with the claim spelled out as a set of numbers (`ByInduction`,
from well-foundedness); what a joined sequence holds then follows for its elements, their
number, their order and their being there once (`FlattenFacts`, `JoinedElements`,
`JoinedEqually`, `JoinedInOrder`, `JoinedOnce`). On these stand: `MatrixFacts` (every policy
and version has one row, in the order of policies, browsers and versions), `GroupedFacts` and
`Regrouped` (the groups by a column take every row apart and put it back once, so that what is
counted per group adds up to the whole), `SectionsFacts`, `EntriesFiled` with `FrameNames` (a
bundle has what was put in, no name twice: names of frames end in a browser and a tag without
dashes, so the dashes of a policy cannot make two of them meet) and `CapFacts` (a cut text with
its note is within the limit).

*The request.* `IInv` has seven parts. `RequestIsSent` and `SweepIsChosen` carry the command line
across the call: what is swept is computed from a request that was computed from it, and nothing
in between may change. `RowsAreTheMatrix` ties rows and pictures to the matrix of what was
chosen. `Stages` says how far tool and worker can be together, and where rows are there.
`ReplyIsOfRows`, `FilesInOrder` and `GoodExit` say what an answer, a file in `-out` and exit code
0 stand for. `ThreadFollows` (the comments by stage), `BundleFollows` with `Linked` (where the
bundle is, and that links point to it) and `ShortComments` are invariants on top of it, each with
a proof of its own. From these: `TypeCorrect`, `SweepsWhatWasTyped`, `ReportsAgree`,
`BundleIsWhole`, `ExitCodeTells`, `SubmitsAreAnswered`, `VersionsAreApart`, for every command line,
any number of policies and versions, rows of any status, every width of an int32 and every limit.
`SubmitsAreAnswered` needs of its limit what the property says: that the sha leaves room.

`SweepsWhatWasTyped` says that rows and what was asked for correspond one for one and in the
same order. What was asked for are places: a policy of the directory, a browser, a place of its
list that is not blank. Parsing keeps the places of what it keeps, and their order
(`TypedPlaces`); each number becomes the int32 it wraps to (`Int32Wraps`), and a list that is
accepted has no two that wrap to the same (`FromList`: a version stands for one place only).
`ChosenAsTyped` says so of both lists of either tool, with Chrome's before Firefox's, and
`AskedInOrder` turns the order of places into the order of rows that `MatrixFacts` gives
(`MatrixInOrder`, from `JoinedInOrder` and `EndsGrow`). It needs no hypothesis about the numbers.

`Stages` found a mistake in an earlier form of the model, which let the connection of a
`chrome-sweep` break, though it has none, and the tool exit a second time: an exit is now
possible from a call only if the tool is `gubalctl` (`Waiting`).

Out of the prover's reach and left to TLC: liveness under fairness and everything about
ENABLED, hence the fairness parts of `SlotSpec`, `RunContract` and `PoolContract`, and
`AcceptedIsClosed`, `AnubisComesBack`, `SweepOneEnds`, `RunsEnd`, `BrowserComesBack`,
`ServiceComesBack` and `CallEnds`.
Every invariant and every action property that a run checks is proved.

## Plan

1. Done: the core. Service, run, pool, version and archive, their runs and findings.
2. Done: image builds on top of the archive, chrome-bully with its browser container and the
   reader of its log, a request from the command line to its outcome with report, bundle,
   names and the process; the contract of a sweep and its two refinements.
3. Done: every invariant and action property that a run checks is proved, and the safety part
   of the refinements. `SmokeRequest`, which is mostly data built by recursion, came last.
4. Open: liveness stays with TLC. What could still be proved is that `Run` and `sweepBrowsers`
   together keep what `SmokeRequest` assumes of them (`RunReturns`): the numbers of the rows in
   `SweepContract` against the rows of `Matrix`.

### Not modelled, and why

Generated RPC code (encoding and routing; the validation rules of the proto file are
`SmokeRequest.Valid`), the Kubernetes and ingress manifests and CI (declarative; the facts
used from them are the single replica, `backoffLimit`, the two probes, and labels and
selectors), the Dockerfiles beyond what they download, check and install, the assembly of
browser flags in the entrypoints, logging and printing, Markdown layout (no property is about
it; what a cut in the middle of a `<pre>` does to the link after it is GitHub's to say),
signing of requests and links. Two sweeps at a time, by `chrome-sweep` next to `gubald`, are
not modelled because nothing in the code keeps them apart.
