---------------------------- MODULE SmokeService ----------------------------
(***************************************************************************)
(* gubald's SmokeTestService (cmd/gubald/svc/smoketest): the synchronous   *)
(* SmokeTest handler, the asynchronous SubmitSmokeTest handler with the    *)
(* goroutine it leaves behind, the process-wide semaphore sweepSem that    *)
(* both try to acquire, the temporary frames directory of a sweep and the  *)
(* comments on the pull request the requests come from.                    *)
(*                                                                         *)
(* chromesweep.Run is one step here, that reports or fails; what it does   *)
(* to the cluster is in AnubisSweep, SweepPool and VersionStack.           *)
(***************************************************************************)
EXTENDS Naturals, Sequences, FiniteSets

CONSTANTS Requests,     \* the smoke-test calls gubald may receive
          NoOwner,      \* not a request
          MaxCrashes    \* bound: how often the process may die

ASSUME RequestsAssumption == NoOwner \notin Requests /\ MaxCrashes \in Nat

VARIABLES
  sem,        \* len(sweepSem): tokens in the channel
  call,       \* call[r]: where the RPC handler of r stands
  job,        \* job[r]: where the sweep of r stands (for a submit: the goroutine)
  frames,     \* the requests whose temporary frames directory exists
  thread,     \* the comments on the pull request, oldest first
  cut,        \* requests whose request context has ended
  late,       \* submits whose bg context has ended, by its deadline or its cancel
  githubUp,   \* does GitHub answer at the moment?
  crashes     \* how often the process has died (bounded by MaxCrashes)

vars == <<sem, call, job, frames, thread, cut, late, githubUp, crashes>>

\* Mutant: a channel with room for two tokens.
SweepSlotsTwo == 2

SweepSlots == 1          \* make(chan struct{}, 1)

\* "sync" and "async" have passed validation and stand before the select.
CallStates == {"idle", "sync", "async", "noting", "sweeping", "accepting",
               "accepted", "returned", "exhausted", "declined", "lost"}

JobStates == {"none", "ack", "prepare", "running", "upload", "closeReport",
              "closeError", "cleanup", "release", "done", "lost"}

\* Between the send on sweepSem and the deferred receive.
HoldingStates == JobStates \ {"none", "done", "lost"}
Holds(r) == job[r] \in HoldingStates

IsSync(r) == call[r] = "sweeping"

Posts == [req : Requests, kind : {"ack", "busy", "report", "error"}]

Post(r, k) == [req |-> r, kind |-> k]

TypeOK ==
  /\ sem \in Nat
  /\ call \in [Requests -> CallStates]
  /\ job \in [Requests -> JobStates]
  /\ frames \in SUBSET Requests
  /\ thread \in Seq(Posts)
  /\ cut \in SUBSET Requests
  /\ late \in SUBSET Requests
  /\ githubUp \in BOOLEAN
  /\ crashes \in Nat

Init ==
  /\ sem = 0
  /\ call = [r \in Requests |-> "idle"]
  /\ job = [r \in Requests |-> "none"]
  /\ frames = {}
  /\ thread = <<>>
  /\ cut = {}
  /\ late = {}
  /\ githubUp = TRUE
  /\ crashes = 0

------------------------------------------------------------------------------
(* Helpers *)

CallMoves(r, from, to) == call[r] = from /\ call' = [call EXCEPT ![r] = to]

JobMoves(r, from, to) == job[r] = from /\ job' = [job EXCEPT ![r] = to]

\* gh.Comment under a context: the comment appears when the context is alive
\* and GitHub takes it; every error is only logged.
Comment(r, kind, alive) ==
  thread' = IF alive /\ githubUp THEN Append(thread, Post(r, kind)) ELSE thread

\* The two outcomes of the select: the send succeeds, or default is taken.
Acquire == sem < SweepSlots /\ sem' = sem + 1

Busy == sem >= SweepSlots /\ UNCHANGED sem

------------------------------------------------------------------------------
(* The RPC handlers *)

\* Validation, and for a submit the allowlist, before anything is touched.
Enter(r) ==
  /\ \E to \in {"sync", "async", "declined"} : CallMoves(r, "idle", to)
  /\ UNCHANGED <<sem, job, frames, thread, cut, late, githubUp, crashes>>

SmokeTestAcquire(r) ==
  /\ CallMoves(r, "sync", "sweeping")
  /\ Acquire
  /\ JobMoves(r, "none", "prepare")
  /\ UNCHANGED <<frames, thread, cut, late, githubUp, crashes>>

\* Mutant: the deferred receive is registered before the select.
SmokeTestBusyReleases(r) ==
  /\ CallMoves(r, "sync", "exhausted")
  /\ sem >= SweepSlots /\ sem' = sem - 1
  /\ UNCHANGED <<job, frames, thread, cut, late, githubUp, crashes>>

SmokeTestBusy(r) ==
  /\ CallMoves(r, "sync", "exhausted")
  /\ Busy
  /\ UNCHANGED <<job, frames, thread, cut, late, githubUp, crashes>>

\* The goroutine starts here; the handler has yet to return its response.
SubmitAcquire(r) ==
  /\ CallMoves(r, "async", "accepting")
  /\ Acquire
  /\ JobMoves(r, "none", "ack")
  /\ UNCHANGED <<frames, thread, cut, late, githubUp, crashes>>

\* Mutant: the busy path drains the channel it failed to send on.
SubmitBusyDrains(r) ==
  /\ CallMoves(r, "async", "noting")
  /\ sem >= SweepSlots /\ sem' = 0
  /\ UNCHANGED <<job, frames, thread, cut, late, githubUp, crashes>>

SubmitBusy(r) ==
  /\ CallMoves(r, "async", "noting")
  /\ Busy
  /\ UNCHANGED <<job, frames, thread, cut, late, githubUp, crashes>>

\* The busy note goes out under the request's own context, which ends as the
\* handler returns.
PostBusy(r) ==
  /\ CallMoves(r, "noting", "exhausted")
  /\ Comment(r, "busy", r \notin cut)
  /\ cut' = cut \cup {r}
  /\ UNCHANGED <<sem, job, frames, late, githubUp, crashes>>

\* Mutant: the release is deferred in the handler and not in the goroutine.
SubmitRespondReleases(r) ==
  /\ CallMoves(r, "accepting", "accepted")
  /\ cut' = cut \cup {r}
  /\ sem' = 0
  /\ UNCHANGED <<job, frames, thread, late, githubUp, crashes>>

\* The handler returns Accepted; net/http then ends the request context.
SubmitRespond(r) ==
  /\ CallMoves(r, "accepting", "accepted")
  /\ cut' = cut \cup {r}
  /\ UNCHANGED <<sem, job, frames, thread, late, githubUp, crashes>>

------------------------------------------------------------------------------
(* The sweep: executeSweep, and what its two callers do around it *)

\* The ack goes out under bg, whose only limit is the job deadline.
PostAck(r) ==
  /\ JobMoves(r, "ack", "prepare")
  /\ Comment(r, "ack", r \notin late)
  /\ UNCHANGED <<sem, call, frames, cut, late, githubUp, crashes>>

\* Mutant: the goroutine returns on an error without a comment.
AfterErrorSilent(r) == "release"

\* Where an error of executeSweep leads: out of runSweep, or to bodyRunError.
AfterError(r) == IF IsSync(r) THEN "release" ELSE "closeError"

\* browsersFor, loadClientset, os.MkdirTemp: each may fail.
Prepare(r) ==
  /\ \/ JobMoves(r, "prepare", "running") /\ frames' = frames \cup {r}
     \/ JobMoves(r, "prepare", AfterError(r)) /\ UNCHANGED frames
  /\ UNCHANGED <<sem, call, thread, cut, late, githubUp, crashes>>

\* Mutant: the directory of a failed run is left behind.
RunFailsLeavesFrames(r) ==
  /\ JobMoves(r, "running", AfterError(r))
  /\ UNCHANGED <<sem, call, frames, thread, cut, late, githubUp, crashes>>

\* chromesweep.Run gives up: executeSweep removes the directory itself.
RunFails(r) ==
  /\ JobMoves(r, "running", AfterError(r))
  /\ frames' = frames \ {r}
  /\ UNCHANGED <<sem, call, thread, cut, late, githubUp, crashes>>

\* chromesweep.Run returns a report; the caller now owns the directory.
RunReports(r) ==
  /\ JobMoves(r, "running", IF IsSync(r) THEN "cleanup" ELSE "upload")
  /\ UNCHANGED <<sem, call, frames, thread, cut, late, githubUp, crashes>>

\* uploadBundle zips the frames and uploads under a context of its own.
Upload(r) ==
  /\ JobMoves(r, "upload", "closeReport")
  /\ UNCHANGED <<sem, call, frames, thread, cut, late, githubUp, crashes>>

\* Mutant: the result goes out under bg, which the job deadline ends.
PostResultUnderDeadline(r) ==
  /\ \/ JobMoves(r, "closeReport", "cleanup") /\ Comment(r, "report", r \notin late)
     \/ JobMoves(r, "closeError", "release") /\ Comment(r, "error", r \notin late)
  /\ UNCHANGED <<sem, call, frames, cut, late, githubUp, crashes>>

\* Mutant: after an error the goroutine ends without the deferred receive.
PostResultKeepsSlot(r) ==
  /\ \/ JobMoves(r, "closeReport", "cleanup") /\ Comment(r, "report", TRUE)
     \/ JobMoves(r, "closeError", "done") /\ Comment(r, "error", TRUE)
  /\ UNCHANGED <<sem, call, frames, cut, late, githubUp, crashes>>

\* The result comment has a fresh context: no deadline of the sweep reaches it.
PostResult(r) ==
  /\ \/ JobMoves(r, "closeReport", "cleanup") /\ Comment(r, "report", TRUE)
     \/ JobMoves(r, "closeError", "release") /\ Comment(r, "error", TRUE)
  /\ UNCHANGED <<sem, call, frames, cut, late, githubUp, crashes>>

\* The deferred os.RemoveAll(framesDir), which runs before the release.
Cleanup(r) ==
  /\ JobMoves(r, "cleanup", "release")
  /\ frames' = frames \ {r}
  /\ UNCHANGED <<sem, call, thread, cut, late, githubUp, crashes>>

\* The deferred cancel of bg, then the deferred receive from sweepSem; the
\* synchronous handler, which has no bg, then returns.
Release(r) ==
  /\ JobMoves(r, "release", "done")
  /\ sem' = sem - 1
  /\ late' = IF IsSync(r) THEN late ELSE late \cup {r}
  /\ call' = IF IsSync(r) THEN [call EXCEPT ![r] = "returned"] ELSE call
  /\ UNCHANGED <<frames, thread, cut, githubUp, crashes>>

------------------------------------------------------------------------------
(* The environment *)

\* The caller of a submit hangs up while its handler is still at work. (The
\* context of a synchronous caller only decides how Run ends, which is open.)
Disconnect(r) ==
  /\ call[r] \in {"async", "noting", "accepting"}
  /\ r \notin cut
  /\ cut' = cut \cup {r}
  /\ UNCHANGED <<sem, call, job, frames, thread, late, githubUp, crashes>>

\* jobDeadline passes before the goroutine is through.
Deadline(r) ==
  /\ Holds(r) /\ ~IsSync(r) /\ r \notin late
  /\ late' = late \cup {r}
  /\ UNCHANGED <<sem, call, job, frames, thread, cut, githubUp, crashes>>

GitHubFlips ==
  /\ githubUp' = ~githubUp
  /\ UNCHANGED <<sem, call, job, frames, thread, cut, late, crashes>>

\* The process dies (there is no signal handler and nothing is persisted) and
\* is started again. Its channel, its goroutines, their contexts and its
\* container's temporary files are gone; responses and comments already sent are not.
Crash ==
  /\ crashes < MaxCrashes
  /\ crashes' = crashes + 1
  /\ sem' = 0
  /\ frames' = {}
  /\ job' = [r \in Requests |-> IF Holds(r) THEN "lost" ELSE job[r]]
  /\ call' = [r \in Requests |->
                IF call[r] \in {"sync", "async", "noting", "sweeping", "accepting"}
                THEN "lost" ELSE call[r]]
  /\ cut' = cut \cup {r \in Requests : call[r] \in {"async", "noting", "accepting"}}
  /\ late' = late \cup {r \in Requests : Holds(r) /\ ~IsSync(r)}
  /\ UNCHANGED <<thread, githubUp>>

------------------------------------------------------------------------------

Handler(r) ==
  \/ SmokeTestAcquire(r) \/ SmokeTestBusy(r)
  \/ SubmitAcquire(r) \/ SubmitBusy(r) \/ PostBusy(r) \/ SubmitRespond(r)

Sweep(r) ==
  \/ PostAck(r) \/ Prepare(r) \/ RunFails(r) \/ RunReports(r)
  \/ Upload(r) \/ PostResult(r) \/ Cleanup(r) \/ Release(r)

Next ==
  \/ \E r \in Requests : Enter(r) \/ Handler(r) \/ Sweep(r)
                           \/ Disconnect(r) \/ Deadline(r)
  \/ GitHubFlips
  \/ Crash

SafetySpec == Init /\ [][Next]_vars

\* Once a handler or a sweep is under way every call it makes returns: the
\* cluster calls are bounded by ReadyTimeout, JobTimeout and the job deadline,
\* the upload by two minutes, the comment by thirty seconds.
Spec == SafetySpec /\ \A r \in Requests : WF_vars(Handler(r)) /\ WF_vars(Sweep(r))

------------------------------------------------------------------------------
(* Properties *)

\* Two sweeps never hold the shared chrome-<tag> resources together
\* (smoketest.go:22-26).
OneSweepAtATime == \A r, q \in Requests : Holds(r) /\ Holds(q) => r = q

\* The channel holds a token exactly while a sweep is under way: no path out
\* of a handler, a goroutine or a crash leaks the token or returns it twice.
SlotMatchesHolder ==
  /\ sem \in {0, 1}
  /\ sem = 1 <=> \E r \in Requests : Holds(r)

\* The frames directory exists from MkdirTemp until the deferred RemoveAll:
\* the upload always finds it, and it is gone before the slot is given back.
FramesWhileInUse ==
  \A r \in Requests :
    r \in frames <=> job[r] \in {"running", "upload", "closeReport", "cleanup"}

\* On the pull request a submit's comments are an ack, then one closing
\* comment, with no other submit's ack or result between the two; a busy note
\* stands alone.
Closing == {"report", "error"}
At(i, r, K) == thread[i].req = r /\ thread[i].kind \in K
ThreadReadsInOrder ==
  \A i, j \in DOMAIN thread : i < j =>
    LET r == thread[i].req  q == thread[j].req IN
    /\ r = q => thread[i].kind = "ack" /\ thread[j].kind \in Closing
    /\ (r # q /\ thread[i].kind = "ack" /\ thread[j].kind # "busy") =>
          ~\E k \in DOMAIN thread : k > j /\ At(k, r, Closing)

\* Whoever got Accepted gets a closing comment, whatever fails on the way and
\* however late it is, unless GitHub was away or the process died.
AcceptedIsClosed ==
  [](githubUp) =>
    \A r \in Requests :
      call[r] = "accepted" ~>
        \/ job[r] = "lost"
        \/ \E i \in DOMAIN thread : At(i, r, Closing)

------------------------------------------------------------------------------
(* The service keeps the promise of SweepSlot. *)

SlotOwner == IF \E r \in Requests : Holds(r)
             THEN CHOOSE r \in Requests : Holds(r) ELSE NoOwner

SlotStatus ==
  [r \in Requests |->
     IF Holds(r) THEN "running"
     ELSE IF job[r] \in {"done", "lost"} \/ call[r] = "lost" THEN "finished"
     ELSE IF call[r] = "declined" THEN "declined"
     ELSE IF call[r] \in {"noting", "exhausted"} THEN "refused"
     ELSE "pending"]

Slot == INSTANCE SweepSlot WITH owner <- SlotOwner, status <- SlotStatus

\* Every behaviour of the service is one of the abstract slot: a request is
\* turned away only while another sweep is really under way, and every sweep
\* hands the slot back (smoketest.go:63-71, 184-199).
SlotSpec == Slot!Spec
==============================================================================
