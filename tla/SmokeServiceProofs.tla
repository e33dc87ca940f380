-------------------------- MODULE SmokeServiceProofs --------------------------
(***************************************************************************)
(* Theorems about SmokeService, for any set of requests and any number of  *)
(* crashes. The inductive invariant ties the number of tokens in sweepSem  *)
(* to the set of sweeps between acquire and release; mutual exclusion is   *)
(* not inductive without it, since a send succeeds on the count alone.     *)
(***************************************************************************)
EXTENDS SmokeService, TLAPS

\* The inductive invariant.
IInv ==
  /\ TypeOK
  /\ OneSweepAtATime
  /\ SlotMatchesHolder
  /\ FramesWhileInUse

LEMMA InitIInv == Init => IInv
BY RequestsAssumption
   DEF Init, IInv, TypeOK, OneSweepAtATime, SlotMatchesHolder, FramesWhileInUse,
       Holds, HoldingStates, JobStates, CallStates, Posts

\* Comments keep the thread a sequence of posts.
LEMMA CommentType ==
  ASSUME NEW r \in Requests, NEW k \in {"ack", "busy", "report", "error"},
         NEW alive \in BOOLEAN, thread \in Seq(Posts), Comment(r, k, alive)
  PROVE  thread' \in Seq(Posts)
<1>1. Post(r, k) \in Posts
  BY DEF Post, Posts
<1>2. CASE alive /\ githubUp
  BY <1>1, <1>2 DEF Comment
<1>3. CASE ~(alive /\ githubUp)
  BY <1>3 DEF Comment
<1>4. QED
  BY <1>2, <1>3

\* Every step of the service preserves the inductive invariant.
LEMMA NextIInv == IInv /\ [Next]_vars => IInv'
<1> SUFFICES ASSUME IInv, [Next]_vars PROVE IInv'
  OBVIOUS
<1>1. ASSUME NEW r \in Requests, Enter(r)
      PROVE  IInv'
  <2>1. TypeOK'
    BY <1>1 DEF IInv, TypeOK, Enter, CallMoves, JobMoves, CallStates, JobStates
  <2>2. OneSweepAtATime'
    BY <1>1
       DEF IInv, TypeOK, Enter, CallMoves, JobMoves, Holds, HoldingStates, JobStates,
           SlotMatchesHolder, OneSweepAtATime
  <2>3. SlotMatchesHolder'
    BY <1>1
       DEF IInv, TypeOK, Enter, CallMoves, JobMoves, Holds, HoldingStates, JobStates,
           SlotMatchesHolder, OneSweepAtATime
  <2>4. FramesWhileInUse'
    BY <1>1 DEF IInv, TypeOK, FramesWhileInUse, Enter, CallMoves, JobMoves, JobStates
  <2>5. QED
    BY <2>1, <2>2, <2>3, <2>4 DEF IInv
<1>2. ASSUME NEW r \in Requests, SmokeTestAcquire(r)
      PROVE  IInv'
  <2>1. TypeOK'
    BY <1>2
       DEF IInv, TypeOK, SmokeTestAcquire, CallMoves, JobMoves, CallStates, JobStates,
           Acquire, SweepSlots
  <2>2. OneSweepAtATime'
    BY <1>2
       DEF IInv, TypeOK, SmokeTestAcquire, CallMoves, JobMoves, Holds, HoldingStates,
           JobStates, SlotMatchesHolder, OneSweepAtATime, Acquire, SweepSlots
  <2>3. SlotMatchesHolder'
    BY <1>2
       DEF IInv, TypeOK, SmokeTestAcquire, CallMoves, JobMoves, Holds, HoldingStates,
           JobStates, SlotMatchesHolder, OneSweepAtATime, Acquire, SweepSlots
  <2>4. FramesWhileInUse'
    BY <1>2
       DEF IInv, TypeOK, FramesWhileInUse, SmokeTestAcquire, CallMoves, JobMoves,
           JobStates, Acquire, SweepSlots
  <2>5. QED
    BY <2>1, <2>2, <2>3, <2>4 DEF IInv
<1>3. ASSUME NEW r \in Requests, SmokeTestBusy(r)
      PROVE  IInv'
  <2>1. TypeOK'
    BY <1>3
       DEF IInv, TypeOK, SmokeTestBusy, CallMoves, JobMoves, CallStates, JobStates, Busy
  <2>2. OneSweepAtATime'
    BY <1>3
       DEF IInv, TypeOK, SmokeTestBusy, CallMoves, JobMoves, Holds, HoldingStates,
           JobStates, SlotMatchesHolder, OneSweepAtATime, Busy
  <2>3. SlotMatchesHolder'
    BY <1>3
       DEF IInv, TypeOK, SmokeTestBusy, CallMoves, JobMoves, Holds, HoldingStates,
           JobStates, SlotMatchesHolder, OneSweepAtATime, Busy
  <2>4. FramesWhileInUse'
    BY <1>3
       DEF IInv, TypeOK, FramesWhileInUse, SmokeTestBusy, CallMoves, JobMoves,
           JobStates, Busy
  <2>5. QED
    BY <2>1, <2>2, <2>3, <2>4 DEF IInv
<1>4. ASSUME NEW r \in Requests, SubmitAcquire(r)
      PROVE  IInv'
  <2>1. TypeOK'
    BY <1>4
       DEF IInv, TypeOK, SubmitAcquire, CallMoves, JobMoves, CallStates, JobStates,
           Acquire, SweepSlots
  <2>2. OneSweepAtATime'
    BY <1>4
       DEF IInv, TypeOK, SubmitAcquire, CallMoves, JobMoves, Holds, HoldingStates,
           JobStates, SlotMatchesHolder, OneSweepAtATime, Acquire, SweepSlots
  <2>3. SlotMatchesHolder'
    BY <1>4
       DEF IInv, TypeOK, SubmitAcquire, CallMoves, JobMoves, Holds, HoldingStates,
           JobStates, SlotMatchesHolder, OneSweepAtATime, Acquire, SweepSlots
  <2>4. FramesWhileInUse'
    BY <1>4
       DEF IInv, TypeOK, FramesWhileInUse, SubmitAcquire, CallMoves, JobMoves,
           JobStates, Acquire, SweepSlots
  <2>5. QED
    BY <2>1, <2>2, <2>3, <2>4 DEF IInv
<1>5. ASSUME NEW r \in Requests, SubmitBusy(r)
      PROVE  IInv'
  <2>1. TypeOK'
    BY <1>5
       DEF IInv, TypeOK, SubmitBusy, CallMoves, JobMoves, CallStates, JobStates, Busy
  <2>2. OneSweepAtATime'
    BY <1>5
       DEF IInv, TypeOK, SubmitBusy, CallMoves, JobMoves, Holds, HoldingStates,
           JobStates, SlotMatchesHolder, OneSweepAtATime, Busy
  <2>3. SlotMatchesHolder'
    BY <1>5
       DEF IInv, TypeOK, SubmitBusy, CallMoves, JobMoves, Holds, HoldingStates,
           JobStates, SlotMatchesHolder, OneSweepAtATime, Busy
  <2>4. FramesWhileInUse'
    BY <1>5
       DEF IInv, TypeOK, FramesWhileInUse, SubmitBusy, CallMoves, JobMoves, JobStates,
           Busy
  <2>5. QED
    BY <2>1, <2>2, <2>3, <2>4 DEF IInv
<1>6. ASSUME NEW r \in Requests, PostBusy(r)
      PROVE  IInv'
  <2>1. TypeOK'
    <3>1. thread' \in Seq(Posts)
      BY <1>6, CommentType DEF IInv, TypeOK, PostBusy
    <3>2. QED
      BY <1>6, <3>1
         DEF IInv, TypeOK, PostBusy, CallMoves, JobMoves, CallStates, JobStates
  <2>2. OneSweepAtATime'
    BY <1>6
       DEF IInv, TypeOK, PostBusy, CallMoves, JobMoves, Holds, HoldingStates, JobStates,
           SlotMatchesHolder, OneSweepAtATime
  <2>3. SlotMatchesHolder'
    BY <1>6
       DEF IInv, TypeOK, PostBusy, CallMoves, JobMoves, Holds, HoldingStates, JobStates,
           SlotMatchesHolder, OneSweepAtATime
  <2>4. FramesWhileInUse'
    BY <1>6 DEF IInv, TypeOK, FramesWhileInUse, PostBusy, CallMoves, JobMoves, JobStates
  <2>5. QED
    BY <2>1, <2>2, <2>3, <2>4 DEF IInv
<1>7. ASSUME NEW r \in Requests, SubmitRespond(r)
      PROVE  IInv'
  <2>1. TypeOK'
    BY <1>7 DEF IInv, TypeOK, SubmitRespond, CallMoves, JobMoves, CallStates, JobStates
  <2>2. OneSweepAtATime'
    BY <1>7
       DEF IInv, TypeOK, SubmitRespond, CallMoves, JobMoves, Holds, HoldingStates,
           JobStates, SlotMatchesHolder, OneSweepAtATime
  <2>3. SlotMatchesHolder'
    BY <1>7
       DEF IInv, TypeOK, SubmitRespond, CallMoves, JobMoves, Holds, HoldingStates,
           JobStates, SlotMatchesHolder, OneSweepAtATime
  <2>4. FramesWhileInUse'
    BY <1>7
       DEF IInv, TypeOK, FramesWhileInUse, SubmitRespond, CallMoves, JobMoves, JobStates
  <2>5. QED
    BY <2>1, <2>2, <2>3, <2>4 DEF IInv
<1>8. ASSUME NEW r \in Requests, PostAck(r)
      PROVE  IInv'
  <2>1. TypeOK'
    <3>1. thread' \in Seq(Posts)
      BY <1>8, CommentType DEF IInv, TypeOK, PostAck
    <3>2. QED
      BY <1>8, <3>1
         DEF IInv, TypeOK, PostAck, CallMoves, JobMoves, CallStates, JobStates
  <2>2. OneSweepAtATime'
    BY <1>8
       DEF IInv, TypeOK, PostAck, CallMoves, JobMoves, Holds, HoldingStates, JobStates,
           SlotMatchesHolder, OneSweepAtATime
  <2>3. SlotMatchesHolder'
    BY <1>8
       DEF IInv, TypeOK, PostAck, CallMoves, JobMoves, Holds, HoldingStates, JobStates,
           SlotMatchesHolder, OneSweepAtATime
  <2>4. FramesWhileInUse'
    BY <1>8 DEF IInv, TypeOK, FramesWhileInUse, PostAck, CallMoves, JobMoves, JobStates
  <2>5. QED
    BY <2>1, <2>2, <2>3, <2>4 DEF IInv
<1>9. ASSUME NEW r \in Requests, Prepare(r)
      PROVE  IInv'
  <2>1. TypeOK'
    BY <1>9
       DEF IInv, TypeOK, Prepare, CallMoves, JobMoves, CallStates, JobStates, AfterError
  <2>2. OneSweepAtATime'
    BY <1>9
       DEF IInv, TypeOK, Prepare, CallMoves, JobMoves, Holds, HoldingStates, JobStates,
           SlotMatchesHolder, OneSweepAtATime, AfterError
  <2>3. SlotMatchesHolder'
    BY <1>9
       DEF IInv, TypeOK, Prepare, CallMoves, JobMoves, Holds, HoldingStates, JobStates,
           SlotMatchesHolder, OneSweepAtATime, AfterError
  <2>4. FramesWhileInUse'
    BY <1>9
       DEF IInv, TypeOK, FramesWhileInUse, Prepare, CallMoves, JobMoves, JobStates,
           AfterError
  <2>5. QED
    BY <2>1, <2>2, <2>3, <2>4 DEF IInv
<1>10. ASSUME NEW r \in Requests, RunFails(r)
      PROVE  IInv'
  <2>1. TypeOK'
    BY <1>10
       DEF IInv, TypeOK, RunFails, CallMoves, JobMoves, CallStates, JobStates,
           AfterError
  <2>2. OneSweepAtATime'
    BY <1>10
       DEF IInv, TypeOK, RunFails, CallMoves, JobMoves, Holds, HoldingStates, JobStates,
           SlotMatchesHolder, OneSweepAtATime, AfterError
  <2>3. SlotMatchesHolder'
    BY <1>10
       DEF IInv, TypeOK, RunFails, CallMoves, JobMoves, Holds, HoldingStates, JobStates,
           SlotMatchesHolder, OneSweepAtATime, AfterError
  <2>4. FramesWhileInUse'
    BY <1>10
       DEF IInv, TypeOK, FramesWhileInUse, RunFails, CallMoves, JobMoves, JobStates,
           AfterError
  <2>5. QED
    BY <2>1, <2>2, <2>3, <2>4 DEF IInv
<1>11. ASSUME NEW r \in Requests, RunReports(r)
      PROVE  IInv'
  <2>1. TypeOK'
    BY <1>11 DEF IInv, TypeOK, RunReports, CallMoves, JobMoves, CallStates, JobStates
  <2>2. OneSweepAtATime'
    BY <1>11
       DEF IInv, TypeOK, RunReports, CallMoves, JobMoves, Holds, HoldingStates,
           JobStates, SlotMatchesHolder, OneSweepAtATime
  <2>3. SlotMatchesHolder'
    BY <1>11
       DEF IInv, TypeOK, RunReports, CallMoves, JobMoves, Holds, HoldingStates,
           JobStates, SlotMatchesHolder, OneSweepAtATime
  <2>4. FramesWhileInUse'
    BY <1>11
       DEF IInv, TypeOK, FramesWhileInUse, RunReports, CallMoves, JobMoves, JobStates
  <2>5. QED
    BY <2>1, <2>2, <2>3, <2>4 DEF IInv
<1>12. ASSUME NEW r \in Requests, Upload(r)
      PROVE  IInv'
  <2>1. TypeOK'
    BY <1>12 DEF IInv, TypeOK, Upload, CallMoves, JobMoves, CallStates, JobStates
  <2>2. OneSweepAtATime'
    BY <1>12
       DEF IInv, TypeOK, Upload, CallMoves, JobMoves, Holds, HoldingStates, JobStates,
           SlotMatchesHolder, OneSweepAtATime
  <2>3. SlotMatchesHolder'
    BY <1>12
       DEF IInv, TypeOK, Upload, CallMoves, JobMoves, Holds, HoldingStates, JobStates,
           SlotMatchesHolder, OneSweepAtATime
  <2>4. FramesWhileInUse'
    BY <1>12 DEF IInv, TypeOK, FramesWhileInUse, Upload, CallMoves, JobMoves, JobStates
  <2>5. QED
    BY <2>1, <2>2, <2>3, <2>4 DEF IInv
<1>13. ASSUME NEW r \in Requests, PostResult(r)
      PROVE  IInv'
  <2>1. TypeOK'
    <3>1. thread' \in Seq(Posts)
      BY <1>13, CommentType DEF IInv, TypeOK, PostResult
    <3>2. QED
      BY <1>13, <3>1
         DEF IInv, TypeOK, PostResult, CallMoves, JobMoves, CallStates, JobStates
  <2>2. OneSweepAtATime'
    BY <1>13
       DEF IInv, TypeOK, PostResult, CallMoves, JobMoves, Holds, HoldingStates,
           JobStates, SlotMatchesHolder, OneSweepAtATime
  <2>3. SlotMatchesHolder'
    BY <1>13
       DEF IInv, TypeOK, PostResult, CallMoves, JobMoves, Holds, HoldingStates,
           JobStates, SlotMatchesHolder, OneSweepAtATime
  <2>4. FramesWhileInUse'
    BY <1>13
       DEF IInv, TypeOK, FramesWhileInUse, PostResult, CallMoves, JobMoves, JobStates
  <2>5. QED
    BY <2>1, <2>2, <2>3, <2>4 DEF IInv
<1>14. ASSUME NEW r \in Requests, Cleanup(r)
      PROVE  IInv'
  <2>1. TypeOK'
    BY <1>14 DEF IInv, TypeOK, Cleanup, CallMoves, JobMoves, CallStates, JobStates
  <2>2. OneSweepAtATime'
    BY <1>14
       DEF IInv, TypeOK, Cleanup, CallMoves, JobMoves, Holds, HoldingStates, JobStates,
           SlotMatchesHolder, OneSweepAtATime
  <2>3. SlotMatchesHolder'
    BY <1>14
       DEF IInv, TypeOK, Cleanup, CallMoves, JobMoves, Holds, HoldingStates, JobStates,
           SlotMatchesHolder, OneSweepAtATime
  <2>4. FramesWhileInUse'
    BY <1>14 DEF IInv, TypeOK, FramesWhileInUse, Cleanup, CallMoves, JobMoves, JobStates
  <2>5. QED
    BY <2>1, <2>2, <2>3, <2>4 DEF IInv
<1>15. ASSUME NEW r \in Requests, Release(r)
      PROVE  IInv'
  <2>1. TypeOK'
    BY <1>15
       DEF IInv, TypeOK, Release, CallMoves, JobMoves, CallStates, JobStates,
           SlotMatchesHolder, Holds, HoldingStates
  <2>2. OneSweepAtATime'
    BY <1>15
       DEF IInv, TypeOK, Release, CallMoves, JobMoves, Holds, HoldingStates, JobStates,
           SlotMatchesHolder, OneSweepAtATime
  <2>3. SlotMatchesHolder'
    BY <1>15
       DEF IInv, TypeOK, Release, CallMoves, JobMoves, Holds, HoldingStates, JobStates,
           SlotMatchesHolder, OneSweepAtATime
  <2>4. FramesWhileInUse'
    BY <1>15 DEF IInv, TypeOK, FramesWhileInUse, Release, CallMoves, JobMoves, JobStates
  <2>5. QED
    BY <2>1, <2>2, <2>3, <2>4 DEF IInv
<1>16. ASSUME NEW r \in Requests, Disconnect(r)
      PROVE  IInv'
  <2>1. TypeOK'
    BY <1>16 DEF IInv, TypeOK, Disconnect, CallMoves, JobMoves, CallStates, JobStates
  <2>2. OneSweepAtATime'
    BY <1>16
       DEF IInv, TypeOK, Disconnect, CallMoves, JobMoves, Holds, HoldingStates,
           JobStates, SlotMatchesHolder, OneSweepAtATime
  <2>3. SlotMatchesHolder'
    BY <1>16
       DEF IInv, TypeOK, Disconnect, CallMoves, JobMoves, Holds, HoldingStates,
           JobStates, SlotMatchesHolder, OneSweepAtATime
  <2>4. FramesWhileInUse'
    BY <1>16
       DEF IInv, TypeOK, FramesWhileInUse, Disconnect, CallMoves, JobMoves, JobStates
  <2>5. QED
    BY <2>1, <2>2, <2>3, <2>4 DEF IInv
<1>17. ASSUME NEW r \in Requests, Deadline(r)
      PROVE  IInv'
  <2>1. TypeOK'
    BY <1>17 DEF IInv, TypeOK, Deadline, CallMoves, JobMoves, CallStates, JobStates
  <2>2. OneSweepAtATime'
    BY <1>17
       DEF IInv, TypeOK, Deadline, CallMoves, JobMoves, Holds, HoldingStates, JobStates,
           SlotMatchesHolder, OneSweepAtATime
  <2>3. SlotMatchesHolder'
    BY <1>17
       DEF IInv, TypeOK, Deadline, CallMoves, JobMoves, Holds, HoldingStates, JobStates,
           SlotMatchesHolder, OneSweepAtATime
  <2>4. FramesWhileInUse'
    BY <1>17
       DEF IInv, TypeOK, FramesWhileInUse, Deadline, CallMoves, JobMoves, JobStates
  <2>5. QED
    BY <2>1, <2>2, <2>3, <2>4 DEF IInv
<1>18. ASSUME GitHubFlips PROVE IInv'
  BY <1>18
     DEF IInv, TypeOK, OneSweepAtATime, SlotMatchesHolder, FramesWhileInUse, Holds,
               GitHubFlips
<1>19. ASSUME Crash PROVE IInv'
  BY <1>19
     DEF IInv, TypeOK, OneSweepAtATime, SlotMatchesHolder, FramesWhileInUse, Holds,
               HoldingStates, JobStates, CallStates, Crash
<1>20. CASE UNCHANGED vars
  BY <1>20
     DEF IInv, TypeOK, OneSweepAtATime, SlotMatchesHolder, FramesWhileInUse, Holds, vars
<1>21. QED
  BY <1>1, <1>2, <1>3, <1>4, <1>5, <1>6, <1>7, <1>8, <1>9, <1>10, <1>11, <1>12, <1>13,
     <1>14, <1>15, <1>16, <1>17, <1>18, <1>19, <1>20 DEF Next, Handler, Sweep

------------------------------------------------------------------------------

\* The inductive invariant holds in every reachable state.
THEOREM Invariance == SafetySpec => []IInv
BY InitIInv, NextIInv, PTL DEF SafetySpec

\* Type correctness.
THEOREM TypeCorrect == SafetySpec => []TypeOK
<1>1. IInv => TypeOK
  BY DEF IInv
<1>2. QED
  BY <1>1, Invariance, PTL

\* No two sweeps are ever between acquire and release, for any number of
\* concurrent calls and across restarts of the process.
THEOREM MutualExclusion == SafetySpec => []OneSweepAtATime
<1>1. IInv => OneSweepAtATime
  BY DEF IInv
<1>2. QED
  BY <1>1, Invariance, PTL

\* The token is in the channel exactly while somebody holds it: it is neither
\* leaked nor returned twice on any path.
THEOREM TokenIsNeverLost == SafetySpec => []SlotMatchesHolder
<1>1. IInv => SlotMatchesHolder
  BY DEF IInv
<1>2. QED
  BY <1>1, Invariance, PTL

\* A frames directory exists exactly as long as its sweep needs it.
THEOREM FramesAreOwned == SafetySpec => []FramesWhileInUse
<1>1. IInv => FramesWhileInUse
  BY DEF IInv
<1>2. QED
  BY <1>1, Invariance, PTL

------------------------------------------------------------------------------
(* The thread of comments on the pull request *)

Ended == {"cleanup", "release", "done", "lost"}

\* A handler that has not decided has no sweep.
Undecided == {"idle", "sync", "async", "noting"}
NoSweepYet == \A r \in Requests : call[r] \in Undecided => job[r] = "none"

\* How far a request is that has a comment of each kind.
CommentsBehind ==
  \A i \in DOMAIN thread :
    LET r == thread[i].req IN
    /\ thread[i].kind = "ack" => job[r] \notin {"none", "ack"}
    /\ thread[i].kind \in Closing => job[r] \in Ended
    /\ thread[i].kind = "busy" => job[r] = "none" /\ call[r] = "exhausted"

\* After the ack of the sweep under way only busy notes and its own comments follow.
NothingBetween ==
  \A i, j \in DOMAIN thread :
    i < j /\ thread[i].kind = "ack" /\ Holds(thread[i].req) =>
      thread[j].kind = "busy" \/ thread[j].req = thread[i].req

\* ThreadReadsInOrder looks back at comments of sweeps that have ended; what keeps
\* the next comment in order is where its request stands.
ThreadIInv == NoSweepYet /\ CommentsBehind /\ NothingBetween /\ ThreadReadsInOrder

\* How a step may move a request: what a comment says of it stays true.
Onward(r) ==
  /\ job[r] \notin {"none", "ack"} => job'[r] \notin {"none", "ack"}
  /\ job[r] \in Ended => job'[r] \in Ended
  /\ job[r] = "none" /\ call[r] = "exhausted" =>
       job'[r] = "none" /\ call'[r] = "exhausted"
  /\ Holds(r)' => Holds(r) \/ job[r] = "none"

\* Every step moves every request onward and starts no second sweep of it.
LEMMA OnwardStep ==
  ASSUME IInv, NoSweepYet, [Next]_vars
  PROVE  NoSweepYet' /\ \A r \in Requests : Onward(r)
<1> USE DEF IInv, TypeOK, NoSweepYet, Undecided, Onward, Ended, Holds, HoldingStates,
            JobStates, CallStates, CallMoves, JobMoves
<1>1. ASSUME NEW r \in Requests, Enter(r) \/ Disconnect(r) \/ Deadline(r)
      PROVE  NoSweepYet' /\ \A q \in Requests : Onward(q)
  BY <1>1 DEF Enter, Disconnect, Deadline
<1>2. ASSUME NEW r \in Requests, Handler(r)
      PROVE  NoSweepYet' /\ \A q \in Requests : Onward(q)
  <2>1. CASE SmokeTestAcquire(r)
    BY <2>1 DEF SmokeTestAcquire
  <2>2. CASE SmokeTestBusy(r)
    BY <2>2 DEF SmokeTestBusy
  <2>3. CASE SubmitAcquire(r)
    BY <2>3 DEF SubmitAcquire
  <2>4. CASE SubmitBusy(r)
    BY <2>4 DEF SubmitBusy
  <2>5. CASE PostBusy(r)
    BY <2>5 DEF PostBusy
  <2>6. CASE SubmitRespond(r)
    BY <2>6 DEF SubmitRespond
  <2>7. QED
    BY <1>2, <2>1, <2>2, <2>3, <2>4, <2>5, <2>6 DEF Handler
<1>3. ASSUME NEW r \in Requests, Sweep(r)
      PROVE  NoSweepYet' /\ \A q \in Requests : Onward(q)
  <2>1. CASE PostAck(r)
    BY <2>1 DEF PostAck
  <2>2. CASE Prepare(r)
    BY <2>2 DEF Prepare, AfterError
  <2>3. CASE RunFails(r)
    BY <2>3 DEF RunFails, AfterError
  <2>4. CASE RunReports(r)
    BY <2>4 DEF RunReports
  <2>5. CASE Upload(r)
    BY <2>5 DEF Upload
  <2>6. CASE PostResult(r)
    BY <2>6 DEF PostResult
  <2>7. CASE Cleanup(r)
    BY <2>7 DEF Cleanup
  <2>8. CASE Release(r)
    BY <2>8 DEF Release
  <2>9. QED
    BY <1>3, <2>1, <2>2, <2>3, <2>4, <2>5, <2>6, <2>7, <2>8 DEF Sweep
<1>4. ASSUME GitHubFlips \/ UNCHANGED vars
      PROVE  NoSweepYet' /\ \A q \in Requests : Onward(q)
  BY <1>4 DEF GitHubFlips, vars
<1>5. ASSUME Crash
      PROVE  NoSweepYet' /\ \A q \in Requests : Onward(q)
  BY <1>5 DEF Crash
<1>6. QED
  BY <1>1, <1>2, <1>3, <1>4, <1>5 DEF Next

\* A step that comments on nothing keeps the thread in order.
LEMMA QuietStep ==
  ASSUME IInv, ThreadIInv, thread' = thread, NoSweepYet',
         \A r \in Requests : Onward(r)
  PROVE  ThreadIInv'
<1>1. \A i \in DOMAIN thread : thread[i].req \in Requests
  <2>1. \A i \in DOMAIN thread : thread[i] \in Posts
    BY DEF IInv, TypeOK
  <2>2. QED
    BY <2>1 DEF Posts
<1>2. CommentsBehind'
  BY <1>1 DEF ThreadIInv, CommentsBehind, Onward
<1>3. NothingBetween'
  BY <1>1 DEF ThreadIInv, NothingBetween, CommentsBehind, Onward
<1>4. ThreadReadsInOrder'
  BY DEF ThreadIInv, ThreadReadsInOrder, At
<1>5. QED
  BY <1>2, <1>3, <1>4 DEF ThreadIInv

\* A comment keeps the thread in order when its request has come as far as the
\* comment says, and, unless it is a busy note, has the sweep.
LEMMA CommentStep ==
  ASSUME IInv, ThreadIInv, NoSweepYet', \A q \in Requests : Onward(q),
         NEW r \in Requests, NEW k \in {"ack", "busy", "report", "error"},
         thread' = Append(thread, Post(r, k)),
         k = "busy" => job[r] = "none" /\ job'[r] = "none" /\ call[r] = "noting"
                       /\ call'[r] = "exhausted",
         k = "ack" => job[r] = "ack" /\ job'[r] = "prepare",
         k \in Closing => job[r] \in {"closeReport", "closeError"} /\ job'[r] \in Ended
  PROVE  ThreadIInv'
<1> DEFINE n == Len(thread)
<1>1. /\ n \in Nat /\ DOMAIN thread = 1..n /\ DOMAIN thread' = 1..(n + 1)
      /\ \A i \in 1..n : thread'[i] = thread[i]
      /\ thread'[n + 1].req = r /\ thread'[n + 1].kind = k
  BY DEF IInv, TypeOK, Post, Posts
<1>2. \A i \in 1..n : thread[i] \in Posts /\ thread[i].req \in Requests
  <2>1. \A i \in 1..n : thread[i] \in Posts
    BY <1>1 DEF IInv, TypeOK
  <2>2. QED
    BY <2>1 DEF Posts
<1> HIDE DEF n
<1>3. k \in {"ack", "busy"} \cup Closing
  BY DEF Closing
\* No comment of r is there but its ack, if it is closed now.
<1>4. \A i \in 1..n : thread[i].req = r => thread[i].kind = "ack" /\ k \in Closing
  BY <1>1, <1>2, <1>3 DEF ThreadIInv, CommentsBehind, Ended, Posts, Closing
<1>5. k # "busy" => Holds(r)
  BY <1>3 DEF Holds, HoldingStates, JobStates
<1>6. CommentsBehind'
  <2>1. ASSUME NEW i \in 1..(n + 1)
        PROVE  LET q == thread'[i].req IN
               /\ thread'[i].kind = "ack" => job'[q] \notin {"none", "ack"}
               /\ thread'[i].kind \in Closing => job'[q] \in Ended
               /\ thread'[i].kind = "busy" => job'[q] = "none" /\ call'[q] = "exhausted"
    <3>1. CASE i = n + 1
      BY <1>1, <1>3, <3>1 DEF Closing
    <3>2. CASE i \in 1..n
      BY <1>1, <1>2, <3>2 DEF ThreadIInv, CommentsBehind, Onward
    <3>3. QED
      BY <1>1, <3>1, <3>2
  <2>2. QED
    BY <1>1, <2>1 DEF CommentsBehind
<1>7. NothingBetween'
  <2>1. ASSUME NEW i \in 1..(n + 1), NEW j \in 1..(n + 1), i < j,
               thread'[i].kind = "ack", job'[thread'[i].req] \in HoldingStates
        PROVE  thread'[j].kind = "busy" \/ thread'[j].req = thread'[i].req
    <3>1. /\ i \in 1..n /\ thread'[i] = thread[i]
          /\ job'[thread[i].req] \in HoldingStates
      BY <1>1, <2>1
    <3>2. Holds(thread[i].req)
      BY <1>1, <1>2, <2>1, <3>1 DEF ThreadIInv, CommentsBehind, Onward, Holds
    <3>3. CASE j = n + 1
      BY <1>1, <1>2, <1>5, <3>1, <3>2, <3>3 DEF IInv, OneSweepAtATime
    <3>4. CASE j \in 1..n
      BY <1>1, <2>1, <3>1, <3>2, <3>4 DEF ThreadIInv, NothingBetween
    <3>5. QED
      BY <1>1, <3>3, <3>4
  <2>2. QED
    BY <1>1, <2>1 DEF NothingBetween, Holds
<1>8. ThreadReadsInOrder'
  <2>1. ASSUME NEW i \in 1..(n + 1), NEW j \in 1..(n + 1), i < j
        PROVE  /\ thread'[i].req = thread'[j].req =>
                    thread'[i].kind = "ack" /\ thread'[j].kind \in Closing
               /\ (/\ thread'[i].req # thread'[j].req /\ thread'[i].kind = "ack"
                   /\ thread'[j].kind # "busy") =>
                     ~\E m \in 1..(n + 1) :
                        /\ m > j /\ thread'[m].req = thread'[i].req
                        /\ thread'[m].kind \in Closing
    <3>1. i \in 1..n /\ thread'[i] = thread[i]
      BY <1>1, <2>1
    <3>2. CASE j = n + 1
      <4>1. \A m \in 1..(n + 1) : ~(m > j)
        BY <1>1, <3>2
      <4>2. QED
        BY <1>1, <1>4, <3>1, <3>2, <4>1
    <3>3. CASE j \in 1..n
      <4>1. thread'[j] = thread[j]
        BY <1>1, <3>3
      <4>2. thread[i].req = thread[j].req =>
              thread[i].kind = "ack" /\ thread[j].kind \in Closing
        BY <1>1, <2>1, <3>1, <3>3 DEF ThreadIInv, ThreadReadsInOrder
      <4>3. ASSUME thread[i].req # thread[j].req, thread[i].kind = "ack",
                   thread[j].kind # "busy", NEW m \in 1..(n + 1), m > j,
                   thread'[m].req = thread[i].req, thread'[m].kind \in Closing
            PROVE  FALSE
        <5>1. CASE m \in 1..n
          BY <1>1, <2>1, <3>1, <3>3, <4>3, <5>1
             DEF ThreadIInv, ThreadReadsInOrder, At
        <5>2. CASE m = n + 1
          <6>1. k \in Closing /\ thread[i].req = r
            BY <1>1, <4>3, <5>2
          <6>2. Holds(r)
            BY <6>1, <1>5 DEF Closing
          <6>3. QED
            BY <1>1, <2>1, <3>1, <3>3, <4>3, <6>1, <6>2
               DEF ThreadIInv, NothingBetween
        <5>3. QED
          BY <1>1, <5>1, <5>2
      <4>4. QED
        BY <3>1, <4>1, <4>2, <4>3
    <3>4. QED
      BY <1>1, <3>2, <3>3
  <2>2. QED
    BY <1>1, <2>1 DEF ThreadReadsInOrder, At
<1>9. QED
  BY <1>6, <1>7, <1>8 DEF ThreadIInv

\* Every step keeps the thread in order.
LEMMA ThreadStep == IInv /\ ThreadIInv /\ [Next]_vars => ThreadIInv'
<1> SUFFICES ASSUME IInv, ThreadIInv, [Next]_vars PROVE ThreadIInv'
  OBVIOUS
<1>1. NoSweepYet' /\ \A r \in Requests : Onward(r)
  BY OnwardStep DEF ThreadIInv
<1>2. ASSUME thread' = thread PROVE ThreadIInv'
  BY <1>1, <1>2, QuietStep
<1>3. ASSUME NEW r \in Requests, PostBusy(r), thread' = Append(thread, Post(r, "busy"))
      PROVE  ThreadIInv'
  <2>1. call[r] = "noting" /\ call'[r] = "exhausted" /\ job[r] = "none" /\ job' = job
    BY <1>3
       DEF PostBusy, CallMoves, ThreadIInv, NoSweepYet, Undecided, IInv, TypeOK
  <2>2. QED
    BY <1>1, <1>3, <2>1, CommentStep DEF Closing
<1>4. ASSUME NEW r \in Requests, PostAck(r), thread' = Append(thread, Post(r, "ack"))
      PROVE  ThreadIInv'
  <2>1. job[r] = "ack" /\ job'[r] = "prepare"
    BY <1>4 DEF PostAck, JobMoves, IInv, TypeOK
  <2>2. QED
    BY <1>1, <1>4, <2>1, CommentStep DEF Closing
<1>5. ASSUME NEW r \in Requests, NEW k \in Closing, PostResult(r),
             thread' = Append(thread, Post(r, k))
      PROVE  ThreadIInv'
  <2>1. job[r] \in {"closeReport", "closeError"} /\ job'[r] \in Ended
    BY <1>5 DEF PostResult, JobMoves, Ended, IInv, TypeOK
  <2>2. QED
    BY <1>1, <1>5, <2>1, CommentStep DEF Closing
<1>6. \/ thread' = thread
      \/ \E r \in Requests :
           \/ PostBusy(r) /\ thread' = Append(thread, Post(r, "busy"))
           \/ PostAck(r) /\ thread' = Append(thread, Post(r, "ack"))
           \/ PostResult(r) /\ \E k \in Closing : thread' = Append(thread, Post(r, k))
  <2>1. ASSUME NEW r \in Requests, PostBusy(r) \/ PostAck(r) \/ PostResult(r)
        PROVE  \/ thread' = thread
               \/ PostBusy(r) /\ thread' = Append(thread, Post(r, "busy"))
               \/ PostAck(r) /\ thread' = Append(thread, Post(r, "ack"))
               \/ PostResult(r) /\ \E k \in Closing : thread' = Append(thread, Post(r, k))
    BY <2>1 DEF PostBusy, PostAck, PostResult, Comment, Closing
  <2>2. ASSUME NEW r \in Requests,
               Enter(r) \/ Handler(r) \/ Sweep(r) \/ Disconnect(r) \/ Deadline(r),
               ~PostBusy(r), ~PostAck(r), ~PostResult(r)
        PROVE  thread' = thread
    BY <2>2 DEF Enter, Handler, Sweep, Disconnect, Deadline, SmokeTestAcquire,
                SmokeTestBusy, SubmitAcquire, SubmitBusy, SubmitRespond, Prepare,
                RunFails, RunReports, Upload, Cleanup, Release
  <2>3. CASE GitHubFlips \/ Crash \/ UNCHANGED vars
    BY <2>3 DEF GitHubFlips, Crash, vars
  <2>4. QED
    BY <2>1, <2>2, <2>3 DEF Next
<1>7. QED
  BY <1>2, <1>3, <1>4, <1>5, <1>6

\* On the pull request every sweep has its ack and then at most one closing comment,
\* and nothing but busy notes between the two, for any requests and crashes
\* (smoketest.go:188-229).
THEOREM CommentsInOrder == SafetySpec => []ThreadReadsInOrder
<1>1. Init => ThreadIInv
  BY DEF Init, ThreadIInv, NoSweepYet, CommentsBehind, NothingBetween,
         ThreadReadsInOrder
<1>2. SafetySpec => []ThreadIInv
  BY <1>1, ThreadStep, Invariance, PTL DEF SafetySpec
<1>3. ThreadIInv => ThreadReadsInOrder
  BY DEF ThreadIInv
<1>4. QED
  BY <1>2, <1>3, PTL

------------------------------------------------------------------------------
(* Refinement: the service implements the abstract slot. *)

\* While r sweeps, the abstract owner is r; while nobody does, there is none.
OwnerIsHolder ==
  /\ \A r \in Requests : Holds(r) => SlotOwner = r
  /\ (\A r \in Requests : ~Holds(r)) => SlotOwner = NoOwner

LEMMA OwnerLemma == OneSweepAtATime => OwnerIsHolder
<1> SUFFICES ASSUME OneSweepAtATime PROVE OwnerIsHolder
  OBVIOUS
<1>1. ASSUME NEW r \in Requests, Holds(r) PROVE SlotOwner = r
  <2>1. \A q \in Requests : Holds(q) => q = r
    BY <1>1 DEF OneSweepAtATime
  <2>2. QED
    BY <1>1, <2>1 DEF SlotOwner
<1>2. ASSUME \A r \in Requests : ~Holds(r) PROVE SlotOwner = NoOwner
  BY <1>2 DEF SlotOwner
<1>3. QED
  BY <1>1, <1>2 DEF OwnerIsHolder

\* The same in the next state.
LEMMA OwnerLemmaNext == OneSweepAtATime' => OwnerIsHolder'
BY OwnerLemma, PTL

\* A step that changes neither who sweeps nor what was decided is a stutter.
LEMMA SlotStutters ==
  ASSUME IInv, IInv',
         \A r \in Requests : Holds(r)' <=> Holds(r),
         SlotStatus' = SlotStatus
  PROVE  UNCHANGED Slot!slotVars
<1>1. SlotOwner' = SlotOwner
  <2>1. CASE \E r \in Requests : Holds(r)
    BY <2>1, OwnerLemma, OwnerLemmaNext DEF IInv, OwnerIsHolder
  <2>2. CASE \A r \in Requests : ~Holds(r)
    BY <2>2, OwnerLemma, OwnerLemmaNext DEF IInv, OwnerIsHolder
  <2>3. QED
    BY <2>1, <2>2
<1>2. QED
  BY <1>1 DEF Slot!slotVars

\* The initial states of the service are initial states of the slot.
LEMMA SlotInit == Init => Slot!Init
<1> SUFFICES ASSUME Init PROVE Slot!Init
  OBVIOUS
<1>1. \A r \in Requests : ~Holds(r)
  BY DEF Init, Holds, HoldingStates, JobStates
<1>2. OneSweepAtATime
  BY <1>1 DEF OneSweepAtATime
<1>3. SlotOwner = NoOwner
  BY <1>1, <1>2, OwnerLemma DEF OwnerIsHolder
<1>4. SlotStatus = [r \in Requests |-> "pending"]
  BY <1>1 DEF Init, SlotStatus
<1>5. QED
  BY <1>3, <1>4 DEF Slot!Init

\* Every step of the service is a step of the slot or leaves it alone.
LEMMA SlotStep == IInv /\ IInv' /\ [Next]_vars => [Slot!Next]_(Slot!slotVars)
<1> SUFFICES ASSUME IInv, IInv', [Next]_vars
             PROVE  Slot!Next \/ UNCHANGED Slot!slotVars
  OBVIOUS
<1> DEFINE Stutter == UNCHANGED Slot!slotVars
<1>1. ASSUME NEW r \in Requests, PostBusy(r) PROVE Stutter
  <2>1. \A q \in Requests : Holds(q)' <=> Holds(q)
    BY <1>1
       DEF IInv, TypeOK, PostBusy, CallMoves, JobMoves, Holds, HoldingStates, JobStates
  <2>2. SlotStatus' = SlotStatus
    BY <1>1, <2>1
       DEF IInv, TypeOK, SlotStatus, PostBusy, CallMoves, JobMoves, Holds,
           HoldingStates, JobStates
  <2>3. QED
    BY <2>1, <2>2, SlotStutters
<1>2. ASSUME NEW r \in Requests, SubmitRespond(r) PROVE Stutter
  <2>1. \A q \in Requests : Holds(q)' <=> Holds(q)
    BY <1>2
       DEF IInv, TypeOK, SubmitRespond, CallMoves, JobMoves, Holds, HoldingStates,
           JobStates
  <2>2. SlotStatus' = SlotStatus
    BY <1>2, <2>1
       DEF IInv, TypeOK, SlotStatus, SubmitRespond, CallMoves, JobMoves, Holds,
           HoldingStates, JobStates
  <2>3. QED
    BY <2>1, <2>2, SlotStutters
<1>3. ASSUME NEW r \in Requests, PostAck(r) PROVE Stutter
  <2>1. \A q \in Requests : Holds(q)' <=> Holds(q)
    BY <1>3
       DEF IInv, TypeOK, PostAck, CallMoves, JobMoves, Holds, HoldingStates, JobStates
  <2>2. SlotStatus' = SlotStatus
    BY <1>3, <2>1
       DEF IInv, TypeOK, SlotStatus, PostAck, CallMoves, JobMoves, Holds, HoldingStates,
           JobStates
  <2>3. QED
    BY <2>1, <2>2, SlotStutters
<1>4. ASSUME NEW r \in Requests, Prepare(r) PROVE Stutter
  <2>1. \A q \in Requests : Holds(q)' <=> Holds(q)
    BY <1>4
       DEF IInv, TypeOK, Prepare, CallMoves, JobMoves, Holds, HoldingStates, JobStates,
           AfterError
  <2>2. SlotStatus' = SlotStatus
    BY <1>4, <2>1
       DEF IInv, TypeOK, SlotStatus, Prepare, CallMoves, JobMoves, Holds, HoldingStates,
           JobStates, AfterError
  <2>3. QED
    BY <2>1, <2>2, SlotStutters
<1>5. ASSUME NEW r \in Requests, RunFails(r) PROVE Stutter
  <2>1. \A q \in Requests : Holds(q)' <=> Holds(q)
    BY <1>5
       DEF IInv, TypeOK, RunFails, CallMoves, JobMoves, Holds, HoldingStates, JobStates,
           AfterError
  <2>2. SlotStatus' = SlotStatus
    BY <1>5, <2>1
       DEF IInv, TypeOK, SlotStatus, RunFails, CallMoves, JobMoves, Holds,
           HoldingStates, JobStates, AfterError
  <2>3. QED
    BY <2>1, <2>2, SlotStutters
<1>6. ASSUME NEW r \in Requests, RunReports(r) PROVE Stutter
  <2>1. \A q \in Requests : Holds(q)' <=> Holds(q)
    BY <1>6
       DEF IInv, TypeOK, RunReports, CallMoves, JobMoves, Holds, HoldingStates,
           JobStates
  <2>2. SlotStatus' = SlotStatus
    BY <1>6, <2>1
       DEF IInv, TypeOK, SlotStatus, RunReports, CallMoves, JobMoves, Holds,
           HoldingStates, JobStates
  <2>3. QED
    BY <2>1, <2>2, SlotStutters
<1>7. ASSUME NEW r \in Requests, Upload(r) PROVE Stutter
  <2>1. \A q \in Requests : Holds(q)' <=> Holds(q)
    BY <1>7
       DEF IInv, TypeOK, Upload, CallMoves, JobMoves, Holds, HoldingStates, JobStates
  <2>2. SlotStatus' = SlotStatus
    BY <1>7, <2>1
       DEF IInv, TypeOK, SlotStatus, Upload, CallMoves, JobMoves, Holds, HoldingStates,
           JobStates
  <2>3. QED
    BY <2>1, <2>2, SlotStutters
<1>8. ASSUME NEW r \in Requests, PostResult(r) PROVE Stutter
  <2>1. \A q \in Requests : Holds(q)' <=> Holds(q)
    BY <1>8
       DEF IInv, TypeOK, PostResult, CallMoves, JobMoves, Holds, HoldingStates,
           JobStates
  <2>2. SlotStatus' = SlotStatus
    BY <1>8, <2>1
       DEF IInv, TypeOK, SlotStatus, PostResult, CallMoves, JobMoves, Holds,
           HoldingStates, JobStates
  <2>3. QED
    BY <2>1, <2>2, SlotStutters
<1>9. ASSUME NEW r \in Requests, Cleanup(r) PROVE Stutter
  <2>1. \A q \in Requests : Holds(q)' <=> Holds(q)
    BY <1>9
       DEF IInv, TypeOK, Cleanup, CallMoves, JobMoves, Holds, HoldingStates, JobStates
  <2>2. SlotStatus' = SlotStatus
    BY <1>9, <2>1
       DEF IInv, TypeOK, SlotStatus, Cleanup, CallMoves, JobMoves, Holds, HoldingStates,
           JobStates
  <2>3. QED
    BY <2>1, <2>2, SlotStutters
<1>10. ASSUME NEW r \in Requests, Disconnect(r) PROVE Stutter
  <2>1. \A q \in Requests : Holds(q)' <=> Holds(q)
    BY <1>10
       DEF IInv, TypeOK, Disconnect, CallMoves, JobMoves, Holds, HoldingStates,
           JobStates
  <2>2. SlotStatus' = SlotStatus
    BY <1>10, <2>1
       DEF IInv, TypeOK, SlotStatus, Disconnect, CallMoves, JobMoves, Holds,
           HoldingStates, JobStates
  <2>3. QED
    BY <2>1, <2>2, SlotStutters
<1>11. ASSUME NEW r \in Requests, Deadline(r) PROVE Stutter
  <2>1. \A q \in Requests : Holds(q)' <=> Holds(q)
    BY <1>11
       DEF IInv, TypeOK, Deadline, CallMoves, JobMoves, Holds, HoldingStates, JobStates
  <2>2. SlotStatus' = SlotStatus
    BY <1>11, <2>1
       DEF IInv, TypeOK, SlotStatus, Deadline, CallMoves, JobMoves, Holds,
           HoldingStates, JobStates
  <2>3. QED
    BY <2>1, <2>2, SlotStutters
<1>12. ASSUME NEW r \in Requests, SmokeTestAcquire(r) PROVE Slot!Next
  <2>1. \A q \in Requests : ~Holds(q)
    BY <1>12 DEF IInv, SlotMatchesHolder, SmokeTestAcquire, Acquire, SweepSlots
  <2>2. Holds(r)'
    BY <1>12
       DEF IInv, TypeOK, SmokeTestAcquire, JobMoves, Holds, HoldingStates, JobStates
  <2>3. SlotOwner = NoOwner /\ SlotOwner' = r
    BY <2>1, <2>2, OwnerLemma, OwnerLemmaNext DEF IInv, OwnerIsHolder
  <2>4. SlotStatus[r] = "pending"
    BY <1>12, <2>1 DEF SlotStatus, SmokeTestAcquire, CallMoves, JobMoves
  <2>5. SlotStatus' = [SlotStatus EXCEPT ![r] = "running"]
    BY <1>12, <2>2
       DEF IInv, TypeOK, SlotStatus, SmokeTestAcquire, CallMoves, JobMoves, Holds,
           HoldingStates, JobStates
  <2>6. QED
    BY <2>3, <2>4, <2>5 DEF Slot!Next, Slot!Admit, Slot!Decide
<1>13. ASSUME NEW r \in Requests, SubmitAcquire(r) PROVE Slot!Next
  <2>1. \A q \in Requests : ~Holds(q)
    BY <1>13 DEF IInv, SlotMatchesHolder, SubmitAcquire, Acquire, SweepSlots
  <2>2. Holds(r)'
    BY <1>13 DEF IInv, TypeOK, SubmitAcquire, JobMoves, Holds, HoldingStates, JobStates
  <2>3. SlotOwner = NoOwner /\ SlotOwner' = r
    BY <2>1, <2>2, OwnerLemma, OwnerLemmaNext DEF IInv, OwnerIsHolder
  <2>4. SlotStatus[r] = "pending"
    BY <1>13, <2>1 DEF SlotStatus, SubmitAcquire, CallMoves, JobMoves
  <2>5. SlotStatus' = [SlotStatus EXCEPT ![r] = "running"]
    BY <1>13, <2>2
       DEF IInv, TypeOK, SlotStatus, SubmitAcquire, CallMoves, JobMoves, Holds,
           HoldingStates, JobStates
  <2>6. QED
    BY <2>3, <2>4, <2>5 DEF Slot!Next, Slot!Admit, Slot!Decide
<1>14. ASSUME NEW r \in Requests, SmokeTestBusy(r) PROVE Slot!Next \/ Stutter
  <2>1. PICK h \in Requests : Holds(h)
    BY <1>14 DEF IInv, SlotMatchesHolder, SmokeTestBusy, Busy, SweepSlots
  <2>2. \A q \in Requests : Holds(q)' <=> Holds(q)
    BY <1>14 DEF SmokeTestBusy, Holds
  <2>3. SlotOwner = h /\ SlotOwner' = h /\ h # NoOwner
    BY <2>1, <2>2, OwnerLemma, OwnerLemmaNext, RequestsAssumption
       DEF IInv, OwnerIsHolder
  <2>4. CASE job[r] = "none"
    <3>1. SlotStatus[r] = "pending"
      BY <1>14, <2>4
         DEF SlotStatus, SmokeTestBusy, CallMoves, Holds, HoldingStates, JobStates
    <3>2. SlotStatus' = [SlotStatus EXCEPT ![r] = "refused"]
      BY <1>14, <2>2, <2>4
         DEF IInv, TypeOK, SlotStatus, SmokeTestBusy, CallMoves, Holds, HoldingStates,
             JobStates
    <3>3. QED
      BY <2>3, <3>1, <3>2 DEF Slot!Next, Slot!Refuse, Slot!Decide
  <2>5. CASE job[r] # "none"
    <3>1. SlotStatus' = SlotStatus
      BY <1>14, <2>2, <2>5
         DEF IInv, TypeOK, SlotStatus, SmokeTestBusy, CallMoves, Holds, HoldingStates,
             JobStates
    <3>2. QED
      BY <2>2, <3>1, SlotStutters
  <2>6. QED
    BY <2>4, <2>5
<1>15. ASSUME NEW r \in Requests, SubmitBusy(r) PROVE Slot!Next \/ Stutter
  <2>1. PICK h \in Requests : Holds(h)
    BY <1>15 DEF IInv, SlotMatchesHolder, SubmitBusy, Busy, SweepSlots
  <2>2. \A q \in Requests : Holds(q)' <=> Holds(q)
    BY <1>15 DEF SubmitBusy, Holds
  <2>3. SlotOwner = h /\ SlotOwner' = h /\ h # NoOwner
    BY <2>1, <2>2, OwnerLemma, OwnerLemmaNext, RequestsAssumption
       DEF IInv, OwnerIsHolder
  <2>4. CASE job[r] = "none"
    <3>1. SlotStatus[r] = "pending"
      BY <1>15, <2>4
         DEF SlotStatus, SubmitBusy, CallMoves, Holds, HoldingStates, JobStates
    <3>2. SlotStatus' = [SlotStatus EXCEPT ![r] = "refused"]
      BY <1>15, <2>2, <2>4
         DEF IInv, TypeOK, SlotStatus, SubmitBusy, CallMoves, Holds, HoldingStates,
             JobStates
    <3>3. QED
      BY <2>3, <3>1, <3>2 DEF Slot!Next, Slot!Refuse, Slot!Decide
  <2>5. CASE job[r] # "none"
    <3>1. SlotStatus' = SlotStatus
      BY <1>15, <2>2, <2>5
         DEF IInv, TypeOK, SlotStatus, SubmitBusy, CallMoves, Holds, HoldingStates,
             JobStates
    <3>2. QED
      BY <2>2, <3>1, SlotStutters
  <2>6. QED
    BY <2>4, <2>5
<1>16. ASSUME NEW r \in Requests, Enter(r) PROVE Slot!Next \/ Stutter
  <2>1. \A q \in Requests : Holds(q)' <=> Holds(q)
    BY <1>16 DEF Enter, Holds
  <2>2. PICK to \in {"sync", "async", "declined"} : CallMoves(r, "idle", to)
    BY <1>16 DEF Enter
  <2>3. CASE job[r] = "none" /\ to = "declined"
    <3>1. SlotStatus[r] = "pending"
      BY <2>2, <2>3 DEF SlotStatus, CallMoves, Holds, HoldingStates, JobStates
    <3>2. SlotStatus' = [SlotStatus EXCEPT ![r] = "declined"]
      BY <1>16, <2>1, <2>2, <2>3
         DEF IInv, TypeOK, SlotStatus, Enter, CallMoves, Holds, HoldingStates, JobStates
    <3>3. SlotOwner' = SlotOwner
      <4>1. CASE \E q \in Requests : Holds(q)
        BY <4>1, <2>1, OwnerLemma, OwnerLemmaNext DEF IInv, OwnerIsHolder
      <4>2. CASE \A q \in Requests : ~Holds(q)
        BY <4>2, <2>1, OwnerLemma, OwnerLemmaNext DEF IInv, OwnerIsHolder
      <4>3. QED
        BY <4>1, <4>2
    <3>4. QED
      BY <3>1, <3>2, <3>3 DEF Slot!Next, Slot!Decline, Slot!Decide
  <2>4. CASE ~(job[r] = "none" /\ to = "declined")
    <3>1. SlotStatus' = SlotStatus
      BY <1>16, <2>1, <2>2, <2>4
         DEF IInv, TypeOK, SlotStatus, Enter, CallMoves, Holds, HoldingStates, JobStates
    <3>2. QED
      BY <2>1, <3>1, SlotStutters
  <2>5. QED
    BY <2>3, <2>4
<1>17. ASSUME NEW r \in Requests, Release(r) PROVE Slot!Next
  <2>1. Holds(r)
    BY <1>17 DEF Release, JobMoves, Holds, HoldingStates, JobStates
  <2>2. \A q \in Requests : ~Holds(q)'
    BY <1>17, <2>1
       DEF IInv, TypeOK, OneSweepAtATime, Release, JobMoves, Holds, HoldingStates,
           JobStates
  <2>3. SlotOwner = r /\ SlotOwner' = NoOwner
    BY <2>1, <2>2, OwnerLemma, OwnerLemmaNext DEF IInv, OwnerIsHolder
  <2>4. SlotStatus' = [SlotStatus EXCEPT ![r] = "finished"]
    BY <1>17
       DEF IInv, TypeOK, SlotStatus, Release, JobMoves, IsSync, Holds, HoldingStates,
           JobStates
  <2>5. QED
    BY <2>3, <2>4 DEF Slot!Next, Slot!Finish
<1>18. ASSUME GitHubFlips PROVE Stutter
  <2>1. \A q \in Requests : Holds(q)' <=> Holds(q)
    BY <1>18 DEF GitHubFlips, Holds
  <2>2. SlotStatus' = SlotStatus
    BY <1>18 DEF SlotStatus, GitHubFlips, Holds
  <2>3. QED
    BY <2>1, <2>2, SlotStutters
<1>19. ASSUME Crash PROVE Slot!Next
  <2>1. \A q \in Requests : ~Holds(q)'
    BY <1>19 DEF Crash, Holds, HoldingStates, JobStates
  <2>2. SlotOwner' = NoOwner
    BY <2>1, OwnerLemmaNext DEF IInv, OwnerIsHolder
  <2> DEFINE S == {q \in Requests : SlotStatus[q] \in {"pending", "refused"} /\ call'[q] = "lost"}
  <2>3. SlotStatus' = [q \in Requests |->
                         IF q = SlotOwner \/ q \in S THEN "finished" ELSE SlotStatus[q]]
    <3>1. \A q \in Requests : Holds(q) <=> q = SlotOwner
      BY OwnerLemma, RequestsAssumption DEF IInv, OwnerIsHolder
    <3>2. SUFFICES ASSUME NEW q \in Requests
                   PROVE  SlotStatus'[q] = IF q = SlotOwner \/ q \in S
                                           THEN "finished" ELSE SlotStatus[q]
      BY DEF SlotStatus
    <3>3. QED
      BY <1>19, <2>1, <3>1
         DEF IInv, TypeOK, SlotStatus, Crash, Holds, HoldingStates, JobStates
  <2>4. S \in SUBSET {q \in Requests : SlotStatus[q] \in {"pending", "refused"}}
    OBVIOUS
  <2>5. QED
    BY <2>2, <2>3, <2>4 DEF Slot!Next, Slot!Restart
<1>20. CASE UNCHANGED vars
  <2>1. \A q \in Requests : Holds(q)' <=> Holds(q)
    BY <1>20 DEF vars, Holds
  <2>2. SlotStatus' = SlotStatus
    BY <1>20 DEF SlotStatus, vars, Holds
  <2>3. QED
    BY <2>1, <2>2, SlotStutters
<1>21. QED
  BY <1>1, <1>2, <1>3, <1>4, <1>5, <1>6, <1>7, <1>8, <1>9, <1>10, <1>11, <1>12, <1>13,
     <1>14, <1>15, <1>16, <1>17, <1>18, <1>19, <1>20
     DEF Next, Handler, Sweep

\* gubald's semaphore implements the abstract slot: its handlers admit a
\* request only while the slot is free and refuse one only while it is taken.
THEOREM ImplementsSlot ==
  SafetySpec => Slot!Init /\ [][Slot!Next]_(Slot!slotVars)
BY SlotInit, SlotStep, Invariance, PTL DEF SafetySpec
===============================================================================
