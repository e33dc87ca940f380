--------------------------- MODULE ChromeBullyProofs ---------------------------
(***************************************************************************)
(* Theorems about ChromeBully, for any versions, console messages, numbers *)
(* of captures and faults of the browser. What its log says at the end is  *)
(* decided by one line among many; the inductive invariant says of every   *)
(* line but the last that it decides nothing, and why each name, context   *)
(* and listener is what it is where the run stands.                        *)
(***************************************************************************)
EXTENDS ChromeBully, TLAPS, FiniteSetTheorems, SequenceTheorems

\* The lines a run writes.
Messages == {"fatal", "captured", "capture failed", "shutting down", "browser console"}
Lines == [json : BOOLEAN, msg : Messages, path : Names \cup {NoPath}, len : Nat]
LogType == log \in Seq(Lines)

\* Before the connection to DevTools.
Connecting == {"flags", "connect"}

\* Where the run stands and what it has by then.
Stands ==
  /\ pc \in Connecting => conn = "none" /\ captures = 0
  /\ Capturing \/ pc \in {"returned", "sleep"} => captures > 0 /\ conn # "none"
  /\ pc = "sleep" => ~once
  /\ pc # "exited" => code = 0

\* A context that was cancelled has one of the two reasons, and so has a capture that
\* came back for it.
Reasons ==
  \/ asked
  \/ conn = "lost"
  \/ browserCtx = "alive" /\ captureCtx # "canceled" /\ result # <<"canceled">>

\* A page is only there while the console listener is.
Listened == page \in {"challenge", "backend"} \/ pc = "setup" => listening

\* A capture that went well is a file, and the run's own.
Captured ==
  pc = "returned" =>
    \/ result \in Errors
    \/ result \in frames /\ \E n \in 1..MaxCaptures : result = Named(<<"chrome">>, product, n)

\* The lines that decide the scan: none while a single run goes on; then its last
\* word, and no other line.
Deciding == {i \in DOMAIN log : Decides(log[i])}
LastWord ==
  once =>
    /\ \A i, j \in Deciding : i = j
    /\ pc # "exited" => Deciding = {}
    /\ pc = "exited" /\ code = 1 => \A i \in Deciding : log[i].msg = "fatal"
    /\ pc = "exited" /\ code = 0 /\ ~quiet =>
         \E i \in Deciding :
           /\ log[i].msg = "captured" /\ log[i].path \in frames
           /\ \E n \in 1..MaxCaptures : log[i].path = Named(<<"chrome">>, product, n)

\* What the model takes for granted of the addresses and exception texts in console
\* events: next to a detail cut to the limit, and the mark, they fit the scanner.
LinesFit == ScanLimit >= 1 /\ \A u \in UrlSizes : TextLimit + 1 + u <= ScanLimit
Short == LinesFit => \A i \in DOMAIN log : log[i].len <= ScanLimit

\* The inductive invariant.
IInv ==
  /\ TypeOK /\ LogType /\ Stands /\ Reasons /\ Listened /\ Captured /\ LastWord /\ Short
  /\ ShotAfterText /\ NoMessageIsMissed /\ IntervalOutlivesFailures

------------------------------------------------------------------------------
(* Names, the container and the flags *)

\* A name has three parts at least, and gives back the version it was made of, with or
\* without dashes of its own.
LEMMA NameFacts ==
  ASSUME NEW p \in Products, NEW n
  PROVE  LET f == Named(<<"chrome">>, p, n) IN
         /\ f # NoPath /\ f # NotCaptured /\ f \notin Errors
         /\ VersionFromFrame(f) = p
<1> DEFINE f == Named(<<"chrome">>, p, n)
<1>0. PICK t : t = ToString(n)
  OBVIOUS
<1> DEFINE S == STRING \cup {"chrome", t}
<1>1. p \in Seq(S) /\ Len(p) \in Nat /\ Len(p) > 0
  <2>1. p \in Seq(STRING) /\ p # <<>>
    BY BullyAssumption
  <2>2. Len(p) \in Nat /\ Len(p) > 0 /\ \A i \in 1..Len(p) : p[i] \in S
    BY <2>1
  <2>3. p = [i \in 1..Len(p) |-> p[i]]
    BY <2>1
  <2>4. QED
    BY <2>2, <2>3
<1>a. "chrome" \in S /\ t \in S
  OBVIOUS
<1> HIDE DEF S
<1>2. f = (<<"chrome">> \o p) \o <<t>>
  BY <1>0 DEF Named
<1> DEFINE g == <<"chrome">> \o p
<1>3. /\ g \in Seq(S) /\ Len(g) = 1 + Len(p) /\ g[1] = "chrome"
      /\ \A i \in 1..Len(p) : g[i + 1] = p[i]
  <2>1. <<"chrome">> \in Seq(S) /\ Len(<<"chrome">>) = 1 /\ <<"chrome">>[1] = "chrome"
    BY <1>a
  <2>2. QED
    BY <1>1, <2>1, ConcatProperties
<1>4. /\ f \in Seq(S) /\ Len(f) = 2 + Len(p) /\ f[1] = "chrome"
      /\ \A i \in 1..Len(p) : f[i + 1] = p[i]
  <2> HIDE DEF g
  <2>1. f = g \o <<t>> /\ <<t>> \in Seq(S)
    BY <1>a, <1>2 DEF g
  <2>2. /\ f \in Seq(S) /\ Len(f) = Len(g) + 1
        /\ \A i \in 1..Len(g) : f[i] = g[i]
    <3>1. Len(<<t>>) = 1
      OBVIOUS
    <3>2. /\ f \in Seq(S) /\ Len(f) = Len(g) + 1
          /\ \A i \in 1..(Len(g) + 1) : i <= Len(g) => f[i] = g[i]
      BY <1>3, <2>1, <3>1, ConcatProperties
    <3>3. QED
      BY <1>1, <1>3, <3>2
  <2>3. QED
    BY <1>1, <1>3, <2>2
<1> HIDE DEF f
<1>5. f # NoPath /\ f # NotCaptured /\ f \notin Errors
  <2>1. Len(NoPath) = 0 /\ Len(NotCaptured) = 1 /\ \A e \in Errors : Len(e) = 1
    BY DEF NoPath, NotCaptured, Errors
  <2>2. QED
    BY <1>1, <1>4, <2>1
<1>6. VersionFromFrame(f) = p
  <2> DEFINE b == Tail(f)
             q == SubSeq(b, 1, Len(b) - 1)
  <2>1. /\ b \in Seq(S) /\ Len(b) = 1 + Len(p)
        /\ \A i \in 1..Len(p) : b[i] = p[i]
    BY <1>1, <1>4
  <2>2. q \in Seq(S) /\ Len(q) = Len(p) /\ \A i \in 1..Len(p) : q[i] = p[i]
    <3> HIDE DEF b
    <3>1. QED
      BY <1>1, <2>1
  <2>3. q = p
    BY <1>1, <2>2
  <2>4. VersionFromFrame(f) = q
    BY <1>1, <1>4, <2>1 DEF VersionFromFrame
  <2>5. QED
    BY <2>3, <2>4
<1>7. QED
  BY <1>5, <1>6 DEF f

\* The container keeps its own types.
LEMMA PodTypeStep == PodTypeOK /\ [Next]_vars => PodTypeOK'
<1> SUFFICES ASSUME PodTypeOK, [Next]_vars PROVE PodTypeOK'
  OBVIOUS
<1>1. CASE PodNext
  BY <1>1, BullyAssumption
     DEF PodTypeOK, PodNext, PodProgress, CheckFails, LaunchBehindBridge, ExecSocat,
         ExecBrowser, Listens, LivenessFails, Restart, Fault, Ends
<1>2. CASE UNCHANGED podVars
  BY <1>2 DEF PodTypeOK, podVars
<1>3. QED
  BY <1>1, <1>2 DEF Next, PodMoves, vars

\* The name of a frame is none of the errors, and the version in it is the browser's.
LEMMA FrameNameFacts ==
  ASSUME IInv, pc = "write"
  PROVE  /\ captures \in 1..MaxCaptures
         /\ FrameName = Named(<<"chrome">>, product, captures)
         /\ FrameName \in Names /\ FrameName \notin Errors /\ FrameName # <<"canceled">>
<1>1. captures \in 1..MaxCaptures /\ product \in Products
  BY BullyAssumption DEF IInv, TypeOK, Stands, Capturing
<1>2. FrameName = Named(<<"chrome">>, product, captures)
  BY DEF FrameName
<1>3. FrameName \in Names
  BY <1>1, <1>2 DEF Names
<1>4. FrameName \notin Errors
  BY <1>1, <1>2, NameFacts
<1>5. QED
  BY <1>1, <1>2, <1>3, <1>4 DEF Errors

------------------------------------------------------------------------------
(* One lemma per conjunct of the invariant *)

\* Every step keeps type correctness.
LEMMA TypeStep == IInv /\ [Next]_vars => TypeOK'
<1> SUFFICES ASSUME IInv, [Next]_vars PROVE TypeOK'
  OBVIOUS
<1> USE DEF IInv, TypeOK, Stands, Connecting, Capturing, flags, ctxs, tab
<1>0. PodTypeOK'
  BY PodTypeStep
<1>1. CASE BadFlags
  BY <1>1, <1>0, BullyAssumption DEF BadFlags, Dies, Says, Line
<1>2. CASE GoodFlags
  BY <1>2, <1>0, BullyAssumption DEF GoodFlags
<1>3. CASE Connect
  <2>1. captures = 0 /\ captures' \in {captures, captures + 1}
    BY <1>3 DEF Connect, Begin
  <2>2. captures' \in 0..MaxCaptures
    BY ONLY <2>1, BullyAssumption
  <2>3. pc' \in {"open", "exited"} /\ code' \in {0, 1} /\ conn' \in {"up", conn}
    BY <1>3 DEF Connect, Begin, Dies
  <2>4. /\ captureCtx' \in {browserCtx, captureCtx} /\ shown' \in {FALSE, shown}
        /\ UNCHANGED <<flags, browserCtx, page, listening, said, result, frames, asked>>
    BY <1>3 DEF Connect, Begin
  <2>5. captureCtx' \in {"alive", "deadline", "canceled"} /\ conn' \in {"none", "up", "lost"}
    BY <2>3, <2>4
  <2>6. shown' \in BOOLEAN
    BY <2>4
  <2>7. QED
    BY <1>0, <2>2, <2>3, <2>4, <2>5, <2>6
<1>4. CASE OnceReturns
  BY <1>4, <1>0, BullyAssumption
     DEF OnceReturns, Dies, Says, SaysInfo, Marker, Line, Leaves
<1>5. CASE IntervalReturns
  <2>1. \/ pc' = "exited" /\ code' = 0
        \/ pc' = "sleep" /\ code' = code
    BY <1>5 DEF IntervalReturns, Leaves
  <2>2. UNCHANGED <<flags, ctxs, tab, result, frames, asked, captures>>
    BY <1>5 DEF IntervalReturns
  <2>3. QED
    BY <1>0, <2>1, <2>2
<1>6. CASE WakesDone
  BY <1>6, <1>0, BullyAssumption DEF WakesDone, SaysInfo, Marker, Line, Leaves
<1>7. CASE GivesUp
  BY <1>7, <1>0, BullyAssumption DEF GivesUp, RunFails, Returns
<1>8. CASE OpenTab
  BY <1>8, <1>0, BullyAssumption DEF OpenTab, Step
<1>9. CASE ListenConsole
  BY <1>9, <1>0, BullyAssumption DEF ListenConsole, Step
<1>10. CASE Setup
  BY <1>10, <1>0, BullyAssumption DEF Setup, Step
<1>11. CASE Loaded
  BY <1>11, <1>0, BullyAssumption DEF Loaded, Step
<1>12. CASE FindText
  BY <1>12, <1>0, BullyAssumption DEF FindText, Step, RunWorks
<1>13. CASE TimesOut
  <2>1. result' \in Errors
    BY <1>13 DEF TimesOut, Alive, Returns, Errors
  <2>2. QED
    BY <1>13, <1>0, <2>1 DEF TimesOut, Returns
<1>14. CASE Screenshot
  BY <1>14, <1>0, BullyAssumption DEF Screenshot, Step
<1>15. CASE WriteFrame
  <2>1. result' \in Errors \cup Names /\ frames' \subseteq Names
    BY <1>15, FrameNameFacts DEF WriteFrame, Returns, Errors
  <2>2. QED
    BY <1>15, <1>0, <2>1 DEF WriteFrame, Returns
<1>16. CASE Wakes
  <2>1. captures' \in 0..MaxCaptures
    BY <1>16, BullyAssumption DEF Wakes, Begin
  <2>2. QED
    BY <1>16, <1>0, <2>1 DEF Wakes, Begin
<1>17. CASE CaptureTimeout
  BY <1>17, <1>0, BullyAssumption DEF CaptureTimeout, Alive
<1>18. CASE Signal
  BY <1>18, <1>0, BullyAssumption DEF Signal, Cancelled
<1>19. CASE PageMoves
  BY <1>19, <1>0, BullyAssumption DEF PageMoves
<1>20. CASE ConsoleEvent
  <2>1. said \in 0..MaxEvents /\ said < MaxEvents /\ said' = said + 1
    BY <1>20 DEF ConsoleEvent
  <2>2. said' \in 0..MaxEvents
    BY ONLY <2>1, BullyAssumption
  <2>3. /\ UNCHANGED <<flags, pc, code, ctxs, page, listening, shown, result, frames>>
        /\ UNCHANGED <<asked, captures>>
    BY <1>20 DEF ConsoleEvent
  <2>4. QED
    BY <1>0, <2>2, <2>3
<1>21. CASE PodMoves
  BY <1>21, <1>0, BullyAssumption DEF PodMoves, Cancelled
<1>22. CASE UNCHANGED vars
  BY <1>22, <1>0, BullyAssumption DEF vars, podVars, bullyVars
<1>23. QED
  BY <1>1, <1>2, <1>3, <1>4, <1>5, <1>6, <1>7, <1>8, <1>9, <1>10, <1>11, <1>12, <1>13,
     <1>14, <1>15, <1>16, <1>17, <1>18, <1>19, <1>20, <1>21, <1>22
     DEF Next, BullyStep

\* Every step keeps what a run has by the place where it stands.
LEMMA StandsStep == IInv /\ [Next]_vars => Stands'
<1> SUFFICES ASSUME IInv, [Next]_vars PROVE Stands'
  OBVIOUS
<1> USE DEF IInv, TypeOK, Stands, Connecting, Capturing, flags, ctxs, tab
<1>1. CASE BadFlags
  BY <1>1 DEF BadFlags, Dies, Says, Line
<1>2. CASE GoodFlags
  BY <1>2 DEF GoodFlags
<1>3. CASE Connect
  BY <1>3 DEF Connect, Begin, Dies, Says, Line
<1>4. CASE OnceReturns
  BY <1>4 DEF OnceReturns, Dies, Says, SaysInfo, Marker, Line, Leaves
<1>5. CASE IntervalReturns
  BY <1>5 DEF IntervalReturns, Stops, Says, SaysInfo, Marker, Line, Leaves
<1>6. CASE WakesDone
  BY <1>6 DEF WakesDone, SaysInfo, Marker, Line, Leaves
<1>7. CASE GivesUp
  BY <1>7 DEF GivesUp, RunFails, Returns
<1>8. CASE OpenTab
  BY <1>8 DEF OpenTab, Step
<1>9. CASE ListenConsole
  BY <1>9 DEF ListenConsole, Step
<1>10. CASE Setup
  BY <1>10 DEF Setup, Step
<1>11. CASE Loaded
  BY <1>11 DEF Loaded, Step
<1>12. CASE FindText
  BY <1>12 DEF FindText, Step, RunWorks
<1>13. CASE TimesOut
  BY <1>13 DEF TimesOut, Alive, Returns
<1>14. CASE Screenshot
  BY <1>14 DEF Screenshot, Step
<1>15. CASE WriteFrame
  BY <1>15 DEF WriteFrame, Returns
<1>16. CASE Wakes
  BY <1>16 DEF Wakes, Begin
<1>17. CASE CaptureTimeout
  BY <1>17 DEF CaptureTimeout, Alive
<1>18. CASE Signal
  BY <1>18 DEF Signal, Cancelled
<1>19. CASE PageMoves
  BY <1>19 DEF PageMoves
<1>20. CASE ConsoleEvent
  BY <1>20 DEF ConsoleEvent, SaysInfo, Line
<1>21. CASE PodMoves
  BY <1>21 DEF PodMoves, Cancelled
<1>22. CASE UNCHANGED vars
  BY <1>22 DEF vars, podVars, bullyVars
<1>23. QED
  BY <1>1, <1>2, <1>3, <1>4, <1>5, <1>6, <1>7, <1>8, <1>9, <1>10, <1>11, <1>12, <1>13,
     <1>14, <1>15, <1>16, <1>17, <1>18, <1>19, <1>20, <1>21, <1>22
     DEF Next, BullyStep

\* Every step that cancels a context has one of the two reasons for it.
LEMMA ReasonsStep == IInv /\ [Next]_vars => Reasons'
<1> SUFFICES ASSUME IInv, [Next]_vars PROVE Reasons'
  OBVIOUS
<1> USE DEF IInv, TypeOK, Stands, Reasons, Connecting, Capturing, Errors, flags, ctxs,
            tab
<1>1. CASE BadFlags
  BY <1>1 DEF BadFlags, Dies, Says, Line
<1>2. CASE GoodFlags
  BY <1>2 DEF GoodFlags
<1>3. CASE Connect
  BY <1>3 DEF Connect, Begin, Dies, Says, Line
<1>4. CASE OnceReturns
  BY <1>4 DEF OnceReturns, Dies, Says, SaysInfo, Marker, Line, Leaves
<1>5. CASE IntervalReturns
  BY <1>5 DEF IntervalReturns, Stops, Says, SaysInfo, Marker, Line, Leaves
<1>6. CASE WakesDone
  BY <1>6 DEF WakesDone, SaysInfo, Marker, Line, Leaves
<1>7. CASE GivesUp
  BY <1>7 DEF GivesUp, RunFails, Returns
<1>8. CASE OpenTab
  BY <1>8 DEF OpenTab, Step
<1>9. CASE ListenConsole
  BY <1>9 DEF ListenConsole, Step
<1>10. CASE Setup
  BY <1>10 DEF Setup, Step
<1>11. CASE Loaded
  BY <1>11 DEF Loaded, Step
<1>12. CASE FindText
  BY <1>12 DEF FindText, Step, RunWorks
<1>13. CASE TimesOut
  BY <1>13 DEF TimesOut, Alive, Returns
<1>14. CASE Screenshot
  BY <1>14 DEF Screenshot, Step
<1>15. CASE WriteFrame
  BY <1>15, FrameNameFacts DEF WriteFrame, Returns
<1>16. CASE Wakes
  BY <1>16 DEF Wakes, Begin
<1>17. CASE CaptureTimeout
  BY <1>17 DEF CaptureTimeout, Alive
<1>18. CASE Signal
  BY <1>18 DEF Signal, Cancelled
<1>19. CASE PageMoves
  BY <1>19 DEF PageMoves
<1>20. CASE ConsoleEvent
  BY <1>20 DEF ConsoleEvent, SaysInfo, Line
<1>21. CASE PodMoves
  BY <1>21 DEF PodMoves, Cancelled
<1>22. CASE UNCHANGED vars
  BY <1>22 DEF vars, podVars, bullyVars
<1>23. QED
  BY <1>1, <1>2, <1>3, <1>4, <1>5, <1>6, <1>7, <1>8, <1>9, <1>10, <1>11, <1>12, <1>13,
     <1>14, <1>15, <1>16, <1>17, <1>18, <1>19, <1>20, <1>21, <1>22
     DEF Next, BullyStep

\* Every step keeps the listener for as long as there is a page.
LEMMA ListenedStep == IInv /\ [Next]_vars => Listened'
<1> SUFFICES ASSUME IInv, [Next]_vars PROVE Listened'
  OBVIOUS
<1> USE DEF IInv, TypeOK, Listened, Capturing, NoTab, flags, ctxs, tab
<1>1. CASE BadFlags
  BY <1>1 DEF BadFlags, Dies, Says, Line
<1>2. CASE GoodFlags
  BY <1>2 DEF GoodFlags
<1>3. CASE Connect
  BY <1>3 DEF Connect, Begin, Dies, Says, Line
<1>4. CASE OnceReturns
  BY <1>4 DEF OnceReturns, Dies, Says, SaysInfo, Marker, Line, Leaves
<1>5. CASE IntervalReturns
  BY <1>5 DEF IntervalReturns, Stops, Says, SaysInfo, Marker, Line, Leaves
<1>6. CASE WakesDone
  BY <1>6 DEF WakesDone, SaysInfo, Marker, Line, Leaves
<1>7. CASE GivesUp
  BY <1>7 DEF GivesUp, RunFails, Returns
<1>8. CASE OpenTab
  BY <1>8 DEF OpenTab, Step
<1>9. CASE ListenConsole
  BY <1>9 DEF ListenConsole, Step
<1>10. CASE Setup
  BY <1>10 DEF Setup, Step
<1>11. CASE Loaded
  BY <1>11 DEF Loaded, Step
<1>12. CASE FindText
  BY <1>12 DEF FindText, Step, RunWorks
<1>13. CASE TimesOut
  BY <1>13 DEF TimesOut, Alive, Returns
<1>14. CASE Screenshot
  BY <1>14 DEF Screenshot, Step
<1>15. CASE WriteFrame
  BY <1>15 DEF WriteFrame, Returns
<1>16. CASE Wakes
  BY <1>16 DEF Wakes, Begin
<1>17. CASE CaptureTimeout
  BY <1>17 DEF CaptureTimeout, Alive
<1>18. CASE Signal
  BY <1>18 DEF Signal, Cancelled
<1>19. CASE PageMoves
  BY <1>19 DEF PageMoves
<1>20. CASE ConsoleEvent
  BY <1>20 DEF ConsoleEvent, SaysInfo, Line
<1>21. CASE PodMoves
  BY <1>21 DEF PodMoves, Cancelled
<1>22. CASE UNCHANGED vars
  BY <1>22 DEF vars, podVars, bullyVars
<1>23. QED
  BY <1>1, <1>2, <1>3, <1>4, <1>5, <1>6, <1>7, <1>8, <1>9, <1>10, <1>11, <1>12, <1>13,
     <1>14, <1>15, <1>16, <1>17, <1>18, <1>19, <1>20, <1>21, <1>22
     DEF Next, BullyStep

\* Every step that ends a capture well has written its frame.
LEMMA CapturedStep == IInv /\ [Next]_vars => Captured'
<1> SUFFICES ASSUME IInv, [Next]_vars PROVE Captured'
  OBVIOUS
<1> USE DEF IInv, TypeOK, Errors, Stands, Captured, Capturing, Connecting, flags, ctxs,
            tab
<1>1. CASE BadFlags
  BY <1>1 DEF BadFlags, Dies, Says, Line
<1>2. CASE GoodFlags
  BY <1>2 DEF GoodFlags
<1>3. CASE Connect
  BY <1>3 DEF Connect, Begin, Dies, Says, Line
<1>4. CASE OnceReturns
  BY <1>4 DEF OnceReturns, Dies, Says, SaysInfo, Marker, Line, Leaves
<1>5. CASE IntervalReturns
  BY <1>5 DEF IntervalReturns, Stops, Says, SaysInfo, Marker, Line, Leaves
<1>6. CASE WakesDone
  BY <1>6 DEF WakesDone, SaysInfo, Marker, Line, Leaves
<1>7. CASE GivesUp
  BY <1>7 DEF GivesUp, RunFails, Returns
<1>8. CASE OpenTab
  BY <1>8 DEF OpenTab, Step
<1>9. CASE ListenConsole
  BY <1>9 DEF ListenConsole, Step
<1>10. CASE Setup
  BY <1>10 DEF Setup, Step
<1>11. CASE Loaded
  BY <1>11 DEF Loaded, Step
<1>12. CASE FindText
  BY <1>12 DEF FindText, Step, RunWorks
<1>13. CASE TimesOut
  BY <1>13 DEF TimesOut, Alive, Returns
<1>14. CASE Screenshot
  BY <1>14 DEF Screenshot, Step
<1>15. CASE WriteFrame
  BY <1>15, FrameNameFacts DEF WriteFrame, Returns
<1>16. CASE Wakes
  BY <1>16 DEF Wakes, Begin
<1>17. CASE CaptureTimeout
  BY <1>17 DEF CaptureTimeout, Alive
<1>18. CASE Signal
  BY <1>18 DEF Signal, Cancelled
<1>19. CASE PageMoves
  BY <1>19 DEF PageMoves
<1>20. CASE ConsoleEvent
  BY <1>20 DEF ConsoleEvent, SaysInfo, Line
<1>21. CASE PodMoves
  BY <1>21 DEF PodMoves, Cancelled
<1>22. CASE UNCHANGED vars
  BY <1>22 DEF vars, podVars, bullyVars
<1>23. QED
  BY <1>1, <1>2, <1>3, <1>4, <1>5, <1>6, <1>7, <1>8, <1>9, <1>10, <1>11, <1>12, <1>13,
     <1>14, <1>15, <1>16, <1>17, <1>18, <1>19, <1>20, <1>21, <1>22
     DEF Next, BullyStep

\* Every step to the screenshot comes from a tab that has shown the text.
LEMMA ShotStep == IInv /\ [Next]_vars => ShotAfterText'
<1> SUFFICES ASSUME IInv, [Next]_vars PROVE ShotAfterText'
  OBVIOUS
<1> USE DEF IInv, TypeOK, ShotAfterText, flags, ctxs, tab
<1>1. CASE BadFlags
  BY <1>1 DEF BadFlags, Dies, Says, Line
<1>2. CASE GoodFlags
  BY <1>2 DEF GoodFlags
<1>3. CASE Connect
  BY <1>3 DEF Connect, Begin, Dies, Says, Line
<1>4. CASE OnceReturns
  BY <1>4 DEF OnceReturns, Dies, Says, SaysInfo, Marker, Line, Leaves
<1>5. CASE IntervalReturns
  BY <1>5 DEF IntervalReturns, Stops, Says, SaysInfo, Marker, Line, Leaves
<1>6. CASE WakesDone
  BY <1>6 DEF WakesDone, SaysInfo, Marker, Line, Leaves
<1>7. CASE GivesUp
  BY <1>7 DEF GivesUp, RunFails, Returns
<1>8. CASE OpenTab
  BY <1>8 DEF OpenTab, Step
<1>9. CASE ListenConsole
  BY <1>9 DEF ListenConsole, Step
<1>10. CASE Setup
  BY <1>10 DEF Setup, Step
<1>11. CASE Loaded
  BY <1>11 DEF Loaded, Step
<1>12. CASE FindText
  BY <1>12 DEF FindText, Step, RunWorks
<1>13. CASE TimesOut
  BY <1>13 DEF TimesOut, Alive, Returns
<1>14. CASE Screenshot
  BY <1>14 DEF Screenshot, Step
<1>15. CASE WriteFrame
  BY <1>15 DEF WriteFrame, Returns
<1>16. CASE Wakes
  BY <1>16 DEF Wakes, Begin
<1>17. CASE CaptureTimeout
  BY <1>17 DEF CaptureTimeout, Alive
<1>18. CASE Signal
  BY <1>18 DEF Signal, Cancelled
<1>19. CASE PageMoves
  BY <1>19 DEF PageMoves
<1>20. CASE ConsoleEvent
  BY <1>20 DEF ConsoleEvent, SaysInfo, Line
<1>21. CASE PodMoves
  BY <1>21 DEF PodMoves, Cancelled
<1>22. CASE UNCHANGED vars
  BY <1>22 DEF vars, podVars, bullyVars
<1>23. QED
  BY <1>1, <1>2, <1>3, <1>4, <1>5, <1>6, <1>7, <1>8, <1>9, <1>10, <1>11, <1>12, <1>13,
     <1>14, <1>15, <1>16, <1>17, <1>18, <1>19, <1>20, <1>21, <1>22
     DEF Next, BullyStep

\* Every step that ends an interval run has a reason and is no failure.
LEMMA OutlivesStep == IInv /\ [Next]_vars => IntervalOutlivesFailures'
<1> SUFFICES ASSUME IInv, [Next]_vars PROVE IntervalOutlivesFailures'
  OBVIOUS
<1> USE DEF IInv, TypeOK, Stands, Reasons, IntervalOutlivesFailures, Connecting,
            Capturing, flags, ctxs, tab
<1>1. CASE BadFlags
  BY <1>1 DEF BadFlags, Dies, Says, Line
<1>2. CASE GoodFlags
  BY <1>2 DEF GoodFlags
<1>3. CASE Connect
  BY <1>3 DEF Connect, Begin, Dies, Says, Line
<1>4. CASE OnceReturns
  BY <1>4 DEF OnceReturns, Dies, Says, SaysInfo, Marker, Line, Leaves
<1>5. CASE IntervalReturns
  BY <1>5 DEF IntervalReturns, Stops, Says, SaysInfo, Marker, Line, Leaves
<1>6. CASE WakesDone
  BY <1>6 DEF WakesDone, SaysInfo, Marker, Line, Leaves
<1>7. CASE GivesUp
  BY <1>7 DEF GivesUp, RunFails, Returns
<1>8. CASE OpenTab
  BY <1>8 DEF OpenTab, Step
<1>9. CASE ListenConsole
  BY <1>9 DEF ListenConsole, Step
<1>10. CASE Setup
  BY <1>10 DEF Setup, Step
<1>11. CASE Loaded
  BY <1>11 DEF Loaded, Step
<1>12. CASE FindText
  BY <1>12 DEF FindText, Step, RunWorks
<1>13. CASE TimesOut
  BY <1>13 DEF TimesOut, Alive, Returns
<1>14. CASE Screenshot
  BY <1>14 DEF Screenshot, Step
<1>15. CASE WriteFrame
  BY <1>15 DEF WriteFrame, Returns
<1>16. CASE Wakes
  BY <1>16 DEF Wakes, Begin
<1>17. CASE CaptureTimeout
  BY <1>17 DEF CaptureTimeout, Alive
<1>18. CASE Signal
  BY <1>18 DEF Signal, Cancelled
<1>19. CASE PageMoves
  BY <1>19 DEF PageMoves
<1>20. CASE ConsoleEvent
  BY <1>20 DEF ConsoleEvent, SaysInfo, Line
<1>21. CASE PodMoves
  BY <1>21 DEF PodMoves, Cancelled
<1>22. CASE UNCHANGED vars
  BY <1>22 DEF vars, podVars, bullyVars
<1>23. QED
  BY <1>1, <1>2, <1>3, <1>4, <1>5, <1>6, <1>7, <1>8, <1>9, <1>10, <1>11, <1>12, <1>13,
     <1>14, <1>15, <1>16, <1>17, <1>18, <1>19, <1>20, <1>21, <1>22
     DEF Next, BullyStep

\* A sequence with one more element.
LEMMA Appended ==
  ASSUME NEW S, NEW s \in Seq(S), NEW x \in S
  PROVE  /\ Append(s, x) \in Seq(S) /\ Len(s) \in Nat
         /\ DOMAIN s = 1..Len(s) /\ DOMAIN Append(s, x) = 1..(Len(s) + 1)
         /\ Append(s, x)[Len(s) + 1] = x
         /\ \A i \in 1..Len(s) : Append(s, x)[i] = s[i]
OBVIOUS

\* What a step may add to the log: nothing; or one line, that fits when pages' lines
\* do. It is of the console exactly if a message was said, and of another kind only
\* when the run itself went on.
LEMMA LogGrows ==
  ASSUME IInv, [Next]_vars
  PROVE  \/ log' = log /\ (quiet \/ said' = said)
         \/ \E l \in Lines :
              /\ log' = Append(log, l) /\ (LinesFit => l.len <= ScanLimit)
              /\ \/ l.msg = "browser console" /\ said' = said + 1
                 \/ l.msg # "browser console" /\ said' = said
<1> DEFINE Adds(l) == /\ log' = Append(log, l) /\ (LinesFit => l.len <= ScanLimit)
                      /\ \/ l.msg = "browser console" /\ said' = said + 1
                         \/ l.msg # "browser console" /\ said' = said
           Goal == \/ log' = log /\ (quiet \/ said' = said)
                   \/ \E l \in Lines : Adds(l)
<1>1. ASSUME NEW json \in BOOLEAN, NEW m \in Messages, NEW path \in Names \cup {NoPath},
             m # "browser console", said' = said, log' = Append(log, Line(json, m, path, 1))
      PROVE  Goal
  <2> DEFINE l == Line(json, m, path, 1)
  <2>1. l \in Lines /\ l.msg = m /\ l.len = 1
    BY <1>1 DEF Line, Lines
  <2>2. LinesFit => l.len <= ScanLimit
    BY <2>1, BullyAssumption DEF LinesFit
  <2>3. log' = Append(log, l)
    BY <1>1
  <2> HIDE DEF l
  <2>4. QED
    BY <1>1, <2>1, <2>2, <2>3
<1>2. {"fatal", "captured", "capture failed", "shutting down"} \subseteq Messages
  BY DEF Messages
<1> HIDE DEF Goal
<1>3. CASE BadFlags \/ Connect \/ OnceReturns \/ IntervalReturns \/ WakesDone
  <2>1. said' = said /\ (pc = "returned" => result \in Errors \cup Names)
    BY <1>3
       DEF IInv, TypeOK, Captured, BadFlags, Connect, OnceReturns, IntervalReturns,
           WakesDone, tab
  <2>2. \/ log' = log
        \/ \E json \in BOOLEAN : log' = Append(log, Line(json, "fatal", NoPath, 1))
        \/ log' = Append(log, Line(TRUE, "shutting down", NoPath, 1))
        \/ log' = Append(log, Line(TRUE, "capture failed", NoPath, 1))
        \/ /\ log' = Append(log, Line(TRUE, "captured", result, 1))
           /\ result \in Names
    BY <1>3, <2>1
       DEF BadFlags, Connect, OnceReturns, IntervalReturns, WakesDone, Dies, Says,
           SaysInfo, Marker
  <2>3. QED
    BY <1>1, <1>2, <2>1, <2>2 DEF Goal
<1>4. CASE ConsoleEvent
  <2>1. CASE quiet
    BY <1>4, <2>1 DEF ConsoleEvent, SaysInfo, Goal
  <2>2. CASE ~quiet
    <3>1. listening
      BY <1>4 DEF IInv, Listened, ConsoleEvent
    <3>2. PICK t \in TextSizes, u \in UrlSizes :
            log' = Append(log, Line(TRUE, "browser console", NoPath, Truncate(t) + u))
      BY <1>4, <2>2, <3>1 DEF ConsoleEvent, SaysInfo
    <3>3. Truncate(t) \in Nat /\ Truncate(t) <= TextLimit + 1 /\ u \in Nat
      BY BullyAssumption DEF Truncate
    <3> DEFINE l == Line(TRUE, "browser console", NoPath, Truncate(t) + u)
    <3>4. l \in Lines /\ l.msg = "browser console" /\ l.len = Truncate(t) + u
      BY <3>3 DEF Line, Lines, Messages
    <3>5. LinesFit => Truncate(t) + u <= ScanLimit
      BY ONLY <3>3, BullyAssumption, u \in UrlSizes DEF LinesFit
    <3>6. said' = said + 1
      BY <1>4 DEF ConsoleEvent
    <3>7. log' = Append(log, l)
      BY <3>2
    <3> HIDE DEF l
    <3>8. QED
      BY <3>4, <3>5, <3>6, <3>7 DEF Goal
  <2>3. QED
    BY <2>1, <2>2
<1>5. CASE \/ GoodFlags \/ GivesUp \/ OpenTab \/ ListenConsole \/ Setup \/ Loaded
           \/ FindText \/ TimesOut \/ Screenshot \/ WriteFrame \/ Wakes
           \/ CaptureTimeout \/ Signal \/ PageMoves \/ PodMoves \/ UNCHANGED vars
  <2>1. log' = log /\ said' = said
    BY <1>5
       DEF GoodFlags, GivesUp, OpenTab, ListenConsole, Setup, Loaded, FindText,
           TimesOut, Screenshot, WriteFrame, Wakes, CaptureTimeout, Signal, PageMoves,
           PodMoves, Returns, Begin, vars, bullyVars, tab
  <2>2. QED
    BY <2>1 DEF Goal
<1>6. QED
  BY <1>3, <1>4, <1>5 DEF Next, BullyStep

\* Every step adds lines of the known form, that fit when pages' lines do.
LEMMA LogStep == IInv /\ [Next]_vars => LogType' /\ Short'
<1> SUFFICES ASSUME IInv, [Next]_vars PROVE LogType' /\ Short'
  OBVIOUS
<1>1. CASE log' = log
  BY <1>1 DEF IInv, LogType, Short
<1>2. ASSUME NEW l \in Lines, log' = Append(log, l), LinesFit => l.len <= ScanLimit
      PROVE  LogType' /\ Short'
  BY <1>2 DEF IInv, LogType, Short
<1>3. QED
  BY <1>1, <1>2, LogGrows

\* Every step that logs a message of a page counts one.
LEMMA MissedStep == IInv /\ [Next]_vars => NoMessageIsMissed'
<1> SUFFICES ASSUME IInv, [Next]_vars, ~quiet' PROVE Cardinality(ConsoleLines') = said'
  BY DEF NoMessageIsMissed
<1>1. ~quiet
  <2>1. quiet' = quiet
    BY DEF Next, BullyStep, BadFlags, GoodFlags, Connect, OnceReturns, IntervalReturns,
           WakesDone, GivesUp, OpenTab, ListenConsole, Setup, Loaded, FindText,
           TimesOut, Screenshot, WriteFrame, Wakes, CaptureTimeout, Signal, PageMoves,
           ConsoleEvent, PodMoves, vars, bullyVars, flags
  <2>2. QED
    BY <2>1
<1>2. Cardinality(ConsoleLines) = said /\ said \in Nat
  BY <1>1, BullyAssumption DEF IInv, NoMessageIsMissed, TypeOK
<1>0. log \in Seq(Lines)
  BY DEF IInv, LogType
<1>3. CASE log' = log /\ said' = said
  <2>1. ConsoleLines' = ConsoleLines
    BY <1>3 DEF ConsoleLines
  <2>2. QED
    BY <1>2, <1>3, <2>1
<1>4. ASSUME NEW l \in Lines, log' = Append(log, l),
             \/ l.msg = "browser console" /\ said' = said + 1
             \/ l.msg # "browser console" /\ said' = said
      PROVE  Cardinality(ConsoleLines') = said'
  <2> DEFINE n == Len(log)
  <2>1. /\ n \in Nat /\ DOMAIN log = 1..n /\ DOMAIN log' = 1..(n + 1)
        /\ log'[n + 1] = l /\ \A i \in 1..n : log'[i] = log[i]
    <3>1. l \in Lines
      BY <1>4
    <3>2. /\ Len(log) \in Nat /\ DOMAIN log = 1..Len(log)
          /\ DOMAIN Append(log, l) = 1..(Len(log) + 1)
          /\ Append(log, l)[Len(log) + 1] = l
          /\ \A i \in 1..Len(log) : Append(log, l)[i] = log[i]
      BY ONLY <1>0, <3>1, Appended
    <3>3. QED
      BY <1>4, <3>2
  <2> HIDE DEF n
  <2>2. IsFiniteSet(ConsoleLines) /\ n + 1 \notin ConsoleLines
    <3>1. ConsoleLines \subseteq 1..n
      BY <2>1 DEF ConsoleLines
    <3>2. IsFiniteSet(1..n)
      BY <2>1, FS_Interval
    <3>3. n + 1 \notin 1..n
      BY ONLY <2>1
    <3>4. QED
      BY <3>1, <3>2, <3>3, FS_Subset
  <2>3. CASE l.msg = "browser console" /\ said' = said + 1
    <3>1. ConsoleLines' = ConsoleLines \cup {n + 1}
      <4>1. ConsoleLines' = {i \in 1..(n + 1) : log'[i].msg = "browser console"}
        BY <2>1 DEF ConsoleLines
      <4>2. ConsoleLines = {i \in 1..n : log[i].msg = "browser console"}
        BY <2>1 DEF ConsoleLines
      <4>3. \A i : i \in 1..(n + 1) <=> i \in 1..n \/ i = n + 1
        BY ONLY <2>1
      <4>4. \A i : i \in 1..n => i # n + 1
        BY ONLY <2>1
      <4>5. ASSUME NEW i PROVE i \in ConsoleLines' <=> i \in ConsoleLines \cup {n + 1}
        BY ONLY <2>1, <2>3, <4>1, <4>2, <4>3, <4>4
      <4>6. QED
        BY ONLY <4>5
    <3>2. QED
      BY <1>2, <2>2, <2>3, <3>1, FS_AddElement
  <2>4. CASE l.msg # "browser console" /\ said' = said
    <3>1. ConsoleLines' = ConsoleLines
      <4>1. ConsoleLines' = {i \in 1..(n + 1) : log'[i].msg = "browser console"}
        BY <2>1 DEF ConsoleLines
      <4>2. ConsoleLines = {i \in 1..n : log[i].msg = "browser console"}
        BY <2>1 DEF ConsoleLines
      <4>3. \A i : i \in 1..(n + 1) <=> i \in 1..n \/ i = n + 1
        BY ONLY <2>1
      <4>4. \A i : i \in 1..n => i # n + 1
        BY ONLY <2>1
      <4>5. ASSUME NEW i PROVE i \in ConsoleLines' <=> i \in ConsoleLines
        BY ONLY <2>1, <2>4, <4>1, <4>2, <4>3, <4>4
      <4>6. QED
        BY ONLY <4>5
    <3>2. QED
      BY <1>2, <2>4, <3>1
  <2>5. QED
    BY <1>4, <2>3, <2>4
<1>5. QED
  BY <1>1, <1>3, <1>4, LogGrows

\* The flags stay as they were given.
LEMMA FlagsKept == [Next]_vars => flags' = flags
BY DEF Next, BullyStep, BadFlags, GoodFlags, Connect, OnceReturns, IntervalReturns,
       WakesDone, GivesUp, OpenTab, ListenConsole, Setup, Loaded, FindText, TimesOut,
       Screenshot, WriteFrame, Wakes, CaptureTimeout, Signal, PageMoves, ConsoleEvent,
       PodMoves, vars, bullyVars, flags

\* A line that is added decides or does not; those before it stay as they were.
LEMMA DecidingFacts ==
  ASSUME LogType, NEW l \in Lines, log' = Append(log, l)
  PROVE  /\ \A i \in Deciding : i \in Deciding' /\ log'[i] = log[i]
         /\ \A i \in Deciding' : i \in Deciding \/ (i = Len(log) + 1 /\ Decides(l))
         /\ Decides(l) => Len(log) + 1 \in Deciding'
         /\ log'[Len(log) + 1] = l
<1> DEFINE n == Len(log)
<1>1. /\ n \in Nat /\ DOMAIN log = 1..n /\ DOMAIN log' = 1..(n + 1)
      /\ log'[n + 1] = l /\ \A i \in 1..n : log'[i] = log[i]
  <2>1. l \in Lines /\ log \in Seq(Lines)
    BY DEF LogType
  <2>2. /\ Len(log) \in Nat /\ DOMAIN log = 1..Len(log)
        /\ DOMAIN Append(log, l) = 1..(Len(log) + 1)
        /\ Append(log, l)[Len(log) + 1] = l
        /\ \A i \in 1..Len(log) : Append(log, l)[i] = log[i]
    BY ONLY <2>1, Appended
  <2>3. QED
    BY <2>2
<1> HIDE DEF n
<1>2. \A i : i \in 1..(n + 1) <=> i \in 1..n \/ i = n + 1
  BY ONLY <1>1
<1>3. Deciding = {i \in 1..n : Decides(log[i])}
  BY <1>1 DEF Deciding
<1>4. Deciding' = {i \in 1..(n + 1) : Decides(log'[i])}
  BY <1>1 DEF Deciding, Decides
<1>5. QED
  BY ONLY <1>1, <1>2, <1>3, <1>4 DEF n

\* A step that adds no word of the run's own keeps the last one.
LEMMA WordKept ==
  ASSUME LastWord, LogType, flags' = flags, pc' = "exited" <=> pc = "exited",
         pc = "exited" => code' = code, frames \subseteq frames',
         \/ log' = log
         \/ \E l \in Lines : log' = Append(log, l) /\ ~Decides(l)
  PROVE  LastWord'
<1>1. Deciding' = Deciding /\ \A i \in Deciding : log'[i] = log[i]
  <2>1. CASE log' = log
    BY <2>1 DEF Deciding
  <2>2. ASSUME NEW l \in Lines, log' = Append(log, l), ~Decides(l)
        PROVE  Deciding' = Deciding /\ \A i \in Deciding : log'[i] = log[i]
    BY <2>2, DecidingFacts
  <2>3. QED
    BY <2>1, <2>2
<1>2. once' = once /\ quiet' = quiet /\ product' = product
  BY DEF flags
<1>3. QED
  BY <1>1, <1>2 DEF LastWord

\* A single run that ends says one last word.
LEMMA WordSaid ==
  ASSUME LastWord, LogType, flags' = flags, pc # "exited", pc' = "exited", once,
         frames' = frames, NEW l \in Lines,
         \/ code' = 1 /\ l.msg = "fatal" /\ log' = Append(log, l)
         \/ /\ code' = 0 /\ quiet /\ log' = log
         \/ /\ code' = 0 /\ log' = Append(log, l) /\ Decides(l)
            /\ l.msg = "captured" /\ l.path \in frames
            /\ \E n \in 1..MaxCaptures : l.path = Named(<<"chrome">>, product, n)
  PROVE  LastWord'
<1>1. Deciding = {} /\ once' = once /\ quiet' = quiet /\ product' = product
  BY DEF LastWord, flags
<1>2. CASE log' = log /\ code' = 0 /\ quiet
  <2>1. Deciding' = {}
    BY <1>1, <1>2 DEF Deciding
  <2>2. QED
    BY <1>1, <1>2, <2>1 DEF LastWord
<1>3. CASE ~(log' = log /\ code' = 0 /\ quiet)
  <2>0. log' = Append(log, l)
    BY <1>3
  <2>1. /\ \A i \in Deciding' : i = Len(log) + 1
        /\ log'[Len(log) + 1] = l /\ Decides(l) => Len(log) + 1 \in Deciding'
    BY <1>1, <2>0, DecidingFacts
  <2>2. \A i, j \in Deciding' : i = j
    BY <2>1
  <2>3. CASE code' = 1 /\ l.msg = "fatal"
    BY <1>1, <2>1, <2>2, <2>3, <2>0, DecidingFacts DEF LastWord
  <2>4. CASE /\ code' = 0 /\ Decides(l)
             /\ l.msg = "captured" /\ l.path \in frames
             /\ \E n \in 1..MaxCaptures : l.path = Named(<<"chrome">>, product, n)
    BY <1>1, <2>1, <2>2, <2>4, <2>0, DecidingFacts DEF LastWord
  <2>5. QED
    BY <1>3, <2>3, <2>4
<1>4. QED
  BY <1>2, <1>3

\* Every step keeps the last word the only one that decides.
LEMMA LastWordStep == IInv /\ [Next]_vars => LastWord'
<1> SUFFICES ASSUME IInv, [Next]_vars PROVE LastWord'
  OBVIOUS
<1>0. LastWord /\ LogType /\ flags' = flags
  BY FlagsKept DEF IInv
<1>1. ASSUME ~once PROVE LastWord'
  BY <1>0, <1>1 DEF LastWord, flags
<1>2. ASSUME NEW json \in BOOLEAN, once, pc # "exited", pc' = "exited", code' = 1,
             log' = Append(log, Line(json, "fatal", NoPath, 1)), frames' = frames
      PROVE  LastWord'
  <2>1. Line(json, "fatal", NoPath, 1) \in Lines
    BY DEF Line, Lines, Messages
  <2>2. Line(json, "fatal", NoPath, 1).msg = "fatal"
    BY DEF Line
  <2>3. QED
    BY <1>0, <1>2, <2>1, <2>2, WordSaid
<1>3. CASE BadFlags
  BY <1>1, <1>2, <1>3 DEF BadFlags, Dies, Says
<1>4. CASE Connect
  <2>1. CASE pc' = "open"
    <3>1. log' = log /\ pc # "exited" /\ pc' # "exited" /\ frames' = frames
      BY <1>4, <2>1 DEF Connect, Dies
    <3>2. QED
      BY <1>0, <3>1, WordKept
  <2>2. CASE pc' # "open"
    BY <1>1, <1>2, <1>4, <2>2 DEF Connect, Begin, Dies, Says
  <2>3. QED
    BY <2>1, <2>2
<1>5. CASE OnceReturns
  <2>1. CASE result \in Errors
    BY <1>1, <1>2, <1>5, <2>1 DEF OnceReturns, Dies, Says
  <2>2. CASE result \notin Errors
    <3> DEFINE l == Line(TRUE, "captured", result, 1)
    <3>1. PICK n \in 1..MaxCaptures :
            result \in frames /\ result = Named(<<"chrome">>, product, n)
      BY <1>5, <2>2 DEF IInv, Captured, OnceReturns
    <3>2. result \in Names /\ result # NoPath
      BY <3>1, NameFacts DEF IInv, TypeOK
    <3>3. /\ l \in Lines /\ Decides(l) /\ l.msg = "captured" /\ l.path = result
      BY <3>2 DEF Line, Lines, Messages, Decides
    <3>4. /\ pc # "exited" /\ pc' = "exited" /\ code' = 0 /\ frames' = frames /\ once
          /\ IF quiet THEN log' = log ELSE log' = Append(log, l)
      BY <1>5, <2>2 DEF OnceReturns, SaysInfo, Marker, Leaves
    <3> HIDE DEF l
    <3>5. QED
      BY <1>0, <3>1, <3>3, <3>4, WordSaid
  <2>3. QED
    BY <2>1, <2>2
<1>6. CASE IntervalReturns \/ WakesDone
  BY <1>1, <1>6 DEF IntervalReturns, WakesDone, IInv, Stands
<1>7. CASE ConsoleEvent
  <2>1. UNCHANGED <<pc, code, frames>>
    BY <1>7 DEF ConsoleEvent
  <2>2. log' = log \/ \E l \in Lines : log' = Append(log, l) /\ l.msg = "browser console"
    <3>1. said' # said
      <4>1. said \in 0..MaxEvents /\ said' = said + 1
        BY <1>7 DEF ConsoleEvent, IInv, TypeOK
      <4>2. QED
        BY ONLY <4>1, BullyAssumption
    <3>2. QED
      BY <3>1, LogGrows
  <2>3. \A l \in Lines : l.msg = "browser console" => ~Decides(l)
    BY DEF Decides
  <2>4. QED
    BY <1>0, <2>1, <2>2, <2>3, WordKept
<1>8. CASE \/ GoodFlags \/ GivesUp \/ OpenTab \/ ListenConsole \/ Setup \/ Loaded
           \/ FindText \/ TimesOut \/ Screenshot \/ WriteFrame \/ Wakes
           \/ CaptureTimeout \/ Signal \/ PageMoves \/ PodMoves \/ UNCHANGED vars
  <2>1. /\ log' = log /\ (pc' = "exited" <=> pc = "exited") /\ code' = code
        /\ frames \subseteq frames'
    BY <1>8
       DEF GoodFlags, GivesUp, OpenTab, ListenConsole, Setup, Loaded, FindText,
           TimesOut, Screenshot, WriteFrame, Wakes, CaptureTimeout, Signal, PageMoves,
           PodMoves, Returns, Begin, Step, vars, bullyVars
  <2>2. QED
    BY <1>0, <2>1, WordKept
<1>9. QED
  BY <1>3, <1>4, <1>5, <1>6, <1>7, <1>8 DEF Next, BullyStep

------------------------------------------------------------------------------

\* The inductive invariant holds in every reachable state.
THEOREM Invariance == Spec => []IInv
<1>1. Init => IInv
  <2> SUFFICES ASSUME Init PROVE IInv
    OBVIOUS
  <2> USE DEF Init, PodInit, BullyInit
  <2>1. TypeOK
    <3>1. faults \in 0..MaxFaults /\ said \in 0..MaxEvents /\ captures \in 0..MaxCaptures
      BY BullyAssumption
    <3>2. PodTypeOK
      BY <3>1 DEF PodTypeOK
    <3>3. result \in Errors \cup Names \cup {<<>>} /\ frames \subseteq Names
      OBVIOUS
    <3>4. QED
      BY <3>1, <3>2, <3>3 DEF TypeOK, Capturing, NoTab
  <2>2. LogType
    BY DEF LogType
  <2>3. Stands /\ Reasons /\ Listened /\ Captured
    <3>1. Stands
      BY DEF Stands, Connecting, Capturing
    <3>2. Reasons
      BY DEF Reasons
    <3>3. Listened /\ Captured
      BY DEF Listened, Captured, NoTab
    <3>4. QED
      BY <3>1, <3>2, <3>3
  <2>4. LastWord /\ Short
    BY DEF LastWord, Deciding, Short
  <2>5. ShotAfterText /\ IntervalOutlivesFailures
    BY DEF ShotAfterText, IntervalOutlivesFailures
  <2>6. NoMessageIsMissed
    <3>1. ConsoleLines = {}
      BY DEF ConsoleLines
    <3>2. QED
      BY <3>1, FS_EmptySet DEF NoMessageIsMissed
  <2>7. QED
    BY <2>1, <2>2, <2>3, <2>4, <2>5, <2>6 DEF IInv
<1>2. IInv /\ [Next]_vars => IInv'
  BY TypeStep, LogStep, StandsStep, ReasonsStep, ListenedStep, CapturedStep,
     LastWordStep, ShotStep, MissedStep, OutlivesStep DEF IInv
<1>3. QED
  BY <1>1, <1>2, PTL DEF Spec

\* Type correctness.
THEOREM TypeCorrect == Spec => []TypeOK
<1>1. IInv => TypeOK
  BY DEF IInv
<1>2. QED
  BY <1>1, Invariance, PTL

\* A screenshot is taken only of a tab that has shown the expected text, whatever the
\* page, the browser and the signals do (main.go:209-216, 237-256).
THEOREM TextBeforeShot == Spec => []ShotAfterText
<1>1. IInv => ShotAfterText
  BY DEF IInv
<1>2. QED
  BY <1>1, Invariance, PTL

\* Every message of a page is in the log, for any number of them and of captures
\* (main.go:184-190, console.go:41-50).
THEOREM EveryMessageIsLogged == Spec => []NoMessageIsMissed
<1>1. IInv => NoMessageIsMissed
  BY DEF IInv
<1>2. QED
  BY <1>1, Invariance, PTL

\* An interval run that once connected ends for a signal or with the connection, and
\* then with success, however many captures fail (main.go:158-178).
THEOREM IntervalsGoOn == Spec => []IntervalOutlivesFailures
<1>1. IInv => IntervalOutlivesFailures
  BY DEF IInv
<1>2. QED
  BY <1>1, Invariance, PTL

\* The log of a single run that is over tells its outcome, however many console events
\* lie between its lines, as long as these fit the scanner (parse.go:47-71).
THEOREM OutcomeIsTold ==
  ASSUME LinesFit
  PROVE  Spec => []LogTellsTheOutcome
<1>1. IInv => LogTellsTheOutcome
  <2> SUFFICES ASSUME IInv, pc = "exited", once, ~quiet
               PROVE  LET path == CapturedFramePath(log) IN
                      /\ path # NotCaptured <=> code = 0
                      /\ code = 0 => path \in frames /\ VersionFromFrame(path) = product
    BY DEF LogTellsTheOutcome
  <2>1. Scanned(log) = log
    <3>1. \A i \in DOMAIN log : log[i].len \in Nat /\ log[i].len <= ScanLimit
      <4>1. \A i \in DOMAIN log : log[i] \in Lines
        BY DEF IInv, LogType
      <4>2. \A i \in DOMAIN log : log[i].len <= ScanLimit
        BY LinesFit DEF IInv, Short
      <4>3. QED
        BY <4>1, <4>2 DEF Lines
    <3>2. {i \in DOMAIN log : log[i].len > ScanLimit} = {}
      BY <3>1, BullyAssumption
    <3>3. QED
      BY <3>2 DEF Scanned
  <2>2. CapturedFramePath(log) =
          IF Deciding # {} /\ log[First(Deciding)].msg = "captured"
          THEN log[First(Deciding)].path ELSE NotCaptured
    BY <2>1 DEF CapturedFramePath, Deciding
  <2>3. \A i \in Deciding : First(Deciding) = i
    <3>1. \A i \in Deciding : i \in Nat
      BY DEF Deciding, IInv, LogType
    <3>2. QED
      BY <3>1 DEF First, IInv, LastWord
  <2>4. CASE code = 1
    <3>1. \A i \in Deciding : log[i].msg = "fatal"
      BY <2>4 DEF IInv, LastWord
    <3>2. CapturedFramePath(log) = NotCaptured
      BY <2>2, <2>3, <3>1
    <3>3. QED
      BY <2>4, <3>2
  <2>5. CASE code = 0
    <3>1. PICK i \in Deciding :
            /\ log[i].msg = "captured" /\ log[i].path \in frames
            /\ \E n \in 1..MaxCaptures : log[i].path = Named(<<"chrome">>, product, n)
      BY <2>5 DEF IInv, LastWord
    <3>2. CapturedFramePath(log) = log[i].path
      BY <2>2, <2>3, <3>1
    <3>3. log[i].path # NotCaptured /\ VersionFromFrame(log[i].path) = product
      BY <3>1, NameFacts DEF IInv, TypeOK
    <3>4. QED
      BY <2>5, <3>1, <3>2, <3>3
  <2>6. QED
    BY <2>4, <2>5 DEF IInv, TypeOK
<1>2. QED
  BY <1>1, Invariance, PTL
=============================================================================
