----------------------------- MODULE ChromeBully -----------------------------
(***************************************************************************)
(* chrome-bully (cmd/chrome-bully) next to the browser container it        *)
(* drives: it connects once, opens a fresh tab per capture, listens to its *)
(* console, loads the target, waits for a text, takes the screenshot and   *)
(* writes it, once or on an interval, until a signal. Its log is what      *)
(* sweepOne will look for the frame in (LogScan).                          *)
(*                                                                         *)
(* Console events come on a goroutine of chromedp's own, between any two   *)
(* steps. Contexts end by the capture's deadline, by a signal, or because  *)
(* chromedp ended them with the connection.                                *)
(***************************************************************************)
EXTENDS BrowserPod, LogScan, FiniteSets, TLC

CONSTANTS
  Products,    \* what browsers call their version, as parts of a name
  TextLimit,   \* consoleTextLimit, in the unit of a line's len
  TextSizes,   \* how much a page may say at once, and ...
  UrlSizes,    \* ... how long is what goes with it uncut
  MaxCaptures, \* bound: captures of an interval run
  MaxEvents    \* bound: console events of a run

ASSUME BullyAssumption ==
  /\ TextLimit \in Nat /\ ScanLimit \in Nat
  /\ TextSizes \subseteq Nat /\ UrlSizes \subseteq Nat
  /\ MaxCaptures \in Nat \ {0} /\ MaxEvents \in Nat /\ MaxFaults \in Nat
  /\ \A p \in Products : p \in Seq(STRING) /\ p # <<>>

VARIABLES
  once,        \* -interval is 0
  expect,      \* -expect-text is set
  quiet,       \* -slog-level is above info
  product,     \* what the browser calls its version
  pc,          \* where run and capture stand
  code,        \* the exit code
  browserCtx,  \* has the context of the browser been cancelled?
  captureCtx,  \* how the context of this capture stands
  conn,        \* the connection to DevTools
  page,        \* what the capture's tab shows
  listening,   \* is the console listener attached?
  result,      \* how capture returned: a frame's name or an error
  frames,      \* names of the files in out-dir
  log,         \* the lines on stderr
  asked,       \* history: SIGINT or SIGTERM came
  shown,       \* history: the expected text was on this tab's page
  said,        \* history: console events so far
  captures     \* history: captures begun

flags == <<once, expect, quiet, product>>
ctxs == <<browserCtx, captureCtx, conn>>
tab == <<page, listening, shown, said>>
bullyVars == <<flags, pc, code, ctxs, tab, result, frames, log, asked, captures>>
vars == <<podVars, bullyVars>>

Capturing == pc \in {"open", "listen", "setup", "loading", "wait", "shot", "write"}
Errors == {<<"deadline">>, <<"canceled">>, <<"other">>}
NoTab == "none"

Named(prefix, p, n) == prefix \o p \o <<ToString(n)>>
Names == {Named(<<"chrome">>, p, n) : p \in Products, n \in 1..MaxCaptures}

TypeOK ==
  /\ PodTypeOK
  /\ once \in BOOLEAN /\ expect \in BOOLEAN /\ quiet \in BOOLEAN
  /\ product \in Products
  /\ Capturing \/ pc \in {"flags", "connect", "returned", "sleep", "exited"}
  /\ code \in {0, 1}
  /\ browserCtx \in {"alive", "canceled"}
  /\ captureCtx \in {"alive", "deadline", "canceled"}
  /\ conn \in {"none", "up", "lost"}
  /\ page \in {NoTab, "blank", "challenge", "backend"}
  /\ result \in Errors \cup Names \cup {<<>>} /\ frames \subseteq Names
  /\ listening \in BOOLEAN /\ asked \in BOOLEAN /\ shown \in BOOLEAN
  /\ said \in 0..MaxEvents /\ captures \in 0..MaxCaptures

BullyInit ==
  /\ once \in BOOLEAN /\ expect \in BOOLEAN /\ quiet \in BOOLEAN
  /\ product \in Products
  /\ pc = "flags" /\ code = 0
  /\ browserCtx = "alive" /\ captureCtx = "alive" /\ conn = "none"
  /\ page = NoTab /\ listening = FALSE /\ shown = FALSE /\ said = 0
  /\ result = <<>> /\ frames = {} /\ log = <<>>
  /\ asked = FALSE /\ captures = 0

Init == PodInit /\ BullyInit

------------------------------------------------------------------------------
(* Logging. Markers are short lines; Info lines are dropped when quiet. *)

Says(l) == log' = Append(log, l)
SaysInfo(l) == log' = IF quiet THEN log ELSE Append(log, l)
Marker(msg, path) == Line(TRUE, msg, path, 1)

\* run returns an error: main logs it as fatal.
Dies(json) == Says(Line(json, "fatal", NoPath, 1)) /\ pc' = "exited" /\ code' = 1

Leaves == pc' = "exited" /\ code' = 0

\* Mutant: no cap on what a page may say.
TruncateNot(len) == len

\* At most the limit, and a mark that something is missing.
Truncate(len) == IF len <= TextLimit THEN len ELSE TextLimit + 1

------------------------------------------------------------------------------
(* run *)

\* A bad -slog-level is fatal before the JSON handler is in place; a bad -header,
\* or an out-dir that cannot be made, after.
BadFlags ==
  /\ pc = "flags"
  /\ \E json \in BOOLEAN : Dies(json)
  /\ UNCHANGED <<flags, ctxs, tab, result, frames, asked, captures>>

GoodFlags ==
  /\ pc = "flags"
  /\ pc' = "connect"
  /\ UNCHANGED <<flags, code, ctxs, tab, result, frames, log, asked, captures>>

\* capture derives its context from the browser's.
Begin ==
  /\ pc' = "open"
  /\ captureCtx' = browserCtx
  /\ captures' = captures + 1
  /\ shown' = FALSE

\* The first Run asks for the version, with no deadline of its own: a browser
\* that takes the connection and is silent keeps it waiting.
Connect ==
  /\ pc = "connect"
  /\ \/ /\ Answers /\ browserCtx = "alive"
        /\ conn' = "up"
        /\ Begin
        /\ UNCHANGED <<code, log>>
     \/ /\ (~Answers /\ ~Silent) \/ browserCtx = "canceled"
        /\ Dies(TRUE)
        /\ UNCHANGED <<captureCtx, captures, shown, conn>>
  /\ UNCHANGED <<flags, browserCtx, page, listening, said, result, frames, asked>>

\* One capture is all, and its error is run's.
OnceReturns ==
  /\ pc = "returned" /\ once
  /\ IF result \in Errors THEN Dies(TRUE)
     ELSE SaysInfo(Marker("captured", result)) /\ Leaves
  /\ UNCHANGED <<flags, ctxs, tab, result, frames, asked, captures>>

\* Mutant: a capture's deadline is taken for a request to stop.
StopsOnDeadline(r) == r \in {<<"canceled">>, <<"deadline">>}

\* errors.Is(err, context.Canceled)
Stops(r) == r = <<"canceled">>

IntervalReturns ==
  /\ pc = "returned" /\ ~once
  /\ IF Stops(result) THEN SaysInfo(Marker("shutting down", NoPath)) /\ Leaves
     ELSE /\ pc' = "sleep" /\ UNCHANGED code
          /\ IF result \in Errors THEN Says(Marker("capture failed", NoPath))
             ELSE SaysInfo(Marker("captured", result))
  /\ UNCHANGED <<flags, ctxs, tab, result, frames, asked, captures>>

\* The select of the loop. With both channels ready either may win.
Wakes ==
  /\ pc = "sleep" /\ captures < MaxCaptures
  /\ Begin
  /\ UNCHANGED <<flags, code, browserCtx, conn, page, listening, said, result, frames, log, asked>>

WakesDone ==
  /\ pc = "sleep" /\ asked
  /\ SaysInfo(Marker("shutting down", NoPath)) /\ Leaves
  /\ UNCHANGED <<flags, ctxs, tab, result, frames, asked, captures>>

------------------------------------------------------------------------------
(* capture *)

Alive == captureCtx = "alive"

\* A Run that comes back without an error, and one that does not.
RunWorks == Alive /\ conn = "up" /\ Answers
RunFails(err) ==
  \/ ~Alive /\ err = <<captureCtx>>
  \/ Alive /\ (conn = "lost" \/ Answers) /\ err = <<"other">>

Step(from, to) == pc = from /\ pc' = to

\* The deferred cancels close the tab, its listener with it.
Returns(r) ==
  /\ pc' = "returned" /\ result' = r
  /\ page' = NoTab /\ listening' = FALSE /\ UNCHANGED <<shown, said>>

GivesUp ==
  /\ pc \in {"open", "setup", "loading", "shot"}
  /\ \E err \in Errors : RunFails(err) /\ Returns(err)
  /\ UNCHANGED <<flags, code, ctxs, frames, log, asked, captures>>

\* The empty Run makes the target exist.
OpenTab ==
  /\ Step("open", "listen") /\ RunWorks
  /\ page' = "blank"
  /\ UNCHANGED <<flags, code, ctxs, listening, shown, said, result, frames, log, asked, captures>>

\* Mutant: the tab is set up first and listened to afterwards.
ListenLate ==
  /\ Step("listen", "setup")
  /\ UNCHANGED <<flags, code, ctxs, tab, result, frames, log, asked, captures>>

ListenConsole ==
  /\ Step("listen", "setup")
  /\ listening' = TRUE
  /\ UNCHANGED <<flags, code, ctxs, page, shown, said, result, frames, log, asked, captures>>

\* One Run enables the console domains, sets headers and viewport, and begins to
\* navigate. Anubis answers with its challenge, or lets the browser through.
Setup ==
  /\ Step("setup", "loading") /\ RunWorks
  /\ page' \in {"challenge", "backend"}
  /\ UNCHANGED <<flags, code, ctxs, listening, shown, said, result, frames, log, asked, captures>>

Loaded ==
  /\ Step("loading", IF expect THEN "wait" ELSE "shot") /\ RunWorks
  /\ UNCHANGED <<flags, code, ctxs, tab, result, frames, log, asked, captures>>

\* Mutant: an evaluation that fails ends the wait.
FindTextOrError ==
  /\ Step("wait", "shot") /\ Alive
  /\ shown' = (shown \/ page = "backend")
  /\ UNCHANGED <<flags, code, ctxs, page, listening, said, result, frames, log, asked, captures>>

\* waitForText evaluates every 250 ms; errors, and pages without the text, are "not yet".
FindText ==
  /\ Step("wait", "shot") /\ RunWorks /\ page = "backend"
  /\ shown' = TRUE
  /\ UNCHANGED <<flags, code, ctxs, page, listening, said, result, frames, log, asked, captures>>

\* Mutant: the poll does not look at the context.
TimesOutNever ==
  /\ pc = "wait" /\ captureCtx = "canceled" /\ Returns(<<"canceled">>)
  /\ UNCHANGED <<flags, code, ctxs, frames, log, asked, captures>>

TimesOut ==
  /\ pc = "wait" /\ ~Alive /\ Returns(<<captureCtx>>)
  /\ UNCHANGED <<flags, code, ctxs, frames, log, asked, captures>>

\* FullScreenshot takes the page as it is now.
Screenshot ==
  /\ Step("shot", "write") /\ RunWorks
  /\ UNCHANGED <<flags, code, ctxs, tab, result, frames, log, asked, captures>>

\* A version leads the name and the time ends it.
FrameName == Named(<<"chrome">>, product, captures)

\* Mutant: the error of os.WriteFile is only logged.
WriteUnchecked ==
  /\ pc = "write" /\ Returns(FrameName)
  /\ frames' \in {frames, frames \cup {FrameName}}
  /\ UNCHANGED <<flags, code, ctxs, log, asked, captures>>

\* os.WriteFile, which may fail.
WriteFrame ==
  /\ pc = "write"
  /\ \/ Returns(FrameName) /\ frames' = frames \cup {FrameName}
     \/ Returns(<<"other">>) /\ UNCHANGED frames
  /\ UNCHANGED <<flags, code, ctxs, log, asked, captures>>

------------------------------------------------------------------------------
(* What goes on meanwhile *)

\* -capture-timeout runs out.
CaptureTimeout ==
  /\ Capturing /\ Alive
  /\ captureCtx' = "deadline"
  /\ UNCHANGED <<flags, pc, code, browserCtx, conn, tab, result, frames, log, asked, captures>>

\* Every context is derived from the one that signals cancel.
Cancelled ==
  /\ browserCtx' = "canceled"
  /\ captureCtx' = IF Capturing /\ Alive THEN "canceled" ELSE captureCtx

\* SIGINT or SIGTERM. Until NotifyContext is called it just kills.
Signal ==
  /\ pc \notin {"flags", "exited"} /\ ~asked
  /\ asked' = TRUE
  /\ Cancelled
  /\ UNCHANGED <<flags, pc, code, conn, tab, result, frames, log, captures>>

\* The page navigates on, by itself.
PageMoves ==
  /\ page \in {"challenge", "backend"} /\ devtools = "serving"
  /\ page' \in {"challenge", "backend"} \ {page}
  /\ UNCHANGED <<flags, pc, code, ctxs, listening, shown, said, result, frames, log, asked, captures>>

\* The page throws, logs or is blocked. What it says is cut; the address that goes with
\* it, and the text of an exception, are not and are both in url. (Messages below the level info are not looked at here.)
ConsoleEvent ==
  /\ page \in {"challenge", "backend"} /\ said < MaxEvents
  /\ said' = said + 1
  /\ IF listening
     THEN \E text \in TextSizes, url \in UrlSizes :
            SaysInfo(Line(TRUE, "browser console", NoPath, Truncate(text) + url))
     ELSE UNCHANGED log
  /\ UNCHANGED <<flags, pc, code, ctxs, page, listening, shown, result, frames, asked, captures>>

------------------------------------------------------------------------------

BullyStep ==
  \/ BadFlags \/ GoodFlags \/ Connect \/ OnceReturns \/ IntervalReturns \/ WakesDone
  \/ GivesUp \/ OpenTab \/ ListenConsole \/ Setup \/ Loaded \/ FindText \/ TimesOut
  \/ Screenshot \/ WriteFrame

\* The pod goes on by itself. A container that ends, or a server that dies, takes
\* the connection along, and chromedp may cancel the browser's context for it.
PodMoves ==
  /\ PodNext
  /\ IF conn = "up" /\ devtools' \in {"none", "dead"}
     THEN conn' = "lost" /\ (Cancelled \/ UNCHANGED <<browserCtx, captureCtx>>)
     ELSE UNCHANGED ctxs
  /\ UNCHANGED <<flags, pc, code, tab, result, frames, log, asked, captures>>

Next ==
  \/ PodMoves
  \/ /\ BullyStep \/ Wakes \/ CaptureTimeout \/ Signal \/ PageMoves \/ ConsoleEvent
     /\ UNCHANGED podVars

\* The scheduler runs what can run, timers fire, and the kubelet does its work.
\* Nothing is assumed of pages, signals and faults.
Spec ==
  /\ Init /\ [][Next]_vars
  /\ WF_vars(BullyStep /\ UNCHANGED podVars)
  /\ WF_vars(CaptureTimeout /\ UNCHANGED podVars)
  /\ WF_vars(PodProgress /\ PodMoves)

------------------------------------------------------------------------------
(* Properties *)

\* What sweepOne makes of the log of a run that is over: it finds a frame exactly
\* if the run succeeded, that frame is in out-dir, and the version in its name is
\* the browser's, however many console events came between the lines. It takes a
\* log level at which "captured" is logged (main.go:146-153, console.go:13-24,
\* parse.go:47-71, sweep.go:327-336).
LogTellsTheOutcome ==
  pc = "exited" /\ once /\ ~quiet =>
    LET path == CapturedFramePath(log) IN
    /\ path # NotCaptured <=> code = 0
    /\ code = 0 => path \in frames /\ VersionFromFrame(path) = product

\* With -expect-text a screenshot is taken of a tab that has shown the text, not
\* of a challenge that was never passed (main.go:209-216, 237-256). That it still
\* shows it by then is not promised.
ShotAfterText == expect /\ pc \in {"shot", "write"} => shown

\* No message of a page is lost, those of the first paint included
\* (main.go:184-190, console.go:41-50).
ConsoleLines == {i \in DOMAIN log : log[i].msg = "browser console"}
NoMessageIsMissed ==
  ~quiet => Cardinality(ConsoleLines) = said

\* An interval run outlives captures that fail: once connected it ends for a
\* signal or with the connection, and never as a failure (main.go:158-178).
IntervalOutlivesFailures ==
  pc = "exited" /\ ~once /\ captures > 0 => code = 0 /\ (asked \/ conn = "lost")

\* A single run ends whatever the page does, and whenever the browser dies or falls
\* silent; while it connects only the kubelet's probe sees to that. Any run ends that
\* is asked to, wherever it stands (main.go:96, 110-121, 170-183).
RunsEnd == once \/ asked ~> pc = "exited"

==============================================================================
