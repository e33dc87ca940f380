------------------------------- MODULE LogScan -------------------------------
(***************************************************************************)
(* What a sweep reads out of the logs of the smoke Job (chromesweep's      *)
(* parse.go and versionFromFrame): both sides of the contract between      *)
(* chrome-bully, which writes log lines and names frames, and sweepOne,    *)
(* which looks for the frame in those lines.                               *)
(*                                                                         *)
(* A log is a sequence of lines. A name is a sequence of parts, written    *)
(* with dashes between them.                                               *)
(***************************************************************************)
EXTENDS Naturals, Sequences

CONSTANTS
  ScanLimit   \* the longest line bufio.Scanner takes, in the unit of a line's len

\* A line as sweepOne meets it: is it JSON, what is its msg, which path does it
\* give, how long is it? Its other fields are never looked at.
Line(json, msg, path, len) == [json |-> json, msg |-> msg, path |-> path, len |-> len]

NoPath == <<>>
NotCaptured == <<"no frame">>   \* the errors of capturedFramePath

First(S) == CHOOSE i \in S : \A j \in S : i <= j

\* The lines Scan hands out: it stops for good at one that does not fit, and
\* nobody asks for its error.
Scanned(log) ==
  LET long == {i \in DOMAIN log : log[i].len > ScanLimit} IN
  IF long = {} THEN log ELSE SubSeq(log, 1, First(long) - 1)

\* The lines that end the search.
Decides(l) == l.json /\ (l.msg = "fatal" \/ (l.msg = "captured" /\ l.path # NoPath))

CapturedFramePath(log) ==
  LET lines == Scanned(log)
      hits == {i \in DOMAIN lines : Decides(lines[i])}
  IN  IF hits # {} /\ lines[First(hits)].msg = "captured"
      THEN lines[First(hits)].path ELSE NotCaptured

\* Mutant: the version ends at the first dash.
VersionToFirstDash(path) == <<(IF path[1] = "chrome" THEN path[2] ELSE path[1])>>

\* "chrome-" is trimmed once, and the version ends at the last dash.
VersionFromFrame(path) ==
  LET base == IF path[1] = "chrome" THEN Tail(path) ELSE path IN
  IF Len(base) > 1 THEN SubSeq(base, 1, Len(base) - 1) ELSE <<>>
==============================================================================
