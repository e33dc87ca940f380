----------------------------- MODULE SweepReport -----------------------------
(***************************************************************************)
(* What becomes of the results of a sweep: the tallies of the Markdown     *)
(* report, the RPC result, the names under which frames and logs are kept, *)
(* the bundle, and the bodies of comments (report.go, bundle.go,           *)
(* comments.go, and the mapping in smoketest.go).                          *)
(*                                                                         *)
(* A row is a Result: its policy, browser, tag and status, the local name  *)
(* of its frame or NoFrame, and its logs as a sequence of containers.      *)
(* Sizes are in units of a byte, far fewer than there are.                 *)
(***************************************************************************)
EXTENDS Naturals, Integers, SequencesExt, FiniteSetsExt

CONSTANTS
  MaxComment,  \* maxCommentBytes
  NoteSize,    \* the length of capTo's note, ...
  HeadSize,    \* ... of the header without the sha, ...
  LinkSize     \* ... and of the line that links the bundle

Statuses == {"pass", "fail", "not-ready", "error"}
NoFrame == <<>>
Containers(browser) == <<browser, "chrome-bully", "smoke">>

Column(rows, field) == [i \in DOMAIN rows |-> rows[i][field]]

\* The numbers of a finite set from the lowest on: before the k-th are k - 1 others.
Ascending(S) ==
  [k \in 1..Cardinality(S) |-> CHOOSE i \in S : Cardinality({j \in S : j < i}) = k - 1]

\* What is left of a sequence at some of its places.
At(seq, places) ==
  LET place == Ascending(places) IN [k \in DOMAIN place |-> seq[place[k]]]

\* The order of the maps' companion slices.
FirstSeen(seq) == At(seq, {i \in DOMAIN seq : \A j \in 1..(i - 1) : seq[j] # seq[i]})

OfPolicy(rows, name) == At(rows, {i \in DOMAIN rows : rows[i].policy = name})
OfBrowser(rows, name) == At(rows, {i \in DOMAIN rows : rows[i].browser = name})

Passed(rows) == Cardinality({i \in DOMAIN rows : rows[i].status = "pass"})

------------------------------------------------------------------------------
(* The report *)

AllPassed(rows) == \A i \in DOMAIN rows : rows[i].status = "pass"

PolicyStats(rows) ==
  LET names == FirstSeen(Column(rows, "policy"))
      Stat(name) == LET own == OfPolicy(rows, name)
                    IN  [name |-> name, passed |-> Passed(own), total |-> Len(own)]
  IN  [i \in DOMAIN names |-> Stat(names[i])]

\* Mutant: what passed once is a pass.
StatStatusOfAny(stat) == IF stat.passed > 0 THEN "pass" ELSE "fail"

StatStatus(stat) == IF stat.total > 0 /\ stat.passed = stat.total THEN "pass" ELSE "fail"

\* One section per policy and, in it, per browser.
BrowserGroups(rows) ==
  LET names == FirstSeen(Column(rows, "browser"))
      Group(name) == LET own == OfBrowser(rows, name)
                     IN  [browser |-> name, passed |-> Passed(own), rows |-> own]
  IN  [i \in DOMAIN names |-> Group(names[i])]

Sections(rows) ==
  LET names == FirstSeen(Column(rows, "policy"))
  IN  [i \in DOMAIN names |->
        [policy |-> names[i], groups |-> BrowserGroups(OfPolicy(rows, names[i]))]]

\* Every row of every table, in the order of the report.
Shown(rows) ==
  LET sections == Sections(rows) IN
  FlattenSeq([i \in DOMAIN sections |->
    LET groups == sections[i].groups
    IN  FlattenSeq([j \in DOMAIN groups |-> groups[j].rows])])

\* The bytes of each rune: a missing frame is shown as a dash of three bytes, and
\* the last lines of the logs follow for what did not pass.
RenderMarkdown(rows) ==
  LET Cell(r) == IF r.frame = NoFrame THEN <<1, 3>> ELSE <<1, 1>>
      Details(r) == IF r.status = "pass" THEN <<>> ELSE [k \in 1..2 * Len(r.logs) |-> 1]
      shown == Shown(rows)
  IN  FlattenSeq([i \in DOMAIN shown |-> Cell(shown[i]) \o Details(shown[i])])

SweepStatus(status) ==
  CASE status = "pass" -> "SWEEP_STATUS_PASS"
    [] status = "fail" -> "SWEEP_STATUS_FAIL"
    [] status = "not-ready" -> "SWEEP_STATUS_NOT_READY"
    [] status = "error" -> "SWEEP_STATUS_ERROR"
    [] OTHER -> "SWEEP_STATUS_UNSPECIFIED"

ReportToResult(rows) ==
  [success |-> AllPassed(rows),
   report |-> RenderMarkdown(rows),
   results |-> [i \in DOMAIN rows |->
                 [browser |-> rows[i].browser, tag |-> rows[i].tag, policy |-> rows[i].policy,
                  status |-> SweepStatus(rows[i].status)]]]

------------------------------------------------------------------------------
(* Names *)

\* Mutant: frames of different policies share a name.
LocalFrameNameShort(policy, browser, tag) == <<browser, tag>>

\* Policies are sequences of parts too.
LocalFrameName(policy, browser, tag) == policy \o <<browser, tag>>

BundleFramePath(r) == [dir |-> "frames", policy |-> r.policy, leaf |-> <<r.browser, r.tag>>]
BundleLogPath(r, container) ==
  [dir |-> "logs", policy |-> r.policy, leaf |-> <<r.browser, r.tag, container>>]

\* Whose picture, or log, it is.
Key(r) == <<r.policy, r.browser, r.tag>>

\* Mutant: a row without a frame is skipped with its logs.
WriteBundleFramed(rows, frames) ==
  FlattenSeq([i \in DOMAIN rows |->
    IF rows[i].frame = NoFrame THEN <<>>
    ELSE <<[name |-> BundleFramePath(rows[i]), data |-> frames[rows[i].frame]]>>
         \o [k \in DOMAIN rows[i].logs |->
              [name |-> BundleLogPath(rows[i], rows[i].logs[k]), data |-> Append(Key(rows[i]), rows[i].logs[k])]]])

\* The entries WriteBundle adds to report.json and report.md.
WriteBundle(rows, frames) ==
  FlattenSeq([i \in DOMAIN rows |->
    (IF rows[i].frame = NoFrame THEN <<>>
     ELSE <<[name |-> BundleFramePath(rows[i]), data |-> frames[rows[i].frame]]>>)
    \o [k \in DOMAIN rows[i].logs |->
         [name |-> BundleLogPath(rows[i], rows[i].logs[k]), data |-> Append(Key(rows[i]), rows[i].logs[k])]]])

------------------------------------------------------------------------------
(* Comments *)

Size(runes) ==
  LET end[k \in 0..Len(runes)] == IF k = 0 THEN 0 ELSE end[k - 1] + runes[k]
  IN  end[Len(runes)]

\* Back from the end to the last rune that ends within the room there is.
CutSize(runes, room) ==
  LET fitting == {k \in 1..Len(runes) : Size(SubSeq(runes, 1, k)) <= room}
  IN  Size(SubSeq(runes, 1, Max({0} \cup fitting)))

\* Mutant: the note comes on top of the limit.
CapToWithoutNote(runes, max) ==
  IF Size(runes) <= max THEN Size(runes)
  ELSE CutSize(runes, max) + NoteSize

\* The size of what capTo returns: the note is always there in full.
CapTo(runes, max) ==
  IF Size(runes) <= max THEN Size(runes)
  ELSE CutSize(runes, max - NoteSize) + NoteSize

BodyAck(sha) == HeadSize + sha
BodyResult(runes, sha, url) ==
  LET tail == IF url THEN LinkSize ELSE 0
  IN  HeadSize + sha + CapTo(runes, MaxComment - (HeadSize + sha) - tail) + tail
BodyRunError(sha, err) == CapTo([i \in 1..HeadSize + sha + err |-> 1], MaxComment)
==============================================================================
