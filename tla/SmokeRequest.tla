----------------------------- MODULE SmokeRequest -----------------------------
(***************************************************************************)
(* One smoke test from the command line to whoever reads its outcome:      *)
(* gubalctl calls gubald and waits (or, for a pull request, has its sweep  *)
(* accepted and reported in comments), chrome-sweep runs the sweep itself. *)
(* What Run does in between is AnubisSweep's and SweepPool's; here it      *)
(* returns a row for every version and policy, in order and with any       *)
(* status, or fails.                                                       *)
(***************************************************************************)
EXTENDS GubaldProcess, VersionNames, SweepReport

CONSTANTS
  Half,         \* half of the values of a protobuf int32
  MinChrome,    \* the request's versions are greater than these
  MinFirefox,
  MaxName,      \* policyNameMaxLen
  AllowedRepos, \* -github-repos
  Invocations,  \* command lines: tool, csv lists, policy directory, repo, pr, sha
  MaxOdd        \* bound: rows of a sweep that are not a plain pass

ASSUME RequestAssumption ==
  /\ Half \in Nat \ {0} /\ MinChrome \in Nat /\ MinFirefox \in Nat /\ MaxName \in Nat
  /\ MaxOdd \in Nat /\ MaxBreaks \in Nat
  /\ NoteSize \in Nat /\ HeadSize \in Nat /\ LinkSize \in Nat
  /\ MaxComment \in Nat /\ HeadSize + LinkSize + NoteSize <= MaxComment

VARIABLES
  inv,      \* the command line
  client,   \* where the tool stands
  exit,     \* its exit code
  request,  \* what gubalctl sends
  worker,   \* where executeSweep and what follows it stand, in gubald or in chrome-sweep
  targets,  \* cfg.Browsers: a sequence of browsers with their tags
  policies, \* cfg.Policies, in order
  rows,     \* the report's results
  frames,   \* framesDir, from local names to pictures
  zip,      \* report.zip
  bucket,   \* the bundles in object storage
  url,      \* whether the upload returned a link to it
  reply,    \* what the handler of SmokeTest returned, as a set of at most one
  comments, \* on pull requests
  out       \* what chrome-sweep wrote to -out

toolVars == <<inv, client, exit, request>>
sweepVars == <<targets, policies, rows, frames>>
resultVars == <<zip, bucket, url, reply, comments, out>>
vars == <<procVars, toolVars, worker, sweepVars, resultVars>>

Blank == [kind |-> "blank", n |-> 0]   \* an empty field of a csv list
Junk == [kind |-> "junk", n |-> 0]     \* one that is not a number
Number(n) == [kind |-> "number", n |-> n]
Field == [kind : {"blank", "junk", "number"}, n : Int]

\* The entries of a policy directory that are read; the rest is another directory, or no *.yaml.
Yaml(dir) == {e \in dir : e.kind # "other"}

\* A command line has two lists with fields, and a directory whose files have names of
\* their own.
ASSUME InvocationsAssumption ==
  \A i \in Invocations :
    /\ i.tool \in {"gubalctl", "chrome-sweep"} /\ i.pr \in Int /\ i.sha \in Nat
    /\ i.chrome \in Seq(Field) /\ i.firefox \in Seq(Field)
    /\ \A k \in DOMAIN i.chrome : i.chrome[k].kind = "number" \/ i.chrome[k].n = 0
    /\ \A k \in DOMAIN i.firefox : i.firefox[k].kind = "number" \/ i.firefox[k].n = 0
    /\ IsFiniteSet(i.dir)
    /\ \A e \in Yaml(i.dir) : e.rank \in Int /\ e.name \in Seq(STRING)
    /\ \A e, f \in Yaml(i.dir) : e.rank = f.rank \/ e.name = f.name => e = f

Bad == <<>>   \* the error of the parsers below, which never return an empty list
NoRequest == [chrome |-> <<>>, firefox |-> <<>>, policies |-> {}, pr |-> 0]
Remote == inv.tool = "gubalctl"

\* wantsAsync
Async == Remote /\ inv.repo # "none" /\ inv.pr > 0

TypeOK ==
  /\ ProcTypeOK
  /\ inv \in Invocations
  /\ client \in {"flags", "calling", "exited"} /\ exit \in {0, 1}
  /\ worker \in {"idle", "ack", "targets", "sweep", "bundle", "upload", "post", "files",
                 "done", "gone"}
  /\ \A i \in DOMAIN rows : rows[i].status \in Statuses
  /\ \A t \in DOMAIN targets : targets[t].tags # Bad
  /\ \A i \in DOMAIN comments : comments[i].size <= MaxComment
  /\ url \in BOOLEAN /\ Cardinality(reply) <= 1
  /\ out \subseteq {"report.zip", "report.md"}

Init ==
  /\ ProcInit
  /\ inv \in Invocations
  /\ client = "flags" /\ exit = 0 /\ request = NoRequest
  /\ worker = "idle" /\ targets = <<>> /\ policies = <<>> /\ rows = <<>> /\ frames = <<>>
  /\ zip = <<>> /\ bucket = {} /\ url = FALSE /\ reply = {} /\ comments = <<>> /\ out = {}

Exit(code) == client' = "exited" /\ exit' = code

------------------------------------------------------------------------------
(* Parsing *)

\* Mutant: the list is read from its end.
TypedFromTheEnd(csv) == Reverse(At(csv, {i \in DOMAIN csv : csv[i] # Blank}))

Typed(csv) == At(csv, {i \in DOMAIN csv : csv[i] # Blank})

\* Mutant: duplicates are dropped instead of rejected.
ParseVersionsOnce(args) == FirstSeen(Typed(args))

ParseVersions(args) == IF IsInjective(Typed(args)) THEN Typed(args) ELSE Bad

\* The conversion int32(n).
Int32(n) ==
  LET m == n % (2 * Half) IN IF m < Half THEN m ELSE m - 2 * Half

\* gubalctl's parseVersions.
ParseMajors(csv) ==
  LET t == Typed(csv) IN
  IF \E i \in DOMAIN t : t[i] = Junk THEN Bad ELSE [i \in DOMAIN t |-> Int32(t[i].n)]

\* parseInts, and ParseVersions of its result.
ParseInts(vs) == ParseVersions([i \in DOMAIN vs |-> Number(vs[i])])

\* Mutant: Firefox comes first.
TargetsSwapped(chrome, firefox) ==
  <<[b |-> FirefoxBrowser, tags |-> firefox], [b |-> ChromeBrowser, tags |-> chrome]>>

Targets(chrome, firefox) ==
  <<[b |-> ChromeBrowser, tags |-> chrome], [b |-> FirefoxBrowser, tags |-> firefox]>>

\* Only an empty list skips its browser.
BrowsersFromFlags(chrome, firefox) ==
  LET all == Targets(ParseVersions(chrome), ParseVersions(firefox))
      wrong(csv) == ParseVersions(csv) = Bad /\ csv # <<Blank>>
  IN  IF wrong(chrome) \/ wrong(firefox) THEN Bad
      ELSE At(all, {k \in DOMAIN all : all[k].tags # Bad})

ValidPolicyName(p) == p.wellNamed /\ p.length <= MaxName

\* Both readers of a policy directory.
LoadPolicies(dir) ==
  IF \E e \in Yaml(dir) : ~ValidPolicyName(e) \/ e.kind = "unreadable" THEN {} ELSE Yaml(dir)

\* Mutant: the order of the map.
SortedInReverse(S) ==
  LET rank == Ascending({p.rank : p \in S}) IN
  [k \in DOMAIN rank |-> CHOOSE p \in S : p.rank = rank[Len(rank) - k + 1]]

\* LoadPoliciesFromDir and PoliciesFromMap: rank is the place among all names as text.
Sorted(S) ==
  LET rank == Ascending({p.rank : p \in S}) IN
  [k \in DOMAIN rank |-> CHOOSE p \in S : p.rank = rank[k]]

\* protovalidate, with the rules of gubal.proto.
Valid(req) ==
  /\ req.chrome # <<>> /\ \A i \in DOMAIN req.chrome : req.chrome[i] > MinChrome
  /\ req.firefox # <<>> /\ \A i \in DOMAIN req.firefox : req.firefox[i] > MinFirefox
  /\ req.policies # {}
  /\ \A p \in req.policies : ValidPolicyName(p) /\ p.kind # "empty"
  /\ Async => inv.repo # "malformed" /\ req.pr > 0

------------------------------------------------------------------------------
(* gubalctl *)

\* Everything that can be wrong with the command line ...
BadCommandLine ==
  /\ client = "flags" /\ Remote
  /\ \/ ~inv.complete
     \/ ParseMajors(inv.chrome) = Bad \/ ParseMajors(inv.firefox) = Bad
     \/ LoadPolicies(inv.dir) = {}
  /\ Exit(1)
  /\ UNCHANGED <<procVars, inv, request, worker, sweepVars, resultVars>>

\* ... or a request is signed and sent.
Send ==
  /\ client = "flags" /\ Remote /\ inv.complete
  /\ ParseMajors(inv.chrome) # Bad /\ ParseMajors(inv.firefox) # Bad
  /\ LoadPolicies(inv.dir) # {}
  /\ client' = "calling"
  /\ request' = [chrome |-> ParseMajors(inv.chrome), firefox |-> ParseMajors(inv.firefox),
                 policies |-> LoadPolicies(inv.dir), pr |-> Int32(inv.pr)]
  /\ UNCHANGED <<procVars, inv, exit, worker, sweepVars, resultVars>>

Waiting == client = "calling" /\ Remote

\* Mutant: only a connection that is refused is an error.
CallFailsUnserved ==
  /\ Waiting /\ worker = "idle" /\ ~Serving
  /\ Exit(1)
  /\ UNCHANGED <<procVars, inv, request, worker, sweepVars, resultVars>>

\* Nobody is there; the sweep could not run; or, when it is waited for, a proxy has
\* waited for long enough. The context of such a call is cancelled then: its sweep goes
\* on until a step of its own looks at it and fails (SweepFails), or to its end.
CallFails ==
  /\ Waiting
  /\ (worker = "idle" /\ ~Serving) \/ worker = "gone" \/ (worker # "idle" /\ ~Async)
  /\ Exit(1)
  /\ UNCHANGED <<procVars, inv, request, worker, sweepVars, resultVars>>

\* SubmitSmokeTest returns while its goroutine works.
Accepted ==
  /\ Waiting /\ Async /\ worker # "idle"
  /\ Exit(0)
  /\ UNCHANGED <<procVars, inv, request, worker, sweepVars, resultVars>>

\* Mutant: a report is a success.
VerdictOfAnyReport(r) == IF r.results = <<>> THEN 1 ELSE 0

\* The report is printed, and a failed test is an error.
Verdict(r) == IF r.success THEN 0 ELSE 1

Answered ==
  /\ Waiting
  /\ \E r \in reply : Exit(Verdict(r))
  /\ UNCHANGED <<procVars, inv, request, worker, sweepVars, resultVars>>

------------------------------------------------------------------------------
(* gubald *)

\* GitHub refuses what is too long; that is only logged. (A GitHub that is away is in
\* SmokeService.)
Post(kind, size) ==
  comments' = IF size > MaxComment THEN comments
              ELSE Append(comments, [kind |-> kind, pr |-> request.pr, size |-> size, link |-> url'])

Arrives == Waiting /\ Serving /\ worker = "idle"

Refused ==
  /\ Arrives
  /\ ~Valid(request) \/ (Async /\ inv.repo \notin AllowedRepos)
  /\ Exit(1)
  /\ UNCHANGED <<procVars, inv, request, worker, sweepVars, resultVars>>

\* Another sweep holds the slot.
Busy ==
  /\ Arrives /\ Valid(request) /\ (Async => inv.repo \in AllowedRepos)
  /\ Exit(1)
  /\ url' = url
  /\ IF Async THEN Post("busy", HeadSize) ELSE UNCHANGED comments
  /\ UNCHANGED <<procVars, inv, request, worker, sweepVars, zip, bucket, reply, out>>

Admitted ==
  /\ Arrives /\ Valid(request) /\ (Async => inv.repo \in AllowedRepos)
  /\ worker' = IF Async THEN "ack" ELSE "targets"
  /\ UNCHANGED <<procVars, toolVars, sweepVars, resultVars>>

PostAck ==
  /\ worker = "ack" /\ worker' = "targets"
  /\ url' = url /\ Post("ack", BodyAck(inv.sha))
  /\ UNCHANGED <<procVars, toolVars, sweepVars, zip, bucket, reply, out>>

\* executeSweep returned an error, which a submit has as its closing comment.
SweepFails ==
  /\ url' = url
  /\ IF Async THEN \E err \in {1, MaxComment} : Post("error", BodyRunError(inv.sha, err))
              ELSE UNCHANGED comments
  /\ worker' = IF Async THEN "done" ELSE "gone"
  /\ UNCHANGED <<zip, bucket, reply, out>>

\* browsersFor, and what else comes before Run.
BrowsersFor ==
  LET chrome == ParseInts(request.chrome)
      firefox == ParseInts(request.firefox)
  IN  /\ worker = "targets" /\ Remote
      /\ \/ /\ chrome # Bad /\ firefox # Bad
            /\ targets' = Targets(chrome, firefox)
            /\ policies' = Sorted(request.policies)
            /\ worker' = "sweep"
            /\ UNCHANGED resultVars
         \/ SweepFails /\ UNCHANGED <<targets, policies>>
      /\ UNCHANGED <<procVars, toolVars, rows, frames>>

------------------------------------------------------------------------------
(* The sweep *)

\* The matrix: policies, in each the browsers, in each their tags.
Matrix ==
  FlattenSeq([p \in DOMAIN policies |->
    FlattenSeq([t \in DOMAIN targets |->
      [i \in DOMAIN targets[t].tags |-> <<policies[p].name, targets[t].b.name, targets[t].tags[i]>>]])])

\* A version that was tried has logs, and a frame unless that could not be copied.
PlainPass == [status |-> "pass", framed |-> TRUE, logged |-> TRUE]
Outcome == {PlainPass,
            [status |-> "pass", framed |-> FALSE, logged |-> TRUE],
            [status |-> "fail", framed |-> FALSE, logged |-> TRUE],
            [status |-> "fail", framed |-> TRUE, logged |-> TRUE],
            [status |-> "error", framed |-> FALSE, logged |-> FALSE],
            [status |-> "not-ready", framed |-> FALSE, logged |-> FALSE]}

ResultOf(key, o) ==
  [policy |-> key[1], browser |-> key[2], tag |-> key[3], status |-> o.status,
   frame |-> IF o.framed THEN LocalFrameName(key[1], key[2], key[3]) ELSE NoFrame,
   logs |-> IF o.logged THEN Containers(key[2]) ELSE <<>>]

RunReturns ==
  /\ LET matrix == Matrix IN
     \E odd \in {S \in SUBSET DOMAIN matrix : Cardinality(S) <= MaxOdd} :
     \E o \in [odd -> Outcome \ {PlainPass}] :
       rows' = [i \in DOMAIN matrix |->
                 ResultOf(matrix[i], IF i \in odd THEN o[i] ELSE PlainPass)]
  /\ frames' = [name \in {rows'[i].frame : i \in DOMAIN rows'} \ {NoFrame} |->
                 Key(rows'[Max({i \in DOMAIN rows' : rows'[i].frame = name})])]

\* SmokeTest answers at once and removes the frames; the others make a bundle.
Sweep ==
  /\ worker = "sweep" /\ Remote
  /\ \/ SweepFails /\ UNCHANGED <<rows, frames>>
     \/ /\ RunReturns
        /\ IF Async THEN worker' = "bundle" /\ UNCHANGED reply
                    ELSE worker' = "done" /\ reply' = {ReportToResult(rows')}
        /\ UNCHANGED <<zip, bucket, url, comments, out>>
  /\ UNCHANGED <<procVars, toolVars, targets, policies>>

\* A frame that cannot be read ends WriteBundle, and with it the bundle.
Bundle ==
  /\ worker = "bundle" /\ Remote
  /\ \/ zip' = WriteBundle(rows, frames) /\ worker' = "upload"
     \/ worker' = "post" /\ UNCHANGED zip
  /\ UNCHANGED <<procVars, toolVars, sweepVars, bucket, url, reply, comments, out>>

\* No bucket, no object, or an object without a link: all of them best-effort.
Upload ==
  /\ worker = "upload" /\ worker' = "post"
  /\ \/ bucket' = {zip} /\ url' \in BOOLEAN
     \/ UNCHANGED <<bucket, url>>
  /\ UNCHANGED <<procVars, toolVars, sweepVars, zip, reply, comments, out>>

PostResult ==
  /\ worker = "post" /\ worker' = "done"
  /\ url' = url
  /\ \E report \in {RenderMarkdown(rows)} : Post("result", BodyResult(report, inv.sha, url))
  /\ UNCHANGED <<procVars, toolVars, sweepVars, zip, bucket, reply, out>>

\* The process goes, and with it what it was doing and the connection of a call.
ProcMoves ==
  /\ ProcNext
  /\ LET lost == proc' = "down" /\ Remote IN
     /\ worker' = IF lost /\ worker \notin {"idle", "done"} THEN "gone" ELSE worker
     /\ IF lost /\ Waiting /\ worker # "idle" THEN Exit(1) ELSE UNCHANGED <<client, exit>>
  /\ UNCHANGED <<inv, request, sweepVars, resultVars>>

------------------------------------------------------------------------------
(* chrome-sweep, outside gubald and its slot *)

BadSweepFlags ==
  /\ client = "flags" /\ ~Remote
  /\ BrowsersFromFlags(inv.chrome, inv.firefox) = Bad \/ LoadPolicies(inv.dir) = {}
  /\ Exit(1)
  /\ UNCHANGED <<procVars, inv, request, worker, sweepVars, resultVars>>

SweepStarts ==
  /\ client = "flags" /\ ~Remote
  /\ BrowsersFromFlags(inv.chrome, inv.firefox) # Bad /\ LoadPolicies(inv.dir) # {}
  /\ targets' = BrowsersFromFlags(inv.chrome, inv.firefox)
  /\ policies' = Sorted(LoadPolicies(inv.dir))
  /\ client' = "calling" /\ worker' = "sweep"
  /\ UNCHANGED <<procVars, inv, exit, request, rows, frames, resultVars>>

LocalSweep ==
  /\ worker = "sweep" /\ ~Remote
  /\ RunReturns /\ worker' = "bundle"
  /\ UNCHANGED <<procVars, toolVars, targets, policies, resultVars>>

LocalBundle ==
  /\ worker = "bundle" /\ ~Remote
  /\ zip' = WriteBundle(rows, frames)
  /\ out' = out \cup {"report.zip"} /\ worker' = "files"
  /\ UNCHANGED <<procVars, toolVars, sweepVars, bucket, url, reply, comments>>

\* Mutant: the verdict is not looked at.
LocalReportPrinted ==
  /\ worker = "files" /\ worker' = "done"
  /\ out' = out \cup {"report.md"}
  /\ Exit(0)
  /\ UNCHANGED <<procVars, inv, request, sweepVars, zip, bucket, url, reply, comments>>

LocalReport ==
  /\ worker = "files" /\ worker' = "done"
  /\ out' = out \cup {"report.md"}
  /\ Exit(IF AllPassed(rows) THEN 0 ELSE 1)
  /\ UNCHANGED <<procVars, inv, request, sweepVars, zip, bucket, url, reply, comments>>

\* Run, a directory or a file fails, and run returns that at once: no report is
\* written or printed after a bundle that could not be.
LocalFails ==
  /\ worker \in {"sweep", "bundle", "files"} /\ ~Remote
  /\ Exit(1) /\ worker' = "gone"
  /\ UNCHANGED <<procVars, inv, request, sweepVars, resultVars>>

------------------------------------------------------------------------------

RequestStep ==
  \/ BadCommandLine \/ Send \/ CallFails \/ Accepted \/ Answered
  \/ Refused \/ Busy \/ Admitted \/ PostAck \/ BrowsersFor \/ Sweep
  \/ Bundle \/ Upload
  \/ BadSweepFlags \/ SweepStarts \/ LocalSweep \/ LocalBundle \/ LocalReport \/ LocalFails

Next == RequestStep \/ PostResult \/ ProcMoves

\* Tools and handlers run; the kubelet does its work. PostResult is named by what it
\* does to worker, which is all it takes to see that it is enabled.
Spec ==
  /\ Init /\ [][Next]_vars
  /\ WF_vars(RequestStep) /\ WF_worker(worker = "post" /\ worker' = "done")
  /\ WF_vars(ProcProgress /\ ProcMoves)

------------------------------------------------------------------------------
(* Properties *)

\* m is the int32 that has the lower bits of n: n itself, if that fits.
IsInt32Of(m, n) == m \in -Half..(Half - 1) /\ m % (2 * Half) = n % (2 * Half)

\* The version swept for a field: gubalctl's numbers are int32s on their way.
StandsFor(tag, field) ==
  IF Remote THEN tag.kind = "number" /\ IsInt32Of(tag.n, field.n) ELSE tag = field

\* What was asked for: policies, browsers, and places in the browser's list.
Csv(browser) == IF browser = "chrome" THEN inv.chrome ELSE inv.firefox
Wanted ==
  {w \in Yaml(inv.dir) \X {"chrome", "firefox"} \X (DOMAIN inv.chrome \cup DOMAIN inv.firefox) :
     w[3] \in DOMAIN Csv(w[2]) /\ Csv(w[2])[w[3]] # Blank}

Before(v, w) ==
  \/ v[1].rank < w[1].rank
  \/ v[1] = w[1] /\ v[2] = "chrome" /\ w[2] = "firefox"
  \/ v[1] = w[1] /\ v[2] = w[2] /\ v[3] < w[3]

IsRowOf(row, w) ==
  row.policy = w[1].name /\ row.browser = w[2] /\ StandsFor(row.tag, Csv(w[2])[w[3]])

\* What is swept is what was typed, nothing left out, added or done twice, and in that
\* order: every policy of the directory by its name, in each Chrome before Firefox, and
\* for each the versions as they stand in its list. A number too wide for an int32 is
\* swept as the one it wraps to, and as no other (gubalctl/main.go:55-77, 144-163,
\* smoketest.go:236-273, policies.go:84-98, sweep.go:80-92, chrome-sweep/main.go:66-94).
SweptAsTyped ==
  rows # <<>> =>
    LET wanted == Wanted IN
    /\ \A i \in DOMAIN rows : \E w \in wanted : IsRowOf(rows[i], w)
    /\ \A w \in wanted : \E i \in DOMAIN rows : IsRowOf(rows[i], w)
    /\ \A i, j \in DOMAIN rows : \A v, w \in wanted :
         IsRowOf(rows[i], v) /\ IsRowOf(rows[j], w) => (i < j <=> Before(v, w))

\* The four tallies of a report agree: the success of the RPC and of the exit code,
\* the table of policies, the sections of browsers and the rows, each of which is
\* shown once (report.go:52-172).
TalliesAgree ==
  LET stats == PolicyStats(rows)
      sections == Sections(rows)
      inBrowsers(i) == Size(Column(sections[i].groups, "passed"))
      shown == Shown(rows)
  IN  rows # <<>> =>
      /\ AllPassed(rows) <=> \A i \in DOMAIN stats : StatStatus(stats[i]) = "pass"
      /\ Size(Column(stats, "total")) = Len(rows)
      /\ \A i \in DOMAIN stats : sections[i].policy = stats[i].name /\ inBrowsers(i) = stats[i].passed
      /\ Len(shown) = Len(rows) /\ ToSet(shown) = ToSet(rows)

\* A bundle that is linked, or lies in -out of a sweep that went well, has what the
\* report names: each frame shown, the picture of that very policy and version, and
\* each log, under names that do not meet (bundle.go:9-89, sweep.go:317-326).
Whole(z) ==
  /\ IsInjective(Column(z, "name"))
  /\ \A i \in DOMAIN rows :
       LET r == rows[i] IN
       /\ r.frame # NoFrame =>
            Contains(z, [name |-> BundleFramePath(r), data |-> Key(r)])
       /\ \A k \in DOMAIN r.logs :
            Contains(z, [name |-> BundleLogPath(r, r.logs[k]), data |-> Append(Key(r), r.logs[k])])
BundleHoldsWhatIsShown ==
  /\ \A i \in DOMAIN comments : comments[i].link => bucket # {}
  /\ \A z \in bucket : Whole(z)
  /\ client = "exited" /\ exit = 0 /\ ~Remote => Whole(zip)

\* Exit code 0 means: accepted, for a submit; otherwise a complete sweep in which
\* every row passed, with report and bundle written (gubalctl/main.go:96-136,
\* chrome-sweep/main.go:131-155). The converse holds while nothing fails on the way.
ExitTellsTheOutcome ==
  client = "exited" /\ exit = 0 =>
    IF Async THEN worker # "idle"
    ELSE rows # <<>> /\ AllPassed(rows) /\ (~Remote => out = {"report.zip", "report.md"})

\* A submit whose sweep has ended has its acknowledgement and its closing comment on
\* the pull request it named (to the width of an int32), whatever the length of the
\* report or of the error, as long as the sha leaves room for the rest
\* (gubalctl/main.go:98-112, comments.go:10-65).
SubmitIsAnswered ==
  Async /\ worker = "done" /\ HeadSize + inv.sha + LinkSize + NoteSize <= MaxComment =>
    /\ Len(comments) = 2 /\ comments[1].kind = "ack"
    /\ comments[2].kind = IF rows # <<>> THEN "result" ELSE "error"
    /\ \A i \in DOMAIN comments : IsInt32Of(comments[i].pr, inv.pr)

\* Versions swept at the same time do not meet in the cluster: every selector finds
\* the pods of its own Deployment and no others, not those of the browser deployed
\* for good either, and a Job talks to its own Service (retarget.go:16-82).
StacksAreApart ==
  LET Stacks == UNION {{Stack(targets[t].b, targets[t].tags[i]) : i \in DOMAIN targets[t].tags} :
                         t \in DOMAIN targets}
      Base == {BaseDeployment(ChromeBrowser), BaseDeployment(FirefoxBrowser)}
  IN  \A s \in Stacks :
        LET selectors == {s.deployment.selector, s.service.selector, s.netpol.podSelector} IN
        /\ \A sel \in selectors :
             /\ Selects(sel, s.deployment.template)
             /\ \A d \in Base \cup {o.deployment : o \in Stacks \ {s}} : ~Selects(sel, d.template)
        /\ ToSet(s.job.hosts) = {s.service.name, <<"localhost">>}
        /\ \A o \in Stacks \ {s} : o.job.name # s.job.name /\ o.deployment.name # s.deployment.name

\* Every call comes to an end.
CallEnds == <>(client = "exited")
==============================================================================
