------------------------------ MODULE ImageBuild ------------------------------
(***************************************************************************)
(* The image build scripts next to the archive scripts they read from. A   *)
(* run takes one copy of the manifest and goes through its entries in      *)
(* order: docker downloads the package (and for Chrome the one that stands *)
(* for its Ubuntu release) from the bucket as it is then, checks both sums *)
(* and installs them; the image is pushed under its full version and then  *)
(* under its major. An entry that fails does not keep the rest from being  *)
(* built. Archive runs may go on meanwhile.                                *)
(*                                                                         *)
(* Names made by the archive scripts always hold a version, and every      *)
(* release has its Dockerfile, so those two branches are never taken.      *)
(***************************************************************************)
EXTENDS VersionArchive, SequencesExt

CONSTANT DockerFaults  \* may docker or the registry fail of themselves?

ASSUME BuildAssumption == DockerFaults \in BOOLEAN /\ \A p \in Patches : p < 100

VARIABLES
  bpc,      \* where the build script stands
  mode,     \* "dry" for --dry-run, "push" for --push
  only,     \* --only, none for all
  snapshot, \* its copy of the manifest, in order
  results,  \* what became of the entries so far: built, failed or skipped
  image,    \* what docker built last, as a set of at most one
  full,     \* the registry: such sets by full version, ...
  major,    \* ... and by major
  mishap    \* history: docker or the registry failed

buildVars == <<bpc, mode, only, snapshot, results, image, full, major, mishap>>

Image == [of : Entry, content : Contents]

BuildTypeOK ==
  /\ bpc \in {"idle", "loop", "push", "pushMajor", "exited"}
  /\ mode \in {"dry", "build", "push"} /\ only \subseteq Majors
  /\ snapshot \in Seq(Entry)
  /\ results \in Seq({"built", "failed", "skipped"}) /\ Len(results) <= Len(snapshot)
  /\ image \in SUBSET Image
  /\ full \in [Keys -> SUBSET Image] /\ major \in [Majors -> SUBSET Image]
  /\ mishap \in BOOLEAN

BuildInit ==
  /\ Init
  /\ bpc = "idle" /\ mode \in {"dry", "build", "push"} /\ only \in SUBSET Majors
  /\ snapshot = <<>> /\ results = <<>> /\ image = {}
  /\ full = [k \in Keys |-> {}] /\ major = [m \in Majors |-> {}]
  /\ mishap = FALSE

------------------------------------------------------------------------------

\* ubuntu_for_major, as the number of releases before it.
EraEnds == IF script = "chrome" THEN {79, 99, 119, 139} ELSE {74, 98, 124, 136}
UbuntuForMajor(m) == Cardinality({end \in EraEnds : end < m})

Selected(m) == only = {} \/ m \in only

\* The place of a number below 100 among such numbers as text.
TextRank(n) == IF n < 10 THEN 11 * n ELSE 11 * (n \div 10) + (n % 10) + 1

\* Mutant: the order in which they were archived.
InOrderOfArrival(entries) == SetToSortSeq(entries, LAMBDA e, f : e.at < f.at)

\* sort_by(.major, .tigris_key)
SortsBefore(d, e) ==
  d.key[1] < e.key[1] \/ (d.key[1] = e.key[1] /\ TextRank(d.key[2]) < TextRank(e.key[2]))

\* Each entry has the place after those that sort before it.
InOrder(entries) ==
  [i \in 1..Cardinality(entries) |->
     CHOOSE e \in entries : Cardinality({d \in entries : SortsBefore(d, e)}) = i - 1]

\* Where the entries of the same Ubuntu release are.
InItsEra(e) ==
  {i \in DOMAIN snapshot : UbuntuForMajor(snapshot[i].key[1]) = UbuntuForMajor(e.key[1])}

\* Mutant: the last entry of the era.
DepsOfLatest(e) == IF script = "chrome" THEN {snapshot[Max(InItsEra(e))]} ELSE {}

\* The first entry of the lowest major of the era; Firefox needs none.
DepsOf(e) == IF script = "chrome" THEN {snapshot[Lowest(InItsEra(e))]} ELSE {}

Newer(k, l) == k[1] > l[1] \/ (k[1] = l[1] /\ k[2] > l[2])

Current == snapshot[Len(results) + 1]
Passes(result) == results' = Append(results, result)

\* The manifest is there or it is not; of an empty one nothing is built.
FetchForBuild ==
  /\ bpc = "idle"
  /\ snapshot' = InOrder(manifest)
  /\ bpc' = IF manifest = {} THEN "exited" ELSE "loop"
  /\ UNCHANGED <<mode, only, results, image, full, major, mishap>>

Skip ==
  /\ bpc = "loop" /\ Len(results) < Len(snapshot) /\ ~Selected(Current.key[1])
  /\ Passes("skipped")
  /\ UNCHANGED <<bpc, mode, only, snapshot, image, full, major, mishap>>

Attempts ==
  bpc = "loop" /\ Len(results) < Len(snapshot) /\ Selected(Current.key[1]) /\ mode # "dry"

DryRun ==
  /\ bpc = "loop" /\ Len(results) < Len(snapshot) /\ Selected(Current.key[1]) /\ mode = "dry"
  /\ Passes("built")
  /\ UNCHANGED <<bpc, mode, only, snapshot, image, full, major, mishap>>

\* Mutant: the sum is not passed to docker.
DownloadsUnchecked(e) == bucket[e.key] # Missing

\* curl and sha256sum -c
Downloads(e) == bucket[e.key] = e.sum

\* The Dockerfiles: apt takes no truncated package and installs nothing older than
\* what is there, tar unpacks no truncated archive.
Installs(e) ==
  /\ bucket[e.key] = "whole"
  /\ \A d \in DepsOf(e) : Downloads(d) /\ bucket[d.key] = "whole" /\ ~Newer(d.key, e.key)

BuildSucceeds ==
  /\ Attempts /\ Downloads(Current) /\ Installs(Current)
  /\ image' = {[of |-> Current, content |-> bucket[Current.key]]}
  /\ IF mode = "push" THEN bpc' = "push" /\ UNCHANGED results
                      ELSE Passes("built") /\ UNCHANGED bpc
  /\ UNCHANGED <<mode, only, snapshot, full, major, mishap>>

BuildFails ==
  /\ Attempts
  /\ \/ ~(Downloads(Current) /\ Installs(Current)) /\ UNCHANGED mishap
     \/ DockerFaults /\ mishap' = TRUE
  /\ Passes("failed")
  /\ UNCHANGED <<bpc, mode, only, snapshot, image, full, major>>

PushFull ==
  /\ bpc = "push" /\ bpc' = "pushMajor"
  /\ full' = [full EXCEPT ![Current.key] = image]
  /\ UNCHANGED <<mode, only, snapshot, results, image, major, mishap>>

PushMajor ==
  /\ bpc = "pushMajor" /\ bpc' = "loop"
  /\ major' = [major EXCEPT ![Current.key[1]] = image]
  /\ Passes("built")
  /\ UNCHANGED <<mode, only, snapshot, image, full, mishap>>

\* Mutant: a push that fails is only logged.
PushFailsQuietly ==
  /\ bpc \in {"push", "pushMajor"} /\ DockerFaults /\ mishap' = TRUE
  /\ bpc' = "loop"
  /\ Passes("built")
  /\ UNCHANGED <<mode, only, snapshot, image, full, major>>

PushFails ==
  /\ bpc \in {"push", "pushMajor"} /\ DockerFaults /\ mishap' = TRUE
  /\ bpc' = "loop"
  /\ Passes("failed")
  /\ UNCHANGED <<mode, only, snapshot, image, full, major>>

Summary ==
  /\ bpc = "loop" /\ Len(results) = Len(snapshot)
  /\ bpc' = "exited"
  /\ UNCHANGED <<mode, only, snapshot, results, image, full, major, mishap>>

BuildStep ==
  \/ FetchForBuild \/ Skip \/ DryRun \/ BuildSucceeds \/ BuildFails
  \/ PushFull \/ PushMajor \/ PushFails \/ Summary

BuildNext ==
  \/ BuildStep /\ UNCHANGED vars
  \/ Next /\ UNCHANGED buildVars

BuildSpec == BuildInit /\ [][BuildNext]_<<vars, buildVars>>

------------------------------------------------------------------------------
(* Properties *)

\* The script's exit status.
Succeeds == bpc = "exited" /\ "failed" \notin ToSet(results)

\* An image is what its tags and the manifest say it is, and it has a browser in it,
\* even when an archive run that misread the manifest replaces the object in between
\* or a stub was recorded (build-chrome-images.sh:138-177, the Dockerfiles).
ImagesAreAsRecorded ==
  LET Good(i) == i.content = i.of.sum /\ i.content = "whole"
  IN  /\ \A k \in Keys : \A i \in full[k] : Good(i) /\ i.of.key = k
      /\ \A m \in Majors : \A i \in major[m] : Good(i) /\ i.of.key[1] = m

TextIsNumber == \A p, q \in Patches : p < q => TextRank(p) < TextRank(q)

\* When a run with --push succeeds, every version that was wanted is in the registry
\* under both of its tags, and if patch levels have the same order as text the tag of
\* a major is its newest: entries are built in the order of their keys, and the last
\* one built has the tag (build-chrome-images.sh:128-191, archive-chrome-versions.sh:266-274).
SuccessMeansPushed ==
  Succeeds /\ mode = "push" =>
    \A e \in ToSet(snapshot) : Selected(e.key[1]) =>
      /\ full[e.key] # {} /\ major[e.key[1]] # {}
      /\ TextIsNumber => \A i \in major[e.key[1]] : ~Newer(e.key, i.of.key)

\* From an archive without stubs everything builds, whatever archive runs do
\* meanwhile, as long as docker and the registry work and no archive run misread the
\* manifest: what was recorded stays as it was, and so does what stands for the
\* release. Only a version older than the one that stands for its release fails, and
\* that takes a lowest major whose patch levels are in another order as text
\* (build-chrome-images.sh:106-170).
AGoodArchiveBuilds ==
  ~mishap /\ ~misread /\ (\A e \in ToSet(snapshot) : e.sum = "whole") =>
    \A i \in DOMAIN results : results[i] = "failed" =>
      ~TextIsNumber /\ \E d \in DepsOf(snapshot[i]) :
        d.key[1] = snapshot[i].key[1] /\ Newer(d.key, snapshot[i].key)
==============================================================================
