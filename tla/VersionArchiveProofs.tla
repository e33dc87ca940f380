------------------------- MODULE VersionArchiveProofs -------------------------
(***************************************************************************)
(* Theorems about VersionArchive, for any majors and patch levels, for     *)
(* either script and any number of runs that may be cut off anywhere.      *)
(*                                                                         *)
(* That every entry has its object behind it is not inductive: an upload   *)
(* writes over whatever is under its key. What keeps it away from recorded *)
(* objects is what the run has read (CopyOrNothing) and that it never      *)
(* comes to a key twice (NewIsNew); what makes a new entry as good as an   *)
(* old one is that its object was there first (ObjectsFirst).              *)
(***************************************************************************)
EXTENDS VersionArchive, TLAPS, WellFoundedInduction, FiniteSetTheorems

\* What a run works with is the manifest, or nothing at all and that is remembered.
CopyOrNothing ==
  pc \notin {"idle", "fetch"} => existing = manifest \/ (existing = {} /\ misread)

\* The script is between finding a package and recording it.
AtPackage == pc \in {"download", "upload", "record"}

\* The entries of this run are of majors it is done with, one each, and of keys that
\* were not in what it has read; and so is the package it is at.
NewIsNew ==
  /\ pc # "idle" => runs > 0
  /\ pc \in {"fetch", "index"} => new = {}
  /\ pc # "idle" => \A e \in new : e.key[1] \notin todo /\ e.key \notin KeysOf(existing)
  /\ \A e, f \in new : e.key = f.key => e = f
  /\ AtPackage =>
       /\ key[1] \notin todo /\ key \notin KeysOf(existing)
       /\ \A e \in new : e.key[1] # key[1]

\* No entry goes without its object, and of the Chrome script no stub comes as far as
\* the bucket.
ObjectsFirst ==
  /\ pc # "idle" => \A e \in new : bucket[e.key] = e.sum
  /\ pc \in {"upload", "record"} => Accepts(content)
  /\ pc = "record" => bucket[key] = content
  /\ script = "chrome" => \A k \in Keys : bucket[k] # "stub"

\* There are only ever finitely many entries, of however many majors.
FinitelyMany == IsFiniteSet(manifest) /\ IsFiniteSet(existing) /\ IsFiniteSet(new)

\* The inductive invariant.
IInv ==
  /\ TypeOK /\ CopyOrNothing /\ NewIsNew /\ ObjectsFirst /\ EntriesAreStored
  /\ FinitelyMany

\* A set of numbers that is not empty has a lowest.
LEMMA LowestOf ==
  ASSUME NEW S, S \subseteq Nat, S # {}
  PROVE  Lowest(S) \in S /\ \A n \in S : Lowest(S) <= n
<1>1. PICK x \in S : \A y \in S : <<y, x>> \notin OpToRel(<, Nat)
  BY NatLessThanWellFounded, WFMin
<1>2. ASSUME NEW y \in S PROVE x <= y
  <2>1. ~(y < x)
    BY <1>1 DEF OpToRel
  <2>2. QED
    BY <2>1
<1>3. QED
  BY <1>2 DEF Lowest

\* What a script accepts is a package, and of Chrome a whole one.
LEMMA AcceptedFacts ==
  ASSUME NEW c, Accepts(c)
  PROVE  c \in Contents /\ c # Missing /\ (script = "chrome" => c = "whole")
BY DEF Accepts, Contents, Missing

\* A download that goes through has something the script accepts.
LEMMA DownloadFacts ==
  ASSUME Download
  PROVE  \/ pc' = "major" /\ content' = content
         \/ pc' = "upload" /\ Accepts(content')
<1> SUFFICES ASSUME NEW served \in [Candidates -> Contents \cup {Missing}],
                    {c \in Candidates : Accepts(served[c])} # {},
                    content' = served[Lowest({c \in Candidates : Accepts(served[c])})]
             PROVE  Accepts(content')
  BY DEF Download
<1> DEFINE good == {c \in Candidates : Accepts(served[c])}
<1>1. good \subseteq Nat /\ good # {}
  BY DEF Candidates
<1>2. Lowest(good) \in good
  BY <1>1, LowestOf
<1>3. QED
  BY <1>2

\* The loop goes on to a major it has not been at.
LEMMA DiscoverFacts ==
  ASSUME TypeOK, Discover
  PROVE  /\ todo' \subseteq todo
         /\ \/ pc' = "major" /\ key' = key
            \/ /\ key' \in Keys /\ key'[1] \in todo \ todo'
               /\ pc' = "major" \/ (pc' = "download" /\ key' \notin KeysOf(existing))
<1>1. Lowest(todo) \in todo /\ Lowest(todo) \in Majors
  BY LowestOf, ArchiveAssumption DEF TypeOK, Discover
<1>2. QED
  BY <1>1 DEF Discover, Keys

\* What a push leaves in the manifest is from what the run has read or recorded.
LEMMA MergedFacts == Merged \subseteq existing \cup new
BY DEF Merged

\* Nothing that was read or recorded is lost in a push: no two entries have the same
\* key, and so each is the freshest of its own.
LEMMA MergedKeepsAll ==
  ASSUME IInv, pc = "major"
  PROVE  Merged = existing \cup new
<1>1. ASSUME NEW e \in existing \cup new, NEW f \in existing \cup new, f.key = e.key
      PROVE  f = e
  <2>1. \A g \in new : g.key \notin KeysOf(existing)
    BY DEF IInv, NewIsNew
  <2>2. CASE e \in existing /\ f \in existing
    BY <1>1, <2>2 DEF IInv, CopyOrNothing, EntriesAreStored
  <2>3. CASE e \in new /\ f \in new
    BY <1>1, <2>3 DEF IInv, NewIsNew
  <2>4. QED
    BY <1>1, <2>1, <2>2, <2>3 DEF KeysOf
<1>2. \A e \in existing \cup new : e.at <= e.at
  BY DEF IInv, TypeOK, Entry
<1>3. QED
  BY <1>1, <1>2 DEF Merged

\* Every step keeps type correctness.
LEMMA TypeStep == IInv /\ [Next]_vars => TypeOK'
<1> SUFFICES ASSUME IInv, [Next]_vars PROVE TypeOK'
  OBVIOUS
<1>0. TypeOK
  BY DEF IInv
<1>1. CASE Start
  <2>1. runs' \in 0..MaxRuns
    BY <1>0, <1>1, ArchiveAssumption DEF TypeOK, Start
  <2>2. QED
    BY <1>0, <1>1, <2>1 DEF TypeOK, Start, store
<1>2. CASE FetchManifest
  BY <1>0, <1>2 DEF TypeOK, FetchManifest, store
<1>3. CASE FetchIndexes
  BY <1>0, <1>3 DEF TypeOK, FetchIndexes, store, work, history
<1>4. CASE Discover
  BY <1>0, <1>4, DiscoverFacts DEF TypeOK, Discover, store, history
<1>5. CASE Download
  BY <1>0, <1>5, DownloadFacts, AcceptedFacts DEF TypeOK, Download, store, history
<1>6. CASE Upload
  BY <1>0, <1>6 DEF TypeOK, Upload, work, history
<1>7. CASE Record
  <2>1. content \in Contents /\ runs \in 1..MaxRuns
    BY <1>0, <1>7, AcceptedFacts DEF IInv, Record, ObjectsFirst, NewIsNew, TypeOK
  <2>2. RecordedThisRun \in Entry
    BY <1>0, <2>1 DEF TypeOK, RecordedThisRun, Entry
  <2>3. QED
    BY <1>0, <1>7, <2>2 DEF TypeOK, Record, store, history
<1>8. CASE Push
  BY <1>0, <1>8, MergedFacts DEF TypeOK, Push, work, history
<1>9. CASE Abort
  BY <1>0, <1>9 DEF TypeOK, Abort, store, work, history
<1>10. CASE UNCHANGED vars
  BY <1>0, <1>10 DEF TypeOK, vars, store, work, history
<1>11. QED
  BY <1>1, <1>2, <1>3, <1>4, <1>5, <1>6, <1>7, <1>8, <1>9, <1>10 DEF Next

\* Every step keeps what a run has read the manifest: only its own push changes that.
LEMMA CopyStep == IInv /\ [Next]_vars => CopyOrNothing'
<1> SUFFICES ASSUME IInv, [Next]_vars PROVE CopyOrNothing'
  OBVIOUS
<1>0. CopyOrNothing
  BY DEF IInv
<1>1. CASE Start
  BY <1>0, <1>1 DEF CopyOrNothing, Start, store
<1>2. CASE FetchManifest
  BY <1>0, <1>2 DEF CopyOrNothing, FetchManifest, store
<1>3. CASE FetchIndexes
  BY <1>0, <1>3 DEF CopyOrNothing, FetchIndexes, store, work, history
<1>4. CASE Discover
  BY <1>0, <1>4 DEF CopyOrNothing, Discover, store, history
<1>5. CASE Download
  BY <1>0, <1>5 DEF CopyOrNothing, Download, store, history
<1>6. CASE Upload
  BY <1>0, <1>6 DEF CopyOrNothing, Upload, work, history
<1>7. CASE Record
  BY <1>0, <1>7 DEF CopyOrNothing, Record, store, history
<1>8. CASE Push
  BY <1>0, <1>8 DEF CopyOrNothing, Push, work, history
<1>9. CASE Abort
  BY <1>0, <1>9 DEF CopyOrNothing, Abort, store, work, history
<1>10. CASE UNCHANGED vars
  BY <1>0, <1>10 DEF CopyOrNothing, vars, store, work, history
<1>11. QED
  BY <1>1, <1>2, <1>3, <1>4, <1>5, <1>6, <1>7, <1>8, <1>9, <1>10 DEF Next

\* Every step keeps new entries of keys of their own: the loop takes each major once.
LEMMA NewStep == IInv /\ [Next]_vars => NewIsNew'
<1> SUFFICES ASSUME IInv, [Next]_vars PROVE NewIsNew'
  OBVIOUS
<1>0. TypeOK /\ NewIsNew
  BY DEF IInv
<1>1. CASE Start
  BY <1>0, <1>1, ArchiveAssumption DEF TypeOK, NewIsNew, AtPackage, Start, store
<1>2. CASE FetchManifest
  BY <1>0, <1>2 DEF NewIsNew, AtPackage, FetchManifest, store
<1>3. CASE FetchIndexes
  BY <1>0, <1>3 DEF NewIsNew, AtPackage, FetchIndexes, store, work, history
<1>4. CASE Discover
  <2>1. new' = new /\ existing' = existing /\ runs' = runs /\ pc = "major"
    BY <1>4 DEF Discover, history
  <2>2. CASE pc' = "major"
    BY <1>0, <1>4, <2>1, <2>2, DiscoverFacts DEF NewIsNew, AtPackage
  <2>3. CASE pc' = "download" /\ key'[1] \in todo \ todo' /\ key' \notin KeysOf(existing)
    BY <1>0, <1>4, <2>1, <2>3, DiscoverFacts DEF NewIsNew, AtPackage
  <2>4. QED
    BY <1>0, <1>4, <2>2, <2>3, DiscoverFacts
<1>5. CASE Download
  BY <1>0, <1>5, DownloadFacts DEF NewIsNew, AtPackage, Download, history
<1>6. CASE Upload
  BY <1>0, <1>6 DEF NewIsNew, AtPackage, Upload, work, history
<1>7. CASE Record
  <2>1. RecordedThisRun.key = key
    BY DEF RecordedThisRun
  <2>2. QED
    BY <1>0, <1>7, <2>1 DEF NewIsNew, AtPackage, Record, history
<1>8. CASE Push
  BY <1>0, <1>8 DEF NewIsNew, AtPackage, Push, work, history
<1>9. CASE Abort
  BY <1>0, <1>9 DEF NewIsNew, AtPackage, Abort, store, work, history
<1>10. CASE UNCHANGED vars
  BY <1>0, <1>10 DEF NewIsNew, AtPackage, vars, store, work, history
<1>11. QED
  BY <1>1, <1>2, <1>3, <1>4, <1>5, <1>6, <1>7, <1>8, <1>9, <1>10 DEF Next

\* Every step keeps objects ahead of their entries: an upload is of a key that no new
\* entry has, and a package is recorded after its upload.
LEMMA ObjectsStep == IInv /\ [Next]_vars => ObjectsFirst'
<1> SUFFICES ASSUME IInv, [Next]_vars PROVE ObjectsFirst'
  OBVIOUS
<1>0. TypeOK /\ NewIsNew /\ ObjectsFirst
  BY DEF IInv
<1>1. CASE Start
  BY <1>0, <1>1 DEF ObjectsFirst, Start, store
<1>2. CASE FetchManifest
  BY <1>0, <1>2 DEF ObjectsFirst, Accepts, FetchManifest, store
<1>3. CASE FetchIndexes
  BY <1>0, <1>3 DEF ObjectsFirst, Accepts, FetchIndexes, store, work, history
<1>4. CASE Discover
  <2>1. pc' \in {"major", "download"} /\ UNCHANGED <<script, bucket, new>> /\ pc # "idle"
    BY <1>0, <1>4, DiscoverFacts DEF Discover, store
  <2>2. QED
    BY <1>0, <2>1 DEF ObjectsFirst
<1>5. CASE Download
  <2>1. /\ pc' = "major" \/ (pc' = "upload" /\ Accepts(content'))
        /\ pc # "idle"
        /\ UNCHANGED <<script, bucket, new>>
    BY <1>5, DownloadFacts DEF Download, store
  <2>2. QED
    BY <1>0, <2>1 DEF ObjectsFirst, Accepts
<1>6. CASE Upload
  <2>1. \A e \in new : e.key # key
    BY <1>0, <1>6 DEF NewIsNew, AtPackage, Upload
  <2>2. content \in Contents /\ (script = "chrome" => content = "whole")
    BY <1>0, <1>6, AcceptedFacts DEF ObjectsFirst, Upload
  <2>3. \A k \in Keys : bucket'[k] = IF k = key THEN content ELSE bucket[k]
    BY <1>0, <1>6 DEF TypeOK, Upload
  <2>4. \A e \in new : e.key \in Keys
    BY <1>0 DEF TypeOK, Entry
  <2>5. key \in Keys
    BY <1>0 DEF TypeOK
  <2>6. QED
    BY <1>0, <1>6, <2>1, <2>2, <2>3, <2>4, <2>5 DEF ObjectsFirst, Accepts, Upload, work
<1>7. CASE Record
  <2>1. RecordedThisRun.key = key /\ RecordedThisRun.sum = content
    BY DEF RecordedThisRun
  <2>2. QED
    BY <1>0, <1>7, <2>1 DEF ObjectsFirst, Record, store
<1>8. CASE Push
  BY <1>0, <1>8 DEF ObjectsFirst, Accepts, Push, work, history
<1>9. CASE Abort
  BY <1>0, <1>9 DEF ObjectsFirst, Accepts, Abort, store, work, history
<1>10. CASE UNCHANGED vars
  BY <1>0, <1>10 DEF ObjectsFirst, Accepts, vars, store, work, history
<1>11. QED
  BY <1>1, <1>2, <1>3, <1>4, <1>5, <1>6, <1>7, <1>8, <1>9, <1>10 DEF Next

\* Every step keeps every entry stored: an upload is not of a recorded key, unless the
\* manifest was misread, and a push adds only what was uploaded.
LEMMA StoredStep == IInv /\ [Next]_vars => EntriesAreStored'
<1> SUFFICES ASSUME IInv, [Next]_vars PROVE EntriesAreStored'
  OBVIOUS
<1>0. TypeOK /\ EntriesAreStored
  BY DEF IInv
<1>1. CASE Start
  BY <1>0, <1>1 DEF EntriesAreStored, Start, store
<1>2. CASE FetchManifest
  BY <1>0, <1>2 DEF EntriesAreStored, FetchManifest, store
<1>3. CASE FetchIndexes
  BY <1>0, <1>3 DEF EntriesAreStored, FetchIndexes, store, work, history
<1>4. CASE Discover
  BY <1>0, <1>4 DEF EntriesAreStored, Discover, store, history
<1>5. CASE Download
  BY <1>0, <1>5 DEF EntriesAreStored, Download, store, history
<1>6. CASE Upload
  <2>1. content \in Contents /\ content # Missing /\ (script = "chrome" => content = "whole")
    BY <1>6, AcceptedFacts DEF IInv, ObjectsFirst, Upload
  <2>2. \A k \in Keys : bucket'[k] = IF k = key THEN content ELSE bucket[k]
    BY <1>0, <1>6 DEF TypeOK, Upload
  <2>3. \A e \in manifest : e.key \in Keys
    BY <1>0 DEF TypeOK, Entry
  <2>4. ~misread => \A e \in manifest : e.key # key
    BY <1>6 DEF IInv, CopyOrNothing, NewIsNew, AtPackage, KeysOf, Upload
  <2>5. UNCHANGED <<script, manifest, misread>>
    BY <1>6 DEF Upload, history
  <2>6. QED
    BY <1>0, <2>1, <2>2, <2>3, <2>4, <2>5 DEF EntriesAreStored
<1>7. CASE Record
  BY <1>0, <1>7 DEF EntriesAreStored, Record, store, history
<1>8. CASE Push
  <2>1. manifest' = existing \cup new /\ UNCHANGED <<script, bucket, misread>>
    BY <1>8, MergedKeepsAll DEF Push, history
  <2>2. existing \subseteq manifest
    BY <1>8 DEF IInv, CopyOrNothing, Push
  <2>3. ASSUME NEW e \in new
        PROVE  /\ bucket[e.key] = e.sum /\ e.sum # Missing
               /\ script = "chrome" => e.sum = "whole"
    <3>1. bucket[e.key] = e.sum /\ e.sum \in Contents /\ e.key \in Keys
      BY <1>0, <1>8 DEF IInv, ObjectsFirst, TypeOK, Entry, Push
    <3>2. QED
      BY <3>1 DEF IInv, ObjectsFirst, Contents, Missing
  <2>4. ASSUME NEW e \in existing \cup new, NEW f \in existing \cup new, e.key = f.key
        PROVE  e = f
    <3>1. \A g \in new : g.key \notin KeysOf(existing)
      BY <1>8 DEF IInv, NewIsNew, Push
    <3>2. QED
      BY <1>0, <2>2, <2>4, <3>1 DEF IInv, NewIsNew, EntriesAreStored, KeysOf
  <2>5. QED
    BY <1>0, <2>1, <2>2, <2>3, <2>4 DEF EntriesAreStored
<1>9. CASE Abort
  BY <1>0, <1>9 DEF EntriesAreStored, Abort, store, work, history
<1>10. CASE UNCHANGED vars
  BY <1>0, <1>10 DEF EntriesAreStored, vars, store, work, history
<1>11. QED
  BY <1>1, <1>2, <1>3, <1>4, <1>5, <1>6, <1>7, <1>8, <1>9, <1>10 DEF Next

\* Every step keeps the entries finite in number.
LEMMA FiniteStep == IInv /\ [Next]_vars => FinitelyMany'
<1> SUFFICES ASSUME IInv, [Next]_vars PROVE FinitelyMany'
  OBVIOUS
<1>1. CASE Start \/ FetchManifest
  BY <1>1, FS_EmptySet DEF IInv, FinitelyMany, Start, FetchManifest, store
<1>2. CASE Record
  BY <1>2, FS_AddElement DEF IInv, FinitelyMany, Record, store
<1>3. CASE Push
  <2>1. IsFiniteSet(existing \cup new)
    BY FS_Union DEF IInv, FinitelyMany
  <2>2. QED
    BY <1>3, <2>1, MergedFacts, FS_Subset DEF IInv, FinitelyMany, Push, work
<1>4. CASE UNCHANGED <<manifest, existing, new>>
  BY <1>4 DEF IInv, FinitelyMany
<1>5. QED
  BY <1>1, <1>2, <1>3, <1>4
     DEF Next, FetchIndexes, Discover, Download, Upload, Abort, vars, store, work

\* The initial states satisfy the inductive invariant.
LEMMA InitIInv == Init => IInv
<1> SUFFICES ASSUME Init PROVE IInv
  OBVIOUS
<1>1. TypeOK
  <2>1. bucket \in [Keys -> Contents \cup {Missing}] /\ runs \in 0..MaxRuns
    BY ArchiveAssumption DEF Init
  <2>2. QED
    BY <2>1 DEF Init, TypeOK
<1>2. CopyOrNothing /\ NewIsNew /\ EntriesAreStored
  BY DEF Init, CopyOrNothing, NewIsNew, AtPackage, EntriesAreStored
<1>3. ObjectsFirst
  BY DEF Init, ObjectsFirst, Missing
<1>4. FinitelyMany
  BY FS_EmptySet DEF Init, FinitelyMany
<1>5. QED
  BY <1>1, <1>2, <1>3, <1>4 DEF IInv

\* The invariant holds in every reachable state.
THEOREM Invariance == Spec => []IInv
<1>1. IInv /\ [Next]_vars => IInv'
  BY TypeStep, CopyStep, NewStep, ObjectsStep, StoredStep, FiniteStep DEF IInv
<1>2. QED
  BY InitIInv, <1>1, PTL DEF Spec

\* Every variable keeps its type, for any majors, patch levels and runs.
THEOREM TypeCorrect == Spec => []TypeOK
<1>1. IInv => TypeOK
  BY DEF IInv
<1>2. QED
  BY Invariance, <1>1, PTL

\* Every entry of the manifest has its object behind it, whatever the mirrors serve and
\* wherever runs are cut off; of the Chrome script it is always the object recorded
\* (archive-chrome-versions.sh:73-97, 207-276, archive-firefox-versions.sh:125-180).
THEOREM NoEntryWithoutObject == Spec => []EntriesAreStored
<1>1. IInv => EntriesAreStored
  BY DEF IInv
<1>2. QED
  BY Invariance, <1>1, PTL

\* A run that read the manifest drops nothing from it, whatever its range of majors and
\* whatever the sources list (archive-chrome-versions.sh:101-111, 262-276).
THEOREM NothingIsDropped == Spec => OnlyAFailedFetchDrops
<1>1. IInv /\ [Next]_vars =>
        [existing = manifest => KeysOf(manifest) \subseteq KeysOf(manifest')]_vars
  <2> SUFFICES ASSUME IInv, [Next]_vars, existing = manifest
               PROVE  KeysOf(manifest) \subseteq KeysOf(manifest')
    OBVIOUS
  <2>1. CASE Push
    BY <2>1, MergedKeepsAll DEF Push, KeysOf
  <2>2. CASE ~Push
    BY <2>2 DEF Next, Start, FetchManifest, FetchIndexes, Discover, Download, Upload, Record,
                Abort, vars, store
  <2>3. QED
    BY <2>1, <2>2
<1>2. QED
  BY Invariance, <1>1, PTL DEF Spec, OnlyAFailedFetchDrops
==============================================================================
