---------------------------- MODULE VersionArchive ----------------------------
(***************************************************************************)
(* The archive scripts. A run reads the manifest of the bucket, goes       *)
(* through a range of majors, finds for each the package its sources list, *)
(* skips what the manifest already records, uploads what it downloaded,    *)
(* and in the end pushes a manifest that merges its entries into the one   *)
(* it read. Under set -e a failing call ends the run where it stands.      *)
(*                                                                         *)
(* One run at a time ("this script is the only writer"). Sources come up   *)
(* with new patch levels and drop old ones, and may serve a truncated      *)
(* package with status 200.                                                *)
(***************************************************************************)
EXTENDS Naturals, FiniteSets

CONSTANTS
  Majors,      \* the majors there are
  Patches,     \* the patch levels of a major, as numbers
  FetchFaults, \* may reading an existing manifest fail?
  MaxRuns      \* bound: runs of the script

ASSUME ArchiveAssumption ==
  /\ Majors \subseteq Nat /\ Patches \subseteq Nat
  /\ FetchFaults \in BOOLEAN
  /\ MaxRuns \in Nat

VARIABLES
  script,   \* which of the two it is
  bucket,   \* what is stored under each key
  manifest, \* the entries of the manifest object; none as long as there is no such object
  pc,       \* where the script stands
  todo,     \* majors still to be gone through
  key,      \* the key of the major it is at
  content,  \* what was downloaded for it
  existing, \* existing_manifest.json
  new,      \* manifest.jsonl
  misread,  \* history: a run took an existing manifest for a missing one
  runs

store == <<script, bucket, manifest>>
work == <<todo, key, content, existing, new>>
history == <<misread, runs>>
vars == <<store, pc, work, history>>

\* A patch level of a major has a key of its own.
Keys == Majors \X Patches
Contents == {"whole", "stub"}
Missing == "missing"

\* An entry has the checksum of what was uploaded; runs date the entries.
Entry == [key : Keys, sum : Contents, at : 1..MaxRuns]
KeysOf(entries) == {e.key : e \in entries}

TypeOK ==
  /\ script \in {"chrome", "firefox"}
  /\ bucket \in [Keys -> Contents \cup {Missing}]
  /\ manifest \subseteq Entry
  /\ pc \in {"idle", "fetch", "index", "major", "download", "upload", "record"}
  /\ todo \subseteq Majors
  /\ key \in Keys
  /\ content \in Contents \cup {Missing}
  /\ existing \subseteq Entry /\ new \subseteq Entry
  /\ misread \in BOOLEAN
  /\ runs \in 0..MaxRuns

Init ==
  /\ script \in {"chrome", "firefox"}
  /\ bucket = [k \in Keys |-> Missing]
  /\ manifest = {}
  /\ pc = "idle"
  /\ todo = {} /\ key \in Keys /\ content = Missing /\ existing = {} /\ new = {}
  /\ misread = FALSE /\ runs = 0

------------------------------------------------------------------------------

\* A run over the majors from MIN_MAJOR to MAX_MAJOR.
Start ==
  /\ pc = "idle" /\ runs < MaxRuns
  /\ runs' = runs + 1
  /\ \E lo, hi \in Majors : lo <= hi /\ todo' = {m \in Majors : lo <= m /\ m <= hi}
  /\ pc' = "fetch"
  /\ content' = Missing /\ existing' = {} /\ new' = {}
  /\ UNCHANGED <<store, key, misread>>

\* Any error of this fetch is taken for a first run.
FetchManifest ==
  /\ pc = "fetch"
  /\ existing' = manifest \/ (FetchFaults /\ existing' = {})
  /\ misread' = (misread \/ existing' # manifest)
  /\ pc' = "index"
  /\ UNCHANGED <<store, todo, key, content, new, runs>>

FetchIndexes ==
  /\ pc = "index"
  /\ pc' = "major"
  /\ UNCHANGED <<store, work, history>>

\* set -e: an index, an upload or the push that fails ends the run, and so does
\* whoever interrupts it. The work directory goes with it.
Abort ==
  /\ pc # "idle"
  /\ pc' = "idle"
  /\ UNCHANGED <<store, work, history>>

Lowest(S) == CHOOSE m \in S : \A n \in S : m <= n

\* The loop comes to the next major. The first source that lists it says which
\* patch level is meant; with no source it is skipped.
Discover ==
  /\ pc = "major" /\ todo # {}
  /\ todo' = todo \ {Lowest(todo)}
  /\ \/ UNCHANGED <<pc, key>>
     \/ \E p \in Patches :
          /\ key' = <<Lowest(todo), p>>
          /\ pc' = IF key' \in KeysOf(existing) THEN "major" ELSE "download"
  /\ UNCHANGED <<store, content, existing, new, history>>

\* The candidates for the bytes: Google's repository and the source it was found
\* at, or Mozilla's archive alone.
Candidates == IF script = "chrome" THEN {1, 2} ELSE {1}

\* What validate_deb lets through; the Firefox script takes what it gets.
AcceptsAnything(served) == served # Missing
Accepts(served) == served = "whole" \/ (script = "firefox" /\ served = "stub")

\* The first candidate that answers with something acceptable is taken.
Download ==
  /\ pc = "download"
  /\ \E served \in [Candidates -> Contents \cup {Missing}] :
       LET good == {c \in Candidates : Accepts(served[c])} IN
       \/ good = {} /\ pc' = "major" /\ UNCHANGED content
       \/ good # {} /\ pc' = "upload" /\ content' = served[Lowest(good)]
  /\ UNCHANGED <<store, todo, key, existing, new, history>>

\* An upload whose failure goes unnoticed.
UploadUnchecked ==
  /\ pc = "upload"
  /\ bucket' \in {bucket, [bucket EXCEPT ![key] = content]}
  /\ pc' = "record"
  /\ UNCHANGED <<script, manifest, work, history>>

Upload ==
  /\ pc = "upload"
  /\ bucket' = [bucket EXCEPT ![key] = content]
  /\ pc' = "record"
  /\ UNCHANGED <<script, manifest, work, history>>

RecordedThisRun == [key |-> key, sum |-> content, at |-> runs]

Record ==
  /\ pc = "record"
  /\ new' = new \cup {RecordedThisRun}
  /\ pc' = "major"
  /\ UNCHANGED <<store, todo, key, content, existing, history>>

\* Only what this run added.
MergedNewOnly == new

\* Both sets of entries, the freshest of each key.
Merged ==
  LET all == existing \cup new
  IN  {e \in all : \A f \in all : f.key = e.key => f.at <= e.at}

Push ==
  /\ pc = "major" /\ todo = {}
  /\ manifest' = Merged
  /\ pc' = "idle"
  /\ UNCHANGED <<script, bucket, work, history>>

Next ==
  \/ Start \/ FetchManifest \/ FetchIndexes \/ Discover \/ Download \/ Upload
  \/ Record \/ Push \/ Abort

Spec == Init /\ [][Next]_vars

------------------------------------------------------------------------------
(* Properties *)

\* Every entry has an object behind it, however the runs so far ended: objects go
\* up before the manifest does. It has the checksum the entry gives as long as a
\* recorded object was left alone, which a run that misread the manifest may not
\* do; of the Chrome script it always has, which records nothing truncated whatever the
\* mirrors serve (archive-chrome-versions.sh:73-97, 207-276, archive-firefox-versions.sh:125-180).
EntriesAreStored ==
  /\ \A e \in manifest : bucket[e.key] # Missing
  /\ (script = "chrome" \/ ~misread) => \A e \in manifest : bucket[e.key] = e.sum
  /\ script = "chrome" => \A e \in manifest : e.sum = "whole"
  /\ \A e, f \in manifest : e.key = f.key => e = f

\* An entry is dropped only by a run that could not read the manifest, never by
\* the range, the sources or the merge (archive-chrome-versions.sh:101-111, 262-276).
OnlyAFailedFetchDrops ==
  [][existing = manifest => KeysOf(manifest) \subseteq KeysOf(manifest')]_vars

\* No run drops a version from the manifest: entries are "merged into the manifest
\* rather than overwriting it" (archive-chrome-versions.sh:9-13).
EntriesSurvive == [][KeysOf(manifest) \subseteq KeysOf(manifest')]_vars
==============================================================================
