--------------------------- MODULE ImageBuildProofs ---------------------------
(***************************************************************************)
(* Theorems about ImageBuild, for any majors and patch levels (below 100), *)
(* either script, any options, and archive runs at any time.               *)
(*                                                                         *)
(* A build does not disturb the archive (ArchiveGoesOn), so whatever holds *)
(* of VersionArchive holds next to a build. InOrder is shown to sort; the  *)
(* rest is what the loop has done so far: what is being pushed (AtPush),   *)
(* what was pushed (Accounted), who has the tag of a major (LastHasTheTag) *)
(* and that an entry of the copy stays recorded (SortedCopy).              *)
(***************************************************************************)
EXTENDS ImageBuild, VersionArchiveProofs

\* The copy is sorted by the names the entries have, and nothing of it leaves the
\* manifest as long as that is read right.
SortedCopy ==
  /\ bpc = "idle" => snapshot = <<>> /\ results = <<>>
  /\ \A i, j \in DOMAIN snapshot : i < j => SortsBefore(snapshot[i], snapshot[j])
  /\ ~misread => ToSet(snapshot) \subseteq manifest

\* What is being pushed is the image of the entry the script is at.
AtPush ==
  /\ bpc \in {"push", "pushMajor"} =>
       /\ mode = "push" /\ Len(results) < Len(snapshot)
       /\ image = {[of |-> Current, content |-> Current.sum]} /\ Current.sum = "whole"
  /\ bpc = "pushMajor" => full[Current.key] # {}
  /\ bpc = "exited" => Len(results) = Len(snapshot)

\* What counts as built was pushed under both tags; what was skipped was not wanted.
Accounted ==
  mode = "push" =>
    \A i \in DOMAIN results :
      /\ results[i] = "built" => full[snapshot[i].key] # {} /\ major[snapshot[i].key[1]] # {}
      /\ results[i] = "skipped" => ~Selected(snapshot[i].key[1])

\* The tag of a major is the last entry of it that was built.
LastHasTheTag ==
  \A m \in Majors : \A t \in major[m] :
    /\ mode = "push"
    /\ \E j \in DOMAIN results :
         /\ snapshot[j] = t.of
         /\ \A k \in DOMAIN results : results[k] = "built" /\ snapshot[k].key[1] = m => k <= j

\* The inductive invariant, next to that of the archive.
BuildIInv ==
  /\ BuildTypeOK /\ SortedCopy /\ AtPush /\ Accounted /\ LastHasTheTag
  /\ ImagesAreAsRecorded /\ AGoodArchiveBuilds

\* What is known of an entry, and of a number that is a major or a patch level.
LEMMA EntryFacts ==
  ASSUME NEW e \in Entry
  PROVE  /\ e.key \in Keys /\ e.sum \in Contents
         /\ e.key[1] \in Majors /\ e.key[1] \in Nat
         /\ e.key[2] \in Patches /\ e.key[2] \in Nat /\ e.key[2] < 100
         /\ e.key = <<e.key[1], e.key[2]>>
<1>1. PICK m \in Majors, p \in Patches : e.key = <<m, p>>
  BY DEF Entry, Keys
<1>2. m \in Nat /\ p \in Nat /\ p < 100
  BY ArchiveAssumption, BuildAssumption
<1>3. QED
  BY <1>1, <1>2 DEF Entry, Keys

\* Numbers below 100 have different places as text.
LEMMA TextRankFacts ==
  ASSUME NEW n \in Nat, n < 100
  PROVE  /\ TextRank(n) \in Nat
         /\ \A m \in Nat : m < 100 /\ TextRank(m) = TextRank(n) => m = n
BY DEF TextRank

\* Names of entries are in a strict order, and total as far as their keys differ.
LEMMA SortsBeforeFacts ==
  ASSUME NEW d \in Entry, NEW e \in Entry, NEW f \in Entry
  PROVE  /\ ~SortsBefore(e, e)
         /\ SortsBefore(d, e) /\ SortsBefore(e, f) => SortsBefore(d, f)
         /\ d.key # e.key => SortsBefore(d, e) \/ SortsBefore(e, d)
<1>1. \A g \in Entry : g.key[1] \in Nat /\ TextRank(g.key[2]) \in Nat
  BY EntryFacts, TextRankFacts
<1>2. d.key[1] = e.key[1] /\ TextRank(d.key[2]) = TextRank(e.key[2]) => d.key = e.key
  BY EntryFacts, TextRankFacts
<1>3. QED
  BY <1>1, <1>2 DEF SortsBefore

\* InOrder gives every entry of a set once, sorted. That there is an entry for each place
\* is a matter of counting: as many entries as places, and no two with as many before.
LEMMA InOrderSorts ==
  ASSUME NEW S \in SUBSET Entry, IsFiniteSet(S), \A e, f \in S : e.key = f.key => e = f
  PROVE  /\ InOrder(S) \in Seq(S)
         /\ Len(InOrder(S)) = Cardinality(S)
         /\ \A i, j \in DOMAIN InOrder(S) :
              i < j => SortsBefore(InOrder(S)[i], InOrder(S)[j])
<1> DEFINE Below(e) == {d \in S : SortsBefore(d, e)}
           rank == [e \in S |-> Cardinality(Below(e))]
<1>0. PICK n \in Nat : n = Cardinality(S)
  BY FS_CardinalityType
<1>1. ASSUME NEW e \in S
      PROVE  IsFiniteSet(Below(e)) /\ rank[e] \in 0..(n - 1) /\ rank[e] \in Nat
  <2>1. IsFiniteSet(S \ {e}) /\ Cardinality(S \ {e}) = n - 1
    BY <1>0, FS_RemoveElement
  <2>2. Below(e) \in SUBSET (S \ {e})
    BY SortsBeforeFacts
  <2>3. IsFiniteSet(Below(e)) /\ Cardinality(Below(e)) <= n - 1
    BY <2>1, <2>2, FS_Subset
  <2>4. Cardinality(Below(e)) \in Nat
    BY <2>3, FS_CardinalityType
  <2>5. QED
    BY <1>0, <2>3, <2>4
<1>2. ASSUME NEW e \in S, NEW f \in S, SortsBefore(e, f) PROVE rank[e] < rank[f]
  <2>1. e \in Below(f) /\ IsFiniteSet(Below(f))
    BY <1>1, <1>2
  <2>2. IsFiniteSet(Below(f) \ {e}) /\ Cardinality(Below(f) \ {e}) = Cardinality(Below(f)) - 1
    BY <2>1, FS_RemoveElement
  <2>3. Below(e) \in SUBSET (Below(f) \ {e})
    BY <1>2, SortsBeforeFacts
  <2>4. Cardinality(Below(e)) <= Cardinality(Below(f)) - 1
    BY <2>2, <2>3, FS_Subset
  <2>5. rank[e] \in Nat /\ rank[f] \in Nat
    BY <1>1
  <2>6. QED
    BY <2>4, <2>5
<1>3. \A e, f \in S : e # f => SortsBefore(e, f) \/ SortsBefore(f, e)
  BY SortsBeforeFacts
<1>4. \A e, f \in S : rank[e] \in Nat /\ (rank[e] = rank[f] => e = f)
  <2>1. \A e \in S : rank[e] \in Nat
    BY <1>1
  <2> HIDE DEF rank
  <2>2. QED
    BY <1>2, <1>3, <2>1
<1>5. \A k \in 0..(n - 1) : \E e \in S : rank[e] = k
  <2>1. rank \in [S -> 0..(n - 1)]
    BY <1>1
  <2>2. rank \in Injection(S, 0..(n - 1))
    <3> HIDE DEF rank
    <3>1. QED
      BY <1>4, <2>1 DEF Injection, IsInjective
  <2>3. IsFiniteSet(0..(n - 1)) /\ Cardinality(0..(n - 1)) = n
    BY FS_Interval
  <2>4. rank \in Surjection(S, 0..(n - 1))
    BY <1>0, <2>2, <2>3, FS_Injection
  <2> HIDE DEF rank
  <2>5. QED
    BY <2>4 DEF Surjection
<1>6. ASSUME NEW i \in 1..n PROVE InOrder(S)[i] \in S /\ rank[InOrder(S)[i]] = i - 1
  <2>1. InOrder(S)[i] = CHOOSE e \in S : Cardinality(Below(e)) = i - 1
    BY <1>0 DEF InOrder
  <2>2. \E e \in S : Cardinality(Below(e)) = i - 1
    <3>1. i - 1 \in 0..(n - 1)
      OBVIOUS
    <3>2. QED
      BY <1>5, <3>1
  <2>3. InOrder(S)[i] \in S /\ Cardinality(Below(InOrder(S)[i])) = i - 1
    BY <2>1, <2>2
  <2>4. QED
    BY <2>3
<1>7. DOMAIN InOrder(S) = 1..n /\ InOrder(S) = [i \in 1..n |-> InOrder(S)[i]]
  BY <1>0 DEF InOrder
<1>8. InOrder(S) \in Seq(S) /\ Len(InOrder(S)) = n
  <2>1. InOrder(S) \in [1..n -> S]
    BY <1>6, <1>7
  <2>2. QED
    BY <1>7, <2>1
<1>9. ASSUME NEW i \in 1..n, NEW j \in 1..n, i < j
      PROVE  SortsBefore(InOrder(S)[i], InOrder(S)[j])
  <2>1. rank[InOrder(S)[i]] < rank[InOrder(S)[j]]
    BY <1>6, <1>9
  <2> HIDE DEF rank
  <2>2. ~(rank[InOrder(S)[j]] < rank[InOrder(S)[i]])
    BY <1>4, <1>6, <2>1
  <2>3. InOrder(S)[i] # InOrder(S)[j]
    BY <1>4, <1>6, <2>1
  <2>4. QED
    BY <1>2, <1>3, <1>6, <2>2, <2>3
<1>10. QED
  BY <1>0, <1>7, <1>8, <1>9

\* What a result adds to the results.
LEMMA PassesFacts ==
  ASSUME BuildTypeOK, Len(results) < Len(snapshot),
         NEW r \in {"built", "failed", "skipped"}, Passes(r)
  PROVE  /\ results' \in Seq({"built", "failed", "skipped"})
         /\ Len(results') = Len(results) + 1 /\ Len(results') <= Len(snapshot)
         /\ DOMAIN results' = DOMAIN results \cup {Len(results) + 1}
         /\ results'[Len(results) + 1] = r
         /\ \A i \in DOMAIN results : results'[i] = results[i]
         /\ \A i \in DOMAIN results' : i \in DOMAIN snapshot
BY DEF BuildTypeOK, Passes

\* The entry the script is at is one of the copy.
LEMMA CurrentFacts ==
  ASSUME BuildTypeOK, Len(results) < Len(snapshot)
  PROVE  /\ Current \in Entry /\ Len(results) + 1 \in DOMAIN snapshot
         /\ Current = snapshot[Len(results) + 1]
         /\ Len(results) \in Nat /\ DOMAIN results = 1..Len(results)
         /\ \A i \in DOMAIN results : i \in DOMAIN snapshot /\ i <= Len(results)
BY DEF BuildTypeOK, Current

\* The copy of the manifest, as the script takes it.
LEMMA CopyFacts ==
  ASSUME IInv
  PROVE  /\ InOrder(manifest) \in Seq(Entry) /\ ToSet(InOrder(manifest)) \subseteq manifest
         /\ \A i, j \in DOMAIN InOrder(manifest) :
              i < j => SortsBefore(InOrder(manifest)[i], InOrder(manifest)[j])
         /\ manifest = {} => Len(InOrder(manifest)) = 0
<1>1. /\ manifest \in SUBSET Entry /\ IsFiniteSet(manifest)
      /\ \A e, f \in manifest : e.key = f.key => e = f
  BY DEF IInv, TypeOK, FinitelyMany, EntriesAreStored
<1>2. InOrder(manifest) \in Seq(manifest) /\ Len(InOrder(manifest)) = Cardinality(manifest)
  BY <1>1, InOrderSorts
<1>3. \A i, j \in DOMAIN InOrder(manifest) :
        i < j => SortsBefore(InOrder(manifest)[i], InOrder(manifest)[j])
  BY <1>1, InOrderSorts
<1>4. InOrder(manifest) \in Seq(Entry) /\ ToSet(InOrder(manifest)) \subseteq manifest
  BY <1>1, <1>2 DEF ToSet
<1>5. manifest = {} => Cardinality(manifest) = 0
  BY FS_EmptySet
<1>6. QED
  BY <1>2, <1>3, <1>4, <1>5

\* What a build that succeeds has made.
LEMMA BuiltFacts ==
  ASSUME BuildTypeOK, BuildSucceeds
  PROVE  /\ Len(results) < Len(snapshot) /\ Current.sum = "whole"
         /\ image' = {[of |-> Current, content |-> Current.sum]}
         /\ image' \in SUBSET Image
<1>1. Len(results) < Len(snapshot) /\ Current \in Entry
  BY CurrentFacts DEF BuildSucceeds, Attempts
<1>2. bucket[Current.key] = Current.sum /\ Current.sum = "whole"
  BY DEF BuildSucceeds, Downloads, Installs
<1>3. QED
  BY <1>1, <1>2 DEF BuildSucceeds, Image, Contents

\* Every step keeps the types of what the build script has.
LEMMA BuildTypeStep ==
  IInv /\ BuildIInv /\ [BuildNext]_<<vars, buildVars>> => BuildTypeOK'
<1> SUFFICES ASSUME IInv, BuildIInv, [BuildNext]_<<vars, buildVars>>
             PROVE  BuildTypeOK'
  OBVIOUS
<1>0. BuildTypeOK /\ SortedCopy /\ AtPush
  BY DEF BuildIInv
<1>1. CASE FetchForBuild /\ UNCHANGED vars
  BY <1>0, <1>1, CopyFacts DEF BuildTypeOK, FetchForBuild, SortedCopy
<1>2. CASE Skip /\ UNCHANGED vars
  BY <1>0, <1>2, PassesFacts DEF BuildTypeOK, Skip
<1>3. CASE DryRun /\ UNCHANGED vars
  BY <1>0, <1>3, PassesFacts DEF BuildTypeOK, DryRun
<1>4. CASE BuildSucceeds /\ UNCHANGED vars
  BY <1>0, <1>4, BuiltFacts, PassesFacts DEF BuildTypeOK, BuildSucceeds
<1>5. CASE BuildFails /\ UNCHANGED vars
  BY <1>0, <1>5, PassesFacts DEF BuildTypeOK, BuildFails, Attempts
<1>6. CASE PushFull /\ UNCHANGED vars
  BY <1>0, <1>6 DEF BuildTypeOK, PushFull
<1>7. CASE PushMajor /\ UNCHANGED vars
  BY <1>0, <1>7, PassesFacts DEF BuildTypeOK, PushMajor, AtPush
<1>8. CASE PushFails /\ UNCHANGED vars
  BY <1>0, <1>8, PassesFacts DEF BuildTypeOK, PushFails, AtPush
<1>9. CASE Summary /\ UNCHANGED vars
  BY <1>0, <1>9 DEF BuildTypeOK, Summary
<1>10. CASE Next /\ UNCHANGED buildVars
  BY <1>0, <1>10 DEF BuildTypeOK, buildVars
<1>11. CASE UNCHANGED <<vars, buildVars>>
  BY <1>0, <1>11 DEF BuildTypeOK, buildVars
<1>12. QED
  BY <1>1, <1>2, <1>3, <1>4, <1>5, <1>6, <1>7, <1>8, <1>9, <1>10, <1>11
     DEF BuildNext, BuildStep

\* Every step keeps the copy as it was taken, and what is in it recorded.
LEMMA CopySortedStep ==
  IInv /\ BuildIInv /\ [BuildNext]_<<vars, buildVars>> => SortedCopy'
<1> SUFFICES ASSUME IInv, BuildIInv, [BuildNext]_<<vars, buildVars>>
             PROVE  SortedCopy'
  OBVIOUS
<1>0. SortedCopy
  BY DEF BuildIInv
<1>1. CASE FetchForBuild /\ UNCHANGED vars
  BY <1>1, CopyFacts DEF SortedCopy, FetchForBuild, vars, store, history, SortsBefore
<1>2. CASE Skip /\ UNCHANGED vars
  BY <1>0, <1>2 DEF SortedCopy, Skip, vars, store, history, SortsBefore
<1>3. CASE DryRun /\ UNCHANGED vars
  BY <1>0, <1>3 DEF SortedCopy, DryRun, vars, store, history, SortsBefore
<1>4. CASE BuildSucceeds /\ UNCHANGED vars
  BY <1>0, <1>4 DEF SortedCopy, BuildSucceeds, Attempts, vars, store, history, SortsBefore
<1>5. CASE BuildFails /\ UNCHANGED vars
  BY <1>0, <1>5 DEF SortedCopy, BuildFails, Attempts, vars, store, history, SortsBefore
<1>6. CASE PushFull /\ UNCHANGED vars
  BY <1>0, <1>6 DEF SortedCopy, PushFull, vars, store, history, SortsBefore
<1>7. CASE PushMajor /\ UNCHANGED vars
  BY <1>0, <1>7 DEF SortedCopy, PushMajor, vars, store, history, SortsBefore
<1>8. CASE PushFails /\ UNCHANGED vars
  BY <1>0, <1>8 DEF SortedCopy, PushFails, vars, store, history, SortsBefore
<1>9. CASE Summary /\ UNCHANGED vars
  BY <1>0, <1>9 DEF SortedCopy, Summary, vars, store, history, SortsBefore
<1>10. CASE Next /\ UNCHANGED buildVars
  <2>1. misread => misread'
    BY <1>10 DEF Next, Start, FetchManifest, FetchIndexes, Discover, Download, Upload, Record,
              Push, Abort, history
  <2>2. CASE Push
    <3>1. ~misread => manifest \subseteq manifest'
      BY <2>2, MergedKeepsAll DEF IInv, CopyOrNothing, Push
    <3>2. QED
      BY <1>0, <1>10, <2>1, <3>1 DEF SortedCopy, buildVars, SortsBefore
  <2>3. CASE ~Push
    <3>1. manifest' = manifest
      BY <1>10, <2>3 DEF Next, Start, FetchManifest, FetchIndexes, Discover, Download, Upload,
                      Record, Abort, store
    <3>2. QED
      BY <1>0, <1>10, <2>1, <3>1 DEF SortedCopy, buildVars, SortsBefore
  <2>4. QED
    BY <2>2, <2>3
<1>11. CASE UNCHANGED <<vars, buildVars>>
  BY <1>0, <1>11 DEF SortedCopy, vars, store, history, buildVars, SortsBefore
<1>12. QED
  BY <1>1, <1>2, <1>3, <1>4, <1>5, <1>6, <1>7, <1>8, <1>9, <1>10, <1>11
     DEF BuildNext, BuildStep

\* Every step keeps what is being pushed the image of the current entry.
LEMMA PushStep ==
  IInv /\ BuildIInv /\ [BuildNext]_<<vars, buildVars>> => AtPush'
<1> SUFFICES ASSUME IInv, BuildIInv, [BuildNext]_<<vars, buildVars>>
             PROVE  AtPush'
  OBVIOUS
<1>0. BuildTypeOK /\ SortedCopy /\ AtPush
  BY DEF BuildIInv
<1>1. CASE FetchForBuild /\ UNCHANGED vars
  BY <1>0, <1>1, CopyFacts DEF AtPush, FetchForBuild, SortedCopy
<1>2. CASE Skip /\ UNCHANGED vars
  BY <1>0, <1>2 DEF AtPush, Skip
<1>3. CASE DryRun /\ UNCHANGED vars
  BY <1>0, <1>3 DEF AtPush, DryRun
<1>4. CASE BuildSucceeds /\ UNCHANGED vars
  <2>1. (bpc' = "push" /\ mode = "push" /\ results' = results) \/ bpc' = "loop"
    BY <1>4 DEF BuildSucceeds, Attempts
  <2>2. snapshot' = snapshot /\ mode' = mode
    BY <1>4 DEF BuildSucceeds
  <2>3. QED
    BY <1>0, <1>4, <2>1, <2>2, BuiltFacts DEF AtPush, Current
<1>5. CASE BuildFails /\ UNCHANGED vars
  BY <1>0, <1>5 DEF AtPush, BuildFails, Attempts
<1>6. CASE PushFull /\ UNCHANGED vars
  <2>1. Current \in Entry /\ image # {}
    BY <1>0, <1>6, CurrentFacts DEF AtPush, PushFull
  <2>2. full'[Current.key] = image
    BY <1>0, <1>6, <2>1, EntryFacts DEF BuildTypeOK, PushFull
  <2>3. QED
    BY <1>0, <1>6, <2>1, <2>2 DEF AtPush, PushFull, Current
<1>7. CASE PushMajor /\ UNCHANGED vars
  BY <1>0, <1>7 DEF AtPush, PushMajor
<1>8. CASE PushFails /\ UNCHANGED vars
  BY <1>0, <1>8 DEF AtPush, PushFails
<1>9. CASE Summary /\ UNCHANGED vars
  BY <1>0, <1>9 DEF AtPush, Summary
<1>10. CASE Next /\ UNCHANGED buildVars
  BY <1>0, <1>10 DEF AtPush, buildVars, Current
<1>11. CASE UNCHANGED <<vars, buildVars>>
  BY <1>0, <1>11 DEF AtPush, buildVars, Current
<1>12. QED
  BY <1>1, <1>2, <1>3, <1>4, <1>5, <1>6, <1>7, <1>8, <1>9, <1>10, <1>11
     DEF BuildNext, BuildStep

\* Every step keeps what counts as built in the registry: a result is "built" only with
\* the second push, and no push empties a tag.
LEMMA AccountedStep ==
  IInv /\ BuildIInv /\ [BuildNext]_<<vars, buildVars>> => Accounted'
<1> SUFFICES ASSUME IInv, BuildIInv, [BuildNext]_<<vars, buildVars>>
             PROVE  Accounted'
  OBVIOUS
<1>0. BuildTypeOK /\ SortedCopy /\ AtPush /\ Accounted
  BY DEF BuildIInv
<1>1. CASE FetchForBuild /\ UNCHANGED vars
  BY <1>0, <1>1 DEF SortedCopy, Accounted, FetchForBuild
<1>2. CASE Skip /\ UNCHANGED vars
  BY <1>0, <1>2, PassesFacts, CurrentFacts DEF Accounted, Skip, Selected
<1>3. CASE DryRun /\ UNCHANGED vars
  BY <1>0, <1>3 DEF Accounted, DryRun
<1>4. CASE BuildSucceeds /\ UNCHANGED vars
  <2>1. mode # "push" \/ UNCHANGED <<mode, only, snapshot, results, full, major>>
    BY <1>4 DEF BuildSucceeds
  <2>2. QED
    BY <1>0, <1>4, <2>1 DEF Accounted, Selected, BuildSucceeds
<1>5. CASE BuildFails /\ UNCHANGED vars
  BY <1>0, <1>5, PassesFacts DEF Accounted, BuildFails, Attempts, Selected
<1>6. CASE PushFull /\ UNCHANGED vars
  <2>1. image # {}
    BY <1>0, <1>6 DEF AtPush, PushFull
  <2>2. \A k \in Keys : full[k] # {} => full'[k] # {}
    BY <1>0, <1>6, <2>1 DEF BuildTypeOK, PushFull
  <2>3. \A i \in DOMAIN results : snapshot[i] \in Entry
    BY <1>0 DEF BuildTypeOK
  <2>4. QED
    BY <1>0, <1>6, <2>2, <2>3, EntryFacts DEF Accounted, PushFull, Selected
<1>7. CASE PushMajor /\ UNCHANGED vars
  <2>1. Len(results) < Len(snapshot) /\ image # {} /\ full[Current.key] # {}
    BY <1>0, <1>7 DEF AtPush, PushMajor
  <2>2. /\ major'[Current.key[1]] # {}
        /\ \A m \in Majors : major[m] # {} => major'[m] # {}
    BY <1>0, <1>7, <2>1, CurrentFacts, EntryFacts DEF BuildTypeOK, PushMajor
  <2>3. \A i \in DOMAIN results : snapshot[i] \in Entry
    BY <1>0 DEF BuildTypeOK
  <2>4. UNCHANGED <<mode, only, snapshot, full>> /\ Passes("built")
    BY <1>7 DEF PushMajor
  <2>5. ASSUME NEW i \in DOMAIN results', mode = "push"
        PROVE  /\ results'[i] = "built" =>
                    full[snapshot[i].key] # {} /\ major'[snapshot[i].key[1]] # {}
               /\ results'[i] = "skipped" => ~Selected(snapshot[i].key[1])
    <3>1. CASE i \in DOMAIN results
      BY <1>0, <2>1, <2>2, <2>3, <2>4, <2>5, <3>1, PassesFacts, EntryFacts DEF Accounted
    <3>2. CASE i = Len(results) + 1
      BY <1>0, <2>1, <2>2, <2>4, <3>2, PassesFacts, CurrentFacts
    <3>3. QED
      BY <1>0, <2>1, <2>4, <2>5, <3>1, <3>2, PassesFacts
  <2>6. QED
    BY <2>4, <2>5 DEF Accounted, Selected
<1>8. CASE PushFails /\ UNCHANGED vars
  <2>1. Len(results) < Len(snapshot)
    BY <1>0, <1>8 DEF AtPush, PushFails
  <2>2. QED
    BY <1>0, <1>8, <2>1, PassesFacts DEF Accounted, PushFails, Selected
<1>9. CASE Summary /\ UNCHANGED vars
  BY <1>0, <1>9 DEF Accounted, Summary, Selected
<1>10. CASE Next /\ UNCHANGED buildVars
  BY <1>0, <1>10 DEF Accounted, buildVars, Selected
<1>11. CASE UNCHANGED <<vars, buildVars>>
  BY <1>0, <1>11 DEF Accounted, buildVars, Selected
<1>12. QED
  BY <1>1, <1>2, <1>3, <1>4, <1>5, <1>6, <1>7, <1>8, <1>9, <1>10, <1>11
     DEF BuildNext, BuildStep

\* Every step keeps the tag of a major with the last entry of it that was built.
LEMMA LastStep ==
  IInv /\ BuildIInv /\ [BuildNext]_<<vars, buildVars>> => LastHasTheTag'
<1> SUFFICES ASSUME IInv, BuildIInv, [BuildNext]_<<vars, buildVars>>
             PROVE  LastHasTheTag'
  OBVIOUS
<1>0. BuildTypeOK /\ SortedCopy /\ AtPush /\ LastHasTheTag
  BY DEF BuildIInv
<1>1. CASE FetchForBuild /\ UNCHANGED vars
  BY <1>0, <1>1 DEF SortedCopy, LastHasTheTag, FetchForBuild
<1>2. CASE Skip /\ UNCHANGED vars
  <2>1. Len(results) < Len(snapshot)
    BY <1>0, <1>2 DEF Skip
  <2>2. \A k \in DOMAIN results' :
          results'[k] = "built" => k \in DOMAIN results /\ results[k] = "built"
    BY <1>0, <1>2, <2>1, PassesFacts DEF Skip
  <2>3. DOMAIN results \subseteq DOMAIN results' /\ UNCHANGED <<mode, snapshot, major>>
    BY <1>0, <1>2, <2>1, PassesFacts DEF Skip
  <2>4. \A k \in DOMAIN results : results'[k] = results[k]
    BY <1>0, <1>2, <2>1, PassesFacts DEF Skip
  <2>5. QED
    BY <1>0, <2>2, <2>3, <2>4 DEF LastHasTheTag
<1>3. CASE DryRun /\ UNCHANGED vars
  BY <1>0, <1>3 DEF LastHasTheTag, DryRun
<1>4. CASE BuildSucceeds /\ UNCHANGED vars
  <2>1. mode # "push" \/ UNCHANGED <<snapshot, results>>
    BY <1>4 DEF BuildSucceeds
  <2>2. QED
    BY <1>0, <1>4, <2>1 DEF LastHasTheTag, BuildSucceeds
<1>5. CASE BuildFails /\ UNCHANGED vars
  <2>1. Len(results) < Len(snapshot)
    BY <1>0, <1>5 DEF BuildFails, Attempts
  <2>2. \A k \in DOMAIN results' :
          results'[k] = "built" => k \in DOMAIN results /\ results[k] = "built"
    BY <1>0, <1>5, <2>1, PassesFacts DEF BuildFails
  <2>3. DOMAIN results \subseteq DOMAIN results' /\ UNCHANGED <<mode, snapshot, major>>
    BY <1>0, <1>5, <2>1, PassesFacts DEF BuildFails
  <2>4. \A k \in DOMAIN results : results'[k] = results[k]
    BY <1>0, <1>5, <2>1, PassesFacts DEF BuildFails
  <2>5. QED
    BY <1>0, <2>2, <2>3, <2>4 DEF LastHasTheTag
<1>6. CASE PushFull /\ UNCHANGED vars
  BY <1>0, <1>6 DEF LastHasTheTag, PushFull
<1>7. CASE PushMajor /\ UNCHANGED vars
  <2>1. Len(results) < Len(snapshot) /\ mode = "push" /\ \A t \in image : t.of = Current
    BY <1>0, <1>7 DEF AtPush, PushMajor
  <2>2. UNCHANGED <<mode, snapshot>> /\ Passes("built")
    BY <1>7 DEF PushMajor
  <2>3. ASSUME NEW m \in Majors, NEW t \in major'[m]
        PROVE  \E j \in DOMAIN results' :
                 /\ snapshot[j] = t.of
                 /\ \A k \in DOMAIN results' :
                      results'[k] = "built" /\ snapshot[k].key[1] = m => k <= j
    <3>1. CASE m = Current.key[1]
      <4>1. t \in image
        BY <1>0, <1>7, <2>3, <3>1 DEF BuildTypeOK, PushMajor
      <4>2. /\ snapshot[Len(results) + 1] = t.of /\ Len(results) + 1 \in DOMAIN results'
            /\ \A k \in DOMAIN results' : k <= Len(results) + 1
        BY <1>0, <2>1, <2>2, <4>1, PassesFacts, CurrentFacts
      <4>3. QED
        BY <4>2
    <3>2. CASE m # Current.key[1]
      <4>1. t \in major[m]
        BY <1>0, <1>7, <2>3, <3>2 DEF BuildTypeOK, PushMajor
      <4>2. PICK j \in DOMAIN results :
              /\ snapshot[j] = t.of
              /\ \A k \in DOMAIN results :
                   results[k] = "built" /\ snapshot[k].key[1] = m => k <= j
        BY <1>0, <4>1 DEF LastHasTheTag
      <4>3. ASSUME NEW k \in DOMAIN results', results'[k] = "built", snapshot[k].key[1] = m
            PROVE  k <= j
        <5>1. k \in DOMAIN results /\ results[k] = "built"
          BY <1>0, <2>1, <2>2, <3>2, <4>3, PassesFacts, CurrentFacts
        <5>2. QED
          BY <4>2, <4>3, <5>1
      <4>4. j \in DOMAIN results'
        BY <1>0, <2>1, <2>2, PassesFacts
      <4>5. QED
        BY <4>2, <4>3, <4>4
    <3>3. QED
      BY <3>1, <3>2
  <2>4. QED
    BY <2>1, <2>2, <2>3 DEF LastHasTheTag
<1>8. CASE PushFails /\ UNCHANGED vars
  <2>1. Len(results) < Len(snapshot)
    BY <1>0, <1>8 DEF AtPush, PushFails
  <2>2. \A k \in DOMAIN results' :
          results'[k] = "built" => k \in DOMAIN results /\ results[k] = "built"
    BY <1>0, <1>8, <2>1, PassesFacts DEF PushFails
  <2>3. DOMAIN results \subseteq DOMAIN results' /\ UNCHANGED <<mode, snapshot, major>>
    BY <1>0, <1>8, <2>1, PassesFacts DEF PushFails
  <2>4. \A k \in DOMAIN results : results'[k] = results[k]
    BY <1>0, <1>8, <2>1, PassesFacts DEF PushFails
  <2>5. QED
    BY <1>0, <2>2, <2>3, <2>4 DEF LastHasTheTag
<1>9. CASE Summary /\ UNCHANGED vars
  BY <1>0, <1>9 DEF LastHasTheTag, Summary
<1>10. CASE Next /\ UNCHANGED buildVars
  BY <1>0, <1>10 DEF LastHasTheTag, buildVars
<1>11. CASE UNCHANGED <<vars, buildVars>>
  BY <1>0, <1>11 DEF LastHasTheTag, buildVars
<1>12. QED
  BY <1>1, <1>2, <1>3, <1>4, <1>5, <1>6, <1>7, <1>8, <1>9, <1>10, <1>11
     DEF BuildNext, BuildStep

\* Every step keeps images what their tags say: docker compared the sum as it built them.
LEMMA RecordedStep ==
  IInv /\ BuildIInv /\ [BuildNext]_<<vars, buildVars>> => ImagesAreAsRecorded'
<1> SUFFICES ASSUME IInv, BuildIInv, [BuildNext]_<<vars, buildVars>>
             PROVE  ImagesAreAsRecorded'
  OBVIOUS
<1>0. BuildTypeOK /\ SortedCopy /\ AtPush /\ ImagesAreAsRecorded
  BY DEF BuildIInv
<1>1. CASE FetchForBuild /\ UNCHANGED vars
  BY <1>0, <1>1 DEF ImagesAreAsRecorded, FetchForBuild
<1>2. CASE Skip /\ UNCHANGED vars
  BY <1>0, <1>2 DEF ImagesAreAsRecorded, Skip
<1>3. CASE DryRun /\ UNCHANGED vars
  BY <1>0, <1>3 DEF ImagesAreAsRecorded, DryRun
<1>4. CASE BuildSucceeds /\ UNCHANGED vars
  BY <1>0, <1>4 DEF ImagesAreAsRecorded, BuildSucceeds
<1>5. CASE BuildFails /\ UNCHANGED vars
  BY <1>0, <1>5 DEF ImagesAreAsRecorded, BuildFails
<1>6. CASE PushFull /\ UNCHANGED vars
  <2>1. \A i \in image : i.of = Current /\ i.content = Current.sum /\ i.content = "whole"
    BY <1>0, <1>6 DEF AtPush, PushFull
  <2>2. \A k \in Keys : full'[k] = IF k = Current.key THEN image ELSE full[k]
    BY <1>0, <1>6 DEF BuildTypeOK, PushFull
  <2>3. QED
    BY <1>0, <1>6, <2>1, <2>2 DEF ImagesAreAsRecorded, PushFull
<1>7. CASE PushMajor /\ UNCHANGED vars
  <2>1. \A i \in image : i.of = Current /\ i.content = Current.sum /\ i.content = "whole"
    BY <1>0, <1>7 DEF AtPush, PushMajor
  <2>2. \A m \in Majors : major'[m] = IF m = Current.key[1] THEN image ELSE major[m]
    BY <1>0, <1>7 DEF BuildTypeOK, PushMajor
  <2>3. QED
    BY <1>0, <1>7, <2>1, <2>2 DEF ImagesAreAsRecorded, PushMajor
<1>8. CASE PushFails /\ UNCHANGED vars
  BY <1>0, <1>8 DEF ImagesAreAsRecorded, PushFails
<1>9. CASE Summary /\ UNCHANGED vars
  BY <1>0, <1>9 DEF ImagesAreAsRecorded, Summary
<1>10. CASE Next /\ UNCHANGED buildVars
  BY <1>0, <1>10 DEF ImagesAreAsRecorded, buildVars
<1>11. CASE UNCHANGED <<vars, buildVars>>
  BY <1>0, <1>11 DEF ImagesAreAsRecorded, buildVars
<1>12. QED
  BY <1>1, <1>2, <1>3, <1>4, <1>5, <1>6, <1>7, <1>8, <1>9, <1>10, <1>11
     DEF BuildNext, BuildStep

\* The package that stands for a release is that of an entry of the copy, and of none
\* after the one that needs it.
LEMMA DepsFacts ==
  ASSUME BuildTypeOK, NEW i \in DOMAIN snapshot, NEW d \in DepsOf(snapshot[i])
  PROVE  \E k \in DOMAIN snapshot : k <= i /\ d = snapshot[k]
<1>1. InItsEra(snapshot[i]) \subseteq Nat /\ i \in InItsEra(snapshot[i])
  BY DEF BuildTypeOK, InItsEra
<1>2. /\ Lowest(InItsEra(snapshot[i])) \in InItsEra(snapshot[i])
      /\ Lowest(InItsEra(snapshot[i])) <= i
  BY <1>1, LowestOf
<1>3. QED
  BY <1>2 DEF DepsOf, InItsEra

\* It stays what it is.
LEMMA DepsKept ==
  ASSUME UNCHANGED <<script, snapshot>>
  PROVE  \A e : DepsOf(e)' = DepsOf(e)
<1>1. \A m : UbuntuForMajor(m)' = UbuntuForMajor(m)
  BY DEF UbuntuForMajor, EraEnds
<1>2. \A e : InItsEra(e)' = InItsEra(e)
  BY <1>1 DEF InItsEra
<1>3. QED
  BY <1>2 DEF DepsOf

\* An entry that docker cannot build although what the manifest says of it and of the
\* rest of the copy is true: it is older than the one that stands for its release, which
\* sorts before it as text.
LEMMA UnbuildableFacts ==
  ASSUME IInv, BuildTypeOK, SortedCopy, ~misread, Len(results) < Len(snapshot),
         \A e \in ToSet(snapshot) : e.sum = "whole",
         ~(Downloads(Current) /\ Installs(Current))
  PROVE  ~TextIsNumber /\ \E d \in DepsOf(Current) :
           d.key[1] = Current.key[1] /\ Newer(d.key, Current.key)
<1> DEFINE i == Len(results) + 1
<1>1. i \in DOMAIN snapshot /\ Current = snapshot[i] /\ Current \in Entry
  BY CurrentFacts
<1>2. ASSUME NEW k \in DOMAIN snapshot
      PROVE  /\ snapshot[k] \in Entry
             /\ bucket[snapshot[k].key] = "whole" /\ snapshot[k].sum = "whole"
  <2>1. snapshot[k] \in manifest /\ snapshot[k].sum = "whole"
    BY DEF SortedCopy, ToSet
  <2>2. QED
    BY <2>1 DEF IInv, TypeOK, EntriesAreStored
<1>3. PICK d \in DepsOf(Current) :
        ~(Downloads(d) /\ bucket[d.key] = "whole" /\ ~Newer(d.key, Current.key))
  BY <1>1, <1>2 DEF Downloads, Installs
<1>4. PICK k \in DOMAIN snapshot : k <= i /\ d = snapshot[k]
  BY <1>1, <1>3, DepsFacts
<1>5. Newer(d.key, Current.key) /\ d \in Entry
  BY <1>2, <1>3, <1>4 DEF Downloads
<1>6. k # i
  BY <1>1, <1>4, <1>5, EntryFacts DEF Newer
<1>7. SortsBefore(d, Current)
  <2>1. k < i /\ i \in DOMAIN snapshot
    BY <1>1, <1>4, <1>6 DEF BuildTypeOK
  <2>2. QED
    BY <1>1, <1>4, <2>1 DEF SortedCopy
<1>8. /\ d.key[1] = Current.key[1]
      /\ Current.key[2] < d.key[2] /\ TextRank(d.key[2]) < TextRank(Current.key[2])
  BY <1>1, <1>5, <1>7, EntryFacts DEF Newer, SortsBefore
<1>9. ~TextIsNumber
  <2>1. d.key[2] \in Patches /\ Current.key[2] \in Patches
    BY <1>1, <1>5, EntryFacts
  <2>2. TextRank(d.key[2]) \in Nat /\ TextRank(Current.key[2]) \in Nat
    BY <1>1, <1>5, EntryFacts, TextRankFacts
  <2>3. QED
    BY <1>8, <2>1, <2>2 DEF TextIsNumber
<1>10. QED
  BY <1>5, <1>8, <1>9

\* Every step keeps failures explained: docker or the registry, or a version older than
\* what stands for its release.
LEMMA BuildsStep ==
  IInv /\ BuildIInv /\ [BuildNext]_<<vars, buildVars>> => AGoodArchiveBuilds'
<1> SUFFICES ASSUME IInv, BuildIInv, [BuildNext]_<<vars, buildVars>>
             PROVE  AGoodArchiveBuilds'
  OBVIOUS
<1>0. BuildTypeOK /\ SortedCopy /\ AtPush /\ AGoodArchiveBuilds
  BY DEF BuildIInv
<1>1. CASE FetchForBuild /\ UNCHANGED vars
  BY <1>0, <1>1 DEF SortedCopy, AGoodArchiveBuilds, FetchForBuild
<1>2. CASE Skip /\ UNCHANGED vars
  <2>1. Len(results) < Len(snapshot)
    BY <1>0, <1>2 DEF Skip
  <2>2. UNCHANGED <<script, misread, snapshot>> /\ (mishap' = mishap)
    BY <1>2 DEF Skip, vars, store, history
  <2>3. \A i \in DOMAIN results' :
          results'[i] = "failed" => i \in DOMAIN results /\ results[i] = "failed"
    BY <1>0, <1>2, <2>1, PassesFacts DEF Skip
  <2>4. QED
    BY <1>0, <2>2, <2>3, DepsKept DEF AGoodArchiveBuilds
<1>3. CASE DryRun /\ UNCHANGED vars
  <2>1. Len(results) < Len(snapshot)
    BY <1>0, <1>3 DEF DryRun
  <2>2. UNCHANGED <<script, misread, snapshot>> /\ (mishap' = mishap)
    BY <1>3 DEF DryRun, vars, store, history
  <2>3. \A i \in DOMAIN results' :
          results'[i] = "failed" => i \in DOMAIN results /\ results[i] = "failed"
    BY <1>0, <1>3, <2>1, PassesFacts DEF DryRun
  <2>4. QED
    BY <1>0, <2>2, <2>3, DepsKept DEF AGoodArchiveBuilds
<1>4. CASE BuildSucceeds /\ UNCHANGED vars
  <2>1. Len(results) < Len(snapshot)
    BY <1>0, <1>4 DEF BuildSucceeds, Attempts
  <2>2. UNCHANGED <<script, misread, snapshot>> /\ (mishap' = mishap)
    BY <1>4 DEF BuildSucceeds, vars, store, history
  <2>3. \A i \in DOMAIN results' :
          results'[i] = "failed" => i \in DOMAIN results /\ results[i] = "failed"
    BY <1>0, <1>4, <2>1, PassesFacts DEF BuildSucceeds
  <2>4. QED
    BY <1>0, <2>2, <2>3, DepsKept DEF AGoodArchiveBuilds
<1>5. CASE BuildFails /\ UNCHANGED vars
  <2>1. Len(results) < Len(snapshot) /\ Passes("failed") /\ (mishap => mishap')
    BY <1>0, <1>5 DEF BuildFails, Attempts
  <2>2. UNCHANGED <<script, misread, snapshot>>
    BY <1>5 DEF BuildFails, vars, store, history
  <2>3. ASSUME ~mishap', ~misread, \A e \in ToSet(snapshot) : e.sum = "whole",
               NEW i \in DOMAIN results', results'[i] = "failed"
        PROVE  ~TextIsNumber /\ \E d \in DepsOf(snapshot[i]) :
                 d.key[1] = snapshot[i].key[1] /\ Newer(d.key, snapshot[i].key)
    <3>1. CASE i \in DOMAIN results
      BY <1>0, <2>1, <2>3, <3>1, PassesFacts DEF AGoodArchiveBuilds
    <3>2. CASE i = Len(results) + 1
      <4>1. ~(Downloads(Current) /\ Installs(Current))
        BY <1>5, <2>3 DEF BuildFails
      <4>2. QED
        BY <1>0, <2>1, <2>3, <3>2, <4>1, UnbuildableFacts, CurrentFacts
    <3>3. QED
      BY <1>0, <2>1, <2>3, <3>1, <3>2, PassesFacts
  <2>4. QED
    BY <2>2, <2>3, DepsKept DEF AGoodArchiveBuilds
<1>6. CASE PushFull /\ UNCHANGED vars
  <2>1. UNCHANGED <<script, misread, mishap, snapshot, results>>
    BY <1>6 DEF PushFull, vars, store, history
  <2>2. QED
    BY <1>0, <2>1, DepsKept DEF AGoodArchiveBuilds
<1>7. CASE PushMajor /\ UNCHANGED vars
  <2>1. Len(results) < Len(snapshot)
    BY <1>0, <1>7 DEF AtPush, PushMajor
  <2>2. UNCHANGED <<script, misread, snapshot>> /\ (mishap' = mishap)
    BY <1>7 DEF PushMajor, vars, store, history
  <2>3. \A i \in DOMAIN results' :
          results'[i] = "failed" => i \in DOMAIN results /\ results[i] = "failed"
    BY <1>0, <1>7, <2>1, PassesFacts DEF PushMajor
  <2>4. QED
    BY <1>0, <2>2, <2>3, DepsKept DEF AGoodArchiveBuilds
<1>8. CASE PushFails /\ UNCHANGED vars
  BY <1>8 DEF AGoodArchiveBuilds, PushFails
<1>9. CASE Summary /\ UNCHANGED vars
  <2>1. UNCHANGED <<script, misread, mishap, snapshot, results>>
    BY <1>9 DEF Summary, vars, store, history
  <2>2. QED
    BY <1>0, <2>1, DepsKept DEF AGoodArchiveBuilds
<1>10. CASE Next /\ UNCHANGED buildVars
  <2>1. misread => misread'
    BY <1>10 DEF Next, Start, FetchManifest, FetchIndexes, Discover, Download, Upload, Record,
              Push, Abort, history
  <2>0. script' = script
    BY <1>10 DEF Next, Start, FetchManifest, FetchIndexes, Discover, Download, Upload, Record,
              Push, Abort, store
  <2>2. UNCHANGED <<mishap, snapshot, results>>
    BY <1>10 DEF buildVars
  <2>3. QED
    BY <1>0, <2>0, <2>1, <2>2, DepsKept DEF AGoodArchiveBuilds
<1>11. CASE UNCHANGED <<vars, buildVars>>
  <2>1. UNCHANGED <<script, misread, mishap, snapshot, results>>
    BY <1>11 DEF vars, store, history, buildVars
  <2>2. QED
    BY <1>0, <2>1, DepsKept DEF AGoodArchiveBuilds
<1>12. QED
  BY <1>1, <1>2, <1>3, <1>4, <1>5, <1>6, <1>7, <1>8, <1>9, <1>10, <1>11
     DEF BuildNext, BuildStep

\* The initial states satisfy the inductive invariant.
LEMMA BuildInitIInv == BuildInit => BuildIInv
<1> SUFFICES ASSUME BuildInit PROVE BuildIInv
  OBVIOUS
<1>1. BuildTypeOK
  <2>1. full \in [Keys -> SUBSET Image] /\ major \in [Majors -> SUBSET Image]
    BY DEF BuildInit
  <2>2. /\ snapshot \in Seq(Entry) /\ results \in Seq({"built", "failed", "skipped"})
        /\ Len(results) <= Len(snapshot)
    BY DEF BuildInit
  <2>3. bpc \in {"idle"} /\ mode \in {"dry", "build", "push"} /\ only \subseteq Majors
    BY DEF BuildInit
  <2>4. image \in SUBSET Image /\ mishap \in BOOLEAN
    BY DEF BuildInit
  <2>5. QED
    BY <2>1, <2>2, <2>3, <2>4 DEF BuildTypeOK
<1>2. SortedCopy /\ AtPush /\ Accounted /\ LastHasTheTag
  BY DEF BuildInit, Init, SortedCopy, AtPush, Accounted, LastHasTheTag, ToSet
<1>3. ImagesAreAsRecorded /\ AGoodArchiveBuilds
  BY DEF BuildInit, ImagesAreAsRecorded, AGoodArchiveBuilds
<1>4. QED
  BY <1>1, <1>2, <1>3 DEF BuildIInv

\* A build only reads from the archive: whatever the archive scripts keep true alone they
\* keep true with builds going on (build-chrome-images.sh:70-104).
THEOREM ArchiveGoesOn == BuildSpec => Spec
<1>1. BuildInit => Init
  BY DEF BuildInit
<1>2. [BuildNext]_<<vars, buildVars>> => [Next]_vars
  BY DEF BuildNext
<1>3. QED
  BY <1>1, <1>2, PTL DEF BuildSpec, Spec

\* The invariants of archive and build hold in every reachable state.
THEOREM BuildInvariance == BuildSpec => [](IInv /\ BuildIInv)
<1>1. IInv /\ BuildIInv /\ [BuildNext]_<<vars, buildVars>> => BuildIInv'
  BY BuildTypeStep, CopySortedStep, PushStep, AccountedStep, LastStep, RecordedStep,
     BuildsStep DEF BuildIInv
<1>2. BuildSpec => []IInv
  BY ArchiveGoesOn, Invariance, PTL
<1>3. QED
  BY BuildInitIInv, <1>1, <1>2, PTL DEF BuildSpec

\* Every image in the registry is what its tags and the manifest say, whatever archive
\* runs replace while docker works (build-chrome-images.sh:138-177, the Dockerfiles).
THEOREM TagsTellTheTruth == BuildSpec => []ImagesAreAsRecorded
<1>1. BuildIInv => ImagesAreAsRecorded
  BY DEF BuildIInv
<1>2. QED
  BY BuildInvariance, <1>1, PTL

\* A run that exits 0 with --push leaves everything it was asked for in the registry, and
\* the tag of a major is its newest as long as text sorts like numbers
\* (build-chrome-images.sh:128-191).
THEOREM ExitZeroIsComplete == BuildSpec => []SuccessMeansPushed
<1>1. IInv /\ BuildIInv => SuccessMeansPushed
  <2> SUFFICES ASSUME IInv, BuildIInv, Succeeds, mode = "push",
                      NEW k \in DOMAIN snapshot, Selected(snapshot[k].key[1])
               PROVE  /\ full[snapshot[k].key] # {} /\ major[snapshot[k].key[1]] # {}
                      /\ TextIsNumber => \A i \in major[snapshot[k].key[1]] :
                           ~Newer(snapshot[k].key, i.of.key)
    BY DEF SuccessMeansPushed, ToSet
  <2>0. BuildTypeOK /\ SortedCopy /\ AtPush /\ Accounted /\ LastHasTheTag
        /\ ImagesAreAsRecorded
    BY DEF BuildIInv
  <2>1. k \in DOMAIN results /\ DOMAIN results = DOMAIN snapshot
    BY <2>0 DEF Succeeds, AtPush, BuildTypeOK
  <2>2. results[k] = "built"
    <3>1. results[k] \in {"built", "failed", "skipped"} /\ results[k] # "failed"
      BY <2>0, <2>1 DEF Succeeds, BuildTypeOK, ToSet
    <3>2. QED
      BY <2>0, <2>1, <3>1 DEF Accounted
  <2>3. full[snapshot[k].key] # {} /\ major[snapshot[k].key[1]] # {}
    BY <2>0, <2>1, <2>2 DEF Accounted
  <2>4. ASSUME TextIsNumber, NEW i \in major[snapshot[k].key[1]]
        PROVE  ~Newer(snapshot[k].key, i.of.key)
    <3>1. snapshot[k] \in Entry
      BY <2>0 DEF BuildTypeOK
    <3>2. PICK j \in DOMAIN snapshot : snapshot[j] = i.of /\ k <= j /\ snapshot[j] \in Entry
      BY <2>0, <2>1, <2>2, <3>1, EntryFacts DEF LastHasTheTag, BuildTypeOK
    <3>3. i.of.key[1] = snapshot[k].key[1]
      BY <2>0, <3>1, EntryFacts DEF ImagesAreAsRecorded
    <3>4. CASE j = k
      BY <3>1, <3>2, <3>4, EntryFacts DEF Newer
    <3>5. CASE k < j
      <4>1. SortsBefore(snapshot[k], snapshot[j])
        BY <2>0, <3>2, <3>5 DEF SortedCopy
      <4>2. TextRank(snapshot[k].key[2]) < TextRank(snapshot[j].key[2])
        BY <3>1, <3>2, <3>3, <4>1, EntryFacts DEF SortsBefore
      <4>3. snapshot[k].key[2] \in Patches /\ snapshot[j].key[2] \in Patches
        BY <3>1, <3>2, EntryFacts
      <4>4. ~(snapshot[j].key[2] < snapshot[k].key[2])
        <5>1. TextRank(snapshot[k].key[2]) \in Nat /\ TextRank(snapshot[j].key[2]) \in Nat
          BY <3>1, <3>2, EntryFacts, TextRankFacts
        <5>2. QED
          BY <2>4, <4>2, <4>3, <5>1 DEF TextIsNumber
      <4>5. QED
        BY <3>1, <3>2, <3>3, <4>4, EntryFacts DEF Newer
    <3>6. QED
      BY <2>0, <3>2, <3>4, <3>5 DEF BuildTypeOK
  <2>5. QED
    BY <2>3, <2>4
<1>2. QED
  BY BuildInvariance, <1>1, PTL

\* From an archive without stubs everything builds while docker and the registry work,
\* except a version older than the one that stands for its Ubuntu release
\* (build-chrome-images.sh:106-170).
THEOREM GoodArchivesBuild == BuildSpec => []AGoodArchiveBuilds
<1>1. BuildIInv => AGoodArchiveBuilds
  BY DEF BuildIInv
<1>2. QED
  BY BuildInvariance, <1>1, PTL

\* Entries keep their objects and runs drop nothing they have read, with builds going on.
THEOREM ArchiveKeepsItsWord == BuildSpec => []EntriesAreStored /\ OnlyAFailedFetchDrops
BY ArchiveGoesOn, NoEntryWithoutObject, NothingIsDropped, PTL
==============================================================================
