---------------------------- MODULE SweepPoolProofs ----------------------------
(***************************************************************************)
(* Theorems about SweepPool, for any browsers, any numbers of versions and *)
(* any parallelism.                                                        *)
(*                                                                         *)
(* PInv says who holds a token and who keeps the WaitGroup from zero. With *)
(* it, wg = 0 after the last version was started means that every element  *)
(* of brResults has been filled in, which is what the report rests on;     *)
(* RepInv is what is then known of the rows joined so far. RowsAreFirst    *)
(* says where in the matrix those rows are, which the contract is about;   *)
(* the matrix is laid out by the recursive function Offset, and that it is *)
(* what its definition says is shown first, by least counterexamples.      *)
(***************************************************************************)
EXTENDS SweepPool, TLAPS, FiniteSetTheorems, SequenceTheorems, WellFoundedInduction

\* A row of the report.
RowType == [browser : Browsers, tag : Nat \ {0}, status : Statuses \cup {Unset}]

\* The goroutines that hold a token, and those that wg.Wait() waits for.
Holding == {t \in Tags : worker[t] \in {"running", "returned"}}
Undone == {t \in Tags : worker[t] \in {"running", "returned", "released"}}

\* A token and a count for each of them, and those the loop took for the next.
TokensAreHeld ==
  /\ sem = Cardinality(Holding) + (IF pc = "go" THEN 1 ELSE 0)
  /\ wg = Cardinality(Undone) + (IF pc \in {"acquire", "go"} THEN 1 ELSE 0)

\* Goroutines are started in order, one for each version.
StartedInOrder ==
  /\ b \in Browsers <=> pc # "done"
  /\ \A t \in Tags : worker[t] = "none" <=> t >= next
  /\ pc \in {"acquire", "go"} => next \in Tags
  /\ pc = "wait" => next \notin Tags
  /\ pc = "load" => next = 1

\* A goroutine that came back left a result.
FilledIn ==
  \A t \in Tags :
    worker[t] \in {"returned", "released", "gone"} => brResults[t] \in Statuses

\* The report has rows of earlier browsers only.
Below == \A i \in DOMAIN results : results[i].browser < b

\* The inductive invariant.
PInv == TypeOK /\ TokensAreHeld /\ StartedInOrder /\ FilledIn
RepInv == ReportHasNoHole /\ Below

\* The versions of a browser are finitely many.
LEMMA TagsFacts ==
  ASSUME b \in 1..(Len(Versions) + 1)
  PROVE  /\ Tags \subseteq Nat \ {0}
         /\ \A S \in SUBSET Tags : IsFiniteSet(S) /\ Cardinality(S) \in Nat
         /\ b \in Browsers => Tags = 1..Versions[b] /\ Versions[b] \in Nat
<1>1. CASE b \in Browsers
  <2>1. Versions[b] \in Nat
    BY <1>1, PoolAssumption, ElementOfSeq DEF Browsers
  <2>2. Tags = 1..Versions[b]
    BY <1>1 DEF Tags
  <2>3. IsFiniteSet(Tags)
    BY <2>1, <2>2, FS_Interval
  <2>4. ASSUME NEW S \in SUBSET Tags PROVE IsFiniteSet(S) /\ Cardinality(S) \in Nat
    BY <2>3, FS_Subset, FS_CardinalityType
  <2>5. QED
    BY <2>1, <2>2, <2>4
<1>2. CASE b \notin Browsers
  <2>1. Tags = {}
    BY <1>2 DEF Tags
  <2>2. ASSUME NEW S \in SUBSET Tags PROVE IsFiniteSet(S) /\ Cardinality(S) \in Nat
    <3>1. S = {}
      BY <2>1
    <3>2. QED
      BY <3>1, FS_EmptySet
  <2>3. QED
    BY <1>2, <2>1, <2>2
<1>3. QED
  BY <1>1, <1>2

\* There is room for one token at least (sweep.go:140-143).
LEMMA CapacityType == ASSUME TypeOK PROVE Capacity \in Nat \ {0}
BY PoolAssumption DEF TypeOK, Capacity

\* The next browser starts with a channel, a WaitGroup and results of its own.
LEMMA NewBrowser ==
  ASSUME PInv, pc # "done", NextBrowser, results' \in Seq(RowType)
  PROVE  PInv'
<1>1. b \in Browsers /\ b' = b + 1 /\ b' \in 1..(Len(Versions) + 1) /\ next' = 1
  <2>1. Len(Versions) \in Nat
    BY PoolAssumption, LenProperties
  <2>2. QED
    BY <2>1 DEF PInv, StartedInOrder, NextBrowser, Browsers
<1>2. Tags' \subseteq Nat \ {0} /\ IsFiniteSet(Tags')
  <2>1. CASE b' \in Browsers
    <3>1. Versions[b'] \in Nat
      BY <2>1, PoolAssumption, ElementOfSeq DEF Browsers
    <3>2. Tags' = 1..Versions[b']
      BY <2>1 DEF Tags
    <3>3. \A n \in Nat : IsFiniteSet(1..n) /\ 1..n \subseteq Nat \ {0}
      BY FS_Interval
    <3>4. QED
      BY <3>1, <3>2, <3>3
  <2>2. CASE b' \notin Browsers
    BY <1>1, <2>2, FS_EmptySet DEF Tags, Browsers
  <2>3. QED
    BY <2>1, <2>2
<1>3. \A t \in Tags' : worker'[t] = "none"
  BY DEF NextBrowser
<1>4. Holding' = {} /\ Undone' = {}
  BY <1>3 DEF Holding, Undone
<1>5. Cardinality({}) = 0
  BY FS_EmptySet
<1>6. pc' \in {"load", "done"} /\ (b' \in Browsers <=> pc' # "done")
  <2>1. Len(Versions) \in Nat
    BY PoolAssumption, LenProperties
  <2>2. QED
    BY <1>1, <2>1 DEF NextBrowser, Browsers
<1>7. TokensAreHeld'
  BY <1>4, <1>5, <1>6 DEF NextBrowser, TokensAreHeld
<1>8. StartedInOrder'
  BY <1>1, <1>2, <1>3, <1>6 DEF StartedInOrder
<1>9. FilledIn'
  BY <1>3 DEF FilledIn
<1>10. Capacity' = Capacity
  BY DEF Capacity, NextBrowser
<1>11. TypeOK'
  <2>1. sem' \in 0..Capacity'
    BY <1>10, CapacityType DEF NextBrowser, PInv
  <2>2. worker' \in [Tags' -> {"none", "running", "returned", "released", "gone"}]
    BY DEF NextBrowser
  <2>3. brResults' \in [Tags' -> Statuses \cup {Unset}]
    BY DEF NextBrowser
  <2>4. QED
    BY <1>1, <1>6, <2>1, <2>2, <2>3 DEF NextBrowser, PInv, TypeOK, RowType
<1>12. QED
  BY <1>7, <1>8, <1>9, <1>11 DEF PInv

\* A row for each version of this browser, joined to those of earlier ones, leaves
\* the report in order, complete and without a hole.
LEMMA RowsJoin ==
  ASSUME PInv, RepInv, pc # "done", NextBrowser, NEW st \in [Tags -> Statuses],
         results' = results \o [t \in Tags |-> Row(b, t, st[t])]
  PROVE  results' \in Seq(RowType) /\ RepInv'
<1> DEFINE rows == [t \in Tags |-> Row(b, t, st[t])]
           n == Versions[b]
           k == Len(results)
<1>1. b \in Browsers /\ n \in Nat /\ Tags = 1..n /\ b \in Nat
  BY TagsFacts DEF PInv, TypeOK, StartedInOrder, Browsers
<1>2. rows \in [1..n -> RowType]
  BY <1>1 DEF Row, RowType
<1>3. \A t \in 1..n : rows[t].browser = b /\ rows[t].tag = t /\ rows[t].status \in Statuses
  BY <1>1 DEF Row
<1> HIDE DEF rows
<1>4. rows \in Seq(RowType) /\ Len(rows) = n
  <2>1. rows \in Seq(RowType)
    BY <1>1, <1>2, SeqDef
  <2>2. DOMAIN rows = 1..n
    BY <1>1, <1>2
  <2>3. QED
    BY <1>1, <2>1, <2>2, LenProperties
<1>5. results \in Seq(RowType) /\ k \in Nat /\ DOMAIN results = 1..k
  BY LenProperties DEF PInv, TypeOK, RowType
<1> HIDE DEF k, n
<1>6. /\ results' \in Seq(RowType)
      /\ Len(results') = k + n
      /\ \A i \in 1..(k + n) : results'[i] = IF i <= k THEN results[i] ELSE rows[i - k]
  <2>1. results' = results \o rows
    BY DEF rows
  <2>2. /\ results \o rows \in Seq(RowType)
        /\ Len(results \o rows) = Len(results) + Len(rows)
        /\ \A i \in 1..(Len(results) + Len(rows)) :
              (results \o rows)[i] =
                IF i <= Len(results) THEN results[i] ELSE rows[i - Len(results)]
    BY <1>4, <1>5, ConcatProperties
  <2>3. Len(results) = k
    BY DEF k
  <2>4. QED
    BY <1>4, <2>1, <2>2, <2>3
<1>7. DOMAIN results' = 1..(k + n)
  BY <1>6, LenProperties
<1>8. \A i \in DOMAIN results : i \in DOMAIN results' /\ results'[i] = results[i]
  BY <1>1, <1>5, <1>6, <1>7
<1>9. \A i \in DOMAIN results' \ DOMAIN results :
        i - k \in 1..n /\ results'[i] = rows[i - k]
  BY <1>1, <1>5, <1>6, <1>7
<1>n1. ASSUME NEW i \in DOMAIN results', i \notin DOMAIN results
       PROVE  results'[i].browser = b /\ results'[i].status \in Statuses
  <2>1. i - k \in 1..n /\ results'[i] = rows[i - k]
    BY <1>9, <1>n1
  <2>2. QED
    BY <1>3, <2>1
<1>10. ASSUME NEW i \in DOMAIN results
       PROVE  /\ results[i].browser < b /\ results[i].browser \in Nat
              /\ results[i].status # Unset
  <2>1. results[i] \in RowType
    BY <1>5, ElementOfSeq DEF k
  <2>2. results[i].browser \in Browsers
    BY <2>1 DEF RowType
  <2>3. QED
    BY <2>2 DEF RepInv, Below, Browsers, ReportHasNoHole, NoHole
<1>11. b' = b + 1
  BY DEF NextBrowser
<1>12. Below'
  <2>1. ASSUME NEW i \in DOMAIN results' PROVE results'[i].browser < b'
    <3>1. CASE i \in DOMAIN results
      BY <1>1, <1>8, <1>10, <1>11, <3>1
    <3>2. CASE i \notin DOMAIN results
      <4>1. results'[i].browser = b
        BY <1>n1, <3>2
      <4>2. b < b'
        BY <1>1, <1>11
      <4>3. QED
        BY <4>1, <4>2
    <3>3. QED
      BY <3>1, <3>2
  <2>2. QED
    BY <2>1 DEF Below
<1>13. NoHole'
  <2>1. ASSUME NEW i \in DOMAIN results' PROVE results'[i].status # Unset
    <3>1. CASE i \in DOMAIN results
      BY <1>8, <1>10, <3>1
    <3>2. CASE i \notin DOMAIN results
      BY PoolAssumption, <1>n1, <3>2
    <3>3. QED
      BY <3>1, <3>2
  <2>2. QED
    BY <2>1 DEF NoHole
<1>14. Ordered'
  <2> SUFFICES ASSUME NEW i \in DOMAIN results', NEW j \in DOMAIN results', i < j
               PROVE  Before(results'[i], results'[j])
    BY DEF Ordered
  <2>1. CASE j \in DOMAIN results
    <3>1. i \in DOMAIN results
      BY <1>5, <1>7, <2>1
    <3>2. QED
      BY <1>8, <2>1, <3>1 DEF RepInv, ReportHasNoHole, Ordered
  <2>2. CASE i \in DOMAIN results /\ j \notin DOMAIN results
    <3>1. results'[i].browser < b
      BY <1>8, <1>10, <2>2
    <3>2. results'[j].browser = b
      BY <1>n1, <2>2
    <3>3. QED
      BY <3>1, <3>2 DEF Before
  <2>3. CASE i \notin DOMAIN results /\ j \notin DOMAIN results
    <3>1. /\ i - k \in 1..n /\ results'[i] = rows[i - k]
          /\ j - k \in 1..n /\ results'[j] = rows[j - k]
      BY <1>9, <2>3
    <3>2. i - k < j - k
      BY <1>1, <1>5, <1>7
    <3>3. QED
      BY <1>3, <3>1, <3>2 DEF Before
  <2>4. QED
    BY <2>1, <2>2, <2>3
<1>15. Complete'
  <2> SUFFICES ASSUME NEW br \in Browsers, NEW t \in 1..Versions[br], br < b'
               PROVE  \E i \in DOMAIN results' : results'[i].browser = br /\ results'[i].tag = t
    BY DEF Complete, Browsers
  <2>1. CASE br < b
    <3>1. PICK i \in DOMAIN results : results[i].browser = br /\ results[i].tag = t
      BY <2>1 DEF RepInv, ReportHasNoHole, Complete
    <3>2. QED
      BY <1>8, <3>1
  <2>2. CASE br = b
    <3>1. t \in 1..n /\ t + k \in 1..(k + n) /\ ~(t + k <= k) /\ (t + k) - k = t
      BY <1>1, <1>5, <2>2 DEF n
    <3>2. results'[t + k] = rows[t]
      BY <1>6, <3>1
    <3>3. QED
      BY <1>3, <1>7, <2>2, <3>1, <3>2
  <2>3. QED
    <3>1. br \in Nat
      BY DEF Browsers
    <3>2. br < b \/ br = b
      BY <1>1, <1>11, <3>1
    <3>3. QED
      BY <2>1, <2>2, <3>2
<1>16. QED
  BY <1>6, <1>12, <1>13, <1>14, <1>15 DEF RepInv, ReportHasNoHole

\* What depends on the browser and the request alone.
LEMMA PoolStays ==
  ASSUME PInv, UNCHANGED <<parallelism, b>>
  PROVE  UNCHANGED <<Tags, Capacity>>
BY DEF Tags, Capacity

\* Past wg.Wait() every element of brResults has been filled in.
LEMMA AllFilledIn == ASSUME PInv, Wait PROVE brResults \in [Tags -> Statuses]
<1>1. Tags \subseteq Nat \ {0} /\ IsFiniteSet(Undone) /\ Cardinality(Undone) \in Nat
  BY TagsFacts DEF PInv, TypeOK, Undone
<1>2. Undone = {}
  BY <1>1, FS_EmptySet DEF Wait, PInv, TokensAreHeld
<1>3. ASSUME NEW t \in Tags PROVE brResults[t] \in Statuses
  <2>1. worker[t] \in {"none", "gone"}
    BY <1>2 DEF Undone, PInv, TypeOK
  <2>2. t < next
    <3>1. Tags = 1..Versions[b] /\ Versions[b] \in Nat
      BY TagsFacts DEF Wait, PInv, TypeOK, StartedInOrder
    <3>2. next \in Nat \ {0} /\ next \notin Tags
      BY DEF Wait, PInv, TypeOK, StartedInOrder
    <3>3. QED
      BY <3>1, <3>2
  <2>3. worker[t] = "gone"
    BY <1>1, <2>1, <2>2 DEF PInv, TypeOK, StartedInOrder
  <2>4. QED
    BY <2>3 DEF PInv, FilledIn
<1>4. QED
  BY <1>3 DEF PInv, TypeOK

\* Every step of the loop and of the goroutines preserves the invariant.
LEMMA NextInv == PInv /\ RepInv /\ [Next]_vars => PInv' /\ RepInv'
<1> SUFFICES ASSUME PInv, RepInv, [Next]_vars PROVE PInv' /\ RepInv'
  OBVIOUS
<1>a. /\ Tags \subseteq Nat \ {0} /\ IsFiniteSet(Holding) /\ IsFiniteSet(Undone)
      /\ Cardinality(Holding) \in Nat /\ Cardinality(Undone) \in Nat
  BY TagsFacts DEF PInv, TypeOK, Holding, Undone
<1>b. sem \in Nat /\ wg \in Nat /\ Capacity \in Nat /\ sem <= Capacity
  BY CapacityType DEF PInv, TypeOK
<1>c. UNCHANGED <<b, results>> => RepInv'
  BY DEF RepInv, ReportHasNoHole, Ordered, NoHole, Complete, Below
<1>1. CASE LoadFails
  <2> DEFINE st == [t \in Tags |-> "error"]
  <2>1. st \in [Tags -> Statuses]
    BY DEF Statuses
  <2>2. [t \in Tags |-> Row(b, t, "error")] = [t \in Tags |-> Row(b, t, st[t])]
    OBVIOUS
  <2>3. pc # "done" /\ NextBrowser /\ results' = results \o [t \in Tags |-> Row(b, t, st[t])]
    BY <1>1, <2>2 DEF LoadFails
  <2> HIDE DEF st
  <2>4. results' \in Seq(RowType) /\ RepInv'
    BY <2>1, <2>3, RowsJoin
  <2>5. QED
    BY <2>3, <2>4, NewBrowser
<1>2. CASE Load
  <2>1. UNCHANGED <<Tags, Capacity, Holding, Undone>>
    BY <1>2, PoolStays DEF Load, Holding, Undone
  <2>2. PInv'
    BY <1>2, <2>1 DEF PInv, TypeOK, TokensAreHeld, StartedInOrder, FilledIn, Load
  <2>3. QED
    BY <1>2, <1>c, <2>2 DEF Load
<1>3. CASE Add
  <2>1. UNCHANGED <<Tags, Capacity, Holding, Undone>>
    BY <1>3, PoolStays DEF Add, Holding, Undone
  <2>2. TokensAreHeld'
    BY <1>3, <1>a, <2>1 DEF PInv, TokensAreHeld, Add
  <2>3. TypeOK' /\ StartedInOrder' /\ FilledIn'
    BY <1>3, <2>1 DEF PInv, TypeOK, StartedInOrder, FilledIn, Add
  <2>4. QED
    BY <1>3, <1>c, <2>2, <2>3 DEF Add, PInv
<1>4. CASE Acquire
  <2>1. UNCHANGED <<Tags, Capacity, Holding, Undone>>
    BY <1>4, PoolStays DEF Acquire, Holding, Undone
  <2>2. TokensAreHeld'
    BY <1>4, <1>a, <2>1 DEF PInv, TokensAreHeld, Acquire
  <2>3. sem' \in 0..Capacity'
    BY <1>4, <1>b, <2>1 DEF Acquire
  <2>4. TypeOK' /\ StartedInOrder' /\ FilledIn'
    BY <1>4, <2>1, <2>3 DEF PInv, TypeOK, StartedInOrder, FilledIn, Acquire
  <2>5. QED
    BY <1>4, <1>c, <2>2, <2>4 DEF Acquire, PInv
<1>5. CASE Go
  <2>1. UNCHANGED <<Tags, Capacity>>
    BY <1>5, PoolStays DEF Go
  <2>2. next \in Tags /\ worker[next] = "none" /\ next \in Nat \ {0}
    <3>1. next \in Tags
      BY <1>5 DEF PInv, StartedInOrder, Go
    <3>2. next \in Nat \ {0}
      BY DEF PInv, TypeOK
    <3>3. next >= next
      BY <3>2
    <3>4. QED
      BY <3>1, <3>2, <3>3 DEF PInv, StartedInOrder
  <2>3. /\ Holding' = Holding \cup {next} /\ next \notin Holding
        /\ Undone' = Undone \cup {next} /\ next \notin Undone
    BY <1>5, <2>1, <2>2 DEF Go, Holding, Undone, PInv, TypeOK
  <2>4. /\ Cardinality(Holding') = Cardinality(Holding) + 1
        /\ Cardinality(Undone') = Cardinality(Undone) + 1
    BY <1>a, <2>3, FS_AddElement
  <2>5. TokensAreHeld'
    BY <1>5, <1>a, <2>4 DEF PInv, TokensAreHeld, Go
  <2>6. TypeOK'
    BY <1>5, <2>1, <2>2 DEF PInv, TypeOK, Go
  <2>7. StartedInOrder'
    <3>1. \A t \in Tags : worker'[t] = "none" <=> t >= next + 1
      BY <1>5, <1>a, <2>2 DEF Go, PInv, TypeOK, StartedInOrder
    <3>2. QED
      BY <1>5, <2>1, <3>1 DEF Go, PInv, StartedInOrder
  <2>8. FilledIn'
    BY <1>5, <2>1, <2>2 DEF Go, PInv, TypeOK, FilledIn
  <2>9. QED
    BY <1>5, <1>c, <2>5, <2>6, <2>7, <2>8 DEF Go, PInv
<1>6. CASE AllStarted
  <2>1. UNCHANGED <<Tags, Capacity, Holding, Undone>>
    BY <1>6, PoolStays DEF AllStarted, Holding, Undone
  <2>2. PInv'
    BY <1>6, <2>1 DEF PInv, TypeOK, TokensAreHeld, StartedInOrder, FilledIn, AllStarted
  <2>3. QED
    BY <1>6, <1>c, <2>2 DEF AllStarted
<1>7. CASE Wait
  <2>1. brResults \in [Tags -> Statuses]
    BY <1>7, AllFilledIn
  <2>2. pc # "done" /\ NextBrowser
        /\ results' = results \o [t \in Tags |-> Row(b, t, brResults[t])]
    BY <1>7 DEF Wait
  <2>3. results' \in Seq(RowType) /\ RepInv'
    BY <2>1, <2>2, RowsJoin
  <2>4. QED
    BY <2>2, <2>3, NewBrowser
<1>8. ASSUME NEW t \in Tags, Sweep(t) PROVE PInv' /\ RepInv'
  <2>1. UNCHANGED <<Tags, Capacity>>
    BY <1>8, PoolStays DEF Sweep
  <2>2. Holding' = Holding /\ Undone' = Undone
    BY <1>8, <2>1 DEF Sweep, Holding, Undone, PInv, TypeOK
  <2>3. PInv'
    BY <1>8, <2>1, <2>2 DEF PInv, TypeOK, TokensAreHeld, StartedInOrder, FilledIn, Sweep
  <2>4. QED
    BY <1>8, <1>c, <2>3 DEF Sweep
<1>9. ASSUME NEW t \in Tags, Release(t) PROVE PInv' /\ RepInv'
  <2>1. UNCHANGED <<Tags, Capacity>>
    BY <1>9, PoolStays DEF Release
  <2>2. Holding' = Holding \ {t} /\ t \in Holding /\ Undone' = Undone
    BY <1>9, <2>1 DEF Release, Holding, Undone, PInv, TypeOK
  <2>3. Cardinality(Holding') = Cardinality(Holding) - 1 /\ Cardinality(Holding') \in Nat
    BY <1>a, <2>2, FS_RemoveElement, FS_CardinalityType
  <2>4. TokensAreHeld'
    BY <1>9, <1>a, <2>2, <2>3 DEF PInv, TokensAreHeld, Release
  <2>5. sem' \in 0..Capacity'
    <3>1. sem' >= 0
      BY <1>9, <2>3, <2>4 DEF TokensAreHeld, Release
    <3>2. QED
      BY <1>9, <1>b, <2>1, <3>1 DEF Release
  <2>6. TypeOK' /\ StartedInOrder' /\ FilledIn'
    BY <1>9, <2>1, <2>5 DEF PInv, TypeOK, StartedInOrder, FilledIn, Release
  <2>7. QED
    BY <1>9, <1>c, <2>4, <2>6 DEF Release, PInv
<1>10. ASSUME NEW t \in Tags, WorkerDone(t) PROVE PInv' /\ RepInv'
  <2>1. UNCHANGED <<Tags, Capacity>>
    BY <1>10, PoolStays DEF WorkerDone
  <2>2. Holding' = Holding /\ t \in Undone /\ Undone' = Undone \ {t}
    BY <1>10, <2>1 DEF WorkerDone, Holding, Undone, PInv, TypeOK
  <2>3. Cardinality(Undone') = Cardinality(Undone) - 1 /\ Cardinality(Undone') \in Nat
    BY <1>a, <2>2, FS_RemoveElement, FS_CardinalityType
  <2>4. TokensAreHeld'
    BY <1>10, <1>a, <2>2, <2>3 DEF PInv, TokensAreHeld, WorkerDone
  <2>5. wg' \in Nat
    BY <1>10, <1>b, <2>3, <2>4 DEF TokensAreHeld, WorkerDone
  <2>6. TypeOK' /\ StartedInOrder' /\ FilledIn'
    BY <1>10, <2>1, <2>5 DEF PInv, TypeOK, StartedInOrder, FilledIn, WorkerDone
  <2>7. QED
    BY <1>10, <1>c, <2>4, <2>6 DEF WorkerDone, PInv
<1>11. CASE UNCHANGED vars
  <2>1. UNCHANGED <<Tags, Capacity, Holding, Undone>>
    BY <1>11, PoolStays DEF vars, Holding, Undone
  <2>2. PInv'
    BY <1>11, <2>1 DEF vars, PInv, TypeOK, TokensAreHeld, StartedInOrder, FilledIn
  <2>3. QED
    BY <1>11, <1>c, <2>2 DEF vars
<1>12. QED
  BY <1>1, <1>2, <1>3, <1>4, <1>5, <1>6, <1>7, <1>8, <1>9, <1>10, <1>11
     DEF Next, Loop, Goroutine

\* The invariant holds at first.
LEMMA InitInv == Init => PInv /\ RepInv
<1> SUFFICES ASSUME Init PROVE PInv /\ RepInv
  OBVIOUS
<1>1. Len(Versions) \in Nat /\ (Versions = <<>> <=> Len(Versions) = 0)
  BY PoolAssumption, LenProperties, EmptySeq
<1>2. b = 1 /\ b \in 1..(Len(Versions) + 1) /\ (b \in Browsers <=> pc # "done")
  BY <1>1 DEF Init, Browsers
<1>3. Tags \subseteq Nat \ {0}
  BY <1>2, TagsFacts
<1>4. Holding = {} /\ Undone = {} /\ Cardinality({}) = 0
  BY FS_EmptySet DEF Init, Holding, Undone
<1>5. Capacity \in Nat \ {0}
  BY PoolAssumption DEF Init, Capacity
<1>6. <<>> \in Seq([browser : Browsers, tag : Nat \ {0}, status : Statuses \cup {Unset}])
  BY EmptySeq
<1>7. TypeOK
  BY <1>2, <1>5, <1>6 DEF Init, TypeOK
<1>8. TokensAreHeld /\ StartedInOrder /\ FilledIn
  BY <1>2, <1>3, <1>4 DEF Init, TokensAreHeld, StartedInOrder, FilledIn
<1>9. RepInv
  BY <1>2 DEF Init, RepInv, ReportHasNoHole, Ordered, NoHole, Complete, Below, Browsers
<1>10. QED
  BY <1>7, <1>8, <1>9 DEF PInv

\* The invariant holds for any browsers, versions and parallelism
\* (sweepBrowsers, sweep.go:139-172).
THEOREM Invariance == SafetySpec => [](PInv /\ RepInv)
BY InitInv, NextInv, PTL DEF SafetySpec

\* Type correctness; the channel is never fuller than its capacity.
THEOREM TypeCorrect == SafetySpec => []TypeOK
<1>1. PInv => TypeOK
  BY DEF PInv
<1>2. QED
  BY <1>1, Invariance, PTL

\* Never more versions in the cluster than the request allows, and a token for each
\* goroutine between the send and the deferred receive (sweep.go:158-166).
THEOREM AtMostParallelism == SafetySpec => []PoolBounded
<1>1. PInv => PoolBounded
  <2> SUFFICES ASSUME PInv PROVE PoolBounded
    OBVIOUS
  <2>1. Running \in SUBSET Holding /\ IsFiniteSet(Holding) /\ Cardinality(Holding) \in Nat
    BY TagsFacts DEF PInv, TypeOK, Running, Holding
  <2>2. Cardinality(Running) <= Cardinality(Holding) /\ Cardinality(Running) \in Nat
    BY <2>1, FS_Subset, FS_CardinalityType
  <2>3. Cardinality(Holding) <= sem /\ sem <= Capacity /\ sem \in Nat /\ Capacity \in Nat
    BY <2>1, CapacityType DEF PInv, TokensAreHeld, TypeOK
  <2>4. Cardinality(Running) <= Capacity
    BY <2>1, <2>2, <2>3
  <2>5. sem = Cardinality(Holding) + (IF pc = "go" THEN 1 ELSE 0)
    BY DEF PInv, TokensAreHeld
  <2>6. QED
    BY <2>4, <2>5 DEF PoolBounded, Holding
<1>2. QED
  BY <1>1, Invariance, PTL

\* The report has every version of every browser gone through, in order, each with
\* a result that was really written (sweep.go:146-169).
THEOREM ReportIsWhole == SafetySpec => []ReportHasNoHole
<1>1. RepInv => ReportHasNoHole
  BY DEF RepInv
<1>2. QED
  BY <1>1, Invariance, PTL

------------------------------------------------------------------------------
(* Where the rows of a browser begin *)

\* The body of Offset, of any function g.
OffsetBody(g, k) == IF k <= 1 THEN 0 ELSE g[k - 1] + Versions[k - 1]

\* g is as the definition of Offset has it, up to n.
OffsetUpTo(g, n) == g = [k \in 0..n |-> OffsetBody(g, k)]

\* A property of a natural that fails somewhere fails first somewhere.
LEMMA LeastOf ==
  ASSUME NEW S \in SUBSET Nat, S # {}
  PROVE  \E n \in S : \A k \in 0..(n - 1) : k \notin S
<1>1. PICK n \in S : \A k \in S : <<k, n>> \notin OpToRel(<, Nat)
  BY NatLessThanWellFounded, WFMin
<1>2. ASSUME NEW k \in 0..(n - 1) PROVE k \notin S
  <2>1. n \in Nat /\ k \in Nat /\ k < n
    OBVIOUS
  <2>2. <<k, n>> \in OpToRel(<, Nat)
    BY <2>1 DEF OpToRel
  <2>3. QED
    BY <1>1, <2>2
<1>3. QED
  BY <1>2

\* The definition of Offset determines it.
LEMMA OffsetsAgree ==
  ASSUME NEW f, NEW g, NEW m \in Nat, NEW n \in Nat, OffsetUpTo(f, m), OffsetUpTo(g, n),
         m <= n
  PROVE  \A k \in 0..m : f[k] = g[k]
<1> DEFINE Wrong == {k \in 0..m : f[k] # g[k]}
<1> SUFFICES ASSUME Wrong # {} PROVE FALSE
  OBVIOUS
<1>1. Wrong \in SUBSET Nat
  OBVIOUS
<1>2. PICK k \in Wrong : \A j \in 0..(k - 1) : j \notin Wrong
  <2> HIDE DEF Wrong
  <2>1. QED
    BY <1>1, LeastOf
<1>3. k \in 0..m /\ k \in 0..n
  OBVIOUS
<1>4. f[k] = OffsetBody(f, k) /\ g[k] = OffsetBody(g, k)
  BY <1>3 DEF OffsetUpTo
<1>5. k > 1 => f[k - 1] = g[k - 1]
  <2>1. ASSUME k > 1 PROVE k - 1 \in 0..(k - 1) /\ k - 1 \in 0..m
    BY <1>3, <2>1
  <2>2. QED
    BY <1>2, <2>1
<1>6. OffsetBody(f, k) = OffsetBody(g, k)
  BY <1>3, <1>5 DEF OffsetBody
<1>7. QED
  BY <1>4, <1>6

\* And there is such a function up to any n.
LEMMA OffsetsExist == \A n \in Nat : \E f : OffsetUpTo(f, n)
<1> DEFINE Wrong == {n \in Nat : ~\E f : OffsetUpTo(f, n)}
<1> SUFFICES ASSUME Wrong # {} PROVE FALSE
  OBVIOUS
<1>1. Wrong \in SUBSET Nat
  OBVIOUS
<1>2. PICK n \in Wrong : \A j \in 0..(n - 1) : j \notin Wrong
  <2> HIDE DEF Wrong
  <2>1. QED
    BY <1>1, LeastOf
<1>3. n \in Nat
  OBVIOUS
<1>4. CASE n = 0
  <2> DEFINE f == [k \in 0..0 |-> 0]
  <2>1. \A k \in 0..0 : OffsetBody(f, k) = 0
    BY DEF OffsetBody
  <2>2. f = [k \in 0..0 |-> OffsetBody(f, k)]
    BY <2>1
  <2>3. QED
    BY <1>4, <2>2 DEF OffsetUpTo
<1>5. CASE n > 0
  <2>1. n - 1 \in 0..(n - 1) /\ n - 1 \in Nat
    BY <1>3, <1>5
  <2>2. PICK g : OffsetUpTo(g, n - 1)
    BY <1>2, <2>1
  <2> DEFINE f == [k \in 0..n |-> OffsetBody(g, k)]
  <2>3. ASSUME NEW k \in 0..(n - 1) PROVE g[k] = f[k]
    BY <1>3, <2>2, <2>3 DEF OffsetUpTo
  <2>4. ASSUME NEW k \in 0..n PROVE OffsetBody(g, k) = OffsetBody(f, k)
    <3>1. CASE k <= 1
      BY <3>1 DEF OffsetBody
    <3>2. CASE ~(k <= 1)
      <4>1. k - 1 \in 0..(n - 1)
        BY <1>3, <3>2
      <4>2. g[k - 1] = f[k - 1]
        BY <2>3, <4>1
      <4> HIDE DEF f
      <4>3. QED
        BY <3>2, <4>2 DEF OffsetBody
    <3>3. QED
      BY <3>1, <3>2
  <2>5. f = [k \in 0..n |-> OffsetBody(f, k)]
    BY <2>4
  <2> HIDE DEF f
  <2>6. QED
    BY <2>5 DEF OffsetUpTo
<1>6. QED
  BY <1>3, <1>4, <1>5

\* So Offset is what its definition says.
LEMMA OffsetDef == \A k \in Nat : Offset[k] = OffsetBody(Offset, k)
<1> DEFINE upTo(n) == CHOOSE f : OffsetUpTo(f, n)
           h == [n \in Nat |-> upTo(n)[n]]
<1>1. \A n \in Nat : OffsetUpTo(upTo(n), n)
  BY OffsetsExist
<1>2. ASSUME NEW n \in Nat PROVE h[n] = OffsetBody(h, n)
  <2>1. h[n] = OffsetBody(upTo(n), n)
    <3>1. h[n] = upTo(n)[n] /\ n \in 0..n
      OBVIOUS
    <3> HIDE DEF upTo, h
    <3>2. upTo(n) = [k \in 0..n |-> OffsetBody(upTo(n), k)]
      BY <1>1 DEF OffsetUpTo
    <3>3. upTo(n)[n] = OffsetBody(upTo(n), n)
      BY <3>1, <3>2
    <3>4. QED
      BY <3>1, <3>3
  <2>2. ASSUME ~(n <= 1) PROVE upTo(n)[n - 1] = h[n - 1]
    <3>1. n - 1 \in Nat /\ n - 1 \in 0..(n - 1) /\ n - 1 <= n
      BY <2>2
    <3> HIDE DEF upTo
    <3>2. upTo(n - 1)[n - 1] = upTo(n)[n - 1]
      BY <1>1, <3>1, OffsetsAgree
    <3>3. QED
      BY <3>1, <3>2
  <2> HIDE DEF upTo, h
  <2>3. QED
    BY <2>1, <2>2 DEF OffsetBody
<1>3. h = [k \in Nat |-> OffsetBody(h, k)]
  <2> HIDE DEF upTo
  <2>1. h = [k \in Nat |-> h[k]]
    OBVIOUS
  <2> HIDE DEF h
  <2>2. QED
    BY <1>2, <2>1
<1> HIDE DEF h
<1>4. \E g : g = [k \in Nat |-> IF k <= 1 THEN 0 ELSE g[k - 1] + Versions[k - 1]]
  BY <1>3 DEF OffsetBody
<1>5. Offset = [k \in Nat |-> IF k <= 1 THEN 0 ELSE Offset[k - 1] + Versions[k - 1]]
  BY <1>4 DEF Offset
<1>6. QED
  BY <1>5 DEF OffsetBody

\* Each browser's rows begin where those of the one before end.
LEMMA OffsetSteps ==
  /\ Len(Versions) \in Nat /\ Offset[1] = 0
  /\ \A x \in Browsers : /\ x \in Nat \ {0} /\ x + 1 \in Nat /\ Versions[x] \in Nat
                         /\ Offset[x + 1] = Offset[x] + Versions[x]
<1>1. Offset[1] = 0
  BY OffsetDef DEF OffsetBody
<1>2. Len(Versions) \in Nat
  BY PoolAssumption, LenProperties
<1>3. ASSUME NEW x \in Browsers
      PROVE  /\ x \in Nat \ {0} /\ x + 1 \in Nat /\ Versions[x] \in Nat
             /\ Offset[x + 1] = Offset[x] + Versions[x]
  <2>1. x \in Nat \ {0} /\ x + 1 \in Nat /\ ~(x + 1 <= 1) /\ (x + 1) - 1 = x
    BY <1>2 DEF Browsers
  <2>2. Versions[x] \in Nat
    BY PoolAssumption, ElementOfSeq DEF Browsers
  <2>3. Offset[x + 1] = OffsetBody(Offset, x + 1)
    BY <2>1, OffsetDef
  <2>4. QED
    BY <2>1, <2>2, <2>3 DEF OffsetBody
<1>4. QED
  BY <1>1, <1>2, <1>3

\* Offsets are naturals and never fall.
LEMMA OffsetsGrow ==
  \A y \in 1..(Len(Versions) + 1) :
    Offset[y] \in Nat /\ \A x \in 1..y : Offset[x] \in Nat /\ Offset[x] <= Offset[y]
<1> DEFINE Good(y) == Offset[y] \in Nat
                      /\ \A x \in 1..y : Offset[x] \in Nat /\ Offset[x] <= Offset[y]
           Wrong == {y \in 1..(Len(Versions) + 1) : ~Good(y)}
<1>0. Len(Versions) \in Nat
  BY OffsetSteps
<1> SUFFICES ASSUME Wrong # {} PROVE FALSE
  OBVIOUS
<1>1. Wrong \in SUBSET Nat
  BY <1>0
<1>2. PICK y \in Wrong : \A j \in 0..(y - 1) : j \notin Wrong
  <2> HIDE DEF Wrong
  <2>1. QED
    BY <1>1, LeastOf
<1>3. y \in 1..(Len(Versions) + 1) /\ ~Good(y)
  OBVIOUS
<1>4. CASE y = 1
  <2>1. Offset[1] = 0
    BY OffsetSteps
  <2>2. \A x \in 1..1 : x = 1
    OBVIOUS
  <2>3. QED
    BY <1>3, <1>4, <2>1, <2>2
<1>5. CASE y > 1
  <2> DEFINE z == y - 1
  <2>1. /\ z \in 0..(y - 1) /\ z \in Browsers /\ z + 1 = y
        /\ \A x \in 1..y : x = y \/ x \in 1..z
    BY <1>0, <1>3, <1>5 DEF Browsers
  <2>2. z \in 1..(Len(Versions) + 1)
    BY <1>0, <2>1 DEF Browsers
  <2>3. Good(z)
    BY <1>2, <2>1, <2>2
  <2>4. Offset[y] = Offset[z] + Versions[z] /\ Versions[z] \in Nat
    BY <2>1, OffsetSteps
  <2> HIDE DEF z
  <2>5. Offset[y] \in Nat /\ Offset[z] <= Offset[y] /\ Offset[z] \in Nat
    BY <2>3, <2>4
  <2>6. ASSUME NEW x \in 1..y PROVE Offset[x] \in Nat /\ Offset[x] <= Offset[y]
    BY <2>1, <2>3, <2>5
  <2>7. QED
    BY <1>3, <2>5, <2>6
<1>6. QED
  BY <1>0, <1>3, <1>4, <1>5

\* The row of a version of a browser is in the matrix, where its offset says.
LEMMA RowAt ==
  ASSUME NEW x \in Browsers, NEW t \in 1..Versions[x]
  PROVE  /\ Offset[x] + t \in 1..Offset[Len(Versions) + 1]
         /\ RowsWanted[Offset[x] + t] = <<x, t>>
<1> DEFINE i == Offset[x] + t
           n == Len(Versions)
           Has(z) == Offset[z] < i /\ i <= Offset[z + 1]
<1>1. /\ n \in Nat /\ x \in 1..n /\ Versions[x] \in Nat
      /\ \A z \in 1..n : z \in Nat \ {0} /\ z \in 1..(n + 1) /\ z + 1 \in 1..(n + 1)
    BY OffsetSteps DEF Browsers
<1>2. \A z \in 1..(n + 1) :
        Offset[z] \in Nat /\ \A w \in 1..z : Offset[w] \in Nat /\ Offset[w] <= Offset[z]
  BY OffsetsGrow
<1>3. Offset[x + 1] = Offset[x] + Versions[x]
  BY OffsetSteps
<1>4. Has(x) /\ i \in Nat /\ i > 0
  BY <1>1, <1>2, <1>3
<1> HIDE DEF i
<1>5. i \in 1..Offset[n + 1]
  <2>1. x + 1 \in 1..(n + 1) /\ n + 1 \in 1..(n + 1)
    BY <1>1
  <2>2. Offset[n + 1] \in Nat /\ Offset[x + 1] \in Nat /\ Offset[x + 1] <= Offset[n + 1]
    BY <1>2, <2>1
  <2>3. QED
    BY <1>4, <2>2
<1>6. ASSUME NEW z \in 1..n, Has(z) PROVE z = x
  <2>1. /\ Offset[z] \in Nat /\ Offset[z + 1] \in Nat
        /\ Offset[x] \in Nat /\ Offset[x + 1] \in Nat
    BY <1>1, <1>2
  <2>2. CASE z < x
    <3>1. z + 1 \in 1..x
      BY <1>1, <2>2
    <3>2. Offset[z + 1] <= Offset[x]
      BY <1>1, <1>2, <3>1
    <3>3. QED
      BY <1>4, <1>6, <2>1, <3>2
  <2>3. CASE x < z
    <3>1. x + 1 \in 1..z
      BY <1>1, <2>3
    <3>2. Offset[x + 1] <= Offset[z]
      BY <1>1, <1>2, <3>1
    <3>3. QED
      BY <1>4, <1>6, <2>1, <3>2
  <2>4. QED
    BY <1>1, <2>2, <2>3
<1>7. (CHOOSE z \in Browsers : Offset[z] < i /\ i <= Offset[z + 1]) = x
  BY <1>1, <1>4, <1>6 DEF Browsers
<1>8. RowsWanted[i] = <<x, i - Offset[x]>>
  BY <1>5, <1>7 DEF RowsWanted
<1>9. i - Offset[x] = t
  BY <1>1, <1>2 DEF i
<1>10. QED
  BY <1>5, <1>8, <1>9 DEF i

\* Every position of the matrix is that of a version of a browser.
LEMMA RowIsOf ==
  ASSUME NEW i \in 1..Offset[Len(Versions) + 1]
  PROVE  \E x \in Browsers : \E t \in 1..Versions[x] : i = Offset[x] + t
<1> DEFINE n == Len(Versions)
           Reached == {y \in 1..(n + 1) : i <= Offset[y]}
<1>1. n \in Nat /\ n + 1 \in 1..(n + 1) /\ Offset[n + 1] \in Nat /\ Offset[1] = 0
  <2>1. n \in Nat /\ Offset[1] = 0
    BY OffsetSteps
  <2>2. n + 1 \in 1..(n + 1)
    BY <2>1
  <2>3. QED
    BY <2>1, <2>2, OffsetsGrow
<1>2. n + 1 \in Reached /\ Reached \in SUBSET Nat /\ i \in Nat /\ i > 0
  BY <1>1
<1>3. PICK y \in Reached : \A j \in 0..(y - 1) : j \notin Reached
  <2> HIDE DEF Reached
  <2>1. QED
    BY <1>2, LeastOf
<1>4. y # 1 /\ y \in 1..(n + 1) /\ i <= Offset[y]
  BY <1>1, <1>2
<1> DEFINE x == y - 1
<1>5. x \in Browsers /\ x \in 0..(y - 1) /\ x \in 1..(n + 1) /\ x + 1 = y
  BY <1>1, <1>4 DEF Browsers
<1>6. ~(i <= Offset[x])
  BY <1>3, <1>5
<1>7. Offset[y] = Offset[x] + Versions[x] /\ Offset[x] \in Nat /\ Versions[x] \in Nat
  BY <1>5, OffsetSteps, OffsetsGrow
<1>8. i - Offset[x] \in 1..Versions[x] /\ i = Offset[x] + (i - Offset[x])
  <2> HIDE DEF x
  <2>1. QED
    BY <1>2, <1>4, <1>6, <1>7
<1>9. QED
  BY <1>5, <1>8

\* The matrix is a sequence of keys.
LEMMA WantedIsKeys ==
  /\ RowsWanted \in Seq(Browsers \X Nat) /\ Len(RowsWanted) = Offset[Len(Versions) + 1]
  /\ Offset[Len(Versions) + 1] \in Nat
<1> DEFINE size == Offset[Len(Versions) + 1]
<1>1. size \in Nat
  <2>1. Len(Versions) + 1 \in 1..(Len(Versions) + 1)
    BY OffsetSteps
  <2>2. QED
    BY <2>1, OffsetsGrow
<1>2. ASSUME NEW i \in 1..size PROVE RowsWanted[i] \in Browsers \X Nat
  <2>1. PICK x \in Browsers : \E t \in 1..Versions[x] : i = Offset[x] + t
    BY RowIsOf
  <2>2. PICK t \in 1..Versions[x] : i = Offset[x] + t
    BY <2>1
  <2>3. RowsWanted[i] = <<x, t>>
    BY <2>2, RowAt
  <2>4. t \in Nat
    BY OffsetSteps
  <2>5. QED
    BY <2>3, <2>4
<1>3. RowsWanted = [i \in 1..size |-> RowsWanted[i]]
  BY DEF RowsWanted
<1> HIDE DEF size
<1>4. RowsWanted \in [1..size -> Browsers \X Nat]
  BY <1>2, <1>3
<1>5. QED
  BY <1>1, <1>4, SeqDef, LenProperties DEF size

------------------------------------------------------------------------------
(* The pool keeps the contract of a sweep, as far as it is about safety *)

\* The rows so far are the first of the matrix, up to the browser the loop is at.
RowsAreFirst ==
  /\ Len(results) = Offset[b]
  /\ \A i \in DOMAIN results : <<results[i].browser, results[i].tag>> = RowsWanted[i]

\* What the caller sees of the rows, and of the end.
RowsGiven == [i \in DOMAIN results |-> <<results[i].browser, results[i].tag>>]
PoolAnswer ==
  IF Versions = <<>> THEN "none" ELSE IF pc = "done" THEN "report" ELSE "running"

\* The rows of a browser are the next of the matrix.
LEMMA RowsComeInTurn ==
  ASSUME PInv, RowsAreFirst, pc # "done", NextBrowser, NEW st \in [Tags -> Statuses],
         results' = results \o [t \in Tags |-> Row(b, t, st[t])]
  PROVE  RowsAreFirst' /\ Len(results') = Len(results) + Versions[b] /\ b \in Browsers
<1> DEFINE rows == [t \in Tags |-> Row(b, t, st[t])]
           n == Versions[b]
           k == Len(results)
<1>1. b \in Browsers /\ n \in Nat /\ Tags = 1..n /\ b \in Nat
  BY TagsFacts DEF PInv, TypeOK, StartedInOrder, Browsers
<1>2. rows \in [1..n -> RowType]
  BY <1>1 DEF Row, RowType
<1>3. \A t \in 1..n : rows[t].browser = b /\ rows[t].tag = t
  BY <1>1 DEF Row
<1>4. \A t \in 1..n : RowsWanted[k + t] = <<b, t>>
  BY <1>1, RowAt DEF RowsAreFirst
<1>5. Offset[b'] = Offset[b] + n /\ b' = b + 1
  BY <1>1, OffsetSteps DEF NextBrowser
<1> HIDE DEF rows
<1>6. rows \in Seq(RowType) /\ Len(rows) = n
  BY ONLY <1>1, <1>2, SeqDef, LenProperties
<1>7. results \in Seq(RowType) /\ k \in Nat /\ DOMAIN results = 1..k
  BY LenProperties DEF PInv, TypeOK, RowType
<1>8. results' = results \o rows
  BY DEF rows
<1>9. \A i \in 1..k : <<results[i].browser, results[i].tag>> = RowsWanted[i]
  BY <1>7 DEF RowsAreFirst
<1>10. k = Offset[b]
  BY DEF RowsAreFirst
<1> HIDE DEF k, n
<1>11. /\ results' \in Seq(RowType)
       /\ Len(results') = k + n
       /\ \A i \in 1..(k + n) : results'[i] = IF i <= k THEN results[i] ELSE rows[i - k]
  <2>1. Len(results) = k
    BY DEF k
  <2>2. QED
    BY ONLY <1>6, <1>7, <1>8, <2>1, ConcatProperties
<1>12. DOMAIN results' = 1..(k + n)
  BY <1>11, LenProperties
<1>13. ASSUME NEW i \in 1..(k + n)
       PROVE  <<results'[i].browser, results'[i].tag>> = RowsWanted[i]
  <2>1. CASE i <= k
    <3>1. i \in 1..k /\ results'[i] = results[i]
      BY <1>7, <1>11, <2>1
    <3>2. QED
      BY <1>9, <3>1
  <2>2. CASE ~(i <= k)
    <3>1. i - k \in 1..n /\ i = k + (i - k)
      BY <1>1, <1>7, <2>2
    <3>2. results'[i] = rows[i - k]
      BY <1>11, <2>2
    <3>3. RowsWanted[i] = <<b, i - k>>
      BY <1>4, <3>1
    <3>4. QED
      BY <1>3, <3>1, <3>2, <3>3
  <2>3. QED
    BY <2>1, <2>2
<1>14. RowsAreFirst'
  <2>1. RowsWanted' = RowsWanted
    BY DEF RowsWanted, Browsers
  <2>2. QED
    BY <1>5, <1>10, <1>11, <1>12, <1>13, <2>1 DEF RowsAreFirst
<1>15. QED
  BY <1>1, <1>11, <1>14 DEF k, n

\* A step takes the loop to the next browser with the rows of this one, or leaves rows
\* and loop where they are.
LEMMA StepKinds ==
  ASSUME PInv, [Next]_vars
  PROVE  \/ /\ pc # "done" /\ NextBrowser
            /\ \E st \in [Tags -> Statuses] :
                 results' = results \o [t \in Tags |-> Row(b, t, st[t])]
         \/ UNCHANGED <<b, results>> /\ (pc' = "done" <=> pc = "done")
<1>1. CASE LoadFails
  <2> DEFINE st == [t \in Tags |-> "error"]
  <2>1. st \in [Tags -> Statuses]
    BY DEF Statuses
  <2>2. [t \in Tags |-> Row(b, t, "error")] = [t \in Tags |-> Row(b, t, st[t])]
    OBVIOUS
  <2>3. QED
    BY <1>1, <2>1, <2>2 DEF LoadFails
<1>2. CASE Wait
  <2>1. brResults \in [Tags -> Statuses]
    BY <1>2, AllFilledIn
  <2>2. QED
    BY <1>2, <2>1 DEF Wait
<1>3. CASE Load \/ Add \/ Acquire \/ Go \/ AllStarted
  BY <1>3 DEF Load, Add, Acquire, Go, AllStarted
<1>4. ASSUME NEW t \in Tags, Goroutine(t)
      PROVE  UNCHANGED <<b, results>> /\ (pc' = "done" <=> pc = "done")
  BY <1>4 DEF Goroutine, Sweep, Release, WorkerDone
<1>5. CASE UNCHANGED vars
  BY <1>5 DEF vars
<1>6. QED
  BY <1>1, <1>2, <1>3, <1>4, <1>5 DEF Next, Loop

\* Every step keeps the rows the first of the matrix.
LEMMA NextRows == PInv /\ RowsAreFirst /\ [Next]_vars => RowsAreFirst'
<1> SUFFICES ASSUME PInv, RowsAreFirst, [Next]_vars PROVE RowsAreFirst'
  OBVIOUS
<1>1. ASSUME pc # "done", NextBrowser, NEW st \in [Tags -> Statuses],
             results' = results \o [t \in Tags |-> Row(b, t, st[t])]
      PROVE  RowsAreFirst'
  BY <1>1, RowsComeInTurn
<1>2. ASSUME UNCHANGED <<b, results>> PROVE RowsAreFirst'
  BY <1>2 DEF RowsAreFirst, RowsWanted, Browsers
<1>3. QED
  BY <1>1, <1>2, StepKinds

\* At first there are no rows.
LEMMA InitRows == Init => RowsAreFirst
BY OffsetSteps DEF Init, RowsAreFirst

\* The keys of the rows so far, as the beginning of the matrix that they are.
LEMMA GivenIsFirst ==
  PInv /\ RowsAreFirst => /\ RowsGiven = SubSeq(RowsWanted, 1, Len(results))
                          /\ Len(results) \in Nat /\ Len(RowsGiven) = Len(results)
                          /\ Len(results) <= Len(RowsWanted)
<1> SUFFICES ASSUME PInv, RowsAreFirst
             PROVE  /\ RowsGiven = SubSeq(RowsWanted, 1, Len(results))
                    /\ Len(results) \in Nat /\ Len(RowsGiven) = Len(results)
                    /\ Len(results) <= Len(RowsWanted)
  OBVIOUS
<1> DEFINE K == Browsers \X Nat
           n == Len(results)
<1>1. n \in Nat /\ DOMAIN results = 1..n
  BY LenProperties DEF PInv, TypeOK
<1>2. RowsWanted \in Seq(K) /\ n <= Len(RowsWanted)
  <2>1. Len(Versions) \in Nat /\ Len(Versions) + 1 \in 1..(Len(Versions) + 1)
    BY OffsetSteps
  <2>2. b \in 1..(Len(Versions) + 1)
    BY DEF PInv, TypeOK
  <2>3. Offset[b] <= Offset[Len(Versions) + 1]
    BY <2>1, <2>2, OffsetsGrow
  <2>4. QED
    BY <2>3, WantedIsKeys DEF RowsAreFirst
<1>3. RowsGiven = [i \in 1..n |-> <<results[i].browser, results[i].tag>>]
  BY <1>1 DEF RowsGiven
<1>4. ASSUME NEW i \in 1..n
      PROVE  RowsGiven[i] = RowsWanted[i] /\ RowsGiven[i] \in K
  <2>1. RowsGiven[i] = RowsWanted[i]
    BY <1>1, <1>3 DEF RowsAreFirst
  <2>2. Len(RowsWanted) \in Nat
    BY WantedIsKeys
  <2>3. i \in 1..Len(RowsWanted)
    BY <1>1, <1>2, <2>2
  <2>4. QED
    BY <1>2, <2>1, <2>3, ElementOfSeq
<1> HIDE DEF K, n
<1>5. RowsGiven \in [1..n -> K]
  BY <1>3, <1>4
<1>6. RowsGiven \in Seq(K) /\ Len(RowsGiven) = n
  BY <1>1, <1>5, SeqDef, LenProperties
<1>7. /\ SubSeq(RowsWanted, 1, n) \in Seq(K) /\ Len(SubSeq(RowsWanted, 1, n)) = n
      /\ \A i \in 1..n : SubSeq(RowsWanted, 1, n)[i] = RowsWanted[i]
  BY <1>1, <1>2, SubSeqProperties
<1>8. RowsGiven = SubSeq(RowsWanted, 1, n)
  BY <1>4, <1>6, <1>7, SeqEqual
<1>9. QED
  BY <1>1, <1>2, <1>6, <1>8 DEF n

\* The initial states of the model are initial states of the contract.
LEMMA ContractInit == Init => Contract!Init
<1> SUFFICES ASSUME Init PROVE Contract!Init
  OBVIOUS
<1>1. RowsWanted \in Seq(Browsers \X Nat)
  BY WantedIsKeys
<1>2. RowsGiven = <<>>
  BY DEF Init, RowsGiven
<1>3. PoolAnswer \in {"none", "running"}
  BY DEF Init, PoolAnswer
<1>4. QED
  BY <1>1, <1>2, <1>3 DEF Contract!Init, RowsGiven, PoolAnswer

\* Every step of the pool is a step of the contract or one its caller does not see: the
\* rows of a browser are given together, those of the last with the report.
LEMMA ContractStep ==
  PInv /\ PInv' /\ RowsAreFirst /\ RowsAreFirst' /\ [Next]_vars
    => [Contract!Next]_(Contract!contractVars)
<1> SUFFICES ASSUME PInv, PInv', RowsAreFirst, RowsAreFirst', [Next]_vars
             PROVE  Contract!Next \/ UNCHANGED <<RowsWanted, RowsGiven, PoolAnswer>>
  BY DEF Contract!contractVars, RowsGiven, PoolAnswer
<1>1. RowsWanted' = RowsWanted
  BY DEF RowsWanted, Browsers
<1>2. ASSUME UNCHANGED <<b, results>>, pc' = "done" <=> pc = "done"
      PROVE  UNCHANGED <<RowsWanted, RowsGiven, PoolAnswer>>
  BY <1>1, <1>2 DEF RowsGiven, PoolAnswer
<1>3. ASSUME pc # "done", NextBrowser, NEW st \in [Tags -> Statuses],
             results' = results \o [t \in Tags |-> Row(b, t, st[t])]
      PROVE  Contract!Next \/ UNCHANGED <<RowsWanted, RowsGiven, PoolAnswer>>
  <2>1. /\ b \in Browsers /\ Versions[b] \in Nat /\ b' = b + 1
        /\ Len(results') = Len(results) + Versions[b]
    BY <1>3, RowsComeInTurn, OffsetSteps DEF NextBrowser
  <2>2. /\ RowsGiven = SubSeq(RowsWanted, 1, Len(results))
        /\ Len(results) \in Nat /\ Len(RowsGiven) = Len(results)
    BY GivenIsFirst
  <2>3. /\ RowsGiven' = SubSeq(RowsWanted, 1, Len(results'))
        /\ Len(results') \in Nat /\ Len(results') <= Len(RowsWanted)
    <3>1. (/\ RowsGiven = SubSeq(RowsWanted, 1, Len(results))
           /\ Len(results) \in Nat /\ Len(RowsGiven) = Len(results)
           /\ Len(results) <= Len(RowsWanted))'
      BY GivenIsFirst, PTL
    <3>2. QED
      BY <1>1, <3>1
  <2>4. PoolAnswer = "running"
    <3>1. Versions # <<>>
      BY <2>1 DEF Browsers
    <3>2. QED
      BY <1>3, <3>1 DEF PoolAnswer
  <2>5. CASE pc' = "done"
    <3>1. b' = Len(Versions) + 1
      BY <1>3, <2>1, <2>5 DEF NextBrowser
    <3>2. Len(results') = Len(RowsWanted)
      BY <3>1, WantedIsKeys DEF RowsAreFirst
    <3>3. RowsGiven' = RowsWanted
      BY <2>3, <3>2, WantedIsKeys
    <3>4. PoolAnswer' = "report"
      BY <2>4, <2>5 DEF PoolAnswer
    <3>5. QED
      BY <1>1, <2>4, <3>3, <3>4
         DEF Contract!Next, Contract!Report, RowsGiven, PoolAnswer
  <2>6. CASE pc' # "done"
    <3>1. PoolAnswer' = PoolAnswer
      BY <2>4, <2>6 DEF PoolAnswer
    <3>2. CASE Versions[b] = 0
      <4>1. Len(results') = Len(results)
        BY <2>1, <2>2, <3>2
      <4>2. RowsGiven' = RowsGiven
        BY <2>2, <2>3, <4>1
      <4>3. QED
        BY <1>1, <3>1, <4>2
    <3>3. CASE Versions[b] # 0
      <4>1. Len(RowsWanted) \in Nat
        BY WantedIsKeys
      <4>2. Len(results') \in (Len(RowsGiven) + 1)..Len(RowsWanted)
        BY <2>1, <2>2, <2>3, <3>3, <4>1
      <4>3. Contract!Give
        BY <1>1, <2>3, <2>4, <3>1, <4>2 DEF Contract!Give, RowsGiven, PoolAnswer
      <4>4. QED
        BY <4>3 DEF Contract!Next
    <3>4. QED
      BY <3>2, <3>3
  <2>7. QED
    BY <2>5, <2>6
<1>4. QED
  BY <1>2, <1>3, StepKinds

\* The rows of a browser come together and behind those of the one before, whatever order
\* its goroutines come back in, none is taken back, and the last come with the end: the
\* safety part of what Run takes sweepBrowsers for (sweep.go:136-172).
THEOREM PoolKeepsContract == SafetySpec => Contract!SafetySpec
<1>1. SafetySpec => []PInv
  BY Invariance, PTL
<1>2. SafetySpec => []RowsAreFirst
  BY <1>1, InitRows, NextRows, PTL DEF SafetySpec
<1>3. QED
  BY <1>1, <1>2, ContractInit, ContractStep, PTL DEF SafetySpec, Contract!SafetySpec
================================================================================
