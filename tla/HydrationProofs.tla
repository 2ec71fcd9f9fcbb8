--------------------------- MODULE HydrationProofs ---------------------------
(***************************************************************************)
(* Theorems about Hydration, for every set of collections, releases, parts *)
(* and passes.                                                             *)
(***************************************************************************)
EXTENDS Hydration, FiniteSetTheorems, TLAPS

USE DEF Hydrating

\* The start of a pass, alone: it changes pc only.
LEMMA StartPassType ==
  ASSUME TypeOK, NEW p \in Pass, StartPass(p), process' \in {"down", "booting", "up"}
  PROVE  TypeOK'
BY DEF TypeOK, StartPass, db

LEMMA EndPassType ==
  ASSUME TypeOK, NEW p \in Pass, EndPass(p), UNCHANGED <<source, docs, objects>>,
         pointers' \in [Collection -> Version \cup {NoVersion, NoPointer}]
  PROVE  TypeOK'
BY DEF TypeOK, EndPass

LEMMA LeaveReleaseType ==
  ASSUME TypeOK, NEW p \in Pass, LeaveRelease(p), docs' \subseteq Doc,
         todo' \in [Pass -> SUBSET Release]
  PROVE  TypeOK'
BY DEF TypeOK, LeaveRelease

\* One step of a pass that neither starts, ends nor leaves a release.
LEMMA HydrateStepType ==
  ASSUME TypeOK, NEW p \in Pass,
         ListSource(p) \/ SkipHydrated(p) \/ BeginRelease(p) \/ ClearLeftovers(p)
           \/ FetchBundle(p) \/ FetchNoBundle(p) \/ InsertObjects(p)
  PROVE  TypeOK'
<1>1. CASE ListSource(p)
  BY <1>1 DEF TypeOK, ListSource, db
<1>2. CASE SkipHydrated(p)
  BY <1>2 DEF TypeOK, SkipHydrated, db
<1>3. CASE BeginRelease(p)
  BY <1>3 DEF TypeOK, BeginRelease, db
<1>4. CASE ClearLeftovers(p)
  BY <1>4, BundleAssumption DEF TypeOK, ClearLeftovers, NoObjects, FirstParts
<1>5. CASE FetchBundle(p)
  BY <1>5 DEF TypeOK, FetchBundle, db
<1>7. CASE FetchNoBundle(p)
  BY <1>7 DEF TypeOK, FetchNoBundle, db
<1>6. CASE InsertObjects(p)
  <2>1. current[p] \in Release /\ inserted[p] \in Nat
    BY <1>6 DEF TypeOK, InsertObjects
  <2>2. inserted[p] + 1 \in 1 .. BundleSize[current[p]]
    BY <1>6, <2>1, BundleAssumption DEF InsertObjects
  <2>3. inserted[p] + 1 \in Part
    BY <2>1, <2>2, BundleAssumption
  <2>4. objects' \in [Release -> [Part -> Nat]]
    BY <1>6, <2>1, <2>3 DEF TypeOK, InsertObjects
  <2> QED
    BY <1>6, <2>4 DEF TypeOK, InsertObjects
<1> QED
  BY <1>1, <1>2, <1>3, <1>4, <1>5, <1>6, <1>7

LEMMA SweepStepType ==
  ASSUME TypeOK, NEW p \in Pass,
         AggregateLatest(p) \/ PointLatest(p) \/ ScanOrphans(p) \/ DropLegacyDocument(p)
           \/ DeleteOrphanObjects(p) \/ DeleteOrphanDocument(p)
  PROVE  TypeOK'
<1>1. CASE AggregateLatest(p)
  <2>1. NewestReleases \subseteq AnyRelease
    BY DEF TypeOK, NewestReleases, Doc
  <2> QED
    BY <1>1, <2>1 DEF TypeOK, AggregateLatest, db
<1>2. CASE PointLatest(p)
  <2>1. PICK r \in latest[p] :
          /\ pointers' = [pointers EXCEPT ![r.id] = r.version]
          /\ latest' = [latest EXCEPT ![p] = @ \ {r}]
    BY <1>2 DEF PointLatest
  <2>2. r \in AnyRelease
    BY DEF TypeOK
  <2>3. r.id \in Collection /\ r.version \in Version \cup {NoVersion}
    BY <2>2, SourceAssumption DEF AnyRelease, LegacyRelease
  <2> QED
    BY <1>2, <2>1, <2>3 DEF TypeOK, PointLatest
<1>3. CASE ScanOrphans(p)
  BY <1>3 DEF TypeOK, ScanOrphans, Orphaned, db
<1>4. CASE DropLegacyDocument(p)
  BY <1>4 DEF TypeOK, DropLegacyDocument
<1>5. CASE DeleteOrphanObjects(p)
  <2>1. PICK d \in orphans[p] :
          /\ ~Legacy(d)
          /\ objects' = [objects EXCEPT ![d.release] = NoObjects]
          /\ doomed' = [doomed EXCEPT ![p] = {d}]
          /\ orphans' = [orphans EXCEPT ![p] = @ \ {d}]
    BY <1>5 DEF DeleteOrphanObjects
  <2>2. d \in {e \in Doc : ~Legacy(e)}
    BY <2>1 DEF TypeOK
  <2>3. doomed' \in [Pass -> SUBSET {e \in Doc : ~Legacy(e)}]
    BY <2>1, <2>2 DEF TypeOK
  <2> QED
    BY <1>5, <2>1, <2>3 DEF TypeOK, DeleteOrphanObjects, NoObjects, FirstParts
<1>6. CASE DeleteOrphanDocument(p)
  BY <1>6 DEF TypeOK, DeleteOrphanDocument
<1> QED
  BY <1>1, <1>2, <1>3, <1>4, <1>5, <1>6

LEMMA TypeStep == TypeOK /\ [Next]_vars => TypeOK'
<1> SUFFICES ASSUME TypeOK, [Next]_vars
             PROVE  TypeOK'
  OBVIOUS
<1>1. CASE Boot
  BY <1>1, StartPassType DEF Boot, TypeOK, db, locals
<1>2. ASSUME NEW p \in Pass, Tick(p)
      PROVE  TypeOK'
  BY <1>2, StartPassType DEF Tick, TypeOK
<1>3. ASSUME NEW p \in Pass, PassStep(p)
      PROVE  TypeOK'
  <2>1. CASE CommitRelease(p)
    BY <1>3, <2>1, LeaveReleaseType DEF CommitRelease, FreshGenerations, Doc, AnyRelease, TypeOK
  <2>2. CASE BundleMissing(p)
    BY <1>3, <2>2, LeaveReleaseType DEF BundleMissing, TypeOK
  <2>3. CASE DropPointers(p)
    BY <1>3, <2>3, EndPassType DEF DropPointers, TypeOK
  <2> QED
    BY <1>3, <2>1, <2>2, <2>3, HydrateStepType, SweepStepType DEF PassStep
<1>4. CASE Crash
  BY <1>4 DEF Crash, TypeOK, db
<1>5. ASSUME NEW p \in Pass, HydrateFails(p)
      PROVE  TypeOK'
  BY <1>5, LeaveReleaseType DEF HydrateFails, TypeOK
<1>9. ASSUME NEW p \in Pass, FetchNoBundle(p)
      PROVE  TypeOK'
  BY <1>9, HydrateStepType
<1>6. ASSUME NEW p \in Pass, AbortPass(p)
      PROVE  TypeOK'
  BY <1>6, EndPassType DEF AbortPass, TypeOK, db
<1>7. CASE SourceChange
  BY <1>7 DEF SourceChange, Publish, Delist, TypeOK, db, locals
<1>8. CASE UNCHANGED vars
  BY <1>8 DEF vars, db, locals, TypeOK
<1> QED
  BY <1>1, <1>2, <1>3, <1>4, <1>5, <1>6, <1>7, <1>8, <1>9 DEF Next, Fault

\* Every variable stays in its type, whatever the source does and however
\* many passes overlap.
THEOREM TypeCorrect == Spec => []TypeOK
<1>1. Init => TypeOK
  BY DEF Init, TypeOK, NoObjects, FirstParts, LegacyRelease, AnyRelease, Doc
<1> QED
  BY <1>1, TypeStep, PTL DEF Spec

-----------------------------------------------------------------------------
(***************************************************************************)
(* Passes that overlap, any number of them.                                *)
(***************************************************************************)

LEMMA StillToInsertFinite ==
  ASSUME NEW r, NEW k
  PROVE  /\ IsFiniteSet(StillToInsert(r, k))
         /\ Cardinality(StillToInsert(r, k)) \in Nat
         /\ Cardinality(StillToInsert(r, k)) <= Cardinality(Pass)
         /\ Cardinality(Pass) \in Nat
BY PassAssumption, FS_Subset, FS_CardinalityType DEF StillToInsert

\* Objects left alone, and no pass newly one copy short.
LEMMA OverlapQuiet ==
  ASSUME TypeOK, OverlapInv, UNCHANGED objects,
         \A r \in Release, k \in Part : StillToInsert(r, k)' \subseteq StillToInsert(r, k)
  PROVE  OverlapInv'
<1> SUFFICES ASSUME NEW r \in Release, NEW k \in Part
             PROVE  objects[r][k] + Cardinality(StillToInsert(r, k)') <= Cardinality(Pass)
  BY DEF OverlapInv
<1>1. /\ Cardinality(StillToInsert(r, k)') <= Cardinality(StillToInsert(r, k))
      /\ Cardinality(StillToInsert(r, k)') \in Nat
  BY StillToInsertFinite, FS_Subset, FS_CardinalityType
<1>2. objects[r][k] \in Nat
  BY DEF TypeOK
<1> QED
  BY <1>1, <1>2, StillToInsertFinite DEF OverlapInv

LEMMA OverlapInserts ==
  ASSUME TypeOK, OverlapInv, NEW p \in Pass, InsertObjects(p)
  PROVE  OverlapInv'
<1> DEFINE n == inserted[p] + 1
<1>1. current[p] \in Release /\ n \in Part /\ inserted[p] \in Nat
  <2>1. current[p] \in Release /\ inserted[p] \in Nat
    BY DEF InsertObjects, TypeOK
  <2>2. n \in 1 .. BundleSize[current[p]]
    BY <2>1, BundleAssumption DEF InsertObjects
  <2> QED
    BY <2>1, <2>2, BundleAssumption
<1> SUFFICES ASSUME NEW r \in Release, NEW k \in Part
             PROVE  objects'[r][k] + Cardinality(StillToInsert(r, k)') <= Cardinality(Pass)
  BY DEF OverlapInv
<1>2. k \in Nat
  BY BundleAssumption
<1>3. objects[r][k] \in Nat
  BY DEF TypeOK
<1>4. CASE r = current[p] /\ k = n
  <2>1. objects'[r][k] = objects[r][k] + 1
    BY <1>1, <1>4 DEF InsertObjects, TypeOK
  <2>2. StillToInsert(r, k)' = StillToInsert(r, k) \ {p} /\ p \in StillToInsert(r, k)
    BY <1>1, <1>4 DEF InsertObjects, TypeOK, StillToInsert
  <2>3. Cardinality(StillToInsert(r, k)') = Cardinality(StillToInsert(r, k)) - 1
    BY <2>2, StillToInsertFinite, FS_RemoveElement
  <2> QED
    BY <1>3, <2>1, <2>3, StillToInsertFinite DEF OverlapInv
<1>5. CASE ~(r = current[p] /\ k = n)
  <2>1. objects'[r][k] = objects[r][k]
    BY <1>1, <1>5 DEF InsertObjects, TypeOK
  <2>2. StillToInsert(r, k)' = StillToInsert(r, k)
    <3>1. current' = current /\ pc' = pc /\ inserted' = [inserted EXCEPT ![p] = n]
      BY DEF InsertObjects
    <3>2. ASSUME NEW q \in Pass
          PROVE  current[q] = r /\ inserted'[q] < k <=> current[q] = r /\ inserted[q] < k
      <4>1. inserted[q] \in Nat /\ inserted'[q] = IF q = p THEN n ELSE inserted[q]
        BY <3>1 DEF TypeOK
      <4>2. CASE q = p /\ current[q] = r
        <5>1. k # n /\ inserted'[q] = inserted[q] + 1
          BY <1>5, <4>1, <4>2
        <5> QED
          BY <1>2, <4>1, <4>2, <5>1
      <4>3. CASE ~(q = p /\ current[q] = r)
        BY <4>1, <4>3
      <4> QED
        BY <4>2, <4>3
    <3> QED
      BY <3>1, <3>2 DEF StillToInsert
  <2> QED
    BY <2>1, <2>2 DEF OverlapInv
<1> QED
  BY <1>4, <1>5

\* Removing the objects of a release, by a pass that thereby may have its
\* parts to insert.
LEMMA OverlapClears ==
  ASSUME TypeOK, OverlapInv, NEW r \in Release, objects' = [objects EXCEPT ![r] = NoObjects],
         \A s \in Release, k \in Part :
           s # r => StillToInsert(s, k)' \subseteq StillToInsert(s, k)
  PROVE  OverlapInv'
<1> SUFFICES ASSUME NEW s \in Release, NEW k \in Part
             PROVE  objects'[s][k] + Cardinality(StillToInsert(s, k)') <= Cardinality(Pass)
  BY DEF OverlapInv
<1>1. CASE s = r
  <2>1. objects'[s][k] = 0
    BY <1>1, BundleAssumption DEF TypeOK, NoObjects, FirstParts
  <2>2. StillToInsert(s, k)' \subseteq Pass
    BY DEF StillToInsert
  <2> QED
    BY <2>1, <2>2, PassAssumption, FS_Subset, FS_CardinalityType
<1>2. CASE s # r
  <2>1. objects'[s][k] = objects[s][k] /\ objects[s][k] \in Nat
    BY <1>2 DEF TypeOK
  <2>2. /\ Cardinality(StillToInsert(s, k)') <= Cardinality(StillToInsert(s, k))
        /\ Cardinality(StillToInsert(s, k)') \in Nat
    BY <1>2, StillToInsertFinite, FS_Subset, FS_CardinalityType
  <2> QED
    BY <2>1, <2>2, StillToInsertFinite DEF OverlapInv
<1> QED
  BY <1>1, <1>2

\* The steps of a pass that neither write objects nor reach "fetch".
LEMMA OverlapOther ==
  ASSUME TypeOK, OverlapInv, NEW p \in Pass,
         \/ ListSource(p) \/ SkipHydrated(p) \/ BeginRelease(p) \/ FetchBundle(p)
         \/ FetchNoBundle(p) \/ BundleMissing(p) \/ HydrateFails(p) \/ CommitRelease(p)
         \/ AggregateLatest(p) \/ PointLatest(p) \/ ScanOrphans(p) \/ DropLegacyDocument(p)
         \/ DeleteOrphanDocument(p) \/ DropPointers(p) \/ AbortPass(p)
  PROVE  OverlapInv'
<1>1. UNCHANGED objects
  BY DEF ListSource, SkipHydrated, BeginRelease, FetchBundle, FetchNoBundle, BundleMissing,
         HydrateFails, CommitRelease, LeaveRelease, AggregateLatest, PointLatest, ScanOrphans,
         DropLegacyDocument, DeleteOrphanDocument, DropPointers, AbortPass, db
<1>2. \/ UNCHANGED <<pc, current, inserted>>
      \/ pc' = [pc EXCEPT ![p] = pc'[p]] /\ pc'[p] \notin {"fetch", "insert"}
           /\ \A q \in Pass : q # p => current'[q] = current[q] /\ inserted'[q] = inserted[q]
      \/ pc[p] = "fetch" /\ pc' = [pc EXCEPT ![p] = "insert"] /\ UNCHANGED <<current, inserted>>
  BY DEF ListSource, SkipHydrated, BeginRelease, FetchBundle, FetchNoBundle, BundleMissing,
         HydrateFails, CommitRelease, LeaveRelease, AggregateLatest, PointLatest, ScanOrphans,
         DropLegacyDocument, DeleteOrphanDocument, DropPointers, AbortPass, EndPass, TypeOK
<1>3. \A r \in Release, k \in Part : StillToInsert(r, k)' \subseteq StillToInsert(r, k)
  BY <1>2 DEF StillToInsert, TypeOK
<1> QED
  BY <1>1, <1>3, OverlapQuiet

LEMMA OverlapStep == TypeOK /\ OverlapInv /\ [Next]_vars => OverlapInv'
<1> SUFFICES ASSUME TypeOK, OverlapInv, [Next]_vars
             PROVE  OverlapInv'
  OBVIOUS
<1>1. ASSUME NEW p \in Pass, ClearLeftovers(p)
      PROVE  OverlapInv'
  <2>1. current[p] \in Release /\ objects' = [objects EXCEPT ![current[p]] = NoObjects]
    BY <1>1 DEF ClearLeftovers, TypeOK
  <2>2. \A s \in Release, k \in Part :
          s # current[p] => StillToInsert(s, k)' \subseteq StillToInsert(s, k)
    BY <1>1 DEF ClearLeftovers, StillToInsert, TypeOK
  <2> QED
    BY <2>1, <2>2, OverlapClears
<1>2. ASSUME NEW p \in Pass, DeleteOrphanObjects(p)
      PROVE  OverlapInv'
  <2>1. PICK d \in orphans[p] : ~Legacy(d) /\ objects' = [objects EXCEPT ![d.release] = NoObjects]
    BY <1>2 DEF DeleteOrphanObjects
  <2>3. d.release \in Release
    BY <2>1 DEF TypeOK, Doc, AnyRelease, LegacyRelease, Legacy
  <2>2. \A s \in Release, k \in Part : StillToInsert(s, k)' = StillToInsert(s, k)
    BY <1>2 DEF DeleteOrphanObjects, StillToInsert
  <2> QED
    BY <2>1, <2>2, <2>3, OverlapClears
<1>3. ASSUME NEW p \in Pass, StartPass(p)
      PROVE  OverlapInv'
  BY <1>3, OverlapQuiet DEF StartPass, StillToInsert, TypeOK, db
<1>4. CASE Boot
  <2>1. CASE UNCHANGED <<source, db, locals>>
    BY <2>1 DEF db, locals, OverlapInv, StillToInsert
  <2> QED
    BY <1>3, <1>4, <2>1 DEF Boot
<1>5. CASE Crash
  BY <1>5, OverlapQuiet DEF Crash, StillToInsert, db
<1>6. CASE SourceChange \/ UNCHANGED vars
  BY <1>6 DEF SourceChange, Publish, Delist, vars, db, locals, OverlapInv, StillToInsert
<1> QED
  BY <1>1, <1>2, <1>3, <1>4, <1>5, <1>6, OverlapInserts, OverlapOther
     DEF Next, Fault, Tick, PassStep

\* However many passes overlap, and whatever crashes and fails, no object is
\* stored more often than there are passes.
THEOREM CopiesAreBounded == Spec => []CopiesBounded
<1>1. Init => OverlapInv
  <2> SUFFICES ASSUME Init, NEW r \in Release, NEW k \in Part
               PROVE  objects[r][k] + Cardinality(StillToInsert(r, k)) <= Cardinality(Pass)
    BY DEF OverlapInv
  <2>1. objects[r][k] = 0
    BY BundleAssumption DEF Init, NoObjects, FirstParts
  <2> QED
    BY <2>1, StillToInsertFinite
<1>2. TypeOK /\ OverlapInv /\ [Next]_vars => OverlapInv'
  BY OverlapStep
<1>3. TypeOK /\ OverlapInv => CopiesBounded
  BY StillToInsertFinite DEF TypeOK, OverlapInv, CopiesBounded
<1> QED
  BY <1>1, <1>2, <1>3, TypeCorrect, PTL DEF Spec

-----------------------------------------------------------------------------
(***************************************************************************)
(* One pass at a time: the collector runs as one process whose passes end  *)
(* within the cron period.                                                 *)
(***************************************************************************)
NoOverlap == \A p, q \in Pass : p = q

LEMMA NextPart ==
  ASSUME NEW n \in Nat, n + 1 \in Part
  PROVE  [FirstParts(n) EXCEPT ![n + 1] = @ + 1] = FirstParts(n + 1)
<1> DEFINE f == [FirstParts(n) EXCEPT ![n + 1] = @ + 1]
<1>1. f = [k \in Part |-> IF k = n + 1 THEN FirstParts(n)[n + 1] + 1 ELSE FirstParts(n)[k]]
  BY DEF FirstParts
<1>2. FirstParts(n)[n + 1] = 0
  BY DEF FirstParts
<1>3. \A k \in Part : k # n + 1 => FirstParts(n)[k] = FirstParts(n + 1)[k]
  BY BundleAssumption DEF FirstParts
<1>4. FirstParts(n + 1)[n + 1] = 1
  BY DEF FirstParts
<1>5. \A k \in Part : f[k] = FirstParts(n + 1)[k]
  BY <1>1, <1>2, <1>3, <1>4
<1>6. f = [k \in Part |-> f[k]] /\ FirstParts(n + 1) = [k \in Part |-> FirstParts(n + 1)[k]]
  BY <1>1 DEF FirstParts
<1> QED
  BY <1>5, <1>6

\* A step that leaves documents and objects alone, and either does not move
\* the pass or moves it out of the hydration of a release.
LEMMA OnePassQuiet ==
  ASSUME NoOverlap, TypeOK, OnePassInv, NEW p \in Pass,
         UNCHANGED <<docs, objects>>,
         pc' \in [Pass -> {"idle", "list", "hydrate", "point", "sweep"} \cup Hydrating],
         \/ UNCHANGED <<pc, current, inserted>>
         \/ pc'[p] \notin Hydrating /\ inserted'[p] = 0,
         doomed' = doomed \/ doomed'[p] = {},
         pc'[p] # "sweep" => doomed'[p] = {}
  PROVE  OnePassInv'
BY DEF OnePassInv, NoOverlap, Progress, Removal, MarkedAllOrNothing, Marked, TypeOK, Hydrated

LEMMA OnePassHydrates ==
  ASSUME NoOverlap, TypeOK, OnePassInv, NEW p \in Pass,
         BeginRelease(p) \/ ClearLeftovers(p) \/ FetchBundle(p) \/ FetchNoBundle(p)
           \/ InsertObjects(p) \/ CommitRelease(p)
  PROVE  OnePassInv'
<1>1. CASE BeginRelease(p)
  BY <1>1 DEF BeginRelease, OnePassInv, NoOverlap, Progress, Removal, MarkedAllOrNothing,
              Marked, TypeOK, db
<1>2. CASE ClearLeftovers(p)
  <2>1. current[p] \in Release /\ ~Marked(current[p])
    BY <1>2 DEF ClearLeftovers, TypeOK, OnePassInv, Progress
  <2>2. objects'[current[p]] = NoObjects
    BY <1>2, <2>1 DEF ClearLeftovers, TypeOK
  <2>3. \A r : r # current[p] => objects'[r] = objects[r]
    BY <1>2, <2>1 DEF ClearLeftovers, TypeOK
  <2>4. MarkedAllOrNothing'
    BY <1>2, <2>1, <2>3 DEF ClearLeftovers, OnePassInv, MarkedAllOrNothing, Marked
  <2>5. \A q \in Pass : Progress(q)' /\ Removal(q)'
    BY <1>2, <2>1, <2>2, <2>3
       DEF ClearLeftovers, OnePassInv, NoOverlap, Progress, Removal, Marked, TypeOK
  <2> QED
    BY <2>4, <2>5 DEF OnePassInv
<1>3. CASE FetchBundle(p)
  BY <1>3 DEF FetchBundle, OnePassInv, NoOverlap, Progress, Removal, MarkedAllOrNothing,
              Marked, TypeOK, db, NoObjects
<1>6. CASE FetchNoBundle(p)
  BY <1>6 DEF FetchNoBundle, OnePassInv, NoOverlap, Progress, Removal, MarkedAllOrNothing,
              Marked, TypeOK, db, NoObjects
<1>4. CASE InsertObjects(p)
  <2>1. current[p] \in Release /\ inserted[p] \in Nat /\ ~Marked(current[p])
    BY <1>4 DEF InsertObjects, TypeOK, OnePassInv, Progress
  <2>2. inserted[p] + 1 \in Part
    BY <1>4, <2>1, BundleAssumption DEF InsertObjects
  <2>3. objects'[current[p]] = FirstParts(inserted[p] + 1)
    <3>1. objects[current[p]] = FirstParts(inserted[p])
      BY <1>4 DEF InsertObjects, OnePassInv, Progress
    <3>2. objects'[current[p]] = [objects[current[p]] EXCEPT ![inserted[p] + 1] = @ + 1]
      BY <1>4, <2>1 DEF InsertObjects, TypeOK
    <3> QED
      BY <2>1, <2>2, <3>1, <3>2, NextPart
  <2>4. \A r : r # current[p] => objects'[r] = objects[r]
    BY <1>4, <2>1 DEF InsertObjects, TypeOK
  <2>5. MarkedAllOrNothing'
    BY <1>4, <2>1, <2>4 DEF InsertObjects, OnePassInv, MarkedAllOrNothing, Marked
  <2>6. \A q \in Pass : Progress(q)' /\ Removal(q)'
    BY <1>4, <2>1, <2>3, <2>4
       DEF InsertObjects, OnePassInv, NoOverlap, Progress, Removal, Marked, TypeOK
  <2> QED
    BY <2>5, <2>6 DEF OnePassInv
<1>5. CASE CommitRelease(p)
  <2>1. objects[current[p]] \in {NoObjects, Bundle(current[p])} /\ ~Marked(current[p])
    BY <1>5 DEF CommitRelease, OnePassInv, Progress, Bundle
  <2>2. MarkedAllOrNothing'
    BY <1>5, <2>1 DEF CommitRelease, LeaveRelease, OnePassInv, MarkedAllOrNothing
  <2>3. \A q \in Pass : Progress(q)' /\ Removal(q)'
    BY <1>5 DEF CommitRelease, LeaveRelease, OnePassInv, NoOverlap, Progress, Removal, TypeOK
  <2> QED
    BY <2>2, <2>3 DEF OnePassInv
<1> QED
  BY <1>1, <1>2, <1>3, <1>4, <1>5, <1>6

LEMMA OnePassSweeps ==
  ASSUME NoOverlap, TypeOK, OnePassInv, NEW p \in Pass,
         DropLegacyDocument(p) \/ DeleteOrphanObjects(p) \/ DeleteOrphanDocument(p)
  PROVE  OnePassInv'
<1>1. CASE DropLegacyDocument(p)
  BY <1>1 DEF DropLegacyDocument, OnePassInv, NoOverlap, Progress, Removal,
              MarkedAllOrNothing, TypeOK
<1>2. CASE DeleteOrphanObjects(p)
  <2>1. PICK d \in orphans[p] :
          /\ ~Legacy(d)
          /\ objects' = [objects EXCEPT ![d.release] = NoObjects]
          /\ doomed' = [doomed EXCEPT ![p] = {d}]
    BY <1>2 DEF DeleteOrphanObjects
  <2>2. d.release \in Release
    BY <2>1 DEF TypeOK, Doc, Legacy, AnyRelease, LegacyRelease
  <2>3. objects'[d.release] = NoObjects
    BY <2>1, <2>2 DEF TypeOK
  <2>4. \A r : r # d.release => objects'[r] = objects[r]
    BY <2>1, <2>2 DEF TypeOK
  <2>5. MarkedAllOrNothing'
    BY <1>2, <2>3, <2>4 DEF DeleteOrphanObjects, OnePassInv, MarkedAllOrNothing, Legacy
  <2>6. \A q \in Pass : Progress(q)' /\ Removal(q)'
    BY <1>2, <2>1, <2>3 DEF DeleteOrphanObjects, OnePassInv, NoOverlap, Progress, Removal,
                            TypeOK
  <2> QED
    BY <2>5, <2>6 DEF OnePassInv
<1>3. CASE DeleteOrphanDocument(p)
  BY <1>3 DEF DeleteOrphanDocument, OnePassInv, NoOverlap, Progress, Removal,
              MarkedAllOrNothing, TypeOK
<1> QED
  BY <1>1, <1>2, <1>3

LEMMA OnePassStep ==
  ASSUME NoOverlap, TypeOK, TypeOK', OnePassInv, [Next]_vars
  PROVE  OnePassInv'
<1>1. ASSUME NEW p \in Pass, StartPass(p)
      PROVE  OnePassInv'
  BY <1>1, OnePassQuiet DEF StartPass, db, TypeOK, OnePassInv, Progress, Removal
<1>2. CASE Boot
  <2>1. CASE UNCHANGED <<source, db, locals>>
    BY <2>1 DEF db, locals, OnePassInv, Progress, Removal, MarkedAllOrNothing, Marked
  <2> QED
    BY <1>1, <1>2, <2>1 DEF Boot
<1>3. ASSUME NEW p \in Pass, Tick(p)
      PROVE  OnePassInv'
  BY <1>1, <1>3 DEF Tick
<1>4. ASSUME NEW p \in Pass, EndPass(p), UNCHANGED <<docs, objects>>
      PROVE  OnePassInv'
  BY <1>4, OnePassQuiet DEF EndPass, TypeOK
<1>5. ASSUME NEW p \in Pass, LeaveRelease(p), pc[p] # "sweep", UNCHANGED docs
      PROVE  OnePassInv'
  <2>1. pc'[p] = "hydrate" /\ inserted'[p] = 0 /\ UNCHANGED <<docs, objects>>
    BY <1>5 DEF LeaveRelease, TypeOK
  <2>2. doomed' = doomed /\ doomed[p] = {}
    BY <1>5 DEF LeaveRelease, OnePassInv, Removal
  <2> QED
    BY <2>1, <2>2, OnePassQuiet DEF TypeOK
<1>6. ASSUME NEW p \in Pass, PassStep(p)
      PROVE  OnePassInv'
  <2>1. CASE ListSource(p) \/ SkipHydrated(p) \/ AggregateLatest(p) \/ PointLatest(p)
             \/ ScanOrphans(p)
    BY <2>1, OnePassQuiet
       DEF ListSource, SkipHydrated, AggregateLatest, PointLatest, ScanOrphans, Orphaned, TypeOK, db,
           OnePassInv, Progress, Removal
  <2>2. CASE BundleMissing(p)
    BY <1>5, <2>2 DEF BundleMissing
  <2>3. CASE DropPointers(p)
    BY <1>4, <2>3 DEF DropPointers
  <2> QED
    BY <1>6, <2>1, <2>2, <2>3, OnePassHydrates, OnePassSweeps DEF PassStep
<1>7. CASE Crash
  BY <1>7 DEF Crash, db, OnePassInv, Progress, Removal, MarkedAllOrNothing, Marked
<1>8. ASSUME NEW p \in Pass, HydrateFails(p)
      PROVE  OnePassInv'
  BY <1>5, <1>8 DEF HydrateFails
<1>11. ASSUME NEW p \in Pass, FetchNoBundle(p)
       PROVE  OnePassInv'
  BY <1>11, OnePassHydrates
<1>9. ASSUME NEW p \in Pass, AbortPass(p)
      PROVE  OnePassInv'
  BY <1>4, <1>9 DEF AbortPass, db
<1>10. CASE SourceChange \/ UNCHANGED vars
  BY <1>10 DEF SourceChange, Publish, Delist, vars, db, locals, OnePassInv, Progress, Removal,
               MarkedAllOrNothing, Marked
<1> QED
  BY <1>2, <1>3, <1>6, <1>7, <1>8, <1>9, <1>10, <1>11 DEF Next, Fault

LEMMA OnePassInductive ==
  ASSUME NoOverlap
  PROVE  Spec => [](TypeOK /\ OnePassInv)
<1>1. Init => OnePassInv
  BY DEF Init, OnePassInv, Progress, Removal, MarkedAllOrNothing, Legacy, LegacyRelease
<1>2. TypeOK /\ TypeOK' /\ OnePassInv /\ [Next]_vars => OnePassInv'
  BY OnePassStep
<1> QED
  BY <1>1, <1>2, TypeCorrect, PTL DEF Spec

\* Whatever the source publishes or delists, and wherever the collector
\* crashes or fails: a marked release holds its whole bundle, each part once,
\* or nothing; a reader of a marked release never gets a part of it.
THEOREM NeverPartlyMarked ==
  ASSUME NoOverlap
  PROVE  Spec => []MarkedAllOrNothing
<1>1. OnePassInv => MarkedAllOrNothing
  BY DEF OnePassInv
<1> QED
  BY <1>1, OnePassInductive, PTL

-----------------------------------------------------------------------------
(***************************************************************************)
(* The sweep of one pass, for a source that delists.                       *)
(***************************************************************************)

\* A pass that is not sweeping, and the documents of one that is.
LEMMA SweepQuiet ==
  ASSUME NoOverlap, TypeOK, SweepInv, NEW p \in Pass,
         \/ pc'[p] # "sweep" /\ Scanned(p)' = {}
         \/ UNCHANGED <<docs, pc, listed, orphans, doomed>>
  PROVE  SweepInv'
BY DEF SweepInv, NoOverlap, Scanned

LEMMA SweepStep ==
  ASSUME NoOverlap, TypeOK, SweepInv, [Next]_vars
  PROVE  SweepInv'
<1>1. ASSUME NEW p \in Pass, pc[p] # "sweep", pc'[p] # "sweep", UNCHANGED <<orphans, doomed>>
      PROVE  SweepInv'
  BY <1>1, SweepQuiet DEF SweepInv, Scanned
<1>2. ASSUME NEW p \in Pass, EndPass(p)
      PROVE  SweepInv'
  BY <1>2, SweepQuiet DEF EndPass, Scanned, TypeOK
<1>3. ASSUME NEW p \in Pass, LeaveRelease(p), pc[p] # "sweep"
      PROVE  SweepInv'
  BY <1>1, <1>3 DEF LeaveRelease, TypeOK
<1>4. ASSUME NEW p \in Pass, StartPass(p)
      PROVE  SweepInv'
  BY <1>1, <1>4 DEF StartPass, TypeOK
<1>5. ASSUME NEW p \in Pass, PassStep(p)
      PROVE  SweepInv'
  <2>1. CASE ListSource(p) \/ SkipHydrated(p) \/ BeginRelease(p) \/ ClearLeftovers(p)
             \/ FetchBundle(p) \/ InsertObjects(p) \/ AggregateLatest(p) \/ PointLatest(p)
    BY <1>1, <2>1 DEF ListSource, SkipHydrated, BeginRelease, ClearLeftovers, FetchBundle,
                      InsertObjects, AggregateLatest, PointLatest, TypeOK
  <2>2. CASE BundleMissing(p) \/ CommitRelease(p)
    BY <1>3, <2>2 DEF BundleMissing, CommitRelease
  <2>3. CASE ScanOrphans(p)
    <3>1. /\ doomed'[p] = {} /\ UNCHANGED <<docs, listed>>
          /\ orphans'[p] = Orphaned(p)
      BY <2>3 DEF ScanOrphans, SweepInv, Scanned, TypeOK, db
    <3>2. Scanned(p)' = {d \in docs : Legacy(d) \/ d.release \notin listed[p]}
      BY <3>1 DEF Scanned, Orphaned
    <3>3. pc'[p] = "sweep" /\ \A q \in Pass : q = p
      BY <2>3 DEF ScanOrphans, NoOverlap, TypeOK
    <3>4. \A d \in Scanned(p)' : Legacy(d) \/ d.release \notin listed'[p]
      BY <3>1, <3>2
    <3>5. \A d \in docs' : d \in Scanned(p)' \/ (~Legacy(d) /\ d.release \in listed'[p])
      BY <3>1, <3>2
    <3> QED
      BY <3>3, <3>4, <3>5 DEF SweepInv
  <2>4. CASE DropLegacyDocument(p)
    <3>1. PICK d \in orphans[p] : /\ Legacy(d) /\ docs' = docs \ {d}
                                  /\ orphans' = [orphans EXCEPT ![p] = @ \ {d}]
      BY <2>4 DEF DropLegacyDocument
    <3>2. Scanned(p)' = Scanned(p) \ {d}
      BY <2>4, <3>1 DEF DropLegacyDocument, Scanned, TypeOK
    <3> QED
      BY <2>4, <3>1, <3>2 DEF DropLegacyDocument, SweepInv, NoOverlap
  <2>5. CASE DeleteOrphanObjects(p)
    <3>1. Scanned(p)' = Scanned(p)
      BY <2>5 DEF DeleteOrphanObjects, Scanned, TypeOK
    <3> QED
      BY <2>5, <3>1 DEF DeleteOrphanObjects, SweepInv, NoOverlap
  <2>6. CASE DeleteOrphanDocument(p)
    <3>1. docs' = docs \ doomed[p] /\ Scanned(p)' = orphans[p]
      BY <2>6 DEF DeleteOrphanDocument, Scanned, TypeOK
    <3> QED
      BY <2>6, <3>1 DEF DeleteOrphanDocument, SweepInv, NoOverlap, Scanned
  <2>7. CASE DropPointers(p)
    BY <1>2, <2>7 DEF DropPointers
  <2> QED
    BY <1>5, <2>1, <2>2, <2>3, <2>4, <2>5, <2>6, <2>7 DEF PassStep
<1>6. CASE Fault
  <2>1. ASSUME NEW p \in Pass, FetchNoBundle(p)
        PROVE  SweepInv'
    BY <1>1, <2>1 DEF FetchNoBundle, TypeOK
  <2>2. ASSUME NEW p \in Pass, HydrateFails(p)
        PROVE  SweepInv'
    BY <1>3, <2>2 DEF HydrateFails
  <2>3. ASSUME NEW p \in Pass, AbortPass(p)
        PROVE  SweepInv'
    BY <1>2, <2>3 DEF AbortPass
  <2>4. CASE Crash
    BY <2>4 DEF Crash, SweepInv, Scanned
  <2> QED
    BY <1>6, <2>1, <2>2, <2>3, <2>4 DEF Fault
<1>7. CASE UNCHANGED <<docs, locals>>
  BY <1>7 DEF locals, SweepInv, Scanned
<1> QED
  BY <1>4, <1>5, <1>6, <1>7 DEF Next, Boot, Tick, SourceChange, Publish, Delist, vars, db

LEMMA SweepInductive ==
  ASSUME NoOverlap
  PROVE  Spec => [](TypeOK /\ OnePassInv /\ SweepInv)
<1>1. Init => SweepInv
  BY DEF Init, SweepInv, Scanned
<1>2. TypeOK /\ SweepInv /\ [Next]_vars => SweepInv'
  BY SweepStep
<1> QED
  BY <1>1, <1>2, OnePassInductive, PTL DEF Spec

LEMMA ListedKept ==
  ASSUME NoOverlap, TypeOK, OnePassInv, SweepInv, [Next]_vars,
         NEW q \in Pass, NEW r \in listed[q], Marked(r)
  PROVE  Marked(r)' /\ objects'[r] = objects[r]
<1>1. r \in Release /\ r.version # NoVersion
  <2>1. r \in Release
    BY DEF TypeOK
  <2> QED
    BY <2>1, SourceAssumption, MarkerAssumption
<1>2. PICK d \in docs : d.release = r /\ ~Legacy(d)
  BY <1>1 DEF Marked, Legacy
<1>3. SUFFICES d \in docs' /\ objects'[r] = objects[r]
  BY <1>2 DEF Marked
<1>4. ASSUME NEW p \in Pass, PassStep(p)
      PROVE  d \in docs' /\ objects'[r] = objects[r]
  <2>0. p = q
    BY DEF NoOverlap
  <2>1. CASE ClearLeftovers(p) \/ InsertObjects(p)
    <3>1. current[p] \in Release /\ current[p] # r
      BY <2>1 DEF ClearLeftovers, InsertObjects, TypeOK, OnePassInv, Progress
    <3>2. docs' = docs
      BY <2>1 DEF ClearLeftovers, InsertObjects
    <3>3. objects'[r] = objects[r]
      <4>1. CASE ClearLeftovers(p)
        BY <1>1, <3>1, <4>1 DEF ClearLeftovers, TypeOK
      <4>2. CASE InsertObjects(p)
        BY <1>1, <3>1, <4>2 DEF InsertObjects, TypeOK
      <4> QED
        BY <2>1, <4>1, <4>2
    <3> QED
      BY <3>2, <3>3
  <2>2. CASE DropLegacyDocument(p)
    BY <1>2, <2>2 DEF DropLegacyDocument
  <2>3. CASE DeleteOrphanObjects(p)
    <3>1. PICK e \in orphans[p] : /\ ~Legacy(e)
                                  /\ objects' = [objects EXCEPT ![e.release] = NoObjects]
      BY <2>3 DEF DeleteOrphanObjects
    <3>2. e.release # r
      BY <2>0, <3>1 DEF SweepInv, Scanned
    <3> QED
      BY <1>1, <2>3, <3>1, <3>2 DEF DeleteOrphanObjects, TypeOK
  <2>4. CASE DeleteOrphanDocument(p)
    <3>1. d \notin doomed[p]
      BY <1>2, <2>0 DEF SweepInv, Scanned
    <3> QED
      BY <2>4, <3>1 DEF DeleteOrphanDocument
  <2>5. CASE CommitRelease(p)
    BY <2>5 DEF CommitRelease, LeaveRelease
  <2> QED
    BY <1>4, <2>1, <2>2, <2>3, <2>4, <2>5
       DEF PassStep, ListSource, SkipHydrated, BeginRelease, FetchBundle, BundleMissing,
           LeaveRelease, AggregateLatest, PointLatest, ScanOrphans, DropPointers, db
<1>5. CASE Fault
  BY <1>5 DEF Fault, Crash, FetchNoBundle, HydrateFails, LeaveRelease, AbortPass, db
<1>6. CASE ~Fault /\ ~\E p \in Pass : PassStep(p)
  BY <1>6 DEF Next, Boot, Tick, StartPass, SourceChange, Publish, Delist, vars, db
<1> QED
  BY <1>4, <1>5, <1>6

\* Nothing a pass lists and has committed is deleted or written to while the
\* pass works from that listing, whatever the source delists meanwhile.
THEOREM ListedIsUntouched ==
  ASSUME NoOverlap
  PROVE  Spec => ListedReleaseUntouched
<1>1. TypeOK /\ OnePassInv /\ SweepInv /\ [Next]_vars =>
        [\A p \in Pass : \A r \in listed[p] :
           Marked(r) => Marked(r)' /\ objects'[r] = objects[r]]_vars
  BY ListedKept
<1> QED
  BY <1>1, SweepInductive, PTL DEF Spec, ListedReleaseUntouched

\* A pass that runs to its end leaves only what it has listed.
THEOREM OnlyListedIsLeft ==
  ASSUME NoOverlap
  PROVE  Spec => PassLeavesOnlyListed
<1>1. TypeOK /\ OnePassInv /\ SweepInv /\ [Next]_vars =>
        [\A p \in Pass : DropPointers(p) =>
           \A d \in docs : ~Legacy(d) /\ d.release \in listed[p]]_vars
  BY DEF SweepInv, Scanned, DropPointers
<1> QED
  BY <1>1, SweepInductive, PTL DEF Spec, PassLeavesOnlyListed

-----------------------------------------------------------------------------
(***************************************************************************)
(* The GitHub source: it publishes releases and never delists one, and     *)
(* answers a request for a bundle with the bundle.                         *)
(***************************************************************************)
GitHub == NoOverlap /\ ~MayDelist /\ ~MayGarble

LEMMA GitHubHydrates ==
  ASSUME GitHub, TypeOK, OnePassInv, GitHubInv, NEW p \in Pass,
         BeginRelease(p) \/ ClearLeftovers(p) \/ FetchBundle(p) \/ InsertObjects(p)
  PROVE  GitHubInv'
<1>1. CASE BeginRelease(p)
  BY <1>1 DEF BeginRelease, GitHubInv, GitHub, NoOverlap, ListingCovers, NewestReleases, TypeOK,
              MarkerMeansHydrated, Hydrated, PointerDesignatesCommitted, Marked, db
<1>2. CASE FetchBundle(p)
  BY <1>2 DEF FetchBundle, GitHubInv, GitHub, NoOverlap, ListingCovers, NewestReleases, TypeOK,
              MarkerMeansHydrated, Hydrated, PointerDesignatesCommitted, Marked, db
<1>3. ASSUME UNCHANGED <<source, docs, pointers, listed, todo, current, latest, orphans, doomed>>,
             pc' \in [Pass -> {"idle", "list", "hydrate", "point", "sweep"} \cup Hydrating],
             pc[p] \in {"clear", "insert"}, pc'[p] \in {"fetch", "insert"},
             \A r : r # current[p] => objects'[r] = objects[r]
      PROVE  GitHubInv'
  <2>1. ~Marked(current[p])
    BY <1>3 DEF OnePassInv, Progress
  <2>2. MarkerMeansHydrated'
    BY <1>3, <2>1 DEF GitHubInv, MarkerMeansHydrated, Hydrated, Marked
  <2>3. PointerDesignatesCommitted'
    BY <1>3 DEF GitHubInv, PointerDesignatesCommitted, Marked
  <2>4. \A q \in Pass : ListingCovers(q)'
    BY <1>3 DEF GitHubInv, GitHub, NoOverlap, ListingCovers
  <2> QED
    BY <1>3, <2>2, <2>3, <2>4 DEF GitHubInv
<1>4. CASE ClearLeftovers(p)
  BY <1>3, <1>4 DEF ClearLeftovers, TypeOK
<1>5. CASE InsertObjects(p)
  BY <1>3, <1>5 DEF InsertObjects, TypeOK
<1> QED
  BY <1>1, <1>2, <1>4, <1>5

\* The pass is back in its loop, having committed the release or not.
LEMMA GitHubLeaves ==
  ASSUME GitHub, TypeOK, OnePassInv, GitHubInv, NEW p \in Pass, LeaveRelease(p),
         pc[p] \in {"hydrate"} \cup Hydrating,
         todo' = todo \/ \E r \in todo[p] : todo' = [todo EXCEPT ![p] = @ \ {r}],
         \/ UNCHANGED docs
         \/ /\ Hydrated(current[p])
            /\ pc[p] = "insert"
            /\ \E g \in Generation : docs' = docs \cup {[release |-> current[p], gen |-> g]}
  PROVE  GitHubInv'
<1>1. MarkerMeansHydrated'
  BY DEF LeaveRelease, GitHubInv, MarkerMeansHydrated, Hydrated, Legacy
<1>2. PointerDesignatesCommitted'
  BY DEF LeaveRelease, GitHubInv, PointerDesignatesCommitted, Marked
<1>3. \A d \in docs' : Legacy(d) \/ d.release \in source'
  BY DEF LeaveRelease, GitHubInv, ListingCovers
<1>4. \A q \in Pass : ListingCovers(q)'
  BY DEF LeaveRelease, GitHubInv, GitHub, NoOverlap, ListingCovers, TypeOK
<1> QED
  BY <1>1, <1>2, <1>3, <1>4 DEF GitHubInv

LEMMA GitHubPoints ==
  ASSUME GitHub, TypeOK, GitHubInv, NEW p \in Pass,
         ListSource(p) \/ SkipHydrated(p) \/ AggregateLatest(p) \/ PointLatest(p)
           \/ ScanOrphans(p) \/ DropLegacyDocument(p)
  PROVE  GitHubInv'
<1>1. CASE ListSource(p)
  BY <1>1 DEF ListSource, GitHubInv, GitHub, NoOverlap, ListingCovers, NewestReleases, TypeOK,
              MarkerMeansHydrated, Hydrated, PointerDesignatesCommitted, Marked, db
<1>2. CASE SkipHydrated(p)
  BY <1>2 DEF SkipHydrated, GitHubInv, GitHub, NoOverlap, ListingCovers, NewestReleases, TypeOK,
              MarkerMeansHydrated, Hydrated, PointerDesignatesCommitted, Marked, db
<1>3. CASE AggregateLatest(p)
  BY <1>3 DEF AggregateLatest, GitHubInv, GitHub, NoOverlap, ListingCovers, NewestReleases,
              TypeOK, MarkerMeansHydrated, Hydrated, PointerDesignatesCommitted, Marked, db
<1>4. CASE PointLatest(p)
  <2>1. PICK r \in latest[p] :
          /\ pointers' = [pointers EXCEPT ![r.id] = r.version]
          /\ latest' = [latest EXCEPT ![p] = @ \ {r}]
    BY <1>4 DEF PointLatest
  <2>2. r \in NewestReleases
    BY <1>4, <2>1 DEF PointLatest, GitHubInv, ListingCovers
  <2>3. r \in AnyRelease /\ Marked(r)
    BY <2>2 DEF NewestReleases, Marked, TypeOK, Doc
  <2>4. r = [id |-> r.id, version |-> r.version] /\ r.id \in Collection
    BY <2>3, SourceAssumption DEF AnyRelease, LegacyRelease
  <2>5. PointerDesignatesCommitted'
    <3> SUFFICES ASSUME NEW c \in Collection, pointers'[c] \in Version
                 PROVE  Marked([id |-> c, version |-> pointers[c]])'
      BY DEF PointerDesignatesCommitted
    <3>1. CASE c = r.id
      <4>1. pointers'[c] = r.version
        BY <2>1, <2>4, <3>1 DEF TypeOK
      <4> QED
        BY <1>4, <2>3, <2>4, <3>1, <4>1 DEF Marked, PointLatest
    <3>2. CASE c # r.id
      <4>1. pointers'[c] = pointers[c]
        BY <2>1, <3>2 DEF TypeOK
      <4> QED
        BY <1>4, <4>1 DEF GitHubInv, PointerDesignatesCommitted, Marked, PointLatest
    <3> QED
      BY <3>1, <3>2
  <2>6. MarkerMeansHydrated'
    BY <1>4 DEF PointLatest, GitHubInv, MarkerMeansHydrated, Hydrated
  <2>7. \A q \in Pass : ListingCovers(q)'
    BY <1>4, <2>1 DEF PointLatest, GitHubInv, GitHub, NoOverlap, ListingCovers, NewestReleases,
                      TypeOK
  <2> QED
    BY <1>4, <2>5, <2>6, <2>7 DEF PointLatest, GitHubInv
<1>5. CASE ScanOrphans(p)
  BY <1>5 DEF ScanOrphans, Orphaned, GitHubInv, GitHub, NoOverlap, ListingCovers, NewestReleases, TypeOK,
              MarkerMeansHydrated, Hydrated, PointerDesignatesCommitted, Marked, db
<1>6. CASE DropLegacyDocument(p)
  <2>1. \A v \in Version, c \in Collection :
          Marked([id |-> c, version |-> v]) => Marked([id |-> c, version |-> v])'
    BY <1>6, MarkerAssumption DEF DropLegacyDocument, Marked, Legacy
  <2>2. PointerDesignatesCommitted'
    BY <1>6, <2>1 DEF DropLegacyDocument, GitHubInv, PointerDesignatesCommitted
  <2>3. \A q \in Pass : ListingCovers(q)'
    BY <1>6 DEF DropLegacyDocument, GitHubInv, GitHub, NoOverlap, ListingCovers, TypeOK
  <2> QED
    BY <1>6, <2>2, <2>3 DEF DropLegacyDocument, GitHubInv, MarkerMeansHydrated, Hydrated
<1> QED
  BY <1>1, <1>2, <1>3, <1>4, <1>5, <1>6

\* The pass ends, by itself or by an exception: pointers are dropped at most.
LEMMA GitHubEnds ==
  ASSUME TypeOK, GitHubInv, NEW p \in Pass, EndPass(p), UNCHANGED <<source, docs, objects>>,
         \A c \in Collection : pointers'[c] \in {pointers[c], NoPointer}
  PROVE  GitHubInv'
<1>1. PointerDesignatesCommitted'
  BY MarkerAssumption DEF GitHubInv, PointerDesignatesCommitted, Marked
<1>2. \A q \in Pass : ListingCovers(q)'
  BY DEF EndPass, GitHubInv, ListingCovers, TypeOK, NewestReleases
<1> QED
  BY <1>1, <1>2 DEF GitHubInv, MarkerMeansHydrated, Hydrated

LEMMA GitHubPassStep ==
  ASSUME GitHub, TypeOK, OnePassInv, GitHubInv, NEW p \in Pass, PassStep(p)
  PROVE  GitHubInv'
<1>1. CASE CommitRelease(p)
  <2>1. Hydrated(current[p])
    BY <1>1 DEF CommitRelease, OnePassInv, Progress, GitHubInv, ListingCovers, Hydrated, Bundle
  <2> QED
    BY <1>1, <2>1, GitHubLeaves DEF CommitRelease, FreshGenerations, GitHubInv, ListingCovers
<1>2. CASE BundleMissing(p)
  BY <1>2, GitHubLeaves DEF BundleMissing
<1>3. CASE DeleteOrphanObjects(p) \/ DeleteOrphanDocument(p)
  BY <1>3 DEF DeleteOrphanObjects, DeleteOrphanDocument, GitHubInv, ListingCovers
<1>4. CASE DropPointers(p)
  BY <1>4, GitHubEnds DEF DropPointers
<1> QED
  BY <1>1, <1>2, <1>3, <1>4, GitHubHydrates, GitHubPoints DEF PassStep

LEMMA GitHubStep ==
  ASSUME GitHub, TypeOK, OnePassInv, GitHubInv, [Next]_vars
  PROVE  GitHubInv'
<1>1. ASSUME NEW p \in Pass, StartPass(p)
      PROVE  GitHubInv'
  BY <1>1 DEF StartPass, db, GitHubInv, GitHub, NoOverlap, ListingCovers, NewestReleases, TypeOK,
              MarkerMeansHydrated, Hydrated, PointerDesignatesCommitted, Marked
<1>2. ASSUME UNCHANGED <<db, locals>>, source \subseteq source'
      PROVE  GitHubInv'
  BY <1>2 DEF db, locals, GitHubInv, ListingCovers, NewestReleases, MarkerMeansHydrated,
              Hydrated, PointerDesignatesCommitted, Marked
<1>3. CASE Boot
  BY <1>1, <1>2, <1>3 DEF Boot
<1>4. ASSUME NEW p \in Pass, Tick(p)
      PROVE  GitHubInv'
  BY <1>1, <1>4 DEF Tick
<1>5. CASE Crash
  BY <1>5 DEF Crash, db, GitHubInv, ListingCovers, MarkerMeansHydrated, Hydrated,
              PointerDesignatesCommitted, Marked, NewestReleases
<1>6. ASSUME NEW p \in Pass, HydrateFails(p)
      PROVE  GitHubInv'
  BY <1>6, GitHubLeaves DEF HydrateFails
<1>7. ASSUME NEW p \in Pass, AbortPass(p)
      PROVE  GitHubInv'
  BY <1>7, GitHubEnds DEF AbortPass, db
<1>10. ~\E p \in Pass : FetchNoBundle(p)
  BY DEF FetchNoBundle, GitHub
<1>8. CASE SourceChange
  BY <1>2, <1>8 DEF SourceChange, Publish, Delist, GitHub
<1>9. CASE UNCHANGED vars
  BY <1>2, <1>9 DEF vars
<1> QED
  BY <1>3, <1>4, <1>5, <1>6, <1>7, <1>8, <1>9, <1>10, GitHubPassStep DEF Next, Fault

LEMMA GitHubInductive ==
  ASSUME GitHub
  PROVE  Spec => [](TypeOK /\ OnePassInv /\ GitHubInv)
<1> USE DEF GitHub
<1>1. Init => OnePassInv
  BY DEF Init, OnePassInv, Progress, Removal, MarkedAllOrNothing, Legacy, LegacyRelease
<1>2. Init => GitHubInv
  BY MarkerAssumption
     DEF Init, GitHubInv, ListingCovers, MarkerMeansHydrated, PointerDesignatesCommitted,
         Legacy, LegacyRelease
<1>3. TypeOK /\ TypeOK' /\ OnePassInv /\ [Next]_vars => OnePassInv'
  BY OnePassStep
<1>4. TypeOK /\ OnePassInv /\ GitHubInv /\ [Next]_vars => GitHubInv'
  BY GitHubStep
<1> QED
  BY <1>1, <1>2, <1>3, <1>4, TypeCorrect, PTL DEF Spec

\* A commit marker means the release is fully hydrated, through every crash,
\* failure and retry.
THEOREM MarkerCorrect ==
  ASSUME GitHub
  PROVE  Spec => []MarkerMeansHydrated
<1>1. GitHubInv => MarkerMeansHydrated
  BY DEF GitHubInv
<1> QED
  BY <1>1, GitHubInductive, PTL

\* A latest-release pointer designates a committed release.
THEOREM PointerCorrect ==
  ASSUME GitHub
  PROVE  Spec => []PointerDesignatesCommitted
<1>1. GitHubInv => PointerDesignatesCommitted
  BY DEF GitHubInv
<1> QED
  BY <1>1, GitHubInductive, PTL

-----------------------------------------------------------------------------
(***************************************************************************)
(* The GitHub source, at the end of a pass: every default root is at the   *)
(* newest committed release.                                               *)
(***************************************************************************)

\* Finitely many releases have a newest: otherwise a smallest set of them that
\* has none would be without one of its members.
LEMMA HasNewest ==
  ASSUME NEW S, S \subseteq Release, S # {}
  PROVE  \E r \in S : \A s \in S : Modified[s] <= Modified[r]
<1> DEFINE NoNewest == {T \in SUBSET S : T # {} /\ \A r \in T : \E s \in T : ~(Modified[s] <= Modified[r])}
<1>1. SUFFICES ASSUME NoNewest # {}
               PROVE  FALSE
  OBVIOUS
<1>2. IsFiniteSet(S)
  BY SourceAssumption, FS_Subset
<1>3. IsWellFoundedOn(StrictSubsetOrdering(S), SUBSET S)
  BY <1>2, FS_FiniteSubsetsOfFinite, FS_StrictSubsetOrderingWellFounded
<1>4. PICK T \in NoNewest : \A U \in NoNewest : <<U, T>> \notin StrictSubsetOrdering(S)
  <2> HIDE DEF NoNewest
  <2>1. NoNewest \subseteq SUBSET S
    BY DEF NoNewest
  <2> QED
    BY <1>1, <1>3, <2>1, WFMin
<1>5. PICK x \in T : TRUE
  OBVIOUS
<1>6. T \ {x} \notin NoNewest
  BY <1>4, <1>5 DEF StrictSubsetOrdering
<1>7. \A r \in T : Modified[r] \in Nat
  BY SourceAssumption
<1>8. CASE T \ {x} = {}
  BY <1>5, <1>7, <1>8
<1>9. CASE T \ {x} # {}
  <2>1. PICK m \in T \ {x} : \A s \in T \ {x} : Modified[s] <= Modified[m]
    BY <1>6, <1>9
  <2>2. CASE Modified[x] <= Modified[m]
    BY <1>5, <2>1, <2>2
  <2>3. CASE ~(Modified[x] <= Modified[m])
    BY <1>5, <1>7, <2>1, <2>3
  <2> QED
    BY <2>2, <2>3
<1> QED
  BY <1>8, <1>9

\* What is not a legacy document is the document of a release, which is newer
\* than any legacy document.
LEMMA ReleaseOfDoc ==
  ASSUME TypeOK, NEW d \in docs
  PROVE  /\ ~Legacy(d) => d.release \in Release /\ ModifiedOf(d.release) \in Nat
         /\ Legacy(d) => ModifiedOf(d.release) = -1
BY SourceAssumption DEF TypeOK, Doc, AnyRelease, LegacyRelease, Legacy, ModifiedOf

\* The aggregate finds a release of every collection that has one.
LEMMA NewestPresent ==
  ASSUME TypeOK, NEW d \in docs, ~Legacy(d)
  PROVE  \E r \in NewestReleases : r.id = d.release.id
<1> DEFINE own == {r \in Release : r.id = d.release.id /\ \E e \in docs : ~Legacy(e) /\ e.release = r}
<1>1. d.release \in own
  BY ReleaseOfDoc
<1>2. PICK m \in own : \A s \in own : Modified[s] <= Modified[m]
  BY <1>1, HasNewest
<1>3. PICK e \in docs : ~Legacy(e) /\ e.release = m
  OBVIOUS
<1>4. ASSUME NEW s \in docs, s.release.id = m.id
      PROVE  ModifiedOf(s.release) <= ModifiedOf(m)
  <2>1. CASE Legacy(s)
    BY <1>3, <2>1, ReleaseOfDoc
  <2>2. CASE ~Legacy(s)
    <3>1. s.release \in own
      BY <1>4, <2>2, ReleaseOfDoc
    <3>2. ModifiedOf(s.release) = Modified[s.release] /\ ModifiedOf(m) = Modified[m]
      BY <1>3, <2>2 DEF ModifiedOf, Legacy
    <3> QED
      BY <1>2, <3>1, <3>2
  <2> QED
    BY <2>1, <2>2
<1>5. m \in NewestReleases
  BY <1>3, <1>4 DEF NewestReleases
<1> QED
  BY <1>5

LEMMA FollowStep ==
  ASSUME GitHub, TypeOK, GitHubInv, FollowInv, [Next]_vars
  PROVE  FollowInv'
<1>1. ASSUME NEW p \in Pass, pc'[p] \notin {"point", "sweep"}
      PROVE  FollowInv'
  BY <1>1 DEF GitHub, NoOverlap, FollowInv, PointersFollow
<1>2. CASE UNCHANGED <<docs, pointers, pc, latest>>
  BY <1>2 DEF FollowInv, PointersFollow, AtNewest, NewestReleases
<1>3. ASSUME NEW p \in Pass, AggregateLatest(p)
      PROVE  FollowInv'
  <2>1. \A d \in docs : ~Legacy(d) => \E r \in latest'[p] : r.id = d.release.id
    <3> TAKE d \in docs
    <3> HAVE ~Legacy(d)
    <3>1. PICK n \in NewestReleases : n.id = d.release.id
      BY NewestPresent
    <3> QED
      BY <1>3, <3>1 DEF AggregateLatest, TypeOK
  <2> QED
    BY <1>3, <2>1 DEF AggregateLatest, GitHub, NoOverlap, FollowInv, PointersFollow, TypeOK, db
<1>4. ASSUME NEW p \in Pass, PointLatest(p)
      PROVE  FollowInv'
  <2>1. PICK r \in latest[p] :
          /\ pointers' = [pointers EXCEPT ![r.id] = r.version]
          /\ latest' = [latest EXCEPT ![p] = @ \ {r}]
    BY <1>4 DEF PointLatest
  <2>2. pc[p] = "point" /\ pc' = pc /\ docs' = docs /\ NewestReleases' = NewestReleases
    BY <1>4 DEF PointLatest, NewestReleases
  <2>3. r \in NewestReleases /\ r.id \in Collection
    <3>1. r \in NewestReleases
      BY <2>2 DEF GitHubInv, ListingCovers
    <3>2. r \in AnyRelease
      BY DEF TypeOK
    <3> QED
      BY <3>1, <3>2, SourceAssumption DEF AnyRelease, LegacyRelease
  <2>4. ASSUME NEW d \in docs, ~Legacy(d)
        PROVE  AtNewest(d.release.id)' \/ \E s \in latest'[p] : s.id = d.release.id
    <3>1. CASE d.release.id = r.id
      BY <2>1, <2>2, <2>3, <3>1 DEF AtNewest, TypeOK
    <3>2. CASE d.release.id # r.id
      <4>1. pointers'[d.release.id] = pointers[d.release.id]
        BY <2>1, <3>2 DEF TypeOK
      <4>2. AtNewest(d.release.id) \/ \E s \in latest[p] : s.id = d.release.id
        BY <2>2, <2>4 DEF FollowInv, PointersFollow
      <4>3. CASE AtNewest(d.release.id)
        BY <2>2, <4>1, <4>3 DEF AtNewest
      <4>4. CASE \E s \in latest[p] : s.id = d.release.id
        BY <2>1, <3>2, <4>4 DEF TypeOK
      <4> QED
        BY <4>2, <4>3, <4>4
    <3> QED
      BY <3>1, <3>2
  <2> QED
    BY <2>2, <2>4 DEF GitHub, NoOverlap, FollowInv, PointersFollow
<1>5. ASSUME NEW p \in Pass, ScanOrphans(p)
      PROVE  FollowInv'
  <2>1. \A d \in docs : ~Legacy(d) => AtNewest(d.release.id)
    BY <1>5 DEF ScanOrphans, FollowInv, PointersFollow
  <2>2. docs' = docs /\ pointers' = pointers
    BY <1>5 DEF ScanOrphans, db
  <2>3. \A d \in docs' : ~Legacy(d) => AtNewest(d.release.id)'
    BY <2>1, <2>2 DEF AtNewest, NewestReleases
  <2> QED
    BY <2>3 DEF GitHub, NoOverlap, FollowInv, PointersFollow
<1>6. ASSUME NEW p \in Pass, DropLegacyDocument(p)
      PROVE  FollowInv'
  <2>1. PICK l \in orphans[p] : Legacy(l) /\ docs' = docs \ {l}
    BY <1>6 DEF DropLegacyDocument
  <2>2. pc[p] = "sweep" /\ pointers' = pointers
    BY <1>6 DEF DropLegacyDocument
  <2>3. ASSUME NEW d \in docs', ~Legacy(d)
        PROVE  AtNewest(d.release.id)'
    <3>1. PICK r \in NewestReleases : r.id = d.release.id /\ pointers[d.release.id] = r.version
      BY <2>1, <2>2, <2>3 DEF FollowInv, PointersFollow, AtNewest
    <3>2. PICK e \in docs : e.release = r
      BY <3>1 DEF NewestReleases
    <3>3. ModifiedOf(d.release) <= ModifiedOf(r)
      BY <2>1, <3>1 DEF NewestReleases
    <3>4. ~Legacy(e)
      BY <2>1, <2>3, <3>2, <3>3, ReleaseOfDoc
    <3>5. e \in docs'
      BY <2>1, <3>4
    <3>6. r \in NewestReleases'
      BY <2>1, <3>1, <3>2, <3>5 DEF NewestReleases, ModifiedOf
    <3> QED
      BY <2>2, <3>1, <3>6 DEF AtNewest
  <2> QED
    BY <2>3 DEF GitHub, NoOverlap, FollowInv, PointersFollow
<1>7. ASSUME NEW p \in Pass, PassStep(p)
      PROVE  FollowInv'
  <2>1. CASE DeleteOrphanObjects(p) \/ DeleteOrphanDocument(p)
    BY <2>1 DEF DeleteOrphanObjects, DeleteOrphanDocument, GitHubInv, ListingCovers
  <2>2. CASE DropPointers(p)
    BY <1>1, <2>2 DEF DropPointers, EndPass, TypeOK
  <2>3. CASE CommitRelease(p) \/ BundleMissing(p)
    BY <1>1, <2>3 DEF CommitRelease, BundleMissing, LeaveRelease, TypeOK
  <2>4. CASE ListSource(p) \/ SkipHydrated(p) \/ BeginRelease(p) \/ ClearLeftovers(p)
               \/ FetchBundle(p) \/ InsertObjects(p)
    BY <1>1, <2>4 DEF ListSource, SkipHydrated, BeginRelease, ClearLeftovers, FetchBundle,
                      InsertObjects, TypeOK
  <2> QED
    BY <1>3, <1>4, <1>5, <1>6, <1>7, <2>1, <2>2, <2>3, <2>4 DEF PassStep
<1>8. CASE Fault
  <2>1. ASSUME NEW p \in Pass, FetchNoBundle(p) \/ HydrateFails(p)
        PROVE  FollowInv'
    BY <1>1, <2>1 DEF FetchNoBundle, HydrateFails, LeaveRelease, TypeOK
  <2>2. ASSUME NEW p \in Pass, AbortPass(p)
        PROVE  FollowInv'
    BY <1>1, <2>2 DEF AbortPass, EndPass, TypeOK
  <2>3. CASE Crash
    BY <2>3 DEF Crash, FollowInv, PointersFollow
  <2> QED
    BY <1>8, <2>1, <2>2, <2>3 DEF Fault
<1>9. ASSUME NEW p \in Pass, StartPass(p)
      PROVE  FollowInv'
  BY <1>1, <1>9 DEF StartPass, TypeOK
<1>10. CASE SourceChange \/ UNCHANGED vars
  BY <1>2, <1>10 DEF SourceChange, Publish, Delist, vars, db, locals
<1>11. CASE Boot \/ \E p \in Pass : Tick(p)
  BY <1>2, <1>9, <1>11 DEF Boot, Tick, db, locals
<1> QED
  BY <1>7, <1>8, <1>10, <1>11 DEF Next

\* A pass that runs to its end leaves the default root of every collection with
\* a committed release at the newest one, whatever failed in it.
THEOREM NewestIsDefault ==
  ASSUME GitHub
  PROVE  Spec => PassLeavesNewest
<1>1. Init => FollowInv
  BY DEF Init, FollowInv, PointersFollow
<1>2. TypeOK /\ GitHubInv /\ FollowInv /\ [Next]_vars => FollowInv'
  BY FollowStep
<1>3. TypeOK /\ GitHubInv /\ FollowInv /\ [Next]_vars =>
        [\A p \in Pass : DropPointers(p) =>
           \A d \in docs : ~Legacy(d) =>
             \E r \in NewestReleases : r.id = d.release.id /\ pointers'[r.id] = r.version]_vars
  <2> SUFFICES ASSUME TypeOK, GitHubInv, FollowInv, NEW p \in Pass, DropPointers(p),
                      NEW d \in docs, ~Legacy(d)
               PROVE  \E r \in NewestReleases : r.id = d.release.id /\ pointers'[r.id] = r.version
    OBVIOUS
  <2>1. PICK r \in NewestReleases : r.id = d.release.id /\ pointers[d.release.id] = r.version
    BY DEF DropPointers, FollowInv, PointersFollow, AtNewest
  <2>2. d.release \in listed[p] /\ d.release.id \in Collection
    BY SourceAssumption, ReleaseOfDoc DEF DropPointers, GitHubInv, ListingCovers
  <2> QED
    BY <2>1, <2>2 DEF DropPointers
<1> QED
  BY <1>1, <1>2, <1>3, GitHubInductive, PTL DEF Spec, PassLeavesNewest

-----------------------------------------------------------------------------
(***************************************************************************)
(* What a step may do to documents, to the objects under them and to the   *)
(* pointers: the action properties and the refinement follow from these.   *)
(***************************************************************************)

\* Only the objects of a release without a marker are ever written, and only
\* legacy documents are ever removed.
LEMMA CommittedKept ==
  ASSUME GitHub, TypeOK, OnePassInv, GitHubInv, [Next]_vars,
         NEW d \in docs, ~Legacy(d)
  PROVE  d \in docs' /\ objects'[d.release] = objects[d.release]
<1>1. \A p \in Pass : pc[p] \in {"clear", "insert"} => current[p] # d.release
  BY DEF OnePassInv, Progress, Marked
<1>2. ASSUME NEW p \in Pass, PassStep(p)
      PROVE  d \in docs' /\ objects'[d.release] = objects[d.release]
  <2>1. CASE ClearLeftovers(p) \/ InsertObjects(p)
    <3>1. current[p] \in Release /\ current[p] # d.release
      BY <1>1, <2>1 DEF ClearLeftovers, InsertObjects, TypeOK
    <3>2. docs' = docs
      BY <2>1 DEF ClearLeftovers, InsertObjects
    <3>3. \A r \in Release : r # current[p] => objects'[r] = objects[r]
      <4>1. CASE ClearLeftovers(p)
        BY <4>1 DEF ClearLeftovers, TypeOK
      <4>2. CASE InsertObjects(p)
        BY <4>2 DEF InsertObjects, TypeOK
      <4> QED
        BY <2>1, <4>1, <4>2
    <3>4. d.release \in Release
      BY DEF TypeOK, Doc, AnyRelease, LegacyRelease, Legacy
    <3> QED
      BY <3>1, <3>2, <3>3, <3>4
  <2>2. CASE DropLegacyDocument(p)
    BY <2>2 DEF DropLegacyDocument
  <2>3. CASE DeleteOrphanObjects(p) \/ DeleteOrphanDocument(p)
    BY <2>3 DEF DeleteOrphanObjects, DeleteOrphanDocument, GitHubInv, ListingCovers
  <2>4. CASE CommitRelease(p)
    BY <2>4 DEF CommitRelease, LeaveRelease
  <2> QED
    BY <1>2, <2>1, <2>2, <2>3, <2>4
       DEF PassStep, ListSource, SkipHydrated, BeginRelease, FetchBundle, BundleMissing,
           LeaveRelease, AggregateLatest, PointLatest, ScanOrphans, DropPointers, db
<1>3. CASE Fault
  BY <1>3 DEF Fault, Crash, FetchNoBundle, HydrateFails, LeaveRelease, AbortPass, db
<1>4. CASE ~Fault /\ ~\E p \in Pass : PassStep(p)
  BY <1>4 DEF Next, Boot, Tick, StartPass, SourceChange, Publish, Delist, vars, db
<1> QED
  BY <1>2, <1>3, <1>4

\* A pointer to a release is only ever replaced by one to the newest.
LEMMA PointerMoves ==
  ASSUME GitHub, TypeOK, GitHubInv, [Next]_vars, pointers' # pointers
  PROVE  \/ \E r \in NewestReleases : pointers' = [pointers EXCEPT ![r.id] = r.version]
         \/ \A c \in Collection : pointers'[c] # pointers[c] =>
               pointers[c] \notin Version /\ pointers'[c] = NoPointer
<1>1. PICK p \in Pass : PointLatest(p) \/ DropPointers(p)
  BY DEF Next, Boot, Tick, StartPass, SourceChange, Publish, Delist, vars, db, Fault, Crash,
         FetchNoBundle, HydrateFails, LeaveRelease, AbortPass, PassStep, ListSource, SkipHydrated,
         BeginRelease, ClearLeftovers, FetchBundle, BundleMissing, InsertObjects,
         CommitRelease, AggregateLatest, ScanOrphans, DropLegacyDocument,
         DeleteOrphanObjects, DeleteOrphanDocument
<1>2. CASE PointLatest(p)
  BY <1>2 DEF PointLatest, GitHubInv, ListingCovers
<1>3. CASE DropPointers(p)
  <2> SUFFICES ASSUME NEW c \in Collection, pointers'[c] # pointers[c]
               PROVE  pointers[c] \notin Version /\ pointers'[c] = NoPointer
    OBVIOUS
  <2>1. ~\E r \in listed[p] : r.id = c
    BY <1>3 DEF DropPointers
  <2>2. pointers'[c] = NoPointer
    BY <1>3, <2>1 DEF DropPointers
  <2>3. ASSUME pointers[c] \in Version
        PROVE  FALSE
    <3>1. PICK d \in docs : d.release = [id |-> c, version |-> pointers[c]]
      BY <2>3 DEF GitHubInv, PointerDesignatesCommitted, Marked
    <3>2. d.release \in listed[p]
      BY <1>3, <2>3, <3>1, MarkerAssumption
         DEF DropPointers, GitHubInv, ListingCovers, Legacy
    <3> QED
      BY <2>1, <3>1, <3>2
  <2> QED
    BY <2>2, <2>3
<1> QED
  BY <1>1, <1>2, <1>3

\* What is designated by a pointer was published no later than the newest.
LEMMA NewestIsNewer ==
  ASSUME TypeOK, GitHubInv, NEW r \in NewestReleases, pointers[r.id] \in Version
  PROVE  /\ r \in Release
         /\ Modified[[id |-> r.id, version |-> pointers[r.id]]] <= Modified[r]
<1> DEFINE s == [id |-> r.id, version |-> pointers[r.id]]
<1>1. r \in AnyRelease
  BY DEF NewestReleases, TypeOK, Doc
<1>2. r.id \in Collection
  BY <1>1, SourceAssumption DEF AnyRelease, LegacyRelease
<1>3. PICK d \in docs : d.release = s
  BY <1>2 DEF GitHubInv, PointerDesignatesCommitted, Marked
<1>4. s.id = r.id /\ s.version # NoVersion
  BY MarkerAssumption
<1>5. s \in Release
  BY <1>3, <1>4 DEF TypeOK, Doc, AnyRelease, LegacyRelease
<1>6. ModifiedOf(s) <= ModifiedOf(r)
  BY <1>3, <1>4 DEF NewestReleases
<1>7. ModifiedOf(s) = Modified[s] /\ Modified[s] \in Nat
  BY <1>4, <1>5, SourceAssumption DEF ModifiedOf
<1>8. r.version # NoVersion
  BY <1>6, <1>7 DEF ModifiedOf
<1>9. r \in Release
  BY <1>1, <1>8 DEF AnyRelease, LegacyRelease
<1> QED
  BY <1>6, <1>7, <1>8, <1>9 DEF ModifiedOf

\* A committed release is immutable.
THEOREM ReleaseImmutable ==
  ASSUME GitHub
  PROVE  Spec => CommittedReleaseImmutable
<1>1. TypeOK /\ OnePassInv /\ GitHubInv /\ [Next]_vars =>
        [\A d \in docs : ~Legacy(d) => d \in docs' /\ objects'[d.release] = objects[d.release]]_vars
  BY CommittedKept
<1> QED
  BY <1>1, GitHubInductive, PTL DEF Spec, CommittedReleaseImmutable

\* The default root only moves forward.
THEOREM PointerForward ==
  ASSUME GitHub
  PROVE  Spec => PointerNeverMovesBack
<1>1. ASSUME TypeOK, GitHubInv, [Next]_vars, NEW c \in Collection,
             pointers[c] \in Version, pointers'[c] # pointers[c]
      PROVE  /\ pointers'[c] \in Version
             /\ Modified[[id |-> c, version |-> pointers[c]]]
                  <= Modified[[id |-> c, version |-> pointers'[c]]]
  <2>1. PICK r \in NewestReleases : pointers' = [pointers EXCEPT ![r.id] = r.version]
    BY <1>1, PointerMoves
  <2>2. r.id = c /\ pointers'[c] = r.version
    BY <1>1, <2>1 DEF TypeOK
  <2>3. r \in Release /\ Modified[[id |-> c, version |-> pointers[c]]] <= Modified[r]
    BY <1>1, <2>2, NewestIsNewer
  <2>4. r = [id |-> c, version |-> r.version] /\ r.version \in Version
    BY <2>2, <2>3, SourceAssumption
  <2> QED
    BY <2>2, <2>3, <2>4
<1>2. TypeOK /\ GitHubInv /\ [Next]_vars =>
        [\A c \in Collection :
           pointers[c] \in Version /\ pointers'[c] # pointers[c] =>
             /\ pointers'[c] \in Version
             /\ Modified[[id |-> c, version |-> pointers[c]]]
                  <= Modified[[id |-> c, version |-> pointers'[c]]]]_vars
  BY <1>1
<1> QED
  BY <1>2, GitHubInductive, PTL DEF Spec, PointerNeverMovesBack

-----------------------------------------------------------------------------
(***************************************************************************)
(* Refinement: what clients see is the catalog.                            *)
(***************************************************************************)
Shown(r) == IF Marked(r) THEN objects[r] ELSE NoRelease
Default(c) == IF pointers[c] \in Version THEN pointers[c] ELSE NoPointer

LEMMA OnlyCommitAdds ==
  ASSUME TypeOK, [Next]_vars, ~\E p \in Pass : CommitRelease(p)
  PROVE  docs' \subseteq docs
BY DEF Next, Boot, Tick, StartPass, SourceChange, Publish, Delist, vars, db, Fault, Crash,
       FetchNoBundle, HydrateFails, LeaveRelease, AbortPass, PassStep, ListSource, SkipHydrated,
       BeginRelease, ClearLeftovers, FetchBundle, BundleMissing, InsertObjects,
       AggregateLatest, PointLatest, ScanOrphans, DropLegacyDocument,
       DeleteOrphanObjects, DeleteOrphanDocument, DropPointers

\* Any step but a commit leaves what is shown of every release as it was.
LEMMA ShownKept ==
  ASSUME GitHub, TypeOK, OnePassInv, GitHubInv, [Next]_vars,
         ~\E p \in Pass : CommitRelease(p), NEW r \in Release
  PROVE  Shown(r)' = Shown(r)
<1>1. r.version # NoVersion
  BY SourceAssumption, MarkerAssumption
<1>2. CASE Marked(r)
  <2>1. PICK d \in docs : d.release = r
    BY <1>2 DEF Marked
  <2>2. d \in docs' /\ objects'[r] = objects[r]
    BY <1>1, <2>1, CommittedKept DEF Legacy
  <2> QED
    BY <2>1, <2>2 DEF Shown, Marked
<1>3. CASE ~Marked(r)
  BY <1>3, OnlyCommitAdds DEF Shown, Marked
<1> QED
  BY <1>2, <1>3

\* A commit makes the whole bundle of its release appear, and nothing else.
LEMMA CommitShows ==
  ASSUME GitHub, TypeOK, OnePassInv, GitHubInv, NEW p \in Pass, CommitRelease(p),
         NEW r, r = current[p]
  PROVE  /\ r \in Release
         /\ ~Marked(r)
         /\ pointers' = pointers
         /\ Shown(r)' = Bundle(r)
         /\ \A s \in Release : s # r => Shown(s)' = Shown(s)
<1>1. r \in Release /\ ~Marked(r) /\ pc[p] = "insert"
  BY DEF CommitRelease, TypeOK, OnePassInv, Progress, GitHubInv, ListingCovers
<1>2. objects[r] = Bundle(r)
  BY <1>1 DEF CommitRelease, OnePassInv, Progress, Bundle
<1>3. PICK g \in Generation : docs' = docs \cup {[release |-> r, gen |-> g]}
  BY <1>1 DEF CommitRelease, FreshGenerations
<1>4. objects' = objects /\ pointers' = pointers
  BY DEF CommitRelease, LeaveRelease
<1>5. ASSUME NEW s \in Release
      PROVE  Marked(s)' <=> (Marked(s) \/ s = r)
  <2>1. ASSUME Marked(s)' PROVE Marked(s) \/ s = r
    <3>1. PICK d \in docs' : d.release = s
      BY <2>1 DEF Marked
    <3> QED
      BY <1>3, <3>1 DEF Marked
  <2>2. ASSUME Marked(s) PROVE Marked(s)'
    BY <1>3, <2>2 DEF Marked
  <2>3. ASSUME s = r PROVE Marked(s)'
    <3> DEFINE d == [release |-> r, gen |-> g]
    <3>1. d \in docs' /\ d.release = s
      BY <1>3, <2>3
    <3> QED
      BY <3>1 DEF Marked
  <2> QED
    BY <2>1, <2>2, <2>3
<1>6. Shown(r)' = Bundle(r)
  BY <1>1, <1>2, <1>4, <1>5 DEF Shown
<1>7. \A s \in Release : s # r => Shown(s)' = Shown(s)
  BY <1>4, <1>5 DEF Shown
<1> QED
  BY <1>1, <1>4, <1>6, <1>7

\* Hydration implements the catalog: clients see each release appear whole
\* in one step, never change, and each default root cut over in one step to
\* the newest of them, whatever crashes and fails underneath.
THEOREM Refinement ==
  ASSUME GitHub
  PROVE  Spec => ImplementsCatalog
<1>1. Init => Catalog!Init
  <2> SUFFICES ASSUME Init PROVE Catalog!Init
    OBVIOUS
  <2>1. \A r \in Release : ~Marked(r)
    BY SourceAssumption, MarkerAssumption DEF Init, Marked, LegacyRelease
  <2>2. \A c \in Collection : pointers[c] = NoPointer
    BY DEF Init
  <2> QED
    BY <2>1, <2>2 DEF Catalog!Init
<1>2. ASSUME TypeOK, OnePassInv, GitHubInv, [Next]_vars
      PROVE  [Catalog!Next]_(Catalog!vars)
  <2>0. \A r \in Release : Shown(r) # NoRelease <=> Marked(r)
    BY <1>2, MarkerAssumption DEF Shown, TypeOK
  <2>1. CASE \E p \in Pass : CommitRelease(p)
    <3>1. PICK p \in Pass : CommitRelease(p)
      BY <2>1
    <3> PICK r : r = current[p]
      OBVIOUS
    <3>2. /\ r \in Release /\ ~Marked(r) /\ pointers' = pointers
          /\ Shown(r)' = Bundle(r)
          /\ \A s \in Release : s # r => Shown(s)' = Shown(s)
      BY <1>2, <3>1, CommitShows
    <3>3. Catalog!Appear(r)
      <4>1. \A c \in Collection : Default(c)' = Default(c)
        BY <3>2 DEF Default
      <4>2. [s \in Release |-> Shown(s)]' =
              [[s \in Release |-> Shown(s)] EXCEPT ![r] = Bundle(r)]
        BY <3>2
      <4>3. Shown(r) = NoRelease
        BY <2>0, <3>2
      <4> QED
        BY <3>2, <4>1, <4>2, <4>3 DEF Catalog!Appear, Catalog!Available, Shown, Default
    <3> QED
      BY <3>2, <3>3 DEF Catalog!Next
  <2>2. CASE ~\E p \in Pass : CommitRelease(p)
    <3>1. \A r \in Release : Shown(r)' = Shown(r)
      BY <1>2, <2>2, ShownKept
    <3>2. CASE pointers' = pointers
      BY <3>1, <3>2 DEF Catalog!vars, Shown
    <3>3. CASE \A c \in Collection : pointers'[c] # pointers[c] =>
                 pointers[c] \notin Version /\ pointers'[c] = NoPointer
      <4>1. \A c \in Collection : Default(c)' = Default(c)
        BY <3>3, MarkerAssumption DEF Default
      <4> QED
        BY <3>1, <4>1 DEF Catalog!vars, Shown, Default
    <3>4. ASSUME NEW r \in NewestReleases, pointers' = [pointers EXCEPT ![r.id] = r.version]
          PROVE  [Catalog!Next]_(Catalog!vars)
      <4>1. r \in AnyRelease /\ Marked(r)
        BY <1>2 DEF NewestReleases, TypeOK, Doc, Marked
      <4>2. r.id \in Collection
        BY <4>1, SourceAssumption DEF AnyRelease, LegacyRelease
      <4>3. CASE r \in Release
        <5>1. r.version \in Version
          BY <4>3, SourceAssumption
        <5>2. \A c \in Collection : Default(c)' = IF c = r.id THEN r.version ELSE Default(c)
          BY <1>2, <3>4, <5>1 DEF Default, TypeOK
        <5>3. \A s \in Release : Marked(s) /\ s.id = r.id => Modified[s] <= Modified[r]
          <6> SUFFICES ASSUME NEW s \in Release, Marked(s), s.id = r.id
                       PROVE  Modified[s] <= Modified[r]
            OBVIOUS
          <6>1. ModifiedOf(s) <= ModifiedOf(r)
            BY DEF NewestReleases, Marked
          <6>2. s.version # NoVersion /\ r.version # NoVersion
            BY <4>3, SourceAssumption, MarkerAssumption
          <6> QED
            BY <6>1, <6>2 DEF ModifiedOf
        <5>4. Catalog!CutOver(r)
          BY <2>0, <3>1, <4>1, <4>3, <5>2, <5>3 DEF Catalog!CutOver, Catalog!Available, Shown, Default
        <5> QED
          BY <4>3, <5>4 DEF Catalog!Next
      <4>4. CASE r \notin Release
        <5>1. r.version = NoVersion
          BY <4>1, <4>4 DEF AnyRelease, LegacyRelease
        <5>2. pointers[r.id] \notin Version
          BY <1>2, <4>4, NewestIsNewer
        <5>3. \A c \in Collection : Default(c)' = Default(c)
          BY <1>2, <3>4, <5>1, <5>2, MarkerAssumption DEF Default, TypeOK
        <5> QED
          BY <3>1, <5>3 DEF Catalog!vars, Shown, Default
      <4> QED
        BY <4>3, <4>4
    <3> QED
      BY <1>2, <3>2, <3>3, <3>4, PointerMoves
  <2> QED
    BY <2>1, <2>2
<1>3. TypeOK /\ OnePassInv /\ GitHubInv /\ [Next]_vars => [Catalog!Next]_(Catalog!vars)
  BY <1>2
<1> QED
  BY <1>1, <1>3, GitHubInductive, PTL DEF Spec, ImplementsCatalog, Catalog!Spec
=============================================================================
