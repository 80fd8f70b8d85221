---------------------------- MODULE AnalysisProofs ----------------------------
(***************************************************************************)
(* Proofs about the analysis of the past: the graph that is built from the *)
(* forensic ledger, the dialogue with the model, the pulls from the        *)
(* ledger, and the queries of the process graph.                           *)
(***************************************************************************)
EXTENDS WarmGraph, LlmDialogue, LedgerQueries, GraphQueries, SequenceLemmas

-----------------------------------------------------------------------------
(* The warm graph: its directories. *)

\* What the thread holds at each step; a graph that is being built has a
\* directory.
StepInv ==
  \/ step \in {"wait", "ended"} /\ building = NoGraph /\ leftover = Missing
  \/ step = "export" /\ leftover = Missing
  \/ step \in {"load", "swap"} /\ leftover = Missing /\ "dir" \in DOMAIN building
  \/ step = "remove" /\ building = NoGraph

\* A process that has ended leaves its directories as strays and holds nothing.
EndedInv ==
  ~running => /\ DOMAIN dirs \subseteq stray /\ step = "ended"
              /\ served = NoGraph /\ slice = Missing

DirectoryInv ==
  DOMAIN dirs \subseteq Directories /\ StepInv /\ EndedInv /\ DirectoriesAreCleared

USE DEF NoGraph

LEMMA NewDirectoryIsNew ==
  ASSUME DOMAIN dirs \subseteq Directories, MakeDirectory
  PROVE  /\ NewDirectory \in Directories \ DOMAIN dirs
         /\ DOMAIN dirs' = DOMAIN dirs \union {NewDirectory}
<1>1. Directories \ DOMAIN dirs # {}
  BY DEF MakeDirectory
<1>2. NewDirectory \in Directories \ DOMAIN dirs
  BY <1>1 DEF NewDirectory
<1>3. DOMAIN dirs' = DOMAIN dirs \union {NewDirectory}
  BY DEF MakeDirectory, With
<1> QED BY <1>2, <1>3

LEMMA RemovedIsGone ==
  ASSUME NEW d, RemoveDirectory(d)
  PROVE  DOMAIN dirs' = DOMAIN dirs \ {d}
BY DEF RemoveDirectory, Restrict

LEMMA DirectoriesAtFirst == ASSUME WarmInit PROVE DirectoryInv
<1>1. DOMAIN dirs = {}
  <2>1. dirs = <<>>
    BY DEF WarmInit
  <2> QED BY <2>1
<1> QED BY <1>1 DEF WarmInit, DirectoryInv, StepInv, EndedInv, DirectoriesAreCleared

\* Nothing that the invariant speaks of changes.
LEMMA DirectoryFrame ==
  ASSUME DirectoryInv, UNCHANGED <<running, step, building, leftover, served, slice, dirs, stray>>
  PROVE  DirectoryInv'
BY DEF DirectoryInv, StepInv, EndedInv, DirectoriesAreCleared

LEMMA DirectoriesByThread ==
  ASSUME DirectoryInv, RebuildTurn \/ BeginRebuildFails \/ RebuildFails
  PROVE  DirectoryInv'
<1> USE DEF runVars, threadVars, DirectoriesAreCleared
<1>1. CASE BeginRebuild
  <2>1. PICK d : d = NewDirectory
    OBVIOUS
  <2>2. d \in Directories \ DOMAIN dirs /\ DOMAIN dirs' = DOMAIN dirs \union {d}
    BY <1>1, <2>1, NewDirectoryIsNew DEF BeginRebuild, DirectoryInv
  <2>3. building'.dir = d /\ building = NoGraph /\ leftover = Missing
    BY <1>1, <2>1 DEF BeginRebuild, DirectoryInv, StepInv
  <2> QED BY <1>1, <2>2, <2>3 DEF BeginRebuild, DirectoryInv, StepInv, EndedInv
<1>2. CASE RebuildFails
  <2>1. DOMAIN dirs' = DOMAIN dirs \ {building.dir}
    BY <1>2, RemovedIsGone DEF RebuildFails
  <2> QED BY <1>2, <2>1 DEF RebuildFails, EndTurn, DirectoryInv, StepInv, EndedInv
<1>3. CASE ExportRows
  <2>1. PICK rows : IF NodesOfRows(rows) = <<>>
                    THEN EndTurn /\ RemoveDirectory(building.dir)
                    ELSE /\ step' = "load"
                         /\ building' = [dir |-> building.dir, rows |-> rows, failed |-> {}]
                         /\ UNCHANGED <<dirs, ready, leftover>>
    BY <1>3 DEF ExportRows
  <2>2. CASE EndTurn /\ RemoveDirectory(building.dir)
    <3>1. DOMAIN dirs' = DOMAIN dirs \ {building.dir}
      BY <2>2, RemovedIsGone
    <3> QED BY <1>3, <2>2, <3>1 DEF ExportRows, EndTurn, DirectoryInv, StepInv, EndedInv
  <2>3. CASE /\ step' = "load"
             /\ building' = [dir |-> building.dir, rows |-> rows, failed |-> {}]
             /\ UNCHANGED <<dirs, ready, leftover>>
    <3>1. building'.dir = building.dir /\ "dir" \in DOMAIN building'
      BY <2>3
    <3> QED BY <1>3, <2>3, <3>1 DEF ExportRows, DirectoryInv, StepInv, EndedInv
  <2> QED BY <2>1, <2>2, <2>3
<1>4. CASE LoadTables
  <2>1. PICK failed : building' = [building EXCEPT !.failed = failed]
    BY <1>4 DEF LoadTables
  <2>2. "dir" \in DOMAIN building
    BY <1>4 DEF LoadTables, DirectoryInv, StepInv
  <2>3. building'.dir = building.dir /\ "dir" \in DOMAIN building'
    BY <2>1, <2>2
  <2> QED BY <1>4, <2>3 DEF LoadTables, DirectoryInv, StepInv, EndedInv
<1>5. CASE Swap
  BY <1>5 DEF Swap, DirectoryInv, StepInv, EndedInv
<1>6. CASE RemoveOld
  <2>1. DOMAIN dirs' = DOMAIN dirs \ {leftover}
    BY <1>6, RemovedIsGone DEF RemoveOld
  <2> QED BY <1>6, <2>1 DEF RemoveOld, EndTurn, DirectoryInv, StepInv, EndedInv
<1>7. CASE EndThread
  BY <1>7 DEF EndThread, DirectoryInv, StepInv, EndedInv
<1>8. CASE BeginRebuildFails
  <2>1. CASE MakeDirectory /\ stray' = stray \union {NewDirectory}
    <3>1. PICK d : d = NewDirectory
      OBVIOUS
    <3>2. d \in Directories \ DOMAIN dirs /\ DOMAIN dirs' = DOMAIN dirs \union {d}
      BY <2>1, <3>1, NewDirectoryIsNew DEF DirectoryInv
    <3> QED BY <1>8, <2>1, <3>1, <3>2 DEF BeginRebuildFails, DirectoryInv, StepInv, EndedInv
  <2>2. CASE UNCHANGED <<dirs, stray>>
    BY <1>8, <2>2, DirectoryFrame DEF BeginRebuildFails
  <2> QED BY <1>8, <2>1, <2>2 DEF BeginRebuildFails
<1> QED BY <1>1, <1>2, <1>3, <1>4, <1>5, <1>6, <1>7, <1>8 DEF RebuildTurn

LEMMA DirectoriesBySlices ==
  ASSUME DirectoryInv, OpenSlice \/ OpenSliceFails \/ CloseSlice
  PROVE  DirectoryInv'
<1> USE DEF runVars, threadVars, DirectoriesAreCleared
<1>1. CASE OpenSlice
  <2>1. PICK d : d = NewDirectory
    OBVIOUS
  <2>2. d \in Directories \ DOMAIN dirs /\ DOMAIN dirs' = DOMAIN dirs \union {d}
    BY <1>1, <2>1, NewDirectoryIsNew DEF OpenSlice, DirectoryInv
  <2> QED BY <1>1, <2>1, <2>2 DEF OpenSlice, DirectoryInv, StepInv, EndedInv
<1>2. CASE OpenSliceFails
  <2>1. PICK d : d = NewDirectory
    OBVIOUS
  <2>2. d \in Directories \ DOMAIN dirs /\ DOMAIN dirs' = DOMAIN dirs \union {d}
    BY <1>2, <2>1, NewDirectoryIsNew DEF OpenSliceFails, DirectoryInv
  <2> QED BY <1>2, <2>1, <2>2 DEF OpenSliceFails, DirectoryInv, StepInv, EndedInv
<1>3. CASE CloseSlice
  <2>1. DOMAIN dirs' = DOMAIN dirs \ {slice}
    BY <1>3, RemovedIsGone DEF CloseSlice
  <2> QED BY <1>3, <2>1 DEF CloseSlice, DirectoryInv, StepInv, EndedInv
<1> QED BY <1>1, <1>2, <1>3

LEMMA DirectoriesByAgent ==
  ASSUME DirectoryInv, Stop \/ CleanUp \/ Die \/ StartAgain
  PROVE  DirectoryInv'
<1> USE DEF threadVars, DirectoriesAreCleared
<1>1. CASE Stop
  BY <1>1 DEF Stop, DirectoryInv, StepInv, EndedInv
<1>2. CASE CleanUp
  <2>1. CASE served = NoGraph
    <3>1. UNCHANGED <<dirs, running, step, building, leftover, served, slice, stray>>
      BY <1>2, <2>1 DEF CleanUp
    <3> QED BY <3>1, DirectoryFrame
  <2>2. CASE served # NoGraph
    <3>1. DOMAIN dirs' = DOMAIN dirs \ {served.dir}
      BY <1>2, <2>2, RemovedIsGone DEF CleanUp
    <3> QED BY <1>2, <3>1 DEF CleanUp, DirectoryInv, StepInv, EndedInv
  <2> QED BY <2>1, <2>2
<1>3. CASE Die
  BY <1>3 DEF Die, DirectoryInv, StepInv, EndedInv
<1>4. CASE StartAgain
  <2>1. DOMAIN dirs' \subseteq DOMAIN dirs
    BY <1>4 DEF StartAgain, Restrict
  <2> QED BY <1>4, <2>1 DEF StartAgain, DirectoryInv, StepInv, EndedInv
<1> QED BY <1>1, <1>2, <1>3, <1>4

\* While the agent runs, a directory of its graphs that no one holds is a stray of
\* an earlier run, of a slice that failed or of a rebuild that failed at once,
\* whatever failed on the way (_cleanup_current and the swap of warm_cache.py).
THEOREM DirectoriesAreRemoved == WarmSpec => []DirectoriesAreCleared
<1>1. WarmInit => DirectoryInv
  BY DirectoriesAtFirst
<1>2. DirectoryInv /\ [WarmNext]_warmVars => DirectoryInv'
  <2> SUFFICES ASSUME DirectoryInv, [WarmNext]_warmVars
               PROVE  DirectoryInv'
    OBVIOUS
  <2>1. CASE RebuildTurn \/ BeginRebuildFails \/ RebuildFails
    BY <2>1, DirectoriesByThread
  <2>2. CASE OpenSlice \/ OpenSliceFails \/ CloseSlice
    BY <2>2, DirectoriesBySlices
  <2>3. CASE Stop \/ CleanUp \/ Die \/ StartAgain
    BY <2>3, DirectoriesByAgent
  <2>4. CASE WarmTick \/ RecordRow \/ UNCHANGED warmVars
    <3>1. UNCHANGED <<running, step, building, leftover, served, slice, dirs, stray>>
      BY <2>4 DEF WarmTick, RecordRow, warmVars, runVars, threadVars
    <3> QED BY <3>1, DirectoryFrame
  <2> QED BY <2>1, <2>2, <2>3, <2>4 DEF WarmNext
<1>3. DirectoryInv => DirectoriesAreCleared
  BY DEF DirectoryInv
<1> QED BY <1>1, <1>2, <1>3, PTL DEF WarmSpec

-----------------------------------------------------------------------------
(* The warm graph: what is exported. *)

\* The functions from some of the keys to records.
Tables(K, R) == UNION {[D -> R] : D \in SUBSET K}

LEMMA WithType ==
  ASSUME NEW K, NEW R, NEW f \in Tables(K, R), NEW k \in K, NEW v \in R
  PROVE  With(f, k, v) \in Tables(K, R)
<1>1. PICK D \in SUBSET K : f \in [D -> R]
  BY DEF Tables
<1>2. With(f, k, v) \in [D \union {k} -> R]
  BY <1>1 DEF With
<1> QED BY <1>1, <1>2 DEF Tables

LEMMA NoTable == \A K, R : <<>> \in Tables(K, R)
<1> SUFFICES ASSUME NEW K, NEW R
             PROVE  <<>> \in Tables(K, R)
  OBVIOUS
<1>1. <<>> \in [{} -> R]
  OBVIOUS
<1>2. [{} -> R] \in {[D -> R] : D \in SUBSET K}
  OBVIOUS
<1> QED BY <1>1, <1>2 DEF Tables

\* The rows of S in a window, as far as they have been read.
Windows(S) == {rows \in Seq(S) : InOrder(rows)}

\* There is a place for every row.
LEMMA PlaceExists ==
  ASSUME NEW S, \A row \in S : row.at \in Int, NEW rows \in Windows(S), NEW row \in S
  PROVE  /\ Place(rows, row) \in 0..Len(rows)
         /\ \A i \in 1..Place(rows, row) : rows[i].at <= row.at
         /\ \A i \in (Place(rows, row) + 1)..Len(rows) : row.at < rows[i].at
<1> DEFINE n == Len(rows)
           Ends == {k \in 0..n : k = n \/ row.at < rows[k + 1].at}
<1>1. /\ n \in Nat /\ DOMAIN rows = 1..n /\ InOrder(rows) /\ row.at \in Int
      /\ \A i \in 1..n : rows[i].at \in Int
  BY LenProperties DEF Windows
<1>2. n \in Ends /\ Ends \in SUBSET Nat
  BY <1>1
<1>3. PICK k \in Ends : \A j \in Ends : k <= j
  <2> HIDE DEF Ends
  <2> QED BY <1>2, LeastExists
<1>4. k \in 0..n
  OBVIOUS
<1> HIDE DEF n, Ends
<1>5. ASSUME NEW i \in 1..k
      PROVE  rows[i].at <= row.at
  <2>1. i - 1 \in 0..n /\ i - 1 < k /\ i \in 1..n
    BY <1>1, <1>4
  <2>2. i - 1 \notin Ends
    BY <1>3, <1>4, <1>1, <2>1
  <2>3. ~(row.at < rows[(i - 1) + 1].at)
    BY <2>1, <2>2 DEF Ends
  <2>4. (i - 1) + 1 = i
    BY <2>1
  <2> QED BY <1>1, <2>1, <2>3, <2>4
<1>6. ASSUME NEW i \in (k + 1)..n
      PROVE  row.at < rows[i].at
  <2>1. k # n /\ k + 1 \in 1..n /\ i \in 1..n
    BY <1>1, <1>4
  <2>2. row.at < rows[k + 1].at
    BY <1>3, <2>1 DEF Ends
  <2>3. rows[k + 1].at <= rows[i].at
    <3>1. CASE i = k + 1
      BY <1>1, <2>1, <3>1
    <3>2. CASE i # k + 1
      <4>1. k + 1 < i
        BY <1>1, <1>4, <3>2
      <4> QED BY <1>1, <2>1, <4>1 DEF InOrder
    <3> QED BY <3>1, <3>2
  <2> QED BY <1>1, <2>1, <2>2, <2>3
<1> DEFINE IsPlace(m) == /\ \A i \in 1..m : rows[i].at <= row.at
                         /\ \A i \in (m + 1)..Len(rows) : row.at < rows[i].at
<1>7. IsPlace(k) /\ k \in 0..Len(rows)
  BY <1>4, <1>5, <1>6 DEF n
<1>8. Place(rows, row) = CHOOSE m \in 0..Len(rows) : IsPlace(m)
  BY DEF Place
<1>9. Place(rows, row) \in 0..Len(rows) /\ IsPlace(Place(rows, row))
  <2> HIDE DEF IsPlace
  <2> QED BY <1>7, <1>8
<1> QED BY <1>9

\* A row that is put in its place leaves the rows in order.
LEMMA InsertedInOrder ==
  ASSUME NEW S, \A row \in S : row.at \in Int, NEW rows \in Windows(S), NEW row \in S
  PROVE  InsertAt(rows, Place(rows, row) + 1, row) \in Windows(S)
<1> DEFINE n == Len(rows)
<1>1. /\ n \in Nat /\ DOMAIN rows = 1..n /\ InOrder(rows) /\ rows \in Seq(S)
      /\ \A i \in 1..n : rows[i] \in S
  BY LenProperties DEF Windows
<1>2. PICK k \in 0..n :
        /\ k = Place(rows, row)
        /\ \A i \in 1..k : rows[i].at <= row.at
        /\ \A i \in (k + 1)..n : row.at < rows[i].at
  BY PlaceExists
<1> DEFINE front == SubSeq(rows, 1, k)
           back == SubSeq(rows, k + 1, n)
           t == InsertAt(rows, k + 1, row)
<1>3. front \in Seq(S) /\ Len(front) = k /\ \A i \in 1..k : front[i] = rows[i]
  BY <1>1, <1>2, SubSeqProperties
<1>4. back \in Seq(S) /\ Len(back) = n - k /\ \A i \in 1..(n - k) : back[i] = rows[i + k]
  BY <1>1, <1>2, SubSeqProperties
<1> HIDE DEF n, front, back, t
<1>5. /\ <<row>> \o back \in Seq(S) /\ Len(<<row>> \o back) = n - k + 1
      /\ (<<row>> \o back)[1] = row
      /\ \A i \in 1..(n - k) : (<<row>> \o back)[i + 1] = rows[i + k]
  BY <1>4, ConsIsSeq
<1>6. t = front \o (<<row>> \o back)
  <2>1. (k + 1) - 1 = k
    BY <1>1, <1>2
  <2>2. t = (front \o <<row>>) \o back
    BY <2>1 DEF InsertAt, t, front, back, n
  <2>3. <<row>> \in Seq(S)
    OBVIOUS
  <2>4. (front \o <<row>>) \o back = front \o (<<row>> \o back)
    BY <1>3, <1>4, <2>3, ConcatAssociative
  <2> QED BY <2>2, <2>4
<1>7. /\ t \in Seq(S) /\ Len(t) = n + 1
      /\ \A i \in 1..k : t[i] = rows[i]
      /\ t[k + 1] = row
      /\ \A i \in (k + 2)..(n + 1) : t[i] = rows[i - 1]
  <2> DEFINE rest == <<row>> \o back
  <2>9. t = front \o rest /\ rest \in Seq(S) /\ Len(rest) = n - k + 1
    BY <1>5, <1>6
  <2> HIDE DEF rest
  <2>1. /\ t \in Seq(S) /\ Len(t) = k + (n - k + 1)
        /\ \A i \in 1..(k + (n - k + 1)) : t[i] = IF i <= k THEN front[i] ELSE rest[i - k]
    <3>1. /\ front \o rest \in Seq(S) /\ Len(front \o rest) = Len(front) + Len(rest)
          /\ \A i \in 1..(Len(front) + Len(rest)) :
               (front \o rest)[i] = IF i <= Len(front) THEN front[i] ELSE rest[i - Len(front)]
      BY <1>3, <2>9, ConcatProperties
    <3>2. Len(front) = k /\ Len(rest) = n - k + 1
      BY <1>3, <2>9
    <3> QED BY <2>9, <3>1, <3>2
  <2>2. \A i \in 1..k : t[i] = rows[i]
    BY <1>1, <1>2, <1>3, <2>1
  <2>3. t[k + 1] = row
    <3>1. k + 1 \in 1..(k + (n - k + 1)) /\ ~(k + 1 <= k) /\ (k + 1) - k = 1
      BY <1>1, <1>2
    <3>2. t[k + 1] = rest[1]
      BY <2>1, <3>1
    <3> QED BY <1>5, <3>2 DEF rest
  <2>4. ASSUME NEW i \in (k + 2)..(n + 1)
        PROVE  t[i] = rows[i - 1]
    <3>1. i - k - 1 \in 1..(n - k) /\ (i - k - 1) + 1 = i - k /\ (i - k - 1) + k = i - 1
      BY <1>1, <1>2
    <3>2. rest[i - k] = rows[i - 1]
      BY <1>5, <3>1 DEF rest
    <3>3. t[i] = rest[i - k]
      BY <1>1, <1>2, <2>1
    <3> QED BY <3>2, <3>3
  <2> QED BY <1>1, <1>2, <2>1, <2>2, <2>3, <2>4
<1>8. ASSUME NEW i \in 1..(n + 1), NEW j \in 1..(n + 1), i < j
      PROVE  t[i].at <= t[j].at
  <2>1. row.at \in Int /\ \A m \in 1..n : rows[m].at \in Int
    BY <1>1
  <2>2. \A l, m \in 1..n : l < m => rows[l].at <= rows[m].at
    BY <1>1 DEF InOrder
  <2>3. CASE j <= k
    <3>1. i \in 1..k /\ j \in 1..k /\ i \in 1..n /\ j \in 1..n
      BY <1>1, <1>2, <1>8, <2>3
    <3> QED BY <1>7, <1>8, <2>2, <3>1
  <2>4. CASE j = k + 1
    <3>1. i \in 1..k
      BY <1>1, <1>2, <1>8, <2>4
    <3> QED BY <1>2, <1>7, <2>4, <3>1
  <2>5. CASE j > k + 1
    <3>1. j \in (k + 2)..(n + 1) /\ j - 1 \in (k + 1)..n /\ j - 1 \in 1..n
      BY <1>1, <1>2, <1>8, <2>5
    <3>2. t[j] = rows[j - 1] /\ row.at < rows[j - 1].at
      BY <1>2, <1>7, <3>1
    <3>3. CASE i <= k
      <4>1. i \in 1..k /\ i \in 1..n /\ i < j - 1
        BY <1>1, <1>2, <1>8, <2>5, <3>3
      <4> QED BY <1>7, <2>2, <3>1, <3>2, <4>1
    <3>4. CASE i = k + 1
      BY <1>7, <2>1, <3>1, <3>2, <3>4
    <3>5. CASE i > k + 1
      <4>1. i \in (k + 2)..(n + 1) /\ i - 1 \in 1..n /\ i - 1 < j - 1
        BY <1>1, <1>2, <1>8, <3>5
      <4> QED BY <1>7, <2>2, <3>1, <3>2, <4>1
    <3> QED BY <1>1, <1>2, <3>3, <3>4, <3>5
  <2> QED BY <1>1, <1>2, <2>3, <2>4, <2>5
<1>9. t \in Windows(S)
  <2>1. DOMAIN t = 1..(n + 1)
    BY <1>7, LenProperties
  <2> QED BY <1>7, <1>8, <2>1 DEF Windows, InOrder
<1> QED BY <1>2, <1>9 DEF t

\* The rows of a window, one after the other.
KeptRow(rows, start, end, i, kept) ==
  IF start <= rows[i].at /\ rows[i].at <= end
  THEN InsertAt(kept, Place(kept, rows[i]) + 1, rows[i]) ELSE kept

LEMMA WindowRecursion ==
  ASSUME NEW S, \A row \in S : row.at \in Int, NEW rows \in Seq(S), NEW start, NEW end
  PROVE  \E dict : /\ InWindow(rows, start, end) = dict[Len(rows)] /\ dict[0] = <<>>
                   /\ \A i \in 1..Len(rows) : dict[i] = KeptRow(rows, start, end, i, dict[i - 1])
<1> DEFINE n == Len(rows)
           Values == Windows(S)
           next == [y \in (1..n) \X Values |-> KeptRow(rows, start, end, y[1], y[2])]
<1>1. n \in Nat /\ \A i \in 1..n : rows[i] \in S
  BY LenProperties
<1>2. next \in [(1..n) \X Values -> Values]
  <2>1. ASSUME NEW y \in (1..n) \X Values
        PROVE  KeptRow(rows, start, end, y[1], y[2]) \in Values
    <3>1. y[2] \in Windows(S) /\ rows[y[1]] \in S
      BY <1>1
    <3> QED BY <3>1, InsertedInOrder DEF KeptRow
  <2> HIDE DEF n, Values
  <2> QED BY <2>1
<1>3. PICK f \in [0..n -> Values] : f[0] = <<>> /\ \A i \in 1..n : f[i] = next[<<i, f[i - 1]>>]
  <2> DEFINE base == <<>>
  <2>1. base \in Values
    BY EmptySeq DEF Windows, InOrder
  <2> HIDE DEF n, next, Values, base
  <2>2. Recursions(n, Values, base, next) # {}
    BY <1>1, <1>2, <2>1, RecursionExists
  <2> QED BY <2>2 DEF Recursions, base
<1> DEFINE Follows(g) ==
             g = [i \in 0..n |-> IF i = 0 THEN <<>> ELSE KeptRow(rows, start, end, i, g[i - 1])]
           chosen == CHOOSE g : Follows(g)
<1>4. Follows(f)
  <2>1. ASSUME NEW i \in 0..n
        PROVE  f[i] = IF i = 0 THEN <<>> ELSE KeptRow(rows, start, end, i, f[i - 1])
    <3>1. CASE i = 0
      BY <1>3, <3>1
    <3>2. CASE i # 0
      <4>1. i \in 1..n /\ i - 1 \in 0..n
        BY <1>1, <3>2
      <4>2. <<i, f[i - 1]>> \in (1..n) \X Values
        BY <4>1
      <4> QED BY <1>3, <3>2, <4>1, <4>2
    <3> QED BY <3>1, <3>2
  <2> HIDE DEF n, Values, next
  <2> QED BY <2>1
<1>5. Follows(chosen)
  <2> HIDE DEF Follows
  <2> QED BY <1>4
<1>6. chosen[0] = <<>> /\ \A i \in 1..n : chosen[i] = KeptRow(rows, start, end, i, chosen[i - 1])
  <2> HIDE DEF chosen
  <2>1. \A i \in 0..n : chosen[i] = IF i = 0 THEN <<>> ELSE KeptRow(rows, start, end, i, chosen[i - 1])
    BY <1>5
  <2> HIDE DEF n, Follows
  <2>2. 0 \in 0..n /\ \A i \in 1..n : i \in 0..n /\ i # 0
    BY <1>1
  <2> QED BY <2>1, <2>2
<1>7. InWindow(rows, start, end) = chosen[n]
  BY DEF InWindow, KeptRow
<1> QED BY <1>6, <1>7

LEMMA WindowType ==
  ASSUME NEW S, \A row \in S : row.at \in Int, NEW rows \in Seq(S), NEW start, NEW end
  PROVE  InWindow(rows, start, end) \in Seq(S) /\ InOrder(InWindow(rows, start, end))
<1> DEFINE n == Len(rows)
<1>1. PICK kept :
        /\ InWindow(rows, start, end) = kept[n] /\ kept[0] = <<>>
        /\ \A i \in 1..n : kept[i] = KeptRow(rows, start, end, i, kept[i - 1])
  BY WindowRecursion
<1>2. n \in Nat /\ \A i \in 1..n : rows[i] \in S
  BY LenProperties
<1> DEFINE T == {i \in 0..n : kept[i] \in Windows(S)}
<1>3. 0 \in T
  <2>1. kept[0] \in Windows(S)
    BY <1>1, EmptySeq DEF Windows, InOrder
  <2>2. 0 \in 0..n
    BY <1>2
  <2> QED BY <2>1, <2>2
<1>4. ASSUME NEW i \in 1..n, i - 1 \in T
      PROVE  i \in T
  <2>1. kept[i] \in Windows(S)
    BY <1>1, <1>2, <1>4, InsertedInOrder DEF KeptRow
  <2>2. i \in 0..n
    BY <1>2
  <2> QED BY <2>1, <2>2
<1>5. n \in T
  <2> HIDE DEF n, T
  <2>1. \A i \in 0..n : i \in T
    BY <1>2, <1>3, <1>4, SetInduction
  <2> QED BY <1>2, <2>1
<1> QED BY <1>1, <1>5 DEF Windows

\* The dict of the nodes, record by record.
LEMMA NodeRecursion ==
  ASSUME NEW R, NEW records \in Seq(R)
  PROVE  \E dict : /\ NodeDict(records) = dict[Len(records)] /\ dict[0] = <<>>
                   /\ \A i \in 1..Len(records) : dict[i] = AddNode(dict[i - 1], records[i])
<1> DEFINE n == Len(records)
           Values == Tables({r.id : r \in R}, R)
           next == [y \in (1..n) \X Values |-> AddNode(y[2], records[y[1]])]
<1>1. n \in Nat /\ \A i \in 1..n : records[i] \in R
  BY LenProperties
<1>2. next \in [(1..n) \X Values -> Values]
  <2>1. ASSUME NEW y \in (1..n) \X Values
        PROVE  (AddNode(y[2], records[y[1]])) \in Values
    <3>1. y[2] \in Values /\ records[y[1]] \in R /\ records[y[1]].id \in {r.id : r \in R}
      BY <1>1
    <3>2. With(y[2], records[y[1]].id, records[y[1]]) \in Values
      BY <3>1, WithType
    <3> HIDE DEF Values
    <3> QED BY <3>1, <3>2 DEF AddNode
  <2> HIDE DEF n, Values
  <2> QED BY <2>1
<1>3. PICK f \in [0..n -> Values] : f[0] = <<>> /\ \A i \in 1..n : f[i] = next[<<i, f[i - 1]>>]
  <2> DEFINE base == <<>>
  <2>1. base \in Values
    BY EmptySeq, NoTable
  <2> HIDE DEF n, next, Values, base
  <2>2. Recursions(n, Values, base, next) # {}
    BY <1>1, <1>2, <2>1, RecursionExists
  <2> QED BY <2>2 DEF Recursions, base
<1> DEFINE Follows(g) ==
             g = [i \in 0..n |-> IF i = 0 THEN <<>> ELSE AddNode(g[i - 1], records[i])]
           chosen == CHOOSE g : Follows(g)
<1>4. Follows(f)
  <2>1. ASSUME NEW i \in 0..n
        PROVE  f[i] = IF i = 0 THEN <<>> ELSE AddNode(f[i - 1], records[i])
    <3>1. CASE i = 0
      BY <1>3, <3>1
    <3>2. CASE i # 0
      <4>1. i \in 1..n /\ i - 1 \in 0..n
        BY <1>1, <3>2
      <4>2. <<i, f[i - 1]>> \in (1..n) \X Values
        BY <4>1
      <4> QED BY <1>3, <3>2, <4>1, <4>2
    <3> QED BY <3>1, <3>2
  <2> HIDE DEF n, Values, next
  <2> QED BY <2>1
<1>5. Follows(chosen)
  <2> HIDE DEF Follows
  <2> QED BY <1>4
<1>6. chosen[0] = <<>> /\ \A i \in 1..n : chosen[i] = AddNode(chosen[i - 1], records[i])
  <2> HIDE DEF chosen
  <2>1. \A i \in 0..n : chosen[i] = IF i = 0 THEN <<>> ELSE AddNode(chosen[i - 1], records[i])
    BY <1>5
  <2> HIDE DEF n, Follows
  <2>2. 0 \in 0..n /\ \A i \in 1..n : i \in 0..n /\ i # 0
    BY <1>1
  <2> QED BY <2>1, <2>2
<1>7. NodeDict(records) = chosen[n]
  BY DEF NodeDict
<1> QED BY <1>6, <1>7

\* The dict of the edges, record by record.
LEMMA EdgeRecursion ==
  ASSUME NEW R, NEW records \in Seq(R)
  PROVE  \E dict : /\ EdgeDict(records) = dict[Len(records)] /\ dict[0] = <<>>
                   /\ \A i \in 1..Len(records) : dict[i] = AddEdge(dict[i - 1], records[i])
<1> DEFINE n == Len(records)
           Values == Tables({<<r.type, r.from, r.to>> : r \in R}, R)
           next == [y \in (1..n) \X Values |-> AddEdge(y[2], records[y[1]])]
<1>1. n \in Nat /\ \A i \in 1..n : records[i] \in R
  BY LenProperties
<1>2. next \in [(1..n) \X Values -> Values]
  <2>1. ASSUME NEW y \in (1..n) \X Values
        PROVE  (AddEdge(y[2], records[y[1]])) \in Values
    <3>1. /\ y[2] \in Values /\ records[y[1]] \in R
          /\ <<records[y[1]].type, records[y[1]].from, records[y[1]].to>> \in {<<r.type, r.from, r.to>> : r \in R}
      BY <1>1
    <3> DEFINE e == records[y[1]]
    <3>2. With(y[2], <<e.type, e.from, e.to>>, e) \in Values
      BY <3>1, WithType
    <3> HIDE DEF Values
    <3> QED BY <3>1, <3>2 DEF AddEdge
  <2> HIDE DEF n, Values
  <2> QED BY <2>1
<1>3. PICK f \in [0..n -> Values] : f[0] = <<>> /\ \A i \in 1..n : f[i] = next[<<i, f[i - 1]>>]
  <2> DEFINE base == <<>>
  <2>1. base \in Values
    BY EmptySeq, NoTable
  <2> HIDE DEF n, next, Values, base
  <2>2. Recursions(n, Values, base, next) # {}
    BY <1>1, <1>2, <2>1, RecursionExists
  <2> QED BY <2>2 DEF Recursions, base
<1> DEFINE Follows(g) ==
             g = [i \in 0..n |-> IF i = 0 THEN <<>> ELSE AddEdge(g[i - 1], records[i])]
           chosen == CHOOSE g : Follows(g)
<1>4. Follows(f)
  <2>1. ASSUME NEW i \in 0..n
        PROVE  f[i] = IF i = 0 THEN <<>> ELSE AddEdge(f[i - 1], records[i])
    <3>1. CASE i = 0
      BY <1>3, <3>1
    <3>2. CASE i # 0
      <4>1. i \in 1..n /\ i - 1 \in 0..n
        BY <1>1, <3>2
      <4>2. <<i, f[i - 1]>> \in (1..n) \X Values
        BY <4>1
      <4> QED BY <1>3, <3>2, <4>1, <4>2
    <3> QED BY <3>1, <3>2
  <2> HIDE DEF n, Values, next
  <2> QED BY <2>1
<1>5. Follows(chosen)
  <2> HIDE DEF Follows
  <2> QED BY <1>4
<1>6. chosen[0] = <<>> /\ \A i \in 1..n : chosen[i] = AddEdge(chosen[i - 1], records[i])
  <2> HIDE DEF chosen
  <2>1. \A i \in 0..n : chosen[i] = IF i = 0 THEN <<>> ELSE AddEdge(chosen[i - 1], records[i])
    BY <1>5
  <2> HIDE DEF n, Follows
  <2>2. 0 \in 0..n /\ \A i \in 1..n : i \in 0..n /\ i # 0
    BY <1>1
  <2> QED BY <2>1, <2>2
<1>7. EdgeDict(records) = chosen[n]
  BY DEF EdgeDict
<1> QED BY <1>6, <1>7

\* The dict of the nodes after i records.
Named(records, i) == {records[j].id : j \in 1..i}
NodeKept(d, records, i) ==
  /\ DOMAIN d = Named(records, i)
  /\ \A x \in DOMAIN d : \E p \in 1..i :
       /\ d[x] = records[p] /\ records[p].id = x
       /\ IF records[p].kind = "process" THEN \A q \in 1..i : records[q].id = x => q <= p
          ELSE \A q \in 1..i : records[q].id = x => records[q].seen <= records[p].seen

\* Ids tell kinds apart, and times can be compared.
Comparable(R) == \A n, m \in R : n.seen \in Int /\ (n.id = m.id => n.kind = m.kind)

LEMMA NodeAdded ==
  ASSUME NEW R, NEW records \in Seq(R), Comparable(R),
         NEW i \in 1..Len(records), NEW d, NodeKept(d, records, i - 1)
  PROVE  NodeKept(AddNode(d, records[i]), records, i)
<1> DEFINE r == records[i]
           new == AddNode(d, r)
<1>1. Len(records) \in Nat /\ \A j \in 1..i : records[j] \in R
  BY LenProperties
<1>2. i \in Nat /\ 1..i = 1..(i - 1) \union {i} /\ i \notin 1..(i - 1)
  BY <1>1
<1>3. Named(records, i) = Named(records, i - 1) \union {r.id}
  BY <1>2 DEF Named
<1>4. CASE r.kind = "process" \/ r.id \notin DOMAIN d \/ r.seen > d[r.id].seen
  <2>1. new = With(d, r.id, r)
    BY <1>4 DEF AddNode
  <2>2. /\ DOMAIN new = DOMAIN d \union {r.id} /\ new[r.id] = r
        /\ \A x \in DOMAIN d : x # r.id => new[x] = d[x]
    BY <2>1 DEF With
  <2> HIDE DEF new
  <2>3. DOMAIN new = Named(records, i)
    BY <1>3, <2>2 DEF NodeKept
  <2>4. ASSUME NEW x \in DOMAIN new
        PROVE  \E p \in 1..i :
                 /\ new[x] = records[p] /\ records[p].id = x
                 /\ IF records[p].kind = "process" THEN \A q \in 1..i : records[q].id = x => q <= p
                    ELSE \A q \in 1..i : records[q].id = x => records[q].seen <= records[p].seen
    <3>1. CASE x = r.id
      <4>1. i \in 1..i /\ new[x] = records[i] /\ \A q \in 1..i : q <= i
        BY <1>2, <2>2, <3>1
      <4>2. ASSUME r.kind # "process", NEW q \in 1..i, records[q].id = x
            PROVE  records[q].seen <= r.seen
        <5>1. CASE q = i
          BY <1>1, <5>1 DEF Comparable
        <5>2. CASE q # i
          <6>1. q \in 1..(i - 1) /\ x \in DOMAIN d
            BY <1>2, <4>2, <5>2 DEF NodeKept, Named
          <6>2. r.seen > d[x].seen
            BY <1>4, <3>1, <4>2, <6>1
          <6>3. PICK p \in 1..(i - 1) :
                  /\ d[x] = records[p] /\ records[p].id = x
                  /\ records[p].kind # "process" =>
                       \A s \in 1..(i - 1) : records[s].id = x => records[s].seen <= records[p].seen
            BY <6>1 DEF NodeKept
          <6>4. p \in 1..i /\ records[p].kind = r.kind
            BY <1>1, <1>2, <3>1, <6>3 DEF Comparable
          <6>5. records[q].seen <= d[x].seen
            BY <4>2, <6>1, <6>3, <6>4
          <6>6. records[q].seen \in Int /\ d[x].seen \in Int /\ r.seen \in Int
            BY <1>1, <1>2, <6>3, <6>4 DEF Comparable
          <6> QED BY <6>2, <6>5, <6>6
        <5> QED BY <5>1, <5>2
      <4> QED BY <3>1, <4>1, <4>2
    <3>2. CASE x # r.id
      <4>1. x \in DOMAIN d /\ new[x] = d[x]
        BY <2>2, <3>2
      <4>2. PICK p \in 1..(i - 1) :
              /\ d[x] = records[p] /\ records[p].id = x
              /\ IF records[p].kind = "process"
                 THEN \A q \in 1..(i - 1) : records[q].id = x => q <= p
                 ELSE \A q \in 1..(i - 1) : records[q].id = x => records[q].seen <= records[p].seen
        BY <4>1 DEF NodeKept
      <4>3. p \in 1..i /\ \A q \in 1..i : records[q].id = x => q \in 1..(i - 1)
        BY <1>2, <3>2
      <4> QED BY <4>1, <4>2, <4>3
    <3> QED BY <3>1, <3>2
  <2>5. NodeKept(new, records, i)
    BY <2>3, <2>4 DEF NodeKept
  <2> QED BY <2>5 DEF new
<1>5. CASE r.kind # "process" /\ r.id \in DOMAIN d /\ ~(r.seen > d[r.id].seen)
  <2>1. new = d
    BY <1>5 DEF AddNode
  <2>2. DOMAIN d = Named(records, i)
    BY <1>3, <1>5 DEF NodeKept
  <2>3. ASSUME NEW x \in DOMAIN d
        PROVE  \E p \in 1..i :
                 /\ d[x] = records[p] /\ records[p].id = x
                 /\ IF records[p].kind = "process" THEN \A q \in 1..i : records[q].id = x => q <= p
                    ELSE \A q \in 1..i : records[q].id = x => records[q].seen <= records[p].seen
    <3>1. PICK p \in 1..(i - 1) :
            /\ d[x] = records[p] /\ records[p].id = x
            /\ IF records[p].kind = "process"
               THEN \A q \in 1..(i - 1) : records[q].id = x => q <= p
               ELSE \A q \in 1..(i - 1) : records[q].id = x => records[q].seen <= records[p].seen
      BY DEF NodeKept
    <3>2. p \in 1..i
      BY <1>2
    <3>3. CASE x = r.id
      <4>1. records[p].kind # "process"
        BY <1>1, <1>2, <1>5, <3>1, <3>2, <3>3 DEF Comparable
      <4>2. records[i].seen <= records[p].seen
        <5>1. records[i].seen \in Int /\ records[p].seen \in Int
          BY <1>1, <1>2, <3>2 DEF Comparable
        <5> QED BY <1>5, <3>1, <3>3, <5>1
      <4>3. \A q \in 1..i : records[q].id = x => records[q].seen <= records[p].seen
        BY <1>2, <3>1, <4>1, <4>2
      <4> QED BY <3>1, <3>2, <4>1, <4>3
    <3>4. CASE x # r.id
      <4>1. \A q \in 1..i : records[q].id = x => q \in 1..(i - 1)
        BY <1>2, <3>4
      <4> QED BY <3>1, <3>2, <4>1
    <3> QED BY <3>3, <3>4
  <2> QED BY <2>1, <2>2, <2>3, SMTT(30) DEF NodeKept
<1> QED BY <1>4, <1>5

LEMMA NodesKept ==
  ASSUME NEW R, NEW records \in Seq(R), Comparable(R)
  PROVE  NodeKept(NodeDict(records), records, Len(records))
<1> DEFINE n == Len(records)
<1>1. PICK dict : /\ NodeDict(records) = dict[n] /\ dict[0] = <<>>
                  /\ \A i \in 1..n : dict[i] = AddNode(dict[i - 1], records[i])
  BY NodeRecursion
<1>2. n \in Nat
  BY LenProperties
<1> DEFINE T == {i \in 0..n : NodeKept(dict[i], records, i)}
<1>3. 0 \in T
  <2>1. DOMAIN dict[0] = {} /\ Named(records, 0) = {}
    BY <1>1 DEF Named
  <2>2. NodeKept(dict[0], records, 0)
    BY <2>1 DEF NodeKept
  <2> QED BY <1>2, <2>2
<1>4. ASSUME NEW i \in 1..n, i - 1 \in T
      PROVE  i \in T
  <2>1. NodeKept(AddNode(dict[i - 1], records[i]), records, i)
    BY <1>4, NodeAdded
  <2> QED BY <1>1, <1>2, <2>1
<1>5. n \in T
  <2> HIDE DEF n, T
  <2>1. \A i \in 0..n : i \in T
    BY <1>2, <1>3, <1>4, SetInduction
  <2> QED BY <1>2, <2>1
<1> QED BY <1>1, <1>5

\* The ends of the edges of a type, and whether its table takes them all.
EndsOf(records, type) == {<<e.from, e.to>> : e \in {x \in ToSet(records) : x.type = type}}
Room(records, type) == Cardinality(EndsOf(records, type)) < MaxEdges
KeyOf(e) == <<e.type, e.from, e.to>>

LastOf(records, i, k, p) ==
  p \in 1..i /\ KeyOf(records[p]) = k /\ \A q \in 1..i : KeyOf(records[q]) = k => q <= p

\* The dict of the edges after i records.
EdgeKept(d, records, i) ==
  /\ DOMAIN d \subseteq {KeyOf(records[j]) : j \in 1..i}
  /\ \A k \in DOMAIN d :
       /\ Missing \notin {k[2], k[3]}
       /\ Room(records, k[1]) => \E p \in 1..i : d[k] = records[p] /\ LastOf(records, i, k, p)

LEMMA TableFits ==
  ASSUME NEW R, NEW records \in Seq(R), NEW type,
         NEW K \in SUBSET {KeyOf(records[j]) : j \in 1..Len(records)}
  PROVE  LET S == {k \in K : k[1] = type} IN
         /\ Cardinality(S) \in Nat /\ Cardinality(EndsOf(records, type)) \in Nat
         /\ Cardinality(S) <= Cardinality(EndsOf(records, type))
<1> DEFINE S == {k \in K : k[1] = type}
           E == EndsOf(records, type)
           I == {j \in 1..Len(records) : records[j].type = type}
           f == [j \in I |-> <<records[j].from, records[j].to>>]
           g == [k \in S |-> <<k[2], k[3]>>]
<1>1. Len(records) \in Nat /\ DOMAIN records = 1..Len(records)
  BY LenProperties
<1>2. IsFiniteSet(I)
  <2>1. IsFiniteSet(1..Len(records)) /\ I \in SUBSET (1..Len(records))
    BY <1>1, FS_Interval
  <2> HIDE DEF I
  <2> QED BY <2>1, FS_Subset
<1>3. E = {<<records[j].from, records[j].to>> : j \in I}
  <2>1. {x \in ToSet(records) : x.type = type} = {records[j] : j \in I}
    BY <1>1 DEF ToSet
  <2> QED BY <2>1 DEF EndsOf
<1>4. f \in Surjection(I, E)
  <2>1. f \in [I -> E] /\ \A y \in E : \E j \in I : f[j] = y
    BY <1>3
  <2> HIDE DEF f, E, I
  <2> QED BY <2>1 DEF Surjection
<1>5. IsFiniteSet(E)
  <2> HIDE DEF f, E, I
  <2> QED BY <1>2, <1>4, FS_Surjection
<1>6. \A k \in S : /\ k = <<type, k[2], k[3]>>
                   /\ <<k[2], k[3]>> \in E
  <2> TAKE k \in S
  <2>1. PICK j \in 1..Len(records) : k = KeyOf(records[j])
    OBVIOUS
  <2>2. j \in I
    BY <2>1 DEF KeyOf
  <2> QED BY <1>3, <2>1, <2>2 DEF KeyOf
<1>7. g \in Injection(S, E)
  <2>1. g \in [S -> E]
    BY <1>6
  <2>2. \A k, l \in S : g[k] = g[l] => k = l
    <3>1. \A k \in S : g[k] = <<k[2], k[3]>>
      OBVIOUS
    <3> HIDE DEF g, S, E
    <3>2. SUFFICES ASSUME NEW k \in S, NEW l \in S, g[k] = g[l]
                   PROVE  k = l
      OBVIOUS
    <3>3. <<k[2], k[3]>> = <<l[2], l[3]>>
      BY <3>1, <3>2
    <3>4. k[2] = l[2] /\ k[3] = l[3]
      BY <3>3
    <3>5. k = <<type, k[2], k[3]>> /\ l = <<type, l[2], l[3]>>
      BY <1>6
    <3> QED BY <3>4, <3>5
  <2> HIDE DEF g, S, E
  <2> QED BY <2>1, <2>2 DEF Injection, IsInjective
<1>8. IsFiniteSet(S) /\ Cardinality(S) <= Cardinality(E)
  <2> HIDE DEF g, S, E
  <2> QED BY <1>5, <1>7, FS_Injection
<1> HIDE DEF S, E
<1>9. Cardinality(S) \in Nat /\ Cardinality(E) \in Nat
  BY <1>5, <1>8, FS_CardinalityType
<1> QED BY <1>8, <1>9 DEF S, E

LEMMA EdgeAdded ==
  ASSUME NEW R, NEW records \in Seq(R), NEW i \in 1..Len(records),
         NEW d, EdgeKept(d, records, i - 1)
  PROVE  EdgeKept(AddEdge(d, records[i]), records, i)
<1> DEFINE e == records[i]
           new == AddEdge(d, e)
<1>1. Len(records) \in Nat /\ i \in Nat /\ 1..i = 1..(i - 1) \union {i} /\ i \notin 1..(i - 1)
  BY LenProperties
<1>2. \A k \in DOMAIN d :
        /\ Missing \notin {k[2], k[3]} /\ \E j \in 1..(i - 1) : k = KeyOf(records[j])
        /\ Room(records, k[1]) =>
             \E p \in 1..(i - 1) : d[k] = records[p] /\ LastOf(records, i - 1, k, p)
  BY DEF EdgeKept
<1>3. \A k, p : LastOf(records, i - 1, k, p) /\ KeyOf(e) # k => LastOf(records, i, k, p)
  BY <1>1 DEF LastOf
<1>4. CASE Missing \in {e.from, e.to} \/ Cardinality({k \in DOMAIN d : k[1] = e.type}) >= MaxEdges
  <2>1. new = d
    BY <1>4 DEF AddEdge
  <2>2. \A k \in DOMAIN d : Room(records, k[1]) => KeyOf(e) # k
    <3>1. SUFFICES ASSUME NEW k \in DOMAIN d, Room(records, k[1]), KeyOf(e) = k
                   PROVE  FALSE
      OBVIOUS
    <3>2. k[1] = e.type /\ k[2] = e.from /\ k[3] = e.to
      BY <3>1 DEF KeyOf
    <3>3. Cardinality({l \in DOMAIN d : l[1] = e.type}) >= MaxEdges
      BY <1>2, <1>4, <3>2
    <3>4. DOMAIN d \in SUBSET {KeyOf(records[j]) : j \in 1..Len(records)}
      <4>1. \A j \in 1..(i - 1) : j \in 1..Len(records)
        BY <1>1
      <4> QED BY <1>2, <4>1
    <3>5. /\ Cardinality({l \in DOMAIN d : l[1] = e.type}) \in Nat
          /\ Cardinality(EndsOf(records, e.type)) \in Nat
          /\ Cardinality({l \in DOMAIN d : l[1] = e.type}) <= Cardinality(EndsOf(records, e.type))
      <4>1. PICK K, t : K = DOMAIN d /\ t = e.type
        OBVIOUS
      <4>2. K \in SUBSET {KeyOf(records[j]) : j \in 1..Len(records)}
        BY <3>4, <4>1
      <4>3. /\ Cardinality({l \in K : l[1] = t}) \in Nat
            /\ Cardinality(EndsOf(records, t)) \in Nat
            /\ Cardinality({l \in K : l[1] = t}) <= Cardinality(EndsOf(records, t))
        BY <4>2, TableFits
      <4> QED BY <4>1, <4>3
    <3>6. MaxEdges \in Nat /\ Cardinality(EndsOf(records, e.type)) < MaxEdges
      BY <3>1, <3>2, WarmAssumption DEF Room
    <3> QED BY <3>3, <3>5, <3>6
  <2>3. EdgeKept(d, records, i)
    <3>1. DOMAIN d \subseteq {KeyOf(records[j]) : j \in 1..i}
      BY <1>1, <1>2
    <3>2. \A k \in DOMAIN d : Room(records, k[1]) =>
            \E p \in 1..i : d[k] = records[p] /\ LastOf(records, i, k, p)
      BY <1>1, <1>2, <1>3, <2>2
    <3> QED BY <1>2, <3>1, <3>2 DEF EdgeKept
  <2> QED BY <2>1, <2>3
<1>5. CASE ~(Missing \in {e.from, e.to} \/ Cardinality({k \in DOMAIN d : k[1] = e.type}) >= MaxEdges)
  <2>1. new = With(d, KeyOf(e), e)
    BY <1>5 DEF AddEdge, KeyOf
  <2>2. /\ DOMAIN new = DOMAIN d \union {KeyOf(e)} /\ new[KeyOf(e)] = e
        /\ \A k \in DOMAIN d : k # KeyOf(e) => new[k] = d[k]
    BY <2>1 DEF With
  <2> HIDE DEF new
  <2>3. DOMAIN new \subseteq {KeyOf(records[j]) : j \in 1..i}
    BY <1>1, <1>2, <2>2
  <2>4. ASSUME NEW k \in DOMAIN new
        PROVE  /\ Missing \notin {k[2], k[3]}
               /\ Room(records, k[1]) =>
                    \E p \in 1..i : new[k] = records[p] /\ LastOf(records, i, k, p)
    <3>1. CASE k = KeyOf(e)
      <4>1. Missing \notin {k[2], k[3]}
        BY <1>5, <3>1 DEF KeyOf
      <4>2. new[k] = records[i] /\ LastOf(records, i, k, i)
        BY <1>1, <2>2, <3>1 DEF LastOf
      <4>3. i \in 1..i
        BY <1>1
      <4> QED BY <4>1, <4>2, <4>3
    <3>2. CASE k # KeyOf(e)
      <4>1. k \in DOMAIN d /\ new[k] = d[k]
        BY <2>2, <3>2
      <4> QED BY <1>1, <1>2, <1>3, <3>2, <4>1
    <3> QED BY <3>1, <3>2
  <2>5. EdgeKept(new, records, i)
    BY <2>3, <2>4 DEF EdgeKept
  <2> QED BY <2>5 DEF new
<1> QED BY <1>4, <1>5

LEMMA EdgesKept ==
  ASSUME NEW R, NEW records \in Seq(R)
  PROVE  EdgeKept(EdgeDict(records), records, Len(records))
<1> DEFINE n == Len(records)
<1>1. PICK dict : /\ EdgeDict(records) = dict[n] /\ dict[0] = <<>>
                  /\ \A i \in 1..n : dict[i] = AddEdge(dict[i - 1], records[i])
  BY EdgeRecursion
<1>2. n \in Nat
  BY LenProperties
<1> DEFINE T == {i \in 0..n : EdgeKept(dict[i], records, i)}
<1>3. 0 \in T
  <2>1. DOMAIN dict[0] = {}
    BY <1>1
  <2>2. EdgeKept(dict[0], records, 0)
    BY <2>1 DEF EdgeKept
  <2> QED BY <1>2, <2>2
<1>4. ASSUME NEW i \in 1..n, i - 1 \in T
      PROVE  i \in T
  <2>1. EdgeKept(AddEdge(dict[i - 1], records[i]), records, i)
    BY <1>4, EdgeAdded
  <2> QED BY <1>1, <1>2, <2>1
<1>5. n \in T
  <2> HIDE DEF n, T
  <2>1. \A i \in 0..n : i \in T
    BY <1>2, <1>3, <1>4, SetInduction
  <2> QED BY <1>2, <2>1
<1> QED BY <1>1, <1>5

\* What the table of the nodes has to do with the records.
WholeNodes(d, records) ==
  /\ DOMAIN d = {n.id : n \in ToSet(records)} /\ DOMAIN d # {}
  /\ \A x \in DOMAIN d :
       IF d[x].kind = "process"
       THEN d[x] = LastRecorded(records, LAMBDA n : n.id = x)
       ELSE \A n \in ToSet(records) : n.id = x => n.seen <= d[x].seen

LEMMA NodesAreWhole ==
  ASSUME NEW R, NEW records \in Seq(R), Comparable(R), records # <<>>, NEW d, d = NodeDict(records)
  PROVE  WholeNodes(d, records)
<1>1. Len(records) \in Nat /\ DOMAIN records = 1..Len(records)
  BY LenProperties
<1>2. NodeKept(d, records, Len(records))
  BY NodesKept
<1>3. DOMAIN d = {n.id : n \in ToSet(records)}
  BY <1>1, <1>2 DEF NodeKept, Named, ToSet
<1>4. DOMAIN d # {}
  <2>1. Len(records) # 0
    BY EmptySeq
  <2>2. records[1] \in ToSet(records)
    BY <1>1, <2>1 DEF ToSet
  <2> QED BY <1>3, <2>2
<1>5. ASSUME NEW x \in DOMAIN d
      PROVE  IF d[x].kind = "process"
             THEN d[x] = LastRecorded(records, LAMBDA n : n.id = x)
             ELSE \A n \in ToSet(records) : n.id = x => n.seen <= d[x].seen
  <2>1. PICK p \in 1..Len(records) :
          /\ d[x] = records[p] /\ records[p].id = x
          /\ IF records[p].kind = "process"
             THEN \A q \in 1..Len(records) : records[q].id = x => q <= p
             ELSE \A q \in 1..Len(records) : records[q].id = x => records[q].seen <= records[p].seen
    BY <1>2 DEF NodeKept
  <2>2. CASE records[p].kind = "process"
    <3> DEFINE IsLast(i) ==
                 records[i].id = x /\ \A j \in DOMAIN records : records[j].id = x => j <= i
    <3>1. p \in DOMAIN records /\ IsLast(p)
      BY <1>1, <2>1, <2>2
    <3>2. \A i \in DOMAIN records : IsLast(i) => i = p
      BY <1>1, <3>1
    <3>3. (CHOOSE i \in DOMAIN records : IsLast(i)) = p
      <4> HIDE DEF IsLast
      <4> QED BY <3>1, <3>2
    <3>4. LastRecorded(records, LAMBDA n : n.id = x) = records[p]
      BY <3>3 DEF LastRecorded
    <3> QED BY <2>1, <2>2, <3>4
  <2>3. CASE records[p].kind # "process"
    BY <1>1, <2>1, <2>3 DEF ToSet
  <2> QED BY <2>2, <2>3
<1> QED BY <1>3, <1>4, <1>5 DEF WholeNodes

LEMMA EdgesAreWhole ==
  ASSUME NEW R, NEW records \in Seq(R), NEW d, d = EdgeDict(records),
         NEW k \in DOMAIN d, Room(records, k[1])
  PROVE  d[k] = LastRecorded(records, LAMBDA e : <<e.type, e.from, e.to>> = k)
<1>1. Len(records) \in Nat /\ DOMAIN records = 1..Len(records)
  BY LenProperties
<1>2. PICK p \in 1..Len(records) : d[k] = records[p] /\ LastOf(records, Len(records), k, p)
  BY EdgesKept DEF EdgeKept
<1> DEFINE IsLast(i) ==
             /\ <<records[i].type, records[i].from, records[i].to>> = k
             /\ \A j \in DOMAIN records :
                  <<records[j].type, records[j].from, records[j].to>> = k => j <= i
<1>3. p \in DOMAIN records /\ IsLast(p)
  BY <1>1, <1>2 DEF LastOf, KeyOf
<1>4. \A i \in DOMAIN records : IsLast(i) => i = p
  BY <1>1, <1>3
<1>5. (CHOOSE i \in DOMAIN records : IsLast(i)) = p
  <2> HIDE DEF IsLast
  <2> QED BY <1>3, <1>4
<1>6. LastRecorded(records, LAMBDA e : <<e.type, e.from, e.to>> = k) = records[p]
  BY <1>5 DEF LastRecorded
<1> QED BY <1>2, <1>6

\* The records of the nodes and of the edges that a script has.
NodesIn(name) == UNION {ToSet(row.nodes) : row \in ToSet(Rows[name])}
EdgesIn(name) == UNION {ToSet(row.edges) : row \in ToSet(Rows[name])}

LEMMA RecordTypes ==
  ASSUME NEW name \in DOMAIN Rows, NEW rows \in Seq(ToSet(Rows[name]))
  PROVE  NodesOfRows(rows) \in Seq(NodesIn(name)) /\ EdgesOfRows(rows) \in Seq(EdgesIn(name))
<1>1. DOMAIN rows = 1..Len(rows) /\ Len(rows) \in Nat
      /\ \A i \in 1..Len(rows) : rows[i] \in ToSet(Rows[name])
  BY LenProperties
<1>2. \A row \in ToSet(Rows[name]) :
        row.nodes \in Seq(NodesIn(name)) /\ row.edges \in Seq(EdgesIn(name))
  <2> TAKE row \in ToSet(Rows[name])
  <2>1. row.nodes \in Seq(ToSet(row.nodes)) /\ row.edges \in Seq(ToSet(row.edges))
    BY WarmAssumption
  <2>2. ToSet(row.nodes) \subseteq NodesIn(name) /\ ToSet(row.edges) \subseteq EdgesIn(name)
    BY DEF NodesIn, EdgesIn
  <2> QED BY <2>1, <2>2, SeqMonotonic
<1>3. [i \in DOMAIN rows |-> rows[i].nodes] \in Seq(Seq(NodesIn(name)))
  <2>1. [i \in DOMAIN rows |-> rows[i].nodes] \in [1..Len(rows) -> Seq(NodesIn(name))]
    BY <1>1, <1>2
  <2> QED BY <1>1, <2>1, IsASeq
<1>4. [i \in DOMAIN rows |-> rows[i].edges] \in Seq(Seq(EdgesIn(name)))
  <2>1. [i \in DOMAIN rows |-> rows[i].edges] \in [1..Len(rows) -> Seq(EdgesIn(name))]
    BY <1>1, <1>2
  <2> QED BY <1>1, <2>1, IsASeq
<1> QED BY <1>3, <1>4, FlattenType DEF NodesOfRows, EdgesOfRows

LEMMA ComparableNodes == ASSUME NEW name \in DOMAIN Rows PROVE Comparable(NodesIn(name))
BY WarmAssumption DEF Comparable, NodesIn

\* What a graph is made of.
Exported(w) ==
  /\ {"rows", "failed"} \subseteq DOMAIN w
  /\ w.rows \in Seq(ToSet(Rows[script])) /\ InOrder(w.rows) /\ NodesOfRows(w.rows) # <<>>

WholeInv ==
  /\ script \in DOMAIN Rows /\ written \in 0..Len(Rows[script])
  /\ step \in {"load", "swap"} => Exported(building)
  /\ served # NoGraph => Exported(served)

LEMMA WholeGives == WholeInv => ServedIsWhole
<1> SUFFICES ASSUME WholeInv, served # NoGraph
             PROVE  LET g == Export(served.rows, served.failed)
                        nodes == NodesOfRows(served.rows)
                        edges == EdgesOfRows(served.rows)
                    IN /\ InOrder(served.rows)
                       /\ DOMAIN g.nodes = {n.id : n \in ToSet(nodes)} /\ DOMAIN g.nodes # {}
                       /\ \A x \in DOMAIN g.nodes :
                            IF g.nodes[x].kind = "process"
                            THEN g.nodes[x] = LastRecorded(nodes, LAMBDA n : n.id = x)
                            ELSE \A n \in ToSet(nodes) : n.id = x => n.seen <= g.nodes[x].seen
                       /\ \A k \in DOMAIN g.edges :
                            /\ {k[2], k[3]} \subseteq DOMAIN g.nodes
                            /\ Cardinality({<<e.from, e.to>> : e \in {x \in ToSet(edges) : x.type = k[1]}}) < MaxEdges =>
                                 g.edges[k] = LastRecorded(edges, LAMBDA e : <<e.type, e.from, e.to>> = k)
  BY DEF ServedIsWhole
<1>1. PICK nodes, edges, failed :
        /\ nodes = NodesOfRows(served.rows) /\ edges = EdgesOfRows(served.rows)
        /\ failed = served.failed
  OBVIOUS
<1>2. /\ nodes \in Seq(NodesIn(script)) /\ edges \in Seq(EdgesIn(script)) /\ nodes # <<>>
      /\ Comparable(NodesIn(script))
  BY <1>1, RecordTypes, ComparableNodes DEF WholeInv, Exported
<1>3. PICK d, t : d = NodeDict(nodes) /\ t = EdgeDict(edges)
  OBVIOUS
<1>4. PICK g : g = Export(served.rows, failed)
  OBVIOUS
<1>5. /\ g.nodes = d
      /\ DOMAIN g.edges = {k \in DOMAIN t : {k[2], k[3]} \subseteq DOMAIN d /\ k[1] \notin failed}
      /\ \A k \in DOMAIN g.edges : g.edges[k] = t[k]
  BY <1>1, <1>3, <1>4 DEF Export, ValidEdges, Restrict
<1>6. WholeNodes(d, nodes)
  BY <1>2, <1>3, NodesAreWhole
<1>7. ASSUME NEW k \in DOMAIN g.edges
      PROVE  /\ {k[2], k[3]} \subseteq DOMAIN g.nodes
             /\ Cardinality({<<e.from, e.to>> : e \in {x \in ToSet(edges) : x.type = k[1]}}) < MaxEdges =>
                  g.edges[k] = LastRecorded(edges, LAMBDA e : <<e.type, e.from, e.to>> = k)
  <2>1. k \in DOMAIN t /\ {k[2], k[3]} \subseteq DOMAIN d /\ g.edges[k] = t[k]
    BY <1>5
  <2>2. Room(edges, k[1]) => t[k] = LastRecorded(edges, LAMBDA e : <<e.type, e.from, e.to>> = k)
    BY <1>2, <1>3, <2>1, EdgesAreWhole
  <2> QED BY <1>5, <2>1, <2>2 DEF Room, EndsOf
<1>8. InOrder(served.rows)
  BY DEF WholeInv, Exported
<1> QED BY <1>1, <1>4, <1>5, <1>6, <1>7, <1>8 DEF WholeNodes

LEMMA WholeStep == WholeInv /\ [WarmNext]_warmVars => WholeInv'
<1> SUFFICES ASSUME WholeInv, [WarmNext]_warmVars
             PROVE  WholeInv'
  OBVIOUS
<1> USE DEF runVars, threadVars
<1>1. CASE ExportRows
  <2>1. PICK rows : /\ rows = InWindow(Ledger, building.start, building.end)
                    /\ IF NodesOfRows(rows) = <<>>
                       THEN EndTurn /\ RemoveDirectory(building.dir)
                       ELSE /\ step' = "load"
                            /\ building' = [dir |-> building.dir, rows |-> rows, failed |-> {}]
                            /\ UNCHANGED <<dirs, ready, leftover>>
    BY <1>1 DEF ExportRows
  <2>2. rows \in Seq(ToSet(Rows[script])) /\ InOrder(rows)
    <3>1. Rows[script] \in Seq(ToSet(Rows[script]))
      BY WarmAssumption DEF WholeInv
    <3>2. Ledger \in Seq(ToSet(Rows[script]))
      <4>1. \A i \in 1..written : Rows[script][i] \in ToSet(Rows[script])
        BY <3>1, LenProperties DEF WholeInv
      <4> QED BY <3>1, <4>1, SubSeqProperties DEF Ledger, WholeInv
    <3>3. \A row \in ToSet(Rows[script]) : row.at \in Int
      BY WarmAssumption DEF WholeInv
    <3> QED BY <2>1, <3>2, <3>3, WindowType
  <2>3. CASE NodesOfRows(rows) = <<>>
    BY <1>1, <2>1, <2>3 DEF ExportRows, EndTurn, WholeInv, Exported
  <2>4. CASE NodesOfRows(rows) # <<>>
    <3>1. building'.rows = rows /\ {"rows", "failed"} \subseteq DOMAIN building'
      BY <2>1, <2>4
    <3>2. Exported(building')
      BY <2>2, <2>4, <3>1 DEF Exported
    <3> QED BY <1>1, <2>1, <2>4, <3>2 DEF ExportRows, WholeInv, Exported
  <2> QED BY <2>3, <2>4
<1>2. CASE LoadTables
  <2>1. PICK failed : building' = [building EXCEPT !.failed = failed]
    BY <1>2 DEF LoadTables
  <2>2. Exported(building)
    BY <1>2 DEF LoadTables, WholeInv
  <2>3. building'.rows = building.rows /\ DOMAIN building' = DOMAIN building
    BY <2>1, <2>2 DEF Exported
  <2> QED BY <1>2, <2>2, <2>3 DEF LoadTables, WholeInv, Exported
<1>3. CASE Swap
  BY <1>3 DEF Swap, WholeInv, Exported
<1>4. CASE BeginRebuild \/ BeginRebuildFails \/ RebuildFails \/ RemoveOld \/ EndThread
  BY <1>4 DEF BeginRebuild, BeginRebuildFails, RebuildFails, RemoveOld, EndThread, EndTurn, WholeInv, Exported
<1>5. CASE OpenSlice \/ OpenSliceFails \/ CloseSlice \/ WarmTick \/ Stop \/ UNCHANGED warmVars
  BY <1>5 DEF OpenSlice, OpenSliceFails, CloseSlice, WarmTick, Stop, warmVars, WholeInv, Exported
<1>6. CASE RecordRow
  <2>1. written' \in 0..Len(Rows[script]) /\ script' = script
    <3>1. Len(Rows[script]) \in Nat
      BY WarmAssumption, LenProperties DEF WholeInv
    <3> QED BY <1>6, <3>1 DEF RecordRow, WholeInv
  <2> QED BY <1>6, <2>1 DEF RecordRow, WholeInv, Exported
<1>7. CASE CleanUp \/ Die \/ StartAgain
  BY <1>7 DEF CleanUp, Die, StartAgain, WholeInv, Exported
<1> QED BY <1>1, <1>2, <1>3, <1>4, <1>5, <1>6, <1>7 DEF WarmNext, RebuildTurn

\* What is served is a slice of the ledger: each process as in its latest row, the
\* rest as it was last seen, no edge without its ends, and each edge as in its
\* latest row unless its table is full (export_entities_csv), for any rows,
\* window, failure and restart.
THEOREM SlicesAreWhole == WarmSpec => []ServedIsWhole
<1>1. WarmInit => WholeInv
  <2> SUFFICES ASSUME WarmInit
               PROVE  WholeInv
    OBVIOUS
  <2>1. Len(Rows[script]) \in Nat
    BY WarmAssumption, LenProperties DEF WarmInit
  <2> QED BY <2>1 DEF WarmInit, WholeInv, Exported
<1> QED BY <1>1, WholeStep, WholeGives, PTL DEF WarmSpec

-----------------------------------------------------------------------------
(* The dialogue: its answer. *)

\* The entries that have been dealt with, and that are neither stored nor returned.
Dealt == 1..(Len(answered) - Len(entries))
Unheard == {i \in Dealt : answered[i].form = "good" /\ ~Heard(answered[i])}

\* Findings have evidence; the entries that are left are the answer's last.
StoreInv == \A x \in DOMAIN store : "evidence" \in DOMAIN store[x]

AnswerInv ==
  /\ faults \in Nat /\ IsSeq(found) /\ IsSeq(answered) /\ IsSeq(entries)
  /\ stage \in {"ask", "tools"} => answered = <<>> /\ found = <<>>
  /\ Len(entries) <= Len(answered)
  /\ \A k \in 1..Len(entries) : entries[k] = answered[Len(answered) - Len(entries) + k]

HeardInv ==
  /\ StoreInv /\ AnswerInv
  /\ stage = "parse" => Cardinality(Unheard) <= faults
  /\ GoodIsHeard

LEMMA DealtIsFinite == ASSUME AnswerInv PROVE IsFiniteSet(Unheard) /\ Cardinality(Unheard) \in Nat
<1>1. Len(answered) \in Nat /\ Len(entries) \in Nat
  BY LenProperties DEF AnswerInv, IsSeq
<1>2. Len(answered) - Len(entries) \in Int
  BY <1>1
<1>3. IsFiniteSet(Dealt)
  BY <1>2, FS_Interval DEF Dealt
<1>4. Unheard \subseteq Dealt
  BY DEF Unheard
<1> QED BY <1>3, <1>4, FS_Subset, FS_CardinalityType

\* An entry is dealt with: nothing that was heard is lost, and it is heard itself,
\* unless it is malformed or a fault has hit it.
LEMMA HeardByEntry ==
  ASSUME HeardInv, stage = "parse", entries # <<>>, NEW e, e = Head(entries),
         entries' = Tail(entries), UNCHANGED <<stage, answered>>,
         StoreInv', IsSeq(found)', \A raw : Heard(raw) => Heard(raw)',
         \/ faults' = faults + 1
         \/ faults' = faults /\ (e.form = "good" => Heard(e)')
  PROVE  HeardInv'
<1> DEFINE m == Len(answered)
           l == Len(entries)
<1>1. /\ m \in Nat /\ l \in Nat \ {0} /\ l <= m /\ Len(entries') = l - 1
      /\ e = entries[1] /\ IsSeq(entries')
      /\ \A i \in 1..(l - 1) : entries'[i] = entries[i + 1]
      /\ \A i \in 1..l : entries[i] = answered[m - l + i]
  <2>1. IsSeq(entries) /\ IsSeq(answered) /\ l <= m
        /\ \A i \in 1..l : entries[i] = answered[m - l + i]
    BY DEF HeardInv, AnswerInv
  <2>2. m \in Nat
    BY <2>1, LenProperties DEF IsSeq
  <2> HIDE DEF m
  <2> QED BY <2>1, <2>2, TailIsSeq
<1>2. answered[m - l + 1] = e
  <2>1. entries[1] = answered[m - l + 1]
    <3> HIDE DEF m, l
    <3>1. 1 \in 1..l
      BY <1>1
    <3> QED BY <1>1, <3>1
  <2> QED BY <1>1, <2>1
<1>3. AnswerInv'
  <2>1. \A i \in 1..(l - 1) : entries'[i] = answered[m - (l - 1) + i]
    <3> SUFFICES ASSUME NEW i \in 1..(l - 1)
                 PROVE  entries'[i] = answered[m - (l - 1) + i]
      OBVIOUS
    <3>1. entries'[i] = entries[i + 1]
      BY <1>1
    <3>2. i + 1 \in 1..l /\ m - l + (i + 1) = m - (l - 1) + i
      <4> HIDE DEF m, l
      <4> QED BY <1>1
    <3>3. entries[i + 1] = answered[m - l + (i + 1)]
      <4> HIDE DEF m, l
      <4> QED BY <1>1, <3>2
    <3> QED BY <3>1, <3>2, <3>3
  <2>2. l - 1 <= m
    <3> HIDE DEF m, l
    <3> QED BY <1>1
  <2>3. faults' \in Nat
    BY DEF HeardInv, AnswerInv
  <2>4. Len(entries') = l - 1 /\ Len(answered') = m /\ IsSeq(entries') /\ IsSeq(answered)
    BY <1>1 DEF HeardInv, AnswerInv
  <2> HIDE DEF m, l
  <2> QED BY <2>1, <2>2, <2>3, <2>4 DEF AnswerInv
<1>4. Dealt = 1..(m - l) /\ Dealt' = 1..(m - l + 1)
  <2>1. Dealt' = 1..(m - (l - 1))
    BY <1>1 DEF Dealt
  <2>2. m - (l - 1) = m - l + 1
    <3> HIDE DEF m, l
    <3> QED BY <1>1
  <2> QED BY <2>1, <2>2 DEF Dealt
<1>5. Unheard' \subseteq Unheard \union {m - l + 1}
  <2> SUFFICES ASSUME NEW i \in Unheard', i # m - l + 1
               PROVE  i \in Unheard
    OBVIOUS
  <2>1. i \in 1..(m - l + 1) /\ answered[i].form = "good" /\ ~Heard(answered[i])'
    BY <1>4 DEF Unheard
  <2>2. i \in 1..(m - l)
    <3> HIDE DEF m, l
    <3> QED BY <1>1, <2>1
  <2>3. PICK raw : raw = answered[i]
    OBVIOUS
  <2>4. ~Heard(raw)'
    BY <2>1, <2>3 DEF Heard
  <2>5. ~Heard(raw)
    BY <2>4
  <2> QED BY <1>4, <2>1, <2>2, <2>3, <2>5 DEF Unheard
<1>6. faults' = faults => Unheard' \subseteq Unheard
  <2> SUFFICES ASSUME faults' = faults, NEW i \in Unheard', i = m - l + 1
               PROVE  FALSE
    BY <1>5
  <2>1. answered[i].form = "good" /\ ~Heard(answered[i])'
    BY DEF Unheard
  <2>2. answered[i] = e
    BY <1>2
  <2>3. ~Heard(e)'
    BY <2>1, <2>2 DEF Heard
  <2>4. faults # faults + 1
    BY DEF HeardInv, AnswerInv
  <2>5. e.form = "good" => Heard(e)'
    BY <2>4
  <2> QED BY <2>1, <2>2, <2>3, <2>5
<1>7. Cardinality(Unheard') <= faults'
  <2> DEFINE c == Cardinality(Unheard)
             d == Cardinality(Unheard')
  <2>1. IsFiniteSet(Unheard) /\ c \in Nat
    BY DealtIsFinite DEF HeardInv
  <2>2. d \in Nat /\ d <= c + 1 /\ (Unheard' \subseteq Unheard => d <= c)
    BY <1>5, <2>1, FewerOrOneMore
  <2>3. c <= faults /\ faults \in Nat
    BY DEF HeardInv, AnswerInv
  <2> HIDE DEF c, d
  <2>4. d <= faults'
    BY <1>6, <2>1, <2>2, <2>3
  <2> QED BY <2>4 DEF d
<1>8. GoodIsHeard'
  BY DEF GoodIsHeard
<1> QED BY <1>3, <1>7, <1>8 DEF HeardInv

\* What is stored and returned does not change, nor the answer.
LEMMA HeardFrame ==
  ASSUME HeardInv, UNCHANGED <<answerVars, store, faults>>,
         stage' \in {"parse", "store"} => stage' = stage,
         stage' \in {"ask", "tools"} => stage \in {"ask", "tools"}
  PROVE  HeardInv'
<1>1. UNCHANGED <<entries, answered, found>>
  BY DEF answerVars
<1>2. StoreInv' /\ AnswerInv'
  BY <1>1 DEF HeardInv, StoreInv, AnswerInv, IsSeq
<1>3. Unheard' = Unheard /\ (stage = "store" => (stage' = "store" => GoodIsHeard'))
  BY <1>1 DEF Unheard, Dealt, Heard, GoodIsHeard, HeardInv
<1>4. stage' = "store" => GoodIsHeard'
  BY <1>3
<1>5. stage' # "store" => GoodIsHeard'
  BY DEF GoodIsHeard
<1> QED BY <1>2, <1>3, <1>4, <1>5 DEF HeardInv

LEMMA HeardAtFirst == ASSUME DialogueInit PROVE HeardInv
<1>1. inquiry \in DOMAIN Inquiries /\ store = Inquiries[inquiry].store
  BY DEF DialogueInit
<1>2. StoreInv
  BY <1>1, DialogueAssumption DEF StoreInv
<1>3. AnswerInv
  BY EmptyIsSeq DEF DialogueInit, AnswerInv
<1> QED BY <1>2, <1>3 DEF DialogueInit, HeardInv, GoodIsHeard

\* The steps that ask, look things up and call tools.
LEMMA HeardByAsking ==
  ASSUME HeardInv, AnalyzeBatch \/ ModelFails \/ ModelCallsTools \/ ExecuteTool
                   \/ UnreadableCall \/ NextRound \/ UpsertIpEnrichment
  PROVE  HeardInv'
<1>1. CASE AnalyzeBatch
  <2>1. /\ stage = "idle" /\ UNCHANGED <<store, faults>>
        /\ \/ UNCHANGED <<stage, answerVars>>
           \/ stage' = "ask" /\ entries' = <<>> /\ answered' = <<>> /\ found' = <<>>
    BY <1>1 DEF AnalyzeBatch
  <2>2. CASE UNCHANGED <<stage, answerVars>>
    BY <2>1, <2>2, HeardFrame
  <2>3. CASE stage' = "ask" /\ entries' = <<>> /\ answered' = <<>> /\ found' = <<>>
    <3>1. StoreInv' /\ AnswerInv'
      BY <2>1, <2>3, EmptyIsSeq DEF HeardInv, StoreInv, AnswerInv
    <3> QED BY <2>3, <3>1 DEF HeardInv, GoodIsHeard
  <2> QED BY <2>1, <2>2, <2>3
<1>2. CASE ModelFails \/ UnreadableCall
  <2>1. /\ stage' = "store" /\ UNCHANGED <<store, faults>>
        /\ UNCHANGED <<entries, answered, found>> /\ answered = <<>>
    BY <1>2 DEF ModelFails, UnreadableCall, answerVars, HeardInv, AnswerInv
  <2>2. StoreInv' /\ AnswerInv'
    BY <2>1 DEF HeardInv, StoreInv, AnswerInv, IsSeq
  <2>3. GoodIsHeard'
    <3>1. {i \in DOMAIN answered : answered[i].form = "good" /\ ~Heard(answered[i])'} = {}
      BY <2>1, EmptySeq
    <3>2. Cardinality({}) = 0 /\ 0 <= faults
      BY FS_EmptySet DEF HeardInv, AnswerInv
    <3>3. answered' = <<>> /\ DOMAIN answered' = {}
      BY <2>1
    <3>4. {i \in DOMAIN answered' : answered'[i].form = "good" /\ ~Heard(answered[i])'} = {}
      BY <3>3
    <3> QED BY <2>1, <3>2, <3>4 DEF GoodIsHeard
  <2> QED BY <2>1, <2>2, <2>3 DEF HeardInv
<1>3. CASE ModelCallsTools
  BY <1>3, HeardFrame DEF ModelCallsTools
<1>4. CASE ExecuteTool
  BY <1>4, HeardFrame DEF ExecuteTool
<1>5. CASE NextRound
  BY <1>5, HeardFrame DEF NextRound
<1>6. CASE UpsertIpEnrichment
  BY <1>6, HeardFrame DEF UpsertIpEnrichment
<1> QED BY <1>1, <1>2, <1>3, <1>4, <1>5, <1>6

LEMMA HeardByAnswer ==
  ASSUME HeardInv, inquiry \in DOMAIN Inquiries, ModelAnswers \/ EndParse \/ StoreFindings
  PROVE  HeardInv'
<1>1. CASE ModelAnswers
  <2>1. PICK content \in Inquiries[inquiry].answers :
          stage = "ask" /\ stage' = "parse" /\ entries' = content /\ answered' = content
    BY <1>1 DEF ModelAnswers, Answer
  <2>2. IsSeq(content)
    BY <2>1, DialogueAssumption DEF IsSeq
  <2>3. Len(content) \in Nat
    BY <2>2, LenProperties DEF IsSeq
  <2>4. AnswerInv'
    <3> DEFINE n == Len(content)
    <3>1. n <= n /\ \A k \in 1..n : n - n + k = k
      <4>1. n \in Nat
        BY <2>3
      <4> HIDE DEF n
      <4> QED BY <4>1
    <3>2. \A k \in 1..n : entries'[k] = answered'[n - n + k]
      BY <2>1, <3>1
    <3>3. UNCHANGED <<found, faults>>
      BY <1>1 DEF ModelAnswers
    <3> QED BY <2>1, <2>2, <3>1, <3>2, <3>3 DEF HeardInv, AnswerInv, IsSeq
  <2>5. Cardinality(Unheard') <= faults'
    <3>1. Dealt' = {}
      <4>1. Dealt' = 1..(Len(content) - Len(content))
        BY <2>1 DEF Dealt
      <4> QED BY <2>3, <4>1
    <3>2. Unheard' = {}
      BY <3>1 DEF Unheard
    <3>3. faults' \in Nat
      BY <2>4 DEF AnswerInv
    <3> QED BY <3>2, <3>3, FS_EmptySet
  <2>6. StoreInv'
    BY <1>1 DEF HeardInv, StoreInv, ModelAnswers
  <2> QED BY <2>1, <2>4, <2>5, <2>6 DEF HeardInv, GoodIsHeard
<1>2. CASE EndParse
  <2>1. /\ stage = "parse" /\ stage' = "store" /\ entries = <<>>
        /\ UNCHANGED <<entries, answered, found, store, faults>>
    BY <1>2 DEF EndParse, answerVars
  <2>2. StoreInv' /\ AnswerInv'
    BY <2>1 DEF HeardInv, StoreInv, AnswerInv, IsSeq
  <2>3. Dealt = DOMAIN answered
    <3>1. IsSeq(answered) /\ Len(entries) = 0
      BY <2>1, EmptyIsSeq DEF HeardInv, AnswerInv
    <3>2. DOMAIN answered = 1..Len(answered) /\ Len(answered) \in Nat
      BY <3>1, LenProperties DEF IsSeq
    <3> QED BY <3>1, <3>2 DEF Dealt
  <2>4. Cardinality(Unheard) <= faults /\ Unheard' = Unheard
    BY <2>1 DEF HeardInv, Unheard, Dealt, Heard
  <2>5. GoodIsHeard'
    <3>1. {i \in DOMAIN answered : answered[i].form = "good" /\ ~Heard(answered[i])}' = Unheard'
      BY <2>1, <2>3 DEF Unheard, Dealt
    <3> QED BY <2>1, <2>4, <3>1 DEF GoodIsHeard
  <2> QED BY <2>1, <2>2, <2>5 DEF HeardInv
<1>3. CASE StoreFindings
  <2>1. /\ stage' = "idle" /\ UNCHANGED <<entries, answered, found, faults>>
    BY <1>3 DEF StoreFindings, answerVars
  <2>2. StoreInv'
    <3> DEFINE new == CHOOSE n \in [DOMAIN found -> Ids \ DOMAIN store] : IsInjective(n)
    <3>1. store' = [x \in DOMAIN store \union Range(new) |->
                   IF x \in DOMAIN store THEN store[x]
                   ELSE LET f == found[CHOOSE i \in DOMAIN new : new[i] = x]
                        IN [evidence |-> f.evidence, severity |-> f.severity, pids |-> f.pids]]
      BY <1>3 DEF StoreFindings
    <3> HIDE DEF new
    <3>2. ASSUME NEW x \in DOMAIN store'
          PROVE  "evidence" \in DOMAIN store'[x]
      <4>1. CASE x \in DOMAIN store
        BY <3>1, <4>1 DEF HeardInv, StoreInv
      <4>2. CASE x \notin DOMAIN store
        <5>1. PICK f : f = found[CHOOSE i \in DOMAIN new : new[i] = x]
          OBVIOUS
        <5>2. store'[x] = [evidence |-> f.evidence, severity |-> f.severity, pids |-> f.pids]
          BY <3>1, <3>2, <4>2, <5>1
        <5> QED BY <5>2
      <4> QED BY <4>1, <4>2
    <3> QED BY <3>2 DEF StoreInv
  <2>3. AnswerInv'
    BY <2>1 DEF HeardInv, AnswerInv, IsSeq
  <2> QED BY <2>1, <2>2, <2>3 DEF HeardInv, GoodIsHeard
<1> QED BY <1>1, <1>2, <1>3

LEMMA HeardByParsing ==
  ASSUME HeardInv, SkipEntry \/ UpdateFinding \/ UpdateRefused \/ NewFinding
  PROVE  HeardInv'
<1>1. PICK e : e = Head(entries)
  OBVIOUS
<1>2. stage = "parse" /\ entries # <<>> /\ entries' = Tail(entries) /\ UNCHANGED <<stage, answered>>
  BY DEF SkipEntry, UpdateFinding, UpdateRefused, NewFinding, EntryVars
<1>3. StoreInv /\ IsSeq(found)
  BY DEF HeardInv, AnswerInv
<1>4. CASE SkipEntry
  <2>1. e.form # "good" /\ UNCHANGED <<found, store, faults>>
    BY <1>1, <1>4 DEF SkipEntry
  <2>2. \A raw : Heard(raw) => Heard(raw)'
    BY <2>1 DEF Heard
  <2>3. StoreInv' /\ IsSeq(found)'
    BY <1>3, <2>1 DEF StoreInv, IsSeq
  <2> QED BY <1>1, <1>2, <2>1, <2>2, <2>3, HeardByEntry
<1>5. CASE UpdateFinding
  <2>1. /\ e.id \in DOMAIN store /\ store' = [store EXCEPT ![e.id] = Updated(@, e)]
        /\ UNCHANGED <<found, faults>>
    BY <1>1, <1>5 DEF UpdateFinding
  <2>2. DOMAIN store' = DOMAIN store /\ \A x \in DOMAIN store \ {e.id} : store'[x] = store[x]
    BY <2>1
  <2>3. PICK old : old = store[e.id] /\ store'[e.id] = Updated(old, e)
    BY <2>1
  <2>4. "evidence" \in DOMAIN old
    BY <1>3, <2>1, <2>3 DEF StoreInv
  <2>5. /\ "evidence" \in DOMAIN store'[e.id]
        /\ store'[e.id].evidence = old.evidence \union e.evidence
    BY <2>3, <2>4 DEF Updated
  <2>6. \A raw : Heard(raw) => Heard(raw)'
    <3> SUFFICES ASSUME NEW raw, Heard(raw)
                 PROVE  Heard(raw)'
      OBVIOUS
    <3>1. CASE raw.id = e.id
      BY <2>1, <2>2, <2>3, <2>5, <3>1 DEF Heard
    <3>2. CASE raw.id # e.id
      BY <2>1, <2>2, <3>2 DEF Heard
    <3> QED BY <3>1, <3>2
  <2>7. Heard(e)'
    BY <2>1, <2>2, <2>5 DEF Heard
  <2>8. StoreInv' /\ IsSeq(found)'
    BY <1>3, <2>1, <2>2, <2>5 DEF StoreInv, IsSeq
  <2> QED BY <1>1, <1>2, <2>1, <2>6, <2>7, <2>8, HeardByEntry
<1>6. CASE UpdateRefused
  <2>1. faults' = faults + 1 /\ UNCHANGED <<found, store>>
    BY <1>6 DEF UpdateRefused, Fault
  <2>2. \A raw : Heard(raw) => Heard(raw)'
    BY <2>1 DEF Heard
  <2>3. StoreInv' /\ IsSeq(found)'
    BY <1>3, <2>1 DEF StoreInv, IsSeq
  <2> QED BY <1>1, <1>2, <2>1, <2>2, <2>3, HeardByEntry
<1>7. CASE NewFinding
  <2>1. PICK lookupFails \in BOOLEAN, graphFails \in BOOLEAN :
          /\ e.id \in DOMAIN store => lookupFails
          /\ IF lookupFails \/ graphFails THEN Fault ELSE UNCHANGED faults
          /\ found' = IF e.form = "odd" THEN found
                      ELSE Append(found, FindingOf(e, batch, graphFails))
          /\ e.form \in {"good", "odd"} /\ UNCHANGED store
    BY <1>1, <1>7 DEF NewFinding
  <2>2. PICK f : f = FindingOf(e, batch, graphFails)
    OBVIOUS
  <2>3. f.evidence = e.evidence
    BY <2>2 DEF FindingOf
  <2>4. /\ IsSeq(found') /\ \A i \in DOMAIN found : i \in DOMAIN found' /\ found'[i] = found[i]
        /\ e.form = "good" => \E i \in DOMAIN found' : found'[i].evidence = e.evidence
    <3>1. CASE e.form = "odd"
      BY <1>3, <2>1, <3>1
    <3>2. CASE e.form # "odd"
      <4>1. found' = Append(found, f)
        BY <2>1, <2>2, <3>2
      <4>2. /\ IsSeq(found') /\ Len(found) \in Nat /\ Len(found') = Len(found) + 1
            /\ found'[Len(found) + 1] = f
            /\ \A i \in 1..Len(found) : found'[i] = found[i]
        BY <1>3, <4>1, AppendIsSeq
      <4>3. DOMAIN found = 1..Len(found) /\ DOMAIN found' = 1..Len(found')
        BY <1>3, <4>2, LenProperties DEF IsSeq
      <4>4. Len(found) + 1 \in DOMAIN found' /\ DOMAIN found \subseteq DOMAIN found'
        BY <4>2, <4>3
      <4> QED BY <2>3, <4>2, <4>3, <4>4
    <3> QED BY <3>1, <3>2
  <2>5. \A raw : Heard(raw) => Heard(raw)'
    BY <2>1, <2>4 DEF Heard
  <2>6. StoreInv' /\ IsSeq(found)'
    BY <1>3, <2>1, <2>4 DEF StoreInv, IsSeq
  <2>7. \/ faults' = faults + 1
        \/ faults' = faults /\ (e.form = "good" => Heard(e)')
    <3>1. CASE lookupFails \/ graphFails
      BY <2>1, <3>1 DEF Fault
    <3>2. CASE ~(lookupFails \/ graphFails)
      <4>1. e.id \notin DOMAIN store /\ faults' = faults
        BY <2>1, <3>2
      <4> QED BY <2>1, <2>4, <4>1 DEF Heard
    <3> QED BY <3>1, <3>2
  <2> QED BY <1>1, <1>2, <2>5, <2>6, <2>7, HeardByEntry
<1> QED BY <1>4, <1>5, <1>6, <1>7

\* The same inquiry throughout.
LEMMA SameInquiry ==
  ASSUME [DialogueNext]_dialogueVars
  PROVE  UNCHANGED inquiry
<1>1. CASE ModelAnswers \/ ModelFails \/ ExecuteTool \/ UnreadableCall \/ NextRound
  BY <1>1 DEF ModelAnswers, ModelFails, ExecuteTool, UnreadableCall, NextRound
<1>2. CASE SkipEntry \/ UpdateFinding \/ UpdateRefused \/ NewFinding
  BY <1>2 DEF SkipEntry, UpdateFinding, UpdateRefused, NewFinding, EntryVars
<1>3. CASE EndParse \/ StoreFindings \/ UpsertIpEnrichment \/ UNCHANGED dialogueVars
  BY <1>3 DEF EndParse, StoreFindings, UpsertIpEnrichment, dialogueVars
<1>4. CASE AnalyzeBatch
  BY <1>4, Zenon DEF AnalyzeBatch
<1>5. CASE ModelCallsTools
  BY <1>5, Zenon DEF ModelCallsTools
<1> QED BY <1>1, <1>2, <1>3, <1>4, <1>5 DEF DialogueNext, AnalyzerTurn

\* Whatever the other entries of an answer are like, what a well-formed entry says
\* is stored or returned, but for one entry of each fault
\* (_parse_findings of llm_analyzer.py goes on after an entry that cannot be read).
THEOREM AnswersAreHeard == DialogueSpec => []GoodIsHeard
<1> DEFINE Inv == inquiry \in DOMAIN Inquiries /\ HeardInv
<1>1. DialogueInit => Inv
  BY HeardAtFirst DEF DialogueInit
<1>2. Inv /\ [DialogueNext]_dialogueVars => Inv'
  <2> SUFFICES ASSUME Inv, [DialogueNext]_dialogueVars
               PROVE  HeardInv'
    BY SameInquiry
  <2>1. CASE AnalyzeBatch \/ ModelFails \/ ModelCallsTools \/ ExecuteTool \/ UnreadableCall
             \/ NextRound \/ UpsertIpEnrichment
    BY <2>1, HeardByAsking
  <2>2. CASE ModelAnswers \/ EndParse \/ StoreFindings
    BY <2>2, HeardByAnswer
  <2>3. CASE SkipEntry \/ UpdateFinding \/ UpdateRefused \/ NewFinding
    BY <2>3, HeardByParsing
  <2>4. CASE UNCHANGED dialogueVars
    BY <2>4, HeardFrame DEF dialogueVars
  <2> QED BY <2>1, <2>2, <2>3, <2>4 DEF DialogueNext, AnalyzerTurn
<1>3. Inv => GoodIsHeard
  BY DEF HeardInv
<1> QED BY <1>1, <1>2, <1>3, PTL DEF DialogueSpec

-----------------------------------------------------------------------------
(* The dialogue: the chains of its findings. *)

\* The events that are novel, one after the other.
LEMMA NovelRecursion ==
  ASSUME NEW S, NEW events \in Seq(S), NEW counts
  PROVE  \E dict : /\ Novel(events, counts) = dict[Len(events)] /\ dict[0] = <<>>
                   /\ \A i \in 1..Len(events) : dict[i] = IF IsNovel(events[i], counts) THEN Append(dict[i - 1], events[i]) ELSE dict[i - 1]
<1> DEFINE n == Len(events)
           Values == Seq(S)
           next == [y \in (1..n) \X Values |-> IF IsNovel(events[y[1]], counts) THEN Append(y[2], events[y[1]]) ELSE y[2]]
<1>1. n \in Nat /\ \A i \in 1..n : events[i] \in S
  BY LenProperties
<1>2. next \in [(1..n) \X Values -> Values]
  <2>1. ASSUME NEW y \in (1..n) \X Values
        PROVE  (IF IsNovel(events[y[1]], counts) THEN Append(y[2], events[y[1]]) ELSE y[2]) \in Values
    <3>1. y[2] \in Seq(S) /\ events[y[1]] \in S
      BY <1>1
    <3> QED BY <3>1, AppendProperties
  <2> HIDE DEF n, Values
  <2> QED BY <2>1
<1>3. PICK f \in [0..n -> Values] : f[0] = <<>> /\ \A i \in 1..n : f[i] = next[<<i, f[i - 1]>>]
  <2> DEFINE base == <<>>
  <2>1. base \in Values
    BY EmptySeq
  <2> HIDE DEF n, next, Values, base
  <2>2. Recursions(n, Values, base, next) # {}
    BY <1>1, <1>2, <2>1, RecursionExists
  <2> QED BY <2>2 DEF Recursions, base
<1> DEFINE Follows(g) ==
             g = [i \in 0..n |-> IF i = 0 THEN <<>> ELSE IF IsNovel(events[i], counts) THEN Append(g[i - 1], events[i]) ELSE g[i - 1]]
           chosen == CHOOSE g : Follows(g)
<1>4. Follows(f)
  <2>1. ASSUME NEW i \in 0..n
        PROVE  f[i] = IF i = 0 THEN <<>> ELSE IF IsNovel(events[i], counts) THEN Append(f[i - 1], events[i]) ELSE f[i - 1]
    <3>1. CASE i = 0
      BY <1>3, <3>1
    <3>2. CASE i # 0
      <4>1. i \in 1..n /\ i - 1 \in 0..n
        BY <1>1, <3>2
      <4>2. <<i, f[i - 1]>> \in (1..n) \X Values
        BY <4>1
      <4> QED BY <1>3, <3>2, <4>1, <4>2
    <3> QED BY <3>1, <3>2
  <2> HIDE DEF n, Values, next
  <2> QED BY <2>1
<1>5. Follows(chosen)
  <2> HIDE DEF Follows
  <2> QED BY <1>4
<1>6. chosen[0] = <<>> /\ \A i \in 1..n : chosen[i] = IF IsNovel(events[i], counts) THEN Append(chosen[i - 1], events[i]) ELSE chosen[i - 1]
  <2> HIDE DEF chosen
  <2>1. \A i \in 0..n : chosen[i] = IF i = 0 THEN <<>> ELSE IF IsNovel(events[i], counts) THEN Append(chosen[i - 1], events[i]) ELSE chosen[i - 1]
    BY <1>5
  <2> HIDE DEF n, Follows
  <2>2. 0 \in 0..n /\ \A i \in 1..n : i \in 0..n /\ i # 0
    BY <1>1
  <2> QED BY <2>1, <2>2
<1>7. Novel(events, counts) = chosen[n]
  BY DEF Novel
<1> QED BY <1>6, <1>7

\* They are events of the batch.
LEMMA NovelType ==
  ASSUME NEW S, NEW events \in Seq(S), NEW counts
  PROVE  Novel(events, counts) \in Seq(S)
<1> DEFINE n == Len(events)
<1>1. PICK kept :
        /\ Novel(events, counts) = kept[n] /\ kept[0] = <<>>
        /\ \A i \in 1..n : kept[i] = IF IsNovel(events[i], counts)
                                    THEN Append(kept[i - 1], events[i]) ELSE kept[i - 1]
  BY NovelRecursion
<1>2. n \in Nat /\ \A i \in 1..n : events[i] \in S
  BY LenProperties
<1> DEFINE T == {i \in 0..n : kept[i] \in Seq(S)}
<1>3. 0 \in T
  <2>1. kept[0] \in Seq(S)
    BY <1>1, EmptySeq
  <2>2. 0 \in 0..n
    BY <1>2
  <2> QED BY <2>1, <2>2
<1>4. ASSUME NEW i \in 1..n, i - 1 \in T
      PROVE  i \in T
  <2>1. Append(kept[i - 1], events[i]) \in Seq(S)
    BY <1>2, <1>4, AppendProperties
  <2>2. kept[i] \in Seq(S)
    BY <1>1, <1>4, <2>1
  <2>3. i \in 0..n
    BY <1>2
  <2> QED BY <2>2, <2>3
<1>5. n \in T
  <2> HIDE DEF n, T
  <2>1. \A i \in 0..n : i \in T
    BY <1>2, <1>3, <1>4, SetInduction
  <2> QED BY <1>2, <2>1
<1> QED BY <1>1, <1>5

\* The steps that stay beside the tree.
LEMMA OtherRecursion ==
  ASSUME NEW S, NEW chain \in Seq(S), NEW tree
  PROVE  \E dict : /\ OtherSteps(chain, tree) = dict[Len(chain)] /\ dict[0] = <<>>
                   /\ \A i \in 1..Len(chain) : dict[i] = IF /\ chain[i].type \notin {"process", "user"} /\ (chain[i].pid > 0 => chain[i].pid \in ToSet(tree)) THEN Append(dict[i - 1], chain[i]) ELSE dict[i - 1]
<1> DEFINE n == Len(chain)
           Values == Seq(S)
           next == [y \in (1..n) \X Values |-> IF /\ chain[y[1]].type \notin {"process", "user"} /\ (chain[y[1]].pid > 0 => chain[y[1]].pid \in ToSet(tree)) THEN Append(y[2], chain[y[1]]) ELSE y[2]]
<1>1. n \in Nat /\ \A i \in 1..n : chain[i] \in S
  BY LenProperties
<1>2. next \in [(1..n) \X Values -> Values]
  <2>1. ASSUME NEW y \in (1..n) \X Values
        PROVE  (IF /\ chain[y[1]].type \notin {"process", "user"} /\ (chain[y[1]].pid > 0 => chain[y[1]].pid \in ToSet(tree)) THEN Append(y[2], chain[y[1]]) ELSE y[2]) \in Values
    <3>1. y[2] \in Seq(S) /\ chain[y[1]] \in S
      BY <1>1
    <3> QED BY <3>1, AppendProperties
  <2> HIDE DEF n, Values
  <2> QED BY <2>1
<1>3. PICK f \in [0..n -> Values] : f[0] = <<>> /\ \A i \in 1..n : f[i] = next[<<i, f[i - 1]>>]
  <2> DEFINE base == <<>>
  <2>1. base \in Values
    BY EmptySeq
  <2> HIDE DEF n, next, Values, base
  <2>2. Recursions(n, Values, base, next) # {}
    BY <1>1, <1>2, <2>1, RecursionExists
  <2> QED BY <2>2 DEF Recursions, base
<1> DEFINE Follows(g) ==
             g = [i \in 0..n |-> IF i = 0 THEN <<>> ELSE IF /\ chain[i].type \notin {"process", "user"} /\ (chain[i].pid > 0 => chain[i].pid \in ToSet(tree)) THEN Append(g[i - 1], chain[i]) ELSE g[i - 1]]
           chosen == CHOOSE g : Follows(g)
<1>4. Follows(f)
  <2>1. ASSUME NEW i \in 0..n
        PROVE  f[i] = IF i = 0 THEN <<>> ELSE IF /\ chain[i].type \notin {"process", "user"} /\ (chain[i].pid > 0 => chain[i].pid \in ToSet(tree)) THEN Append(f[i - 1], chain[i]) ELSE f[i - 1]
    <3>1. CASE i = 0
      BY <1>3, <3>1
    <3>2. CASE i # 0
      <4>1. i \in 1..n /\ i - 1 \in 0..n
        BY <1>1, <3>2
      <4>2. <<i, f[i - 1]>> \in (1..n) \X Values
        BY <4>1
      <4> QED BY <1>3, <3>2, <4>1, <4>2
    <3> QED BY <3>1, <3>2
  <2> HIDE DEF n, Values, next
  <2> QED BY <2>1
<1>5. Follows(chosen)
  <2> HIDE DEF Follows
  <2> QED BY <1>4
<1>6. chosen[0] = <<>> /\ \A i \in 1..n : chosen[i] = IF /\ chain[i].type \notin {"process", "user"} /\ (chain[i].pid > 0 => chain[i].pid \in ToSet(tree)) THEN Append(chosen[i - 1], chain[i]) ELSE chosen[i - 1]
  <2> HIDE DEF chosen
  <2>1. \A i \in 0..n : chosen[i] = IF i = 0 THEN <<>> ELSE IF /\ chain[i].type \notin {"process", "user"} /\ (chain[i].pid > 0 => chain[i].pid \in ToSet(tree)) THEN Append(chosen[i - 1], chain[i]) ELSE chosen[i - 1]
    BY <1>5
  <2> HIDE DEF n, Follows
  <2>2. 0 \in 0..n /\ \A i \in 1..n : i \in 0..n /\ i # 0
    BY <1>1
  <2> QED BY <2>1, <2>2
<1>7. OtherSteps(chain, tree) = chosen[n]
  BY DEF OtherSteps
<1> QED BY <1>6, <1>7

\* None of them is of a process outside of the tree.
LEMMA OtherStepsFit ==
  ASSUME NEW S, NEW chain \in Seq(S), NEW tree
  PROVE  OtherSteps(chain, tree) \in Seq({s \in S : s.pid > 0 => s.pid \in ToSet(tree)})
<1> DEFINE n == Len(chain)
           Fit == {s \in S : s.pid > 0 => s.pid \in ToSet(tree)}
           Stays(s) == /\ s.type \notin {"process", "user"}
                       /\ s.pid > 0 => s.pid \in ToSet(tree)
<1>1. PICK kept :
        /\ OtherSteps(chain, tree) = kept[n] /\ kept[0] = <<>>
        /\ \A i \in 1..n : kept[i] = IF Stays(chain[i]) THEN Append(kept[i - 1], chain[i])
                                    ELSE kept[i - 1]
  BY OtherRecursion
<1>2. n \in Nat /\ \A i \in 1..n : chain[i] \in S
  BY LenProperties
<1> DEFINE T == {i \in 0..n : kept[i] \in Seq(Fit)}
<1>3. 0 \in T
  <2>1. kept[0] \in Seq(Fit)
    BY <1>1, EmptySeq
  <2>2. 0 \in 0..n
    BY <1>2
  <2> QED BY <2>1, <2>2
<1>4. ASSUME NEW i \in 1..n, i - 1 \in T
      PROVE  i \in T
  <2>1. CASE Stays(chain[i])
    <3>1. chain[i] \in Fit
      BY <1>2, <2>1
    <3>2. Append(kept[i - 1], chain[i]) \in Seq(Fit)
      <4> HIDE DEF Fit
      <4> QED BY <1>4, <3>1, AppendProperties
    <3>3. kept[i] \in Seq(Fit)
      BY <1>1, <2>1, <3>2
    <3>4. i \in 0..n
      BY <1>2
    <3> QED BY <3>3, <3>4
  <2>2. CASE ~Stays(chain[i])
    <3>1. kept[i] = kept[i - 1]
      BY <1>1, <2>2
    <3>2. i \in 0..n
      BY <1>2
    <3> QED BY <1>4, <3>1, <3>2
  <2> QED BY <2>1, <2>2
<1>5. n \in T
  <2> HIDE DEF n, T
  <2>1. \A i \in 0..n : i \in T
    BY <1>2, <1>3, <1>4, SetInduction
  <2> QED BY <1>2, <2>1
<1> QED BY <1>1, <1>5

\* The trigger of a finding is a process of an event.
LEMMA TriggerIsProcess ==
  ASSUME NEW S, NEW events \in Seq(S), NEW raw, Trigger(raw, events) # NoPid
  PROVE  \E e \in S : e.pid > 0 /\ Trigger(raw, events) = e.pid
<1> DEFINE Positive(e) == HasProcess(e) /\ e.pid > 0
           named == {i \in DOMAIN events : events[i].id \in raw.evidence /\ HasProcess(events[i]) /\ events[i].pid > 0}
           any == {i \in DOMAIN events : HasProcess(events[i]) /\ events[i].pid > 0}
           earliest(at) == CHOOSE i \in at : \A j \in at : i <= j
           PidAt(at) == IF at = {} THEN NoPid ELSE events[earliest(at)].pid
<1>1. DOMAIN events = 1..Len(events) /\ \A i \in DOMAIN events : events[i] \in S
  BY LenProperties
<1>2. named \in SUBSET Nat /\ any \in SUBSET Nat
  BY <1>1
<1>3. Trigger(raw, events) = IF PidAt(named) # NoPid THEN PidAt(named) ELSE PidAt(any)
  BY DEF Trigger, FirstWhere
<1>4. ASSUME NEW at \in {named, any}, PidAt(at) # NoPid
      PROVE  \E e \in S : e.pid > 0 /\ PidAt(at) = e.pid
  <2>1. at # {} /\ PidAt(at) = events[earliest(at)].pid
    BY <1>4
  <2>2. earliest(at) \in at
    <3>1. at \in SUBSET Nat
      BY <1>2
    <3> HIDE DEF named, any
    <3> QED BY <2>1, <3>1, FirstIsOneOf
  <2>3. \A i \in at : i \in DOMAIN events /\ events[i].pid > 0
    OBVIOUS
  <2> HIDE DEF named, any, earliest
  <2> QED BY <1>1, <2>1, <2>2, <2>3
<1>5. Trigger(raw, events) = PidAt(named) \/ Trigger(raw, events) = PidAt(any)
  <2> HIDE DEF PidAt
  <2> QED BY <1>3
<1> HIDE DEF PidAt, named, any
<1> QED BY <1>4, <1>5

LEMMA StatedIsSequence ==
  ASSUME NEW raw, IsSeq(raw.chain), NEW events
  PROVE  IsSeq(StatedChain(raw, events))
<1> DEFINE n == Len(raw.chain)
           s == StatedChain(raw, events)
<1>1. n \in Nat /\ DOMAIN raw.chain = 1..n
  BY LenProperties DEF IsSeq
<1>2. DOMAIN s = 1..n /\ s = [i \in DOMAIN s |-> s[i]]
  BY <1>1 DEF StatedChain
<1> HIDE DEF s, n
<1>3. s \in [1..n -> ToSet(s)]
  BY <1>2 DEF ToSet
<1>4. s \in Seq(ToSet(s))
  BY <1>1, <1>3, IsASeq
<1> QED BY <1>4 DEF s, IsSeq

\* What StepsOf makes steps of.
StepsFrom(e) ==
  {Step("process", e.name, e.pid), Step("user", e.user, NoPid), Step("ip", e.ip, NoPid),
   Step("process", "sshd", NoPid)}

LEMMA StepsAreSequence == \A e : StepsOf(e) \in Seq(StepsFrom(e))
<1> SUFFICES ASSUME NEW e
             PROVE  StepsOf(e) \in Seq(StepsFrom(e))
  OBVIOUS
<1> DEFINE U == StepsFrom(e)
           process == IF HasProcess(e) THEN <<Step("process", e.name, e.pid)>> ELSE <<>>
           user == IF e.user = None THEN <<>> ELSE <<Step("user", e.user, NoPid)>>
           address == IF e.ip = None THEN <<>> ELSE <<Step("ip", e.ip, NoPid)>>
           sshd == <<Step("process", "sshd", NoPid)>>
<1>1. /\ Step("process", e.name, e.pid) \in U /\ Step("user", e.user, NoPid) \in U
      /\ Step("ip", e.ip, NoPid) \in U /\ Step("process", "sshd", NoPid) \in U
  BY DEF StepsFrom
<1>2. /\ StepsOf(e) \in {user \o process, process \o address, user \o sshd \o address, process}
  BY DEF StepsOf
<1> HIDE DEF U
<1>3. process \in Seq(U) /\ user \in Seq(U) /\ address \in Seq(U) /\ sshd \in Seq(U)
  <2>1. \A x \in U : <<x>> \in Seq(U)
    OBVIOUS
  <2> QED BY <1>1, <2>1, EmptySeq
<1> HIDE DEF process, user, address, sshd
<1>4. \A a, b \in Seq(U) : a \o b \in Seq(U)
  BY ConcatProperties
<1>5. StepsOf(e) \in Seq(U)
  <2>1. user \o process \in Seq(U) /\ process \o address \in Seq(U) /\ user \o sshd \in Seq(U)
    BY <1>3, <1>4
  <2>2. user \o sshd \o address \in Seq(U)
    BY <1>3, <1>4, <2>1
  <2> QED BY <1>2, <1>3, <2>1, <2>2
<1> QED BY <1>5 DEF U

LEMMA EventsMakeSequence ==
  ASSUME NEW S, NEW events \in Seq(S)
  PROVE  \E U : ChainFromEvents(events) \in Seq(U)
<1> DEFINE k == IF Len(events) < 3 THEN Len(events) ELSE 3
           U == UNION {StepsFrom(e) : e \in S}
           parts == [i \in 1..k |-> StepsOf(events[i])]
<1>1. Len(events) \in Nat /\ \A i \in 1..Len(events) : events[i] \in S
  BY LenProperties
<1>2. k \in Nat /\ k <= Len(events)
  BY <1>1
<1>3. ASSUME NEW i \in 1..k
      PROVE  StepsOf(events[i]) \in Seq(U)
  <2>1. PICK e \in S : e = events[i]
    <3> HIDE DEF k
    <3> QED BY <1>1, <1>2
  <2>2. StepsFrom(e) \subseteq U
    BY <2>1
  <2> HIDE DEF U
  <2>3. Seq(StepsFrom(e)) \subseteq Seq(U)
    BY <2>2
  <2> QED BY <2>1, <2>3, StepsAreSequence
<1>4. parts \in Seq(Seq(U))
  <2> HIDE DEF k, U
  <2> QED BY <1>2, <1>3, IsASeq
<1>5. FlattenSeq(parts) \in Seq(U)
  <2> HIDE DEF parts, U
  <2> QED BY <1>4, FlattenType
<1>6. ChainFromEvents(events) = FlattenSeq(parts)
  BY DEF ChainFromEvents
<1> QED BY <1>5, <1>6

\* The chain of a trigger whose tree is known is that tree, from the root to the
\* trigger, and steps that are of no other process.
LEMMA EnrichedIsLineage ==
  ASSUME NEW U, NEW chain \in Seq(U), NEW t \in DOMAIN Tree, t # NoPid, Tree[t] # <<>>,
         NEW enriched, enriched = EnrichedChain(chain, t, FALSE)
  PROVE  /\ t \in StepPids(enriched)
         /\ {p \in StepPids(enriched) : p > 0} \subseteq ToSet(Tree[t])
<1> DEFINE tree == Tree[t]
           n == Len(tree)
           lineage == [i \in DOMAIN tree |-> Step("process", None, tree[i])]
           others == OtherSteps(chain, tree)
           W == {Step("process", None, p) : p \in ToSet(tree)}
           Fit == {s \in U : s.pid > 0 => s.pid \in ToSet(tree)}
<1>1. tree \in Seq(Int) /\ tree[n] = t
  BY FindingsAssumption DEF Last
<1>2. n \in Nat \ {0} /\ DOMAIN tree = 1..n
  BY <1>1, LenProperties, EmptySeq
<1>3. lineage \in Seq(W) /\ Len(lineage) = n
  <2>1. \A i \in 1..n : Step("process", None, tree[i]) \in W
    BY <1>2 DEF ToSet
  <2> HIDE DEF n, W
  <2>2. lineage \in [1..n -> W]
    BY <1>2, <2>1
  <2> HIDE DEF lineage
  <2> QED BY <1>2, <2>2, IsASeq, LenProperties
<1>4. others \in Seq(Fit)
  BY OtherStepsFit
<1>5. enriched = lineage \o others
  BY DEF EnrichedChain, Anchor
<1>6. /\ DOMAIN enriched = 1..(n + Len(others)) /\ Len(others) \in Nat
      /\ \A i \in 1..n : enriched[i] = lineage[i]
      /\ \A i \in DOMAIN enriched : enriched[i] \in W \union Fit
  <2> HIDE DEF n, W, Fit, lineage, others
  <2>1. lineage \in Seq(W \union Fit) /\ others \in Seq(W \union Fit)
    <3>1. Seq(W) \subseteq Seq(W \union Fit) /\ Seq(Fit) \subseteq Seq(W \union Fit)
      OBVIOUS
    <3> QED BY <1>3, <1>4, <3>1
  <2>2. /\ enriched \in Seq(W \union Fit) /\ Len(enriched) = n + Len(others)
        /\ \A i \in 1..(n + Len(others)) :
             enriched[i] = IF i <= n THEN lineage[i] ELSE others[i - n]
    <3>1. Len(lineage) = n
      BY <1>3
    <3> DEFINE Values == W \union Fit
    <3>2. lineage \in Seq(Values) /\ others \in Seq(Values)
      BY <2>1
    <3> HIDE DEF Values
    <3>3. /\ lineage \o others \in Seq(Values) /\ Len(lineage \o others) = Len(lineage) + Len(others)
          /\ \A i \in 1..(Len(lineage) + Len(others)) :
               (lineage \o others)[i] = IF i <= Len(lineage) THEN lineage[i] ELSE others[i - Len(lineage)]
      BY <3>2, ConcatProperties
    <3> QED BY <1>5, <3>1, <3>3 DEF Values
  <2>3. Len(others) \in Nat /\ DOMAIN enriched = 1..(n + Len(others))
        /\ \A i \in DOMAIN enriched : enriched[i] \in W \union Fit
    BY <2>1, <2>2, LenProperties, ZenonT(30)
  <2>4. \A i \in 1..n : i \in 1..(n + Len(others)) /\ i <= n
    BY <1>2, <2>3
  <2> QED BY <2>2, <2>3, <2>4
<1>7. t \in StepPids(enriched)
  <2>1. n \in 1..n /\ n \in DOMAIN enriched
    <3> DEFINE m == Len(others)
    <3>1. m \in Nat /\ n \in Nat \ {0} /\ DOMAIN enriched = 1..(n + m)
      BY <1>2, <1>6
    <3> HIDE DEF n, m
    <3>2. n \in 1..n /\ n \in 1..(n + m)
      BY <3>1
    <3> QED BY <3>1, <3>2
  <2>2. enriched[n] = Step("process", None, t)
    <3>1. enriched[n] = lineage[n]
      BY <1>6, <2>1
    <3>2. n \in DOMAIN tree
      BY <1>2, <2>1
    <3>3. lineage[n] = Step("process", None, tree[n])
      <4> HIDE DEF n, tree
      <4> QED BY <3>2
    <3> HIDE DEF n, tree, lineage
    <3> QED BY <1>1, <3>1, <3>3
  <2>3. enriched[n].pid = t
    <3>1. Step("process", None, t).pid = t
      BY DEF Step
    <3> QED BY <2>2, <3>1
  <2>4. enriched[n] \in ToSet(enriched)
    BY <2>1 DEF ToSet
  <2> HIDE DEF n
  <2> QED BY <2>3, <2>4 DEF StepPids
<1>8. ASSUME NEW s \in ToSet(enriched), s.pid > 0
      PROVE  s.pid \in ToSet(tree)
  <2>1. s \in W \union Fit
    <3> HIDE DEF W, Fit
    <3> QED BY <1>6 DEF ToSet
  <2>2. CASE s \in W
    <3>1. PICK p \in ToSet(tree) : s = Step("process", None, p)
      BY <2>2
    <3> QED BY <3>1 DEF Step
  <2> QED BY <1>8, <2>1, <2>2
<1> HIDE DEF tree
<1>9. {p \in StepPids(enriched) : p > 0} \subseteq ToSet(tree)
  BY <1>8 DEF StepPids
<1> QED BY <1>7, <1>9 DEF tree

LEMMA FindingIsAnchored ==
  ASSUME NEW S, NEW events \in Seq(S), \A e \in S : e.pid > 0 => e.pid \in DOMAIN Tree,
         NEW raw, IsSeq(raw.chain)
  PROVE  Anchored(FindingOf(raw, events, FALSE))
<1> DEFINE t == Trigger(raw, events)
           stated == StatedChain(raw, events)
           chain == IF stated = <<>> THEN ChainFromEvents(events) ELSE stated
           f == FindingOf(raw, events, FALSE)
<1>1. f.trigger = t /\ f.chain = EnrichedChain(chain, t, FALSE)
  BY DEF FindingOf
<1>2. PICK U : chain \in Seq(U)
  <2>1. stated \in Seq(ToSet(stated))
    BY StatedIsSequence DEF IsSeq
  <2>2. \E U : ChainFromEvents(events) \in Seq(U)
    BY EventsMakeSequence
  <2> HIDE DEF stated
  <2> QED BY <2>1, <2>2
<1>3. t # NoPid => t \in DOMAIN Tree
  BY TriggerIsProcess
<1> HIDE DEF t, chain, f
<1>4. ASSUME t # NoPid, Tree[t] # <<>>
      PROVE  /\ t \in StepPids(f.chain)
             /\ {p \in StepPids(f.chain) : p > 0} \subseteq ToSet(Tree[t])
  <2>1. PICK enriched : enriched = EnrichedChain(chain, t, FALSE)
    OBVIOUS
  <2>2. /\ t \in StepPids(enriched)
        /\ {p \in StepPids(enriched) : p > 0} \subseteq ToSet(Tree[t])
    BY <1>2, <1>3, <1>4, <2>1, EnrichedIsLineage
  <2> QED BY <1>1, <2>1, <2>2
<1>5. Anchored(f)
  BY <1>1, <1>4 DEF Anchored
<1> QED BY <1>5 DEF f

\* The events of an inquiry.
EventsOf(x) == UNION {ToSet(events) : events \in ToSet(Inquiries[x].batches)}

\* The findings that are not anchored.
Loose == {i \in DOMAIN found : ~Anchored(found[i])}

\* What is read and analyzed are events of the inquiry, each entry that is left is
\* one of an answer.
ChainInv ==
  /\ inquiry \in DOMAIN Inquiries /\ faults \in Nat
  /\ recent \in Seq(ToSet(Inquiries[inquiry].batches))
  /\ batch \in Seq(EventsOf(inquiry))
  /\ IsSeq(entries) /\ IsSeq(found)
  /\ \A raw \in ToSet(entries) : raw.form \in {"good", "odd"} => IsSeq(raw.chain)
  /\ Cardinality(Loose) <= faults

LEMMA ChainAtFirst == ASSUME DialogueInit PROVE ChainInv
<1>1. inquiry \in DOMAIN Inquiries /\ recent = Inquiries[inquiry].batches
  BY DEF DialogueInit
<1>2. recent \in Seq(ToSet(Inquiries[inquiry].batches))
  BY <1>1, DialogueAssumption
<1>3. batch = <<>> /\ entries = <<>> /\ found = <<>> /\ faults = 0
  BY DEF DialogueInit
<1>4. ToSet(entries) = {} /\ Loose = {}
  BY <1>3 DEF ToSet, Loose
<1> QED BY <1>1, <1>2, <1>3, <1>4, EmptyIsSeq, EmptySeq, FS_EmptySet DEF ChainInv

LEMMA LooseIsFinite == ASSUME IsSeq(found) PROVE IsFiniteSet(Loose) /\ Cardinality(Loose) \in Nat
<1>1. DOMAIN found = 1..Len(found) /\ Len(found) \in Nat
  BY LenProperties DEF IsSeq
<1>2. IsFiniteSet(DOMAIN found)
  BY <1>1, FS_Interval
<1> QED BY <1>2, FS_Subset, FS_CardinalityType DEF Loose

\* Nothing that the invariant speaks of changes.
LEMMA ChainFrame ==
  ASSUME ChainInv, UNCHANGED <<inquiry, recent, batch, entries, found, faults>>
  PROVE  ChainInv'
<1>1. Loose' = Loose
  BY DEF Loose
<1> QED BY <1>1 DEF ChainInv, IsSeq

LEMMA ChainByBatch == ASSUME ChainInv, AnalyzeBatch PROVE ChainInv'
<1> DEFINE Batches == ToSet(Inquiries[inquiry].batches)
<1>1. PICK events : events = Head(recent)
  OBVIOUS
<1>2. /\ recent # <<>> /\ recent' = Tail(recent) /\ UNCHANGED <<inquiry, faults>>
      /\ \E counts :
           \/ UNCHANGED <<batch, answerVars>>
           \/ batch' = Capped(Novel(events, counts)) /\ entries' = <<>> /\ found' = <<>>
  BY <1>1 DEF AnalyzeBatch
<1>3. events \in Batches /\ recent' \in Seq(Batches)
  <2>1. recent \in Seq(Batches)
    BY DEF ChainInv
  <2> HIDE DEF Batches
  <2> QED BY <1>1, <1>2, <2>1, HeadTailProperties
<1>4. events \in Seq(EventsOf(inquiry))
  <2>1. events \in Seq(ToSet(events))
    BY <1>3, DialogueAssumption DEF ChainInv
  <2>2. ToSet(events) \subseteq EventsOf(inquiry)
    BY <1>3 DEF EventsOf
  <2> QED BY <2>1, <2>2
<1>5. PICK counts :
        \/ UNCHANGED <<batch, answerVars>>
        \/ batch' = Capped(Novel(events, counts)) /\ entries' = <<>> /\ found' = <<>>
  BY <1>2
<1>6. CASE UNCHANGED <<batch, answerVars>>
  <2>1. UNCHANGED <<batch, entries, found>> /\ Loose' = Loose
    BY <1>6 DEF answerVars, Loose
  <2> QED BY <1>2, <1>3, <2>1 DEF ChainInv, IsSeq
<1>7. CASE batch' = Capped(Novel(events, counts)) /\ entries' = <<>> /\ found' = <<>>
  <2>1. PICK novel : novel = Novel(events, counts) /\ novel \in Seq(EventsOf(inquiry))
    BY <1>4, NovelType
  <2>2. batch' \in Seq(EventsOf(inquiry))
    <3> DEFINE k == IF Len(novel) < MaxBatchEvents THEN Len(novel) ELSE MaxBatchEvents
    <3>1. batch' = SubSeq(novel, 1, k)
      BY <1>7, <2>1 DEF Capped
    <3>2. Len(novel) \in Nat /\ \A i \in 1..Len(novel) : novel[i] \in EventsOf(inquiry)
      BY <2>1, LenProperties
    <3>3. k \in Nat /\ k <= Len(novel)
      BY <3>2, FindingsAssumption
    <3>4. SubSeq(novel, 1, k) \in Seq(EventsOf(inquiry))
      <4> HIDE DEF k
      <4>1. 1 \in 1..(Len(novel) + 1) /\ k \in 0..Len(novel)
        BY <3>2, <3>3
      <4> QED BY <2>1, <4>1, SubSeqProperties
    <3> QED BY <3>1, <3>4
  <2>3. ToSet(entries') = {} /\ Loose' = {}
    BY <1>7 DEF ToSet, Loose
  <2>4. Cardinality(Loose') <= faults'
    BY <1>2, <2>3, FS_EmptySet DEF ChainInv
  <2>5. IsSeq(entries') /\ IsSeq(found')
    BY <1>7, EmptyIsSeq
  <2> QED BY <1>2, <1>3, <2>2, <2>3, <2>4, <2>5 DEF ChainInv, IsSeq
<1> QED BY <1>5, <1>6, <1>7

LEMMA ChainByAnswer == ASSUME ChainInv, ModelAnswers PROVE ChainInv'
<1>1. PICK content \in Inquiries[inquiry].answers : entries' = content
  BY DEF ModelAnswers, Answer
<1>2. /\ content \in Seq(ToSet(content))
      /\ \A raw \in ToSet(content) : raw.form \in {"good", "odd"} => raw.chain \in Seq(ToSet(raw.chain))
  BY <1>1, DialogueAssumption DEF ChainInv
<1>3. UNCHANGED <<inquiry, recent, batch, found, faults>>
  BY DEF ModelAnswers
<1>4. Loose' = Loose
  BY <1>3 DEF Loose
<1> QED BY <1>1, <1>2, <1>3, <1>4 DEF ChainInv, IsSeq

\* An entry is dealt with; only a fault returns what is not anchored.
LEMMA ChainByEntry ==
  ASSUME ChainInv, entries # <<>>, entries' = Tail(entries), UNCHANGED <<inquiry, recent, batch>>,
         IsSeq(found'),
         \/ Loose' \subseteq Loose /\ faults' \in {faults, faults + 1}
         \/ faults' = faults + 1 /\ \E i : Loose' \subseteq Loose \union {i}
  PROVE  ChainInv'
<1>1. IsSeq(entries') /\ ToSet(entries') \subseteq ToSet(entries)
  BY TailIsSeq, TailMembers DEF ChainInv
<1>2. Cardinality(Loose') <= faults' /\ faults' \in Nat
  <2> DEFINE c == Cardinality(Loose)
             d == Cardinality(Loose')
  <2>1. PICK i : Loose' \subseteq Loose \union {i}
    OBVIOUS
  <2>2. IsFiniteSet(Loose) /\ c \in Nat /\ c <= faults /\ faults \in Nat
    BY LooseIsFinite DEF ChainInv
  <2>3. d \in Nat /\ d <= c + 1 /\ (Loose' \subseteq Loose => d <= c)
    BY <2>1, <2>2, FewerOrOneMore
  <2> HIDE DEF c, d
  <2>4. d <= faults' /\ faults' \in Nat
    BY <2>2, <2>3
  <2> QED BY <2>4 DEF d
<1> QED BY <1>1, <1>2 DEF ChainInv, IsSeq

LEMMA ChainByParsing ==
  ASSUME ChainInv, SkipEntry \/ UpdateFinding \/ UpdateRefused \/ NewFinding
  PROVE  ChainInv'
<1>1. entries # <<>> /\ entries' = Tail(entries) /\ UNCHANGED <<inquiry, recent, batch>>
  BY DEF SkipEntry, UpdateFinding, UpdateRefused, NewFinding, EntryVars
<1>2. CASE SkipEntry \/ UpdateFinding \/ UpdateRefused
  <2>1. found' = found /\ faults' \in {faults, faults + 1}
    BY <1>2 DEF SkipEntry, UpdateFinding, UpdateRefused, Fault
  <2>2. Loose' = Loose /\ IsSeq(found')
    BY <2>1 DEF Loose, ChainInv
  <2> QED BY <1>1, <2>1, <2>2, ChainByEntry
<1>3. CASE NewFinding
  <2>1. PICK e : e = Head(entries)
    OBVIOUS
  <2>2. PICK lookupFails \in BOOLEAN, graphFails \in BOOLEAN :
          /\ IF lookupFails \/ graphFails THEN Fault ELSE UNCHANGED faults
          /\ found' = IF e.form = "odd" THEN found
                      ELSE Append(found, FindingOf(e, batch, graphFails))
          /\ e.form \in {"good", "odd"}
    BY <1>3, <2>1 DEF NewFinding
  <2>3. faults' \in {faults, faults + 1} /\ (graphFails => faults' = faults + 1)
    BY <2>2 DEF Fault
  <2>4. CASE e.form = "odd"
    <3>1. found' = found
      BY <2>2, <2>4
    <3>2. Loose' = Loose /\ IsSeq(found')
      BY <3>1 DEF Loose, ChainInv
    <3> QED BY <1>1, <2>3, <3>2, ChainByEntry
  <2>5. CASE e.form # "odd"
    <3>1. PICK f : f = FindingOf(e, batch, graphFails) /\ found' = Append(found, f)
      BY <2>2, <2>5
    <3>2. IsSeq(found)
      BY DEF ChainInv
    <3>3. /\ IsSeq(found') /\ Len(found) \in Nat /\ Len(found') = Len(found) + 1
          /\ found'[Len(found) + 1] = f
          /\ \A i \in 1..Len(found) : found'[i] = found[i]
      BY <3>1, <3>2, AppendIsSeq
    <3>4. DOMAIN found = 1..Len(found) /\ DOMAIN found' = 1..(Len(found) + 1)
      BY <3>2, <3>3, LenProperties DEF IsSeq
    <3>5. Loose' \subseteq Loose \union {Len(found) + 1}
      <4> SUFFICES ASSUME NEW i \in Loose', i # Len(found) + 1
                   PROVE  i \in Loose
        OBVIOUS
      <4>1. i \in DOMAIN found' /\ ~Anchored(found'[i])
        BY DEF Loose
      <4>2. i \in 1..Len(found)
        BY <3>3, <3>4, <4>1
      <4> QED BY <3>3, <3>4, <4>1, <4>2 DEF Loose
    <3>6. CASE graphFails
      BY <1>1, <2>3, <3>3, <3>5, <3>6, ChainByEntry
    <3>7. CASE ~graphFails
      <4>1. graphFails = FALSE
        BY <3>7
      <4>2. batch \in Seq(EventsOf(inquiry)) /\ IsSeq(e.chain)
        <5>1. e \in ToSet(entries)
          <6>1. IsSeq(entries)
            BY DEF ChainInv
          <6>2. Len(entries) \in Nat \ {0} /\ Head(entries) = entries[1]
            BY <1>1, <6>1, TailIsSeq
          <6>3. 1 \in DOMAIN entries
            BY <6>1, <6>2, LenProperties DEF IsSeq
          <6> QED BY <2>1, <6>2, <6>3 DEF ToSet
        <5> QED BY <2>2, <5>1 DEF ChainInv
      <4>3. \A x \in EventsOf(inquiry) : x.pid > 0 => x.pid \in DOMAIN Tree
        BY DialogueAssumption DEF EventsOf, ChainInv
      <4>4. Anchored(f)
        BY <3>1, <4>1, <4>2, <4>3, FindingIsAnchored
      <4>5. Loose' \subseteq Loose
        <5>1. ASSUME NEW i \in Loose', i = Len(found) + 1
              PROVE  FALSE
          <6>1. ~Anchored(found'[i])
            BY DEF Loose
          <6>2. found'[i] = f
            BY <3>3, <5>1
          <6> QED BY <4>4, <6>1, <6>2
        <5> QED BY <3>5, <5>1
      <4> QED BY <1>1, <2>3, <3>3, <4>5, ChainByEntry
    <3> QED BY <3>6, <3>7
  <2> QED BY <2>4, <2>5
<1> QED BY <1>2, <1>3

\* The chain of a finding is the lineage of its trigger, but for one finding of
\* each fault: its trigger is in it, and no process that is not of the lineage
\* (_enrich_chain_with_ancestry of llm_analyzer.py).
THEOREM ChainsAreAnchored == DialogueSpec => []AnchoredInTree
<1>1. DialogueInit => ChainInv
  BY ChainAtFirst
<1>2. ChainInv /\ [DialogueNext]_dialogueVars => ChainInv'
  <2> SUFFICES ASSUME ChainInv, [DialogueNext]_dialogueVars
               PROVE  ChainInv'
    OBVIOUS
  <2>1. CASE AnalyzeBatch
    BY <2>1, ChainByBatch
  <2>2. CASE ModelAnswers
    BY <2>2, ChainByAnswer
  <2>3. CASE SkipEntry \/ UpdateFinding \/ UpdateRefused \/ NewFinding
    BY <2>3, ChainByParsing
  <2>4. CASE ModelCallsTools
    <3>1. UNCHANGED <<inquiry, recent, batch, entries, found, faults>>
      BY <2>4, Zenon DEF ModelCallsTools, answerVars
    <3> QED BY <3>1, ChainFrame
  <2>5. CASE ModelFails \/ ExecuteTool \/ UnreadableCall \/ NextRound \/ EndParse \/ StoreFindings
             \/ UpsertIpEnrichment \/ UNCHANGED dialogueVars
    <3>1. UNCHANGED <<inquiry, recent, batch, entries, found, faults>>
      BY <2>5 DEF ModelFails, ExecuteTool, UnreadableCall, NextRound, EndParse, StoreFindings,
                  UpsertIpEnrichment, answerVars, dialogueVars
    <3> QED BY <3>1, ChainFrame
  <2> QED BY <2>1, <2>2, <2>3, <2>4, <2>5 DEF DialogueNext, AnalyzerTurn
<1>3. ChainInv => AnchoredInTree
  BY DEF ChainInv, AnchoredInTree, Loose
<1> QED BY <1>1, <1>2, <1>3, PTL DEF DialogueSpec

-----------------------------------------------------------------------------
(* Pulls from the ledger: the latest rows. *)

Later(rows, r) == {x \in rows : x.at > r.at}

\* Rows from which none of the latest are missing have the same latest rows as all.
LEMMA LatestOfEnough ==
  ASSUME NEW all, IsFiniteSet(all), \A r \in all : r.at \in Nat, NEW n \in Nat,
         NEW some \in SUBSET all, LatestRows(all, n) \subseteq some
  PROVE  LatestRows(some, n) = LatestRows(all, n)
<1>1. ASSUME NEW r
      PROVE  /\ Cardinality(Later(all, r)) \in Nat /\ Cardinality(Later(some, r)) \in Nat
             /\ Cardinality(Later(some, r)) <= Cardinality(Later(all, r))
             /\ IsFiniteSet(Later(all, r))
  <2>1. Later(all, r) \in SUBSET all /\ Later(some, r) \in SUBSET Later(all, r)
    BY DEF Later
  <2>2. IsFiniteSet(Later(all, r)) /\ IsFiniteSet(Later(some, r))
    BY <2>1, FS_Subset
  <2> QED BY <2>1, <2>2, FS_Subset, FS_CardinalityType
<1>2. \A rows, r : r \in LatestRows(rows, n) <=> r \in rows /\ Cardinality(Later(rows, r)) < n
  BY DEF LatestRows, Later
<1>3. ASSUME NEW r \in LatestRows(all, n)
      PROVE  r \in LatestRows(some, n)
  BY <1>1, <1>2
<1>4. ASSUME NEW r \in LatestRows(some, n), r \notin LatestRows(all, n)
      PROVE  FALSE
  <2> DEFINE missing == Later(all, r) \ some
             counts == {Cardinality(Later(all, x)) : x \in missing}
  <2>1. r \in some /\ Cardinality(Later(some, r)) < n /\ ~(Cardinality(Later(all, r)) < n)
    BY <1>2, <1>4
  <2>2. Later(some, r) = Later(all, r) \ missing
    BY DEF Later
  <2>3. missing # {}
    <3> SUFFICES ASSUME missing = {}
                 PROVE  FALSE
      OBVIOUS
    <3>1. Later(some, r) = Later(all, r)
      BY <2>2
    <3> QED BY <2>1, <3>1
  <2>4. counts \in SUBSET Nat /\ counts # {}
    BY <1>1, <2>3
  <2>5. PICK c \in counts : \A d \in counts : c <= d
    <3> HIDE DEF counts
    <3> QED BY <2>4, LeastExists
  <2>6. PICK x \in missing : c = Cardinality(Later(all, x))
    OBVIOUS
  \* Nothing that is missing is later than x.
  <2>7. ASSUME NEW y \in missing, y.at > x.at
        PROVE  FALSE
    <3>1. x \in all /\ y \in all /\ x.at \in Nat /\ y.at \in Nat
      BY DEF Later
    <3>2. Later(all, y) \in SUBSET Later(all, x) /\ y \in Later(all, x) /\ y \notin Later(all, y)
      BY <2>7, <3>1 DEF Later
    <3>3. Cardinality(Later(all, y)) # Cardinality(Later(all, x))
      BY <1>1, <3>2, FS_Subset
    <3>4. Cardinality(Later(all, y)) <= Cardinality(Later(all, x))
      BY <1>1, <3>2, FS_Subset
    <3>5. c <= Cardinality(Later(all, y))
      BY <2>5
    <3> QED BY <1>1, <2>6, <3>3, <3>4, <3>5
  <2>8. Later(all, x) \subseteq Later(some, r)
    <3> SUFFICES ASSUME NEW y \in Later(all, x)
                 PROVE  y \in Later(some, r)
      OBVIOUS
    <3>1. x \in all /\ y \in all /\ r \in all /\ y.at > x.at /\ x.at > r.at
      BY <2>1 DEF Later
    <3>2. y.at > r.at
      BY <3>1
    <3>3. y \notin missing
      BY <2>7, <3>1
    <3> QED BY <3>1, <3>2, <3>3 DEF Later
  <2>9. ~(Cardinality(Later(all, x)) < n)
    BY <1>2 DEF Later
  <2>10. Cardinality(Later(all, x)) <= Cardinality(Later(some, r))
    <3>1. IsFiniteSet(Later(some, r))
      <4>1. Later(some, r) \in SUBSET Later(all, r)
        BY DEF Later
      <4> QED BY <1>1, <4>1, FS_Subset
    <3> QED BY <2>8, <3>1, FS_Subset
  <2> QED BY <1>1, <2>1, <2>9, <2>10
<1> QED BY <1>3, <1>4

-----------------------------------------------------------------------------
(* Descendants. *)

\* The recursion of Descend.
Descending(pids, kids, levels, room, dict) ==
  /\ Descend(pids, kids, levels, room) = dict[levels].all
  /\ dict[0] = [all |-> pids, frontier |-> pids]
  /\ \A i \in 1..levels : dict[i] = NextLevel(dict[i - 1], kids, room)

\* What Descend reaches at a level.
Levels(kids, pids) == [all : SUBSET Known(kids, pids), frontier : SUBSET Known(kids, pids)]

\* A level for which there is room is not cut.
LEMMA UncutLevel ==
  ASSUME NEW kids, NEW pids, NEW room \in Nat,
         IsFiniteSet(Known(kids, pids)), Cardinality(Known(kids, pids)) <= room,
         NEW t \in Levels(kids, pids)
  PROVE  /\ NextLevel(t, kids, room) \in Levels(kids, pids)
         /\ NextLevel(t, kids, room).frontier = ChildrenOf(t.frontier, kids) \ t.all
         /\ NextLevel(t, kids, room).all = t.all \union ChildrenOf(t.frontier, kids)
<1> DEFINE new == ChildrenOf(t.frontier, kids) \ t.all
           space == room - Cardinality(t.all)
<1>1. t.all \in SUBSET Known(kids, pids) /\ new \in SUBSET Known(kids, pids)
  BY DEF Levels, ChildrenOf, Known
<1>2. /\ IsFiniteSet(t.all) /\ IsFiniteSet(new) /\ Cardinality(t.all) \in Nat
      /\ Cardinality(new) \in Nat /\ Cardinality(Known(kids, pids)) \in Nat
  BY <1>1, FS_Subset, FS_CardinalityType
<1>3. Cardinality(t.all \union new) = Cardinality(t.all) + Cardinality(new)
  <2>1. t.all \intersect new = {}
    OBVIOUS
  <2>2. Cardinality(t.all \intersect new) = 0
    BY <2>1, FS_EmptySet
  <2>3. Cardinality(t.all \union new)
          = Cardinality(t.all) + Cardinality(new) - Cardinality(t.all \intersect new)
    <3> HIDE DEF new
    <3> QED BY <1>2, FS_Union
  <2> QED BY <1>2, <2>2, <2>3
<1>4. Cardinality(t.all \union new) <= Cardinality(Known(kids, pids))
  BY <1>1, FS_Subset
<1>5. Cardinality(new) <= space
  <2> HIDE DEF new
  <2> QED BY <1>2, <1>3, <1>4
<1>6. NextLevel(t, kids, room) = [all |-> t.all \union new, frontier |-> new]
  BY <1>5 DEF NextLevel
<1> HIDE DEF new
<1>7. NextLevel(t, kids, room) \in Levels(kids, pids)
  BY <1>1, <1>6 DEF Levels
<1>8. NextLevel(t, kids, room).frontier = new /\ NextLevel(t, kids, room).all = t.all \union new
  BY <1>6
<1>9. t.all \union new = t.all \union ChildrenOf(t.frontier, kids)
  BY DEF new
<1> QED BY <1>7, <1>8, <1>9 DEF new

\* Level by level.
LEMMA DescentRecursion ==
  ASSUME NEW kids, NEW pids, NEW room \in Nat, NEW levels \in Nat,
         IsFiniteSet(Known(kids, pids)), Cardinality(Known(kids, pids)) <= room
  PROVE  \E dict : Descending(pids, kids, levels, room, dict)
<1> DEFINE n == levels
           Values == Levels(kids, pids)
           next == [y \in (1..n) \X Values |-> NextLevel(y[2], kids, room)]
<1>1. n \in Nat /\ levels \in Nat
  BY LenProperties
<1>2. next \in [(1..n) \X Values -> Values]
  <2>1. ASSUME NEW y \in (1..n) \X Values
        PROVE  (NextLevel(y[2], kids, room)) \in Values
    <3>1. y[2] \in Levels(kids, pids)
      OBVIOUS
    <3> QED BY <3>1, UncutLevel
  <2> HIDE DEF n, Values
  <2> QED BY <2>1
<1>3. PICK f \in [0..n -> Values] : f[0] = [all |-> pids, frontier |-> pids] /\ \A i \in 1..n : f[i] = next[<<i, f[i - 1]>>]
  <2> DEFINE base == [all |-> pids, frontier |-> pids]
  <2>1. base \in Values
    BY DEF Levels, Known
  <2> HIDE DEF n, next, Values, base
  <2>2. Recursions(n, Values, base, next) # {}
    BY <1>1, <1>2, <2>1, RecursionExists
  <2> QED BY <2>2 DEF Recursions, base
<1> DEFINE Follows(g) ==
             g = [i \in 0..n |-> IF i = 0 THEN [all |-> pids, frontier |-> pids] ELSE NextLevel(g[i - 1], kids, room)]
           chosen == CHOOSE g : Follows(g)
<1>4. Follows(f)
  <2>1. ASSUME NEW i \in 0..n
        PROVE  f[i] = IF i = 0 THEN [all |-> pids, frontier |-> pids] ELSE NextLevel(f[i - 1], kids, room)
    <3>1. CASE i = 0
      BY <1>3, <3>1
    <3>2. CASE i # 0
      <4>1. i \in 1..n /\ i - 1 \in 0..n
        BY <1>1, <3>2
      <4>2. <<i, f[i - 1]>> \in (1..n) \X Values
        BY <4>1
      <4> QED BY <1>3, <3>2, <4>1, <4>2
    <3> QED BY <3>1, <3>2
  <2> HIDE DEF n, Values, next
  <2> QED BY <2>1
<1>5. Follows(chosen)
  <2> HIDE DEF Follows
  <2> QED BY <1>4
<1>6. chosen[0] = [all |-> pids, frontier |-> pids] /\ \A i \in 1..n : chosen[i] = NextLevel(chosen[i - 1], kids, room)
  <2> HIDE DEF chosen
  <2>1. \A i \in 0..n : chosen[i] = IF i = 0 THEN [all |-> pids, frontier |-> pids] ELSE NextLevel(chosen[i - 1], kids, room)
    BY <1>5
  <2> HIDE DEF n, Follows
  <2>2. 0 \in 0..n /\ \A i \in 1..n : i \in 0..n /\ i # 0
    BY <1>1
  <2> QED BY <2>1, <2>2
<1>7. Descend(pids, kids, levels, room) = chosen[n].all
  BY DEF Descend
<1>8. Descending(pids, kids, levels, room, chosen)
  <2> HIDE DEF chosen
  <2> QED BY <1>6, <1>7 DEF Descending
<1> QED BY <1>8

\* What is reached after i levels: it comes from pids, what is not at its border
\* has its children in it, and each level that found one has added one.
ReachedBy(kids, pids, i, t) ==
  /\ t \in Levels(kids, pids) /\ pids \subseteq t.all /\ t.frontier \subseteq t.all
  /\ ChildrenOf(t.all \ t.frontier, kids) \subseteq t.all
  /\ t.frontier = {} \/ Cardinality(t.all) >= i + 1
  /\ \A s : pids \subseteq s /\ ChildrenOf(s, kids) \subseteq s => t.all \subseteq s

\* Nothing is reached but the processes themselves at first.
LEMMA FirstLevel ==
  ASSUME NEW kids, NEW pids, IsFiniteSet(Known(kids, pids))
  PROVE  ReachedBy(kids, pids, 0, [all |-> pids, frontier |-> pids])
<1>1. [all |-> pids, frontier |-> pids] \in Levels(kids, pids)
  BY DEF Levels, Known
<1>2. ChildrenOf(pids \ pids, kids) = {}
  BY DEF ChildrenOf
<1>3. ASSUME pids # {}
      PROVE  Cardinality(pids) >= 0 + 1
  <2>1. pids \in SUBSET Known(kids, pids)
    BY DEF Known
  <2>2. IsFiniteSet(pids)
    BY <2>1, FS_Subset
  <2>3. Cardinality(pids) # 0
    BY <1>3, <2>2, FS_EmptySet
  <2> QED BY <2>2, <2>3, FS_CardinalityType
<1> QED BY <1>1, <1>2, <1>3 DEF ReachedBy

\* Another level reaches more, or nothing is left to find.
LEMMA FurtherLevel ==
  ASSUME NEW kids, NEW pids, NEW room \in Nat,
         IsFiniteSet(Known(kids, pids)), Cardinality(Known(kids, pids)) <= room,
         NEW i \in Nat, NEW t, ReachedBy(kids, pids, i, t)
  PROVE  ReachedBy(kids, pids, i + 1, NextLevel(t, kids, room))
<1> DEFINE new == ChildrenOf(t.frontier, kids) \ t.all
<1>1. PICK u : u = NextLevel(t, kids, room)
  OBVIOUS
<1>2. /\ u \in Levels(kids, pids) /\ u.frontier = new
      /\ u.all = t.all \union ChildrenOf(t.frontier, kids)
  <2>1. t \in Levels(kids, pids)
    BY DEF ReachedBy
  <2> QED BY <1>1, <2>1, UncutLevel
<1>3. pids \subseteq u.all /\ u.frontier \subseteq u.all
  BY <1>2 DEF ReachedBy
<1>4. ChildrenOf(u.all \ u.frontier, kids) \subseteq u.all
  <2>1. u.all \ u.frontier = t.all
    BY <1>2
  <2>2. ChildrenOf(t.all, kids)
          \subseteq ChildrenOf(t.all \ t.frontier, kids) \union ChildrenOf(t.frontier, kids)
    BY DEF ChildrenOf
  <2> QED BY <1>2, <2>1, <2>2 DEF ReachedBy
<1>5. ASSUME u.frontier # {}
      PROVE  Cardinality(u.all) >= i + 1 + 1
  <2>1. t.frontier # {}
    BY <1>2, <1>5 DEF ChildrenOf
  <2>2. Cardinality(t.all) >= i + 1
    BY <2>1 DEF ReachedBy
  <2>3. IsFiniteSet(u.all) /\ Cardinality(u.all) \in Nat
    <3>1. u.all \in SUBSET Known(kids, pids)
      BY <1>2 DEF Levels
    <3> QED BY <3>1, FS_Subset, FS_CardinalityType
  <2>4. t.all \in SUBSET u.all /\ t.all # u.all
    BY <1>2, <1>5
  <2>5. Cardinality(t.all) <= Cardinality(u.all) /\ Cardinality(t.all) # Cardinality(u.all)
    BY <2>3, <2>4, FS_Subset
  <2>6. Cardinality(t.all) \in Nat
    BY <2>3, <2>4, FS_Subset, FS_CardinalityType
  <2> QED BY <2>2, <2>3, <2>5, <2>6
<1>6. ASSUME NEW s, pids \subseteq s, ChildrenOf(s, kids) \subseteq s
      PROVE  u.all \subseteq s
  <2>1. t.all \subseteq s /\ t.frontier \subseteq s
    BY <1>6 DEF ReachedBy
  <2>2. ChildrenOf(t.frontier, kids) \subseteq ChildrenOf(s, kids)
    BY <2>1 DEF ChildrenOf
  <2> QED BY <1>2, <1>6, <2>1, <2>2
<1>7. ReachedBy(kids, pids, i + 1, u)
  <2> HIDE DEF new
  <2> QED BY <1>2, <1>3, <1>4, <1>5, <1>6 DEF ReachedBy
<1> QED BY <1>1, <1>7

\* Where there is room and there are levels enough for all that are known, Descend
\* finds just the family.
LEMMA DescentIsFamily ==
  ASSUME NEW kids, NEW pids, NEW room \in Nat, NEW levels \in Nat,
         IsFiniteSet(Known(kids, pids)), Cardinality(Known(kids, pids)) <= room,
         Cardinality(Known(kids, pids)) <= levels + 1
  PROVE  Descend(pids, kids, levels, room) = Family(kids, pids)
<1>1. PICK dict : Descending(pids, kids, levels, room, dict)
  BY DescentRecursion
<1> DEFINE S == {i \in 0..levels : ReachedBy(kids, pids, i, dict[i])}
<1>2. 0 \in S
  <2>1. dict[0] = [all |-> pids, frontier |-> pids]
    BY <1>1 DEF Descending
  <2> QED BY <2>1, FirstLevel
<1>3. ASSUME NEW i \in 1..levels, i - 1 \in S
      PROVE  i \in S
  <2>1. dict[i] = NextLevel(dict[i - 1], kids, room)
    BY <1>1 DEF Descending
  <2>2. PICK j \in Nat : j = i - 1 /\ j + 1 = i
    OBVIOUS
  <2>3. ReachedBy(kids, pids, j, dict[j])
    BY <1>3, <2>2
  <2>4. ReachedBy(kids, pids, j + 1, NextLevel(dict[j], kids, room))
    BY <2>3, FurtherLevel
  <2> QED BY <2>1, <2>2, <2>4
<1>4. \A i \in 0..levels : i \in S
  <2> HIDE DEF S
  <2> QED BY <1>2, <1>3, SetInduction
<1>5. PICK t : t = dict[levels]
  OBVIOUS
<1>6. ReachedBy(kids, pids, levels, t)
  BY <1>4, <1>5
<1>7. t.all \in SUBSET Known(kids, pids)
  BY <1>6 DEF ReachedBy, Levels
<1>8. ChildrenOf(t.all, kids) \subseteq t.all
  <2>1. CASE t.frontier = {}
    <3>1. t.all \ t.frontier = t.all
      BY <2>1
    <3> QED BY <1>6, <3>1 DEF ReachedBy
  <2>2. CASE Cardinality(t.all) >= levels + 1
    <3>1. Cardinality(t.all) <= Cardinality(Known(kids, pids))
      BY <1>7, FS_Subset
    <3>2. IsFiniteSet(t.all) /\ Cardinality(t.all) \in Nat /\ Cardinality(Known(kids, pids)) \in Nat
      BY <1>7, FS_Subset, FS_CardinalityType
    <3>3. t.all = Known(kids, pids)
      BY <1>7, <2>2, <3>1, <3>2, FS_Subset
    <3>4. ChildrenOf(Known(kids, pids), kids) \subseteq Known(kids, pids)
      BY DEF ChildrenOf, Known
    <3> QED BY <3>3, <3>4
  <2> QED BY <1>6, <2>1, <2>2 DEF ReachedBy
<1>9. \A s : pids \subseteq s /\ ChildrenOf(s, kids) \subseteq s => t.all \subseteq s
  BY <1>6 DEF ReachedBy
<1>10. pids \subseteq t.all
  BY <1>6 DEF ReachedBy
<1> DEFINE Least(s) ==
             /\ pids \subseteq s /\ ChildrenOf(s, kids) \subseteq s
             /\ \A u \in SUBSET s : pids \subseteq u /\ ChildrenOf(u, kids) \subseteq u => u = s
<1>11. Least(t.all)
  BY <1>8, <1>9, <1>10
<1>12. \A s : Least(s) => s = t.all
  BY <1>8, <1>9, <1>10
<1>13. Family(kids, pids) = CHOOSE s \in SUBSET Known(kids, pids) : Least(s)
  BY DEF Family
<1>14. Family(kids, pids) = t.all
  <2> HIDE DEF Least
  <2> QED BY <1>7, <1>11, <1>12, <1>13
<1>15. Descend(pids, kids, levels, room) = t.all
  BY <1>1, <1>5 DEF Descending
<1> QED BY <1>14, <1>15

-----------------------------------------------------------------------------
(* Pulls. *)

\* Nothing comes from no process.
LEMMA FamilyOfNone == ASSUME NEW kids PROVE Family(kids, {}) = {}
<1> DEFINE Least(s) ==
             /\ {} \subseteq s /\ ChildrenOf(s, kids) \subseteq s
             /\ \A u \in SUBSET s : {} \subseteq u /\ ChildrenOf(u, kids) \subseteq u => u = s
<1>1. ChildrenOf({}, kids) = {}
  BY DEF ChildrenOf
<1>2. Least({})
  BY <1>1
<1>3. \A s : Least(s) => s = {}
  BY <1>1
<1>4. Family(kids, {}) = CHOOSE s \in SUBSET Known(kids, {}) : Least(s)
  BY DEF Family
<1>5. {} \in SUBSET Known(kids, {})
  OBVIOUS
<1> HIDE DEF Least
<1> QED BY <1>2, <1>3, <1>4, <1>5

\* What is known of an archive and a query is finite.
LEMMA KnownIsFinite ==
  ASSUME NEW name \in DOMAIN Archives, NEW q \in Queries
  PROVE  IsFiniteSet(Known(Archives[name].kids, q.pids))
<1> DEFINE kids == Archives[name].kids
           f == [k \in kids |-> k[1]]
           g == [k \in kids |-> k[2]]
<1>1. IsFiniteSet(kids) /\ IsFiniteSet(q.pids)
  BY LedgerQueriesAssumption
<1> HIDE DEF kids
<1>2. IsFiniteSet({k[1] : k \in kids})
  <2>1. f \in Surjection(kids, {k[1] : k \in kids})
    BY DEF Surjection
  <2> HIDE DEF f
  <2> QED BY <1>1, <2>1, FS_Surjection
<1>3. IsFiniteSet({k[2] : k \in kids})
  <2>1. g \in Surjection(kids, {k[2] : k \in kids})
    BY DEF Surjection
  <2> HIDE DEF g
  <2> QED BY <1>1, <2>1, FS_Surjection
<1>4. IsFiniteSet(Known(kids, q.pids))
  <2>1. IsFiniteSet({k[1] : k \in kids} \union {k[2] : k \in kids})
    BY <1>2, <1>3, FS_Union
  <2> QED BY <1>1, <2>1, FS_Union DEF Known
<1> QED BY <1>4 DEF kids

\* The rows of a query that are recent enough.
Recent(rows, q) == {r \in rows : q.since = Absent \/ r.at >= q.since}

\* A query returns the latest of them.
LEMMA QueriedRows ==
  ASSUME NEW rows, NEW q
  PROVE  QueryRows(rows, q.since, q.limit) = LatestRows(Recent(rows, q), q.limit)
BY DEF QueryRows, Recent

\* A latest row is among the latest of the rows it is queried with.
LEMMA LatestOfPart ==
  ASSUME NEW all, IsFiniteSet(all), NEW n \in Nat, NEW part \in SUBSET all,
         NEW r \in part, r \in LatestRows(all, n)
  PROVE  r \in LatestRows(part, n)
<1>1. /\ {x \in all : x.at > r.at} \in SUBSET all
      /\ {x \in part : x.at > r.at} \in SUBSET {x \in all : x.at > r.at}
  OBVIOUS
<1>2. IsFiniteSet({x \in all : x.at > r.at}) /\ IsFiniteSet({x \in part : x.at > r.at})
  BY <1>1, FS_Subset
<1>3. /\ Cardinality({x \in part : x.at > r.at}) <= Cardinality({x \in all : x.at > r.at})
      /\ Cardinality({x \in part : x.at > r.at}) \in Nat
      /\ Cardinality({x \in all : x.at > r.at}) \in Nat
  BY <1>1, <1>2, FS_Subset, FS_CardinalityType
<1>4. Cardinality({x \in all : x.at > r.at}) < n
  BY DEF LatestRows
<1>5. Cardinality({x \in part : x.at > r.at}) < n
  BY <1>3, <1>4
<1> QED BY <1>5 DEF LatestRows

\* The latest rows of some queries that are for everything that is wanted, and for
\* nothing else, are the latest of what is wanted.
LEMMA MergedIsLatest ==
  ASSUME NEW all, IsFiniteSet(all), \A r \in all : r.at \in Nat, NEW n \in Nat,
         NEW parts, UNION parts = all,
         NEW merged, \A r : r \in merged <=> \E part \in parts : r \in LatestRows(part, n)
  PROVE  LatestRows(merged, n) = LatestRows(all, n)
<1>1. merged \in SUBSET all
  <2> SUFFICES ASSUME NEW r \in merged
               PROVE  r \in all
    OBVIOUS
  <2>1. PICK part \in parts : r \in LatestRows(part, n)
    OBVIOUS
  <2> QED BY <2>1 DEF LatestRows
<1>2. LatestRows(all, n) \subseteq merged
  <2> SUFFICES ASSUME NEW r \in LatestRows(all, n)
               PROVE  r \in merged
    OBVIOUS
  <2>1. PICK part \in parts : r \in part
    BY DEF LatestRows
  <2>2. part \in SUBSET all
    OBVIOUS
  <2>3. r \in LatestRows(part, n)
    BY <2>1, <2>2, LatestOfPart
  <2> QED BY <2>3
<1> QED BY <1>1, <1>2, LatestOfEnough

\* What a pull is for; parts of some rows that are just that, but for their time;
\* and what queries for the parts return.
PidsWanted(A, q) == IF A.built THEN Family(A.kids, q.pids) ELSE q.pids
UsersWanted(A, q) == IF A.backend = "recorder" THEN q.users ELSE {}
RowsWanted(A, q, base) == {r \in base : Wanted(A, q, r)}

Covers(parts, A, q, base) ==
  \A r : (\E part \in parts : r \in part) <=>
           r \in base /\ (r.pid \in PidsWanted(A, q) \/ r.ip \in q.ips \/ r.user \in UsersWanted(A, q))

Returned(merged, parts, q) ==
  \A r : r \in merged <=> \E part \in parts : r \in QueryRows(part, q.since, q.limit)

\* Merged, what is returned for the parts has the latest rows of what is wanted.
LEMMA PullIsMerged ==
  ASSUME NEW A, NEW q \in Queries, NEW base, IsFiniteSet(base), \A r \in base : r.at \in Nat,
         NEW parts, Covers(parts, A, q, base), NEW merged, Returned(merged, parts, q)
  PROVE  LatestRows(merged, q.limit) = LatestRows(RowsWanted(A, q, base), q.limit)
<1> DEFINE lately == {Recent(part, q) : part \in parts}
<1>1. PICK all : all = RowsWanted(A, q, base)
  OBVIOUS
<1>2. IsFiniteSet(all) /\ \A r \in all : r.at \in Nat
  <2>1. all \in SUBSET base
    BY <1>1 DEF RowsWanted
  <2> QED BY <2>1, FS_Subset
<1>3. PICK n \in Nat : n = q.limit
  BY LedgerQueriesAssumption
<1>4. UNION lately = all
  <2>1. ASSUME NEW r
        PROVE  r \in UNION lately <=>
                 (\E part \in parts : r \in part) /\ (q.since = Absent \/ r.at >= q.since)
    BY DEF Recent
  <2>2. ASSUME NEW r
        PROVE  r \in all <=>
                 /\ r \in base /\ (q.since = Absent \/ r.at >= q.since)
                 /\ r.pid \in PidsWanted(A, q) \/ r.ip \in q.ips \/ r.user \in UsersWanted(A, q)
    BY <1>1 DEF RowsWanted, Wanted, PidsWanted, UsersWanted
  <2> HIDE DEF lately
  <2>3. \A r : r \in UNION lately <=> r \in all
    BY <2>1, <2>2 DEF Covers
  <2> QED BY <2>3
<1>5. ASSUME NEW r
      PROVE  r \in merged <=> \E part \in lately : r \in LatestRows(part, n)
  <2>1. ASSUME NEW part
        PROVE  QueryRows(part, q.since, q.limit) = LatestRows(Recent(part, q), n)
    BY <1>3, QueriedRows
  <2>2. ASSUME r \in merged
        PROVE  \E part \in lately : r \in LatestRows(part, n)
    <3>1. PICK part \in parts : r \in QueryRows(part, q.since, q.limit)
      BY <2>2 DEF Returned
    <3>2. r \in LatestRows(Recent(part, q), n) /\ Recent(part, q) \in lately
      BY <2>1, <3>1
    <3> QED BY <3>2
  <2>3. ASSUME NEW part \in lately, r \in LatestRows(part, n)
        PROVE  r \in merged
    <3>1. PICK whole \in parts : part = Recent(whole, q)
      OBVIOUS
    <3>2. r \in QueryRows(whole, q.since, q.limit)
      BY <2>1, <2>3, <3>1
    <3> QED BY <3>2 DEF Returned
  <2> HIDE DEF lately
  <2> QED BY <2>2, <2>3
<1> HIDE DEF lately
<1>6. LatestRows(merged, n) = LatestRows(all, n)
  BY <1>2, <1>4, <1>5, MergedIsLatest
<1> QED BY <1>1, <1>3, <1>6

\* The processes a pull looks for are the family of those it names.
LEMMA ResolvedIsFamily ==
  ASSUME NEW name \in DOMAIN Archives, NEW A, A = Archives[name], NEW q \in Queries,
         Cardinality(Known(A.kids, q.pids)) <= MaxPids,
         Cardinality(Known(A.kids, q.pids)) <= MaxLevels + 1
  PROVE  (IF q.pids = {} THEN {} ELSE ResolveDescendantPids(A, q.pids))
           = PidsWanted(A, q)
<1>1. MaxPids \in Nat /\ MaxLevels \in Nat /\ IsFiniteSet(Known(A.kids, q.pids))
  BY KnownIsFinite, LedgerQueriesAssumption
<1>2. Descend(q.pids, A.kids, MaxLevels, MaxPids) = Family(A.kids, q.pids)
  BY <1>1, DescentIsFamily
<1> QED BY <1>2, FamilyOfNone DEF ResolveDescendantPids, PidsWanted

\* Both backends merge what they query for in that way.
LEMMA LedgerPullIsLatest ==
  ASSUME NEW name \in DOMAIN Archives, NEW A, A = Archives[name], NEW q \in Queries,
         A.backend = "ledger", q.pids \union q.ips # {},
         Cardinality(Known(A.kids, q.pids)) <= MaxPids,
         Cardinality(Known(A.kids, q.pids)) <= MaxLevels + 1
  PROVE  PullFromLedger(A, q) = LatestWanted(A, q)
<1>1. PICK pids : pids = IF q.pids = {} THEN {} ELSE ResolveDescendantPids(A, q.pids)
  OBVIOUS
<1>2. pids = PidsWanted(A, q)
  BY <1>1, ResolvedIsFamily
<1>3. PICK parts : parts = {OfPid(A.rows, p) : p \in pids} \union {OfIp(A.rows, a) : a \in q.ips}
  OBVIOUS
<1>4. PICK merged : merged = UNION ({QueryRows(OfPid(A.rows, p), q.since, q.limit) : p \in pids}
                                  \union {QueryRows(OfIp(A.rows, a), q.since, q.limit) : a \in q.ips})
  OBVIOUS
<1>5. PullFromLedger(A, q) = LatestRows(merged, q.limit)
  <2>1. ~NoFilter(q)
    BY DEF NoFilter
  <2> QED BY <1>1, <1>4, <2>1 DEF PullFromLedger
<1>6. Returned(merged, parts, q)
  BY <1>3, <1>4 DEF Returned
<1>7. Covers(parts, A, q, A.rows)
  <2>1. \A r : (\E part \in parts : r \in part) <=>
                 (\E p \in pids : r \in OfPid(A.rows, p)) \/ (\E a \in q.ips : r \in OfIp(A.rows, a))
    BY <1>3
  <2>2. UsersWanted(A, q) = {}
    BY DEF UsersWanted
  <2> QED BY <1>2, <2>1, <2>2 DEF Covers, OfPid, OfIp
<1>8. IsFiniteSet(A.rows) /\ \A r \in A.rows : r.at \in Nat
  BY LedgerQueriesAssumption
<1>9. PICK base : base = A.rows
  OBVIOUS
<1>10. LatestRows(merged, q.limit) = LatestRows(RowsWanted(A, q, base), q.limit)
  BY <1>6, <1>7, <1>8, <1>9, PullIsMerged
<1> QED BY <1>5, <1>9, <1>10 DEF LatestWanted, RowsWanted

LEMMA RecorderPullIsLatest ==
  ASSUME NEW name \in DOMAIN Archives, NEW A, A = Archives[name], NEW q \in Queries,
         A.backend = "recorder",
         Cardinality(Known(A.kids, q.pids)) <= MaxPids,
         Cardinality(Known(A.kids, q.pids)) <= MaxLevels + 1
  PROVE  PullFromFlightRecorder(A, q) = LatestWanted(A, q)
<1>1. PICK pids : pids = IF q.pids = {} THEN {} ELSE ResolveDescendantPids(A, q.pids)
  OBVIOUS
<1>2. pids = PidsWanted(A, q)
  BY <1>1, ResolvedIsFamily
<1>3. PICK ofPids : ofPids = {r \in A.recorder : r.pid \in pids}
  OBVIOUS
<1>4. PICK parts : parts = {ofPids} \union {OfIp(A.recorder, a) : a \in q.ips}
                           \union {OfUser(A.recorder, u) : u \in q.users}
  OBVIOUS
<1>5. PICK merged :
        merged = UNION ({QueryRows(ofPids, q.since, q.limit)}
                       \union {QueryRows(OfIp(A.recorder, a), q.since, q.limit) : a \in q.ips}
                       \union {QueryRows(OfUser(A.recorder, u), q.since, q.limit) : u \in q.users})
  OBVIOUS
<1>6. PullFromFlightRecorder(A, q) = LatestRows(merged, q.limit)
  BY <1>1, <1>3, <1>5 DEF PullFromFlightRecorder
<1>7. Returned(merged, parts, q)
  BY <1>4, <1>5 DEF Returned
<1>8. Covers(parts, A, q, A.recorder)
  <2>1. \A r : (\E part \in parts : r \in part) <=>
                 \/ r \in ofPids \/ (\E a \in q.ips : r \in OfIp(A.recorder, a))
                 \/ (\E u \in q.users : r \in OfUser(A.recorder, u))
    BY <1>4
  <2>2. UsersWanted(A, q) = q.users
    BY DEF UsersWanted
  <2> QED BY <1>2, <1>3, <2>1, <2>2 DEF Covers, OfIp, OfUser
<1>9. IsFiniteSet(A.recorder) /\ \A r \in A.recorder : r.at \in Nat
  BY LedgerQueriesAssumption
<1>10. PICK base : base = A.recorder
  OBVIOUS
<1>11. LatestRows(merged, q.limit) = LatestRows(RowsWanted(A, q, base), q.limit)
  BY <1>7, <1>8, <1>9, <1>10, PullIsMerged
<1> QED BY <1>6, <1>10, <1>11 DEF LatestWanted, RowsWanted

\* What has been answered is the answer to the query.
PullInv ==
  /\ archive \in DOMAIN Archives
  /\ \/ query = NoQuery
     \/ query \in Queries /\ reply = ExecuteQuery(Archives[archive], query)

\* The answer to a pull that names processes or addresses is the latest of what
\* they and their descendants have left behind, for every archive and query whose
\* processes are no more, and no deeper, than what is looked for
\* (pull_surveillance_logs and pull_ocsf_ledger of federated_queries.py).
THEOREM PullsAreLatest == LedgerQueriesSpec => []PullIsLatest
<1>1. LedgerQueriesInit => PullInv
  BY DEF LedgerQueriesInit, PullInv
<1>2. PullInv /\ [LedgerQueriesNext]_ledgerQueryVars => PullInv'
  BY DEF PullInv, LedgerQueriesNext, ledgerQueryVars
<1>3. PullInv => PullIsLatest
  <2> DEFINE A == Archives[archive]
             known == Cardinality(Known(A.kids, query.pids))
  <2> SUFFICES ASSUME PullInv,
                      query.type \in {"pull_surveillance_logs", "pull_ocsf_ledger"},
                      reply.status = "ok", query.pids \union query.ips # {},
                      known <= MaxPids, known <= MaxLevels + 1
               PROVE  reply.records = LatestWanted(A, query)
    BY DEF PullIsLatest
  <2>1. query # NoQuery
    BY DEF NoQuery
  <2>2. archive \in DOMAIN Archives /\ query \in Queries /\ reply = ExecuteQuery(A, query)
    BY <2>1 DEF PullInv
  <2>3. \/ reply = Reply("error", {})
        \/ A.backend = "ledger" /\ reply = Reply("ok", PullFromLedger(A, query))
        \/ A.backend = "recorder" /\ reply = Reply("ok", PullFromFlightRecorder(A, query))
    BY <2>2 DEF ExecuteQuery, PullSurveillanceLogs, PullOcsfLedger
  <2>4. reply # Reply("error", {})
    BY DEF Reply
  <2>5. PICK x : x = A
    OBVIOUS
  <2>6. CASE A.backend = "ledger" /\ reply = Reply("ok", PullFromLedger(A, query))
    <3>1. PullFromLedger(x, query) = LatestWanted(x, query)
      BY <2>2, <2>5, <2>6, LedgerPullIsLatest
    <3> QED BY <2>5, <2>6, <3>1 DEF Reply
  <2>7. CASE A.backend = "recorder" /\ reply = Reply("ok", PullFromFlightRecorder(A, query))
    <3>1. PullFromFlightRecorder(x, query) = LatestWanted(x, query)
      BY <2>2, <2>5, <2>7, RecorderPullIsLatest
    <3> QED BY <2>5, <2>7, <3>1 DEF Reply
  <2> QED BY <2>3, <2>4, <2>6, <2>7
<1> QED BY <1>1, <1>2, <1>3, PTL DEF LedgerQueriesSpec

-----------------------------------------------------------------------------
(* The queries of the process graph: looking up a process. *)

\* The newest of some nodes is one of them.
LEMMA NewestIsGreatest ==
  ASSUME NEW ids \in SUBSET Nodes, IsFiniteSet(ids), ids # {}
  PROVE  Newest(ids) \in ids /\ \A m \in ids : m[2] <= Newest(ids)[2]
<1> DEFINE f == [n \in ids |-> n[2]]
<1>1. f \in [ids -> Nat]
  BY DEF Nodes
<1> HIDE DEF f
<1>2. PICK x \in ids : \A y \in ids : f[y] <= f[x]
  BY <1>1, GreatestOfFinite
<1>3. \A y \in ids : y[2] <= x[2]
  BY <1>2 DEF f
<1> QED BY <1>3 DEF Newest

\* An index that knows every node of the graph, and ghosts.
InIndex(ix) ==
  /\ ix \subseteq Nodes /\ IsFiniteSet(ix)
  /\ V.built => DOMAIN V.nodes \subseteq ix

\* ... and does so without some of its ghosts.
Ghosts(gone) == gone \intersect DOMAIN V.nodes = {}

LEMMA GhostsGo ==
  ASSUME NEW ix, InIndex(ix), NEW gone, Ghosts(gone)
  PROVE  InIndex(ix \ gone)
<1>1. ix \ gone \in SUBSET ix
  OBVIOUS
<1> QED BY <1>1, FS_Subset DEF InIndex, Ghosts

\* A view is of nodes, rows and processes.
LEMMA ViewIsSound ==
  ASSUME view \in DOMAIN Views
  PROVE  /\ DOMAIN V.nodes \union DOMAIN V.ghosts \subseteq Nodes
         /\ IsFiniteSet(DOMAIN V.nodes) /\ IsFiniteSet(DOMAIN V.ghosts) /\ IsFiniteSet(V.ledger)
         /\ \A n \in DOMAIN V.nodes : V.nodes[n].parent \in Nat
         /\ \A n \in DOMAIN V.nodes :
              IsFiniteSet(V.nodes[n].files) /\ \A f \in V.nodes[n].files : f.at \in Nat
         /\ \A r \in V.ledger : {r.pid, r.at, r.parent} \subseteq Nat
         /\ \A p \in DOMAIN V.live : {V.live[p].start, V.live[p].parent} \subseteq Nat
BY QueriesAssumption DEF V

\* A process that was found, in time while there is an index.
Users == {Nobody} \union {V.live[p].user : p \in DOMAIN V.live}
Persons == [id : Nodes, parent : Nat, user : Users]
IsOf(node, pid, ts) ==
  /\ node \in Persons /\ node.id[1] = pid
  /\ V.built => By(node.id[2], ts)

LEMMA FoundIsOf ==
  ASSUME NEW pid \in Nat, NEW ts, NEW at \in Nat, NEW parent \in Nat, NEW user \in Users, By(at, ts)
  PROVE  IsOf(Found(<<pid, at>>, parent, user), pid, ts)
BY DEF IsOf, Found, Nodes, Persons

\* Some nodes of a pid: none, or the newest of them.
LEMMA NewestOfPid ==
  ASSUME NEW ids \in SUBSET Nodes, IsFiniteSet(ids)
  PROVE  Newest(ids) = Nobody \/ Newest(ids) \in ids
BY NewestIsGreatest DEF Newest

LEMMA InGraphIsOf ==
  ASSUME view \in DOMAIN Views, NEW n \in DOMAIN V.nodes, NEW ts, NEW pid \in Nat, n[1] = pid,
         V.built => By(n[2], ts)
  PROVE  IsOf(InGraph(n), pid, ts)
<1>1. n \in Nodes /\ V.nodes[n].parent \in Nat
  BY ViewIsSound
<1>2. n # Nobody
  BY <1>1, QueriesAssumption
<1>3. InGraph(n) = [id |-> n, parent |-> V.nodes[n].parent, user |-> Nobody]
  BY <1>2 DEF InGraph, Found
<1> QED BY <1>1, <1>3 DEF IsOf, Persons, Users

LEMMA FieldsIsOf ==
  ASSUME view \in DOMAIN Views, NEW ix, InIndex(ix), NEW pid \in Nat, NEW ts,
         NEW f, f = QueryProcessFields(ix, pid, ts), f.node # Nobody
  PROVE  IsOf(f.node, pid, ts)
<1>1. CASE ~V.built
  <2> DEFINE n == IF ts # Untimed \/ NodesOf(pid) = {} THEN Newest(NodesOf(pid))
                  ELSE CHOOSE m \in NodesOf(pid) : TRUE
  <2>1. f = [node |-> InGraph(n), gone |-> {}]
    BY <1>1 DEF QueryProcessFields, FieldsByScan
  <2>2. NodesOf(pid) \in SUBSET Nodes /\ IsFiniteSet(NodesOf(pid))
    <3>1. NodesOf(pid) \subseteq DOMAIN V.nodes
      BY DEF NodesOf
    <3>2. NodesOf(pid) \in SUBSET (DOMAIN V.nodes) /\ IsFiniteSet(DOMAIN V.nodes)
      BY <3>1, ViewIsSound
    <3> QED BY <3>1, <3>2, ViewIsSound, FS_Subset
  <2>3. n = Nobody \/ n \in NodesOf(pid)
    BY <2>2, NewestOfPid
  <2> HIDE DEF n
  <2>4. n # Nobody
    BY <2>1 DEF InGraph
  <2>5. n \in DOMAIN V.nodes /\ n[1] = pid
    BY <2>3, <2>4 DEF NodesOf
  <2>6. IsOf(InGraph(n), pid, ts)
    BY <1>1, <2>5, InGraphIsOf
  <2> QED BY <2>1, <2>6
<1>2. CASE V.built /\ ts # Untimed
  <2> DEFINE ids == {m \in IdsOf(ix, pid) : m[2] > 0 /\ m[2] <= ts}
             n == Newest(ids)
  <2>1. f = IF n \in {Nobody} \union DOMAIN V.nodes THEN [node |-> InGraph(n), gone |-> {}]
            ELSE [node |-> Nobody, gone |-> {n}]
    BY <1>2 DEF QueryProcessFields, FieldsAtTime, NodeIdAtTime
  <2>2. ids \in SUBSET Nodes /\ IsFiniteSet(ids)
    BY FS_Subset DEF IdsOf, InIndex
  <2>3. n = Nobody \/ n \in ids
    <3> HIDE DEF ids
    <3> QED BY <2>2, NewestOfPid
  <2>4. n \in ids => n[1] = pid /\ By(n[2], ts)
    BY DEF IdsOf, By
  <2> HIDE DEF n, ids
  <2>5. n # Nobody /\ n \in DOMAIN V.nodes /\ f = [node |-> InGraph(n), gone |-> {}]
    BY <2>1 DEF InGraph
  <2>6. IsOf(InGraph(n), pid, ts)
    BY <2>3, <2>4, <2>5, InGraphIsOf
  <2> QED BY <2>5, <2>6
<1>3. CASE V.built /\ ts = Untimed
  <2> DEFINE ids == IdsOf(ix, pid) \intersect DOMAIN V.nodes
             n == Newest(ids)
  <2>1. f = [node |-> InGraph(n), gone |-> {m \in IdsOf(ix, pid) : n = Nobody \/ m[2] > n[2]}]
    BY <1>3 DEF QueryProcessFields, FieldsNewest
  <2>2. ids \in SUBSET Nodes /\ IsFiniteSet(ids)
    BY FS_Subset DEF IdsOf, InIndex
  <2>3. n = Nobody \/ n \in ids
    <3> HIDE DEF ids
    <3> QED BY <2>2, NewestOfPid
  <2>4. n \in ids => n[1] = pid /\ n \in DOMAIN V.nodes
    BY DEF IdsOf
  <2> HIDE DEF n, ids
  <2>5. n # Nobody /\ f.node = InGraph(n)
    BY <2>1 DEF InGraph
  <2>6. By(n[2], ts)
    BY <1>3 DEF By
  <2>7. IsOf(InGraph(n), pid, ts)
    BY <2>3, <2>4, <2>5, <2>6, InGraphIsOf
  <2> QED BY <2>5, <2>7
<1> QED BY <1>1, <1>2, <1>3

\* What a lookup evicts is not in the graph.
LEMMA FieldsGone ==
  ASSUME view \in DOMAIN Views, NEW ix, InIndex(ix), NEW pid, NEW ts
  PROVE  Ghosts(QueryProcessFields(ix, pid, ts).gone)
<1> DEFINE f == QueryProcessFields(ix, pid, ts)
<1>1. CASE ~V.built
  <2>1. f.gone = {}
    BY <1>1 DEF QueryProcessFields, FieldsByScan
  <2> QED BY <2>1 DEF Ghosts
<1>2. CASE V.built /\ ts # Untimed
  <2>1. PICK n : f = IF n \in {Nobody} \union DOMAIN V.nodes THEN [node |-> InGraph(n), gone |-> {}]
                     ELSE [node |-> Nobody, gone |-> {n}]
    BY <1>2 DEF QueryProcessFields, FieldsAtTime
  <2>2. f.gone = {} \/ (f.gone = {n} /\ n \notin DOMAIN V.nodes)
    BY <2>1
  <2> QED BY <2>2 DEF Ghosts
<1>3. CASE V.built /\ ts = Untimed
  <2> DEFINE ids == IdsOf(ix, pid) \intersect DOMAIN V.nodes
             n == Newest(ids)
  <2>1. f.gone = {m \in IdsOf(ix, pid) : n = Nobody \/ m[2] > n[2]}
    BY <1>3 DEF QueryProcessFields, FieldsNewest
  <2>2. ids \in SUBSET Nodes /\ IsFiniteSet(ids)
    BY FS_Subset DEF IdsOf, InIndex
  <2>3. ASSUME NEW m \in ids
        PROVE  n # Nobody /\ n \in ids /\ ~(m[2] > n[2])
    <3> HIDE DEF ids
    <3>1. n \in ids /\ \A x \in ids : x[2] <= n[2]
      BY <2>2, <2>3, NewestIsGreatest
    <3>2. n \in Nodes /\ m \in Nodes
      BY <2>2, <2>3, <3>1
    <3>3. n[2] \in Nat /\ m[2] \in Nat /\ n # Nobody
      BY <3>2, QueriesAssumption DEF Nodes
    <3>4. m[2] <= n[2]
      BY <2>3, <3>1
    <3> QED BY <3>1, <3>3, <3>4
  <2> QED BY <2>1, <2>3 DEF Ghosts
<1> QED BY <1>1, <1>2, <1>3

LEMMA LookUpGone ==
  ASSUME view \in DOMAIN Views, NEW ix, InIndex(ix), NEW pid, NEW ts
  PROVE  Ghosts(LookUpProcess(ix, pid, ts).gone)
<1> DEFINE g == QueryProcessFields(ix, pid, ts)
           d == QueryProcessFromLedger(pid, ts)
           o == QueryProcessFromOs(pid, ts)
<1>1. LookUpProcess(ix, pid, ts) =
        IF g.node # Nobody THEN g ELSE [g EXCEPT !.node = IF d # Nobody THEN d ELSE o]
  BY DEF LookUpProcess, FirstFound
<1>2. \E n, h : g = [node |-> n, gone |-> h]
  BY DEF QueryProcessFields, FieldsByScan, FieldsAtTime, FieldsNewest
<1>3. Ghosts(g.gone)
  BY FieldsGone
<1> HIDE DEF g, d, o
<1> QED BY <1>1, <1>2, <1>3

LEMMA LedgerIsOf ==
  ASSUME view \in DOMAIN Views, NEW pid \in Nat, NEW ts, NEW f,
         f = QueryProcessFromLedger(pid, ts), f # Nobody
  PROVE  IsOf(f, pid, ts)
<1> DEFINE rows == {r \in V.ledger : r.pid = pid}
           latest == CHOOSE x \in rows : \A y \in rows : y.at <= x.at
           at == [r \in rows |-> r.at]
<1>1. rows # {} /\ By(latest.at, ts) /\ f = Found(<<pid, latest.at>>, latest.parent, Nobody)
  BY DEF QueryProcessFromLedger
<1>2. IsFiniteSet(rows) /\ \A r \in rows : r.at \in Nat /\ r.parent \in Nat
  BY ViewIsSound, FS_Subset
<1>3. at \in [rows -> Nat]
  BY <1>2
<1>4. PICK x \in rows : \A y \in rows : at[y] <= at[x]
  <2> HIDE DEF rows, at
  <2> QED BY <1>1, <1>2, <1>3, GreatestOfFinite
<1>5. \A y \in rows : y.at <= x.at
  <2>1. \A y \in rows : at[y] = y.at
    OBVIOUS
  <2> QED BY <1>4, <2>1
<1> HIDE DEF rows
<1>6. latest \in rows
  BY <1>5
<1> HIDE DEF latest
<1>7. Nobody \in Users
  BY DEF Users
<1> QED BY <1>1, <1>2, <1>6, <1>7, FoundIsOf

LEMMA OsIsOf ==
  ASSUME view \in DOMAIN Views, NEW pid \in Nat, NEW ts, NEW f,
         f = QueryProcessFromOs(pid, ts), f # Nobody
  PROVE  IsOf(f, pid, ts)
<1>1. /\ pid \in DOMAIN V.live /\ By(V.live[pid].start, ts)
      /\ f = Found(<<pid, V.live[pid].start>>, V.live[pid].parent, V.live[pid].user)
  BY DEF QueryProcessFromOs
<1>2. V.live[pid].start \in Nat /\ V.live[pid].parent \in Nat
  BY <1>1, ViewIsSound
<1>3. V.live[pid].user \in Users
  BY <1>1 DEF Users
<1> QED BY <1>1, <1>2, <1>3, FoundIsOf

\* Whoever answers, what is found is the process that was looked for, and was
\* there by then.
LEMMA LookUpIsOf ==
  ASSUME view \in DOMAIN Views, NEW ix, InIndex(ix), NEW pid \in Nat, NEW ts,
         NEW l, l = LookUpProcess(ix, pid, ts), l.node # Nobody
  PROVE  IsOf(l.node, pid, ts)
<1> DEFINE g == QueryProcessFields(ix, pid, ts)
           d == QueryProcessFromLedger(pid, ts)
           o == QueryProcessFromOs(pid, ts)
<1>1. l = IF g.node # Nobody THEN g ELSE [g EXCEPT !.node = IF d # Nobody THEN d ELSE o]
  BY DEF LookUpProcess, FirstFound
<1>2. g.node # Nobody => IsOf(g.node, pid, ts)
  BY FieldsIsOf
<1>3. d # Nobody => IsOf(d, pid, ts)
  BY LedgerIsOf
<1>4. o # Nobody => IsOf(o, pid, ts)
  BY OsIsOf
<1>5. g.node = Nobody => l.node = IF d # Nobody THEN d ELSE o
  <2>1. \E n, h : g = [node |-> n, gone |-> h]
    BY DEF QueryProcessFields, FieldsByScan, FieldsAtTime, FieldsNewest
  <2> HIDE DEF g, d, o
  <2> QED BY <1>1, <2>1
<1> HIDE DEF g, d, o
<1> QED BY <1>1, <1>2, <1>3, <1>4, <1>5

-----------------------------------------------------------------------------
(* The way up. *)

Ways ==
  {w \in [chain : Seq(Persons), ix : SUBSET Nodes, visited : SUBSET Nat, done : BOOLEAN] :
     InIndex(w.ix) /\ w.chain # <<>>}

\* After at most some hops up from pid.
OnTheWay(w, pid, ts, hops) ==
  /\ w \in Ways /\ Len(w.chain) \in 1..(hops + 1)
  /\ w.chain[Len(w.chain)].id[1] = pid
  /\ \A i \in 1..Len(w.chain) : w.chain[i].id[1] \in w.visited
  /\ V.built => \A i \in 1..Len(w.chain) : By(w.chain[i].id[2], ts)
  /\ \A i, j \in 1..Len(w.chain) : w.chain[i].id[1] = w.chain[j].id[1] => i = j
  /\ \A i \in 1..(Len(w.chain) - 1) : w.chain[i + 1].parent = w.chain[i].id[1]

\* A hop finds the parent of the first, leaves the chain as it is, or adds to it.
LEMMA HopEither ==
  ASSUME view \in DOMAIN Views, NEW w \in Ways, NEW ts, NEW h, h = Hop(w, ts)
  PROVE  /\ h \in Ways /\ w.visited \subseteq h.visited
         /\ \/ h.chain = w.chain
            \/ \E n \in Persons : /\ IsOf(n, w.chain[1].parent, ts) /\ h.chain = <<n>> \o w.chain
                               /\ n.id[1] \notin w.visited /\ n.id[1] \in h.visited
<1> DEFINE parent == Head(w.chain).parent
           l == LookUpProcess(w.ix, parent, ts)
<1>1. /\ w = [chain |-> w.chain, ix |-> w.ix, visited |-> w.visited, done |-> w.done]
      /\ w.chain \in Seq(Persons) /\ w.chain # <<>> /\ InIndex(w.ix) /\ w.visited \subseteq Nat
      /\ w.done \in BOOLEAN
  BY DEF Ways, InIndex
<1>2. Head(w.chain) \in Persons /\ Head(w.chain) = w.chain[1]
  BY <1>1, HeadTailProperties
<1>3. parent = w.chain[1].parent /\ parent \in Nat
  BY <1>2 DEF Persons
<1> HIDE DEF parent
<1>4. h = Climb(w, parent, l)
  BY DEF Hop, parent
<1>5. l.node # Nobody => IsOf(l.node, parent, ts)
  BY <1>1, <1>3, LookUpIsOf
<1>8. Ghosts(l.gone)
  BY <1>1, LookUpGone
<1> HIDE DEF l
<1>6. CASE w.done \/ parent = 0 \/ parent \in w.visited
  <2>1. h = [w EXCEPT !.done = TRUE]
    BY <1>4, <1>6 DEF Climb
  <2>2. h = [chain |-> w.chain, ix |-> w.ix, visited |-> w.visited, done |-> TRUE]
    BY <1>1, <2>1
  <2> QED BY <2>2 DEF Ways
<1>7. CASE ~(w.done \/ parent = 0 \/ parent \in w.visited)
  <2> DEFINE done == l.node = Nobody
             ix == w.ix \ l.gone
             visited == w.visited \union {parent}
             chain == IF l.node = Nobody THEN w.chain ELSE <<l.node>> \o w.chain
  <2>1. h = [ix |-> ix, visited |-> visited, done |-> done, chain |-> chain]
    BY <1>4, <1>7 DEF Climb
  <2>2. InIndex(ix) /\ ix \in SUBSET Nodes
    <3>1. InIndex(w.ix \ l.gone)
      BY <1>1, <1>8, GhostsGo
    <3> QED BY <3>1 DEF InIndex
  <2>3. visited \in SUBSET Nat /\ w.visited \subseteq visited /\ parent \in visited
    BY <1>1, <1>3
  <2>4. done \in BOOLEAN
    OBVIOUS
  <2>5. \/ chain = w.chain
        \/ IsOf(l.node, parent, ts) /\ chain = <<l.node>> \o w.chain
    BY <1>5
  <2>6. chain \in Seq(Persons) /\ chain # <<>>
    <3>1. CASE chain = w.chain
      BY <1>1, <3>1
    <3>2. CASE IsOf(l.node, parent, ts) /\ chain = <<l.node>> \o w.chain
      <4>1. l.node \in Persons
        BY <3>2 DEF IsOf
      <4> HIDE DEF chain
      <4>2. chain \in Seq(Persons) /\ Len(chain) = Len(w.chain) + 1 /\ Len(w.chain) \in Nat
        BY <1>1, <3>2, <4>1, ConsIsSeq
      <4> QED BY <4>2, EmptySeq
    <3> QED BY <2>5, <3>1, <3>2
  <2> HIDE DEF done, ix, visited, chain
  <2>7. h \in Ways
    <3>1. h \in [chain : Seq(Persons), ix : SUBSET Nodes, visited : SUBSET Nat, done : BOOLEAN]
      BY <2>1, <2>2, <2>3, <2>4, <2>6
    <3>2. h.ix = ix /\ h.chain = chain
      BY <2>1
    <3> QED BY <2>2, <2>6, <3>1, <3>2 DEF Ways
  <2>8. h.visited = visited /\ h.chain = chain
    BY <2>1
  <2>9. CASE chain = w.chain
    BY <2>3, <2>7, <2>8, <2>9
  <2>10. CASE IsOf(l.node, parent, ts) /\ chain = <<l.node>> \o w.chain
    <3>1. l.node \in Persons /\ l.node.id[1] = parent
      BY <2>10 DEF IsOf
    <3> QED BY <1>3, <1>7, <2>3, <2>7, <2>8, <2>10, <3>1
  <2> QED BY <2>5, <2>9, <2>10
<1> QED BY <1>6, <1>7

\* So that the chain stays one of parents, each of them once.
LEMMA HopStays ==
  ASSUME view \in DOMAIN Views, NEW pid, NEW ts, NEW hops \in Nat,
         NEW w, OnTheWay(w, pid, ts, hops), NEW h, h = Hop(w, ts)
  PROVE  OnTheWay(h, pid, ts, hops + 1)
<1>1. w \in Ways
  BY DEF OnTheWay
<1>2. /\ h \in Ways /\ w.visited \subseteq h.visited
      /\ \/ h.chain = w.chain
         \/ \E n \in Persons : /\ IsOf(n, w.chain[1].parent, ts) /\ h.chain = <<n>> \o w.chain
                            /\ n.id[1] \notin w.visited /\ n.id[1] \in h.visited
  BY <1>1, HopEither
<1>3. CASE h.chain = w.chain
  <2>1. Len(h.chain) \in 1..(hops + 1 + 1)
    BY <1>3 DEF OnTheWay
  <2> QED BY <1>2, <1>3, <2>1 DEF OnTheWay
<1>4. ASSUME NEW n \in Persons, IsOf(n, w.chain[1].parent, ts), h.chain = <<n>> \o w.chain,
             n.id[1] \notin w.visited, n.id[1] \in h.visited
      PROVE  OnTheWay(h, pid, ts, hops + 1)
  <2> DEFINE c == w.chain
             d == h.chain
             k == Len(c)
  <2>1. c \in Seq(Persons)
    BY <1>1 DEF Ways
  <2>2. /\ Len(d) = k + 1 /\ k \in 1..(hops + 1) /\ k \in Nat
        /\ d[1] = n /\ \A i \in 1..k : d[i + 1] = c[i]
    BY <1>4, <2>1, ConsIsSeq DEF OnTheWay
  <2>3. n.id[1] = c[1].parent /\ (V.built => By(n.id[2], ts))
    BY <1>4 DEF IsOf
  <2>4. /\ c[k].id[1] = pid
        /\ \A i \in 1..k : c[i].id[1] \in w.visited
        /\ V.built => \A i \in 1..k : By(c[i].id[2], ts)
        /\ \A i, j \in 1..k : c[i].id[1] = c[j].id[1] => i = j
        /\ \A i \in 1..(k - 1) : c[i + 1].parent = c[i].id[1]
    BY DEF OnTheWay
  <2> HIDE DEF c, d, k
  <2>5. d[Len(d)].id[1] = pid
    BY <2>2, <2>4
  <2>6. \A i \in 1..Len(d) : i = 1 \/ (i - 1 \in 1..k /\ d[i] = c[i - 1])
    <3> TAKE i \in 1..Len(d)
    <3>1. i # 1 => i - 1 \in 1..k /\ (i - 1) + 1 = i
      BY <2>2
    <3> QED BY <2>2, <3>1
  <2>7. \A i \in 1..Len(d) : d[i].id[1] \in h.visited
    BY <1>2, <1>4, <2>2, <2>4, <2>6
  <2>8. V.built => \A i \in 1..Len(d) : By(d[i].id[2], ts)
    BY <2>2, <2>3, <2>4, <2>6
  <2>9. \A i, j \in 1..Len(d) : d[i].id[1] = d[j].id[1] => i = j
    <3> TAKE i, j \in 1..Len(d)
    <3> HAVE d[i].id[1] = d[j].id[1]
    <3>1. i # 1 => d[i].id[1] \in w.visited /\ i - 1 \in 1..k /\ d[i] = c[i - 1]
      BY <2>4, <2>6
    <3>2. j # 1 => d[j].id[1] \in w.visited /\ j - 1 \in 1..k /\ d[j] = c[j - 1]
      BY <2>4, <2>6
    <3>3. CASE i = 1 \/ j = 1
      BY <1>4, <2>2, <3>1, <3>2, <3>3
    <3>4. CASE i # 1 /\ j # 1
      <4>1. i - 1 = j - 1
        BY <2>4, <3>1, <3>2, <3>4
      <4>2. i \in Int /\ j \in Int
        BY <2>2
      <4> QED BY <4>1, <4>2
    <3> QED BY <3>3, <3>4
  <2>10. \A i \in 1..(Len(d) - 1) : d[i + 1].parent = d[i].id[1]
    <3> TAKE i \in 1..(Len(d) - 1)
    <3>1. i \in 1..k /\ d[i + 1] = c[i]
      BY <2>2
    <3>2. CASE i = 1
      BY <2>2, <2>3, <3>1, <3>2
    <3>3. CASE i # 1
      <4>1. i - 1 \in 1..k /\ i - 1 \in 1..(k - 1) /\ (i - 1) + 1 = i
        BY <2>2, <3>1, <3>3
      <4>2. c[i].parent = c[i - 1].id[1]
        BY <2>4, <4>1
      <4>3. d[i] = c[i - 1]
        BY <2>2, <4>1
      <4> QED BY <3>1, <4>2, <4>3
    <3> QED BY <3>2, <3>3
  <2>11. Len(d) \in 1..(hops + 1 + 1)
    BY <2>2
  <2> QED BY <1>2, <2>5, <2>7, <2>8, <2>9, <2>10, <2>11 DEF OnTheWay, d
<1> QED BY <1>2, <1>3, <1>4
\* The recursion of ClimbFrom.
LEMMA ClimbRecursion ==
  ASSUME NEW l, NEW ix, NEW pid, NEW ts, l.node # Nobody, view \in DOMAIN Views,
         NEW start \in Ways, start = [chain |-> <<l.node>>, ix |-> ix \ l.gone, visited |-> {pid}, done |-> FALSE]
  PROVE  \E dict : /\ ClimbFrom(l, ix, pid, ts) = dict[MaxHops] /\ dict[0] = start
                   /\ \A i \in 1..MaxHops : dict[i] = Hop(dict[i - 1], ts)
<1> DEFINE n == MaxHops
           Values == Ways
           next == [y \in (1..n) \X Values |-> Hop(y[2], ts)]
<1>1. n \in Nat /\ TRUE
  BY QueriesAssumption
<1>2. next \in [(1..n) \X Values -> Values]
  <2>1. ASSUME NEW y \in (1..n) \X Values
        PROVE  (Hop(y[2], ts)) \in Values
    <3>1. y[2] \in Ways
      BY DEF Values
    <3> HIDE DEF Values, n
    <3> QED BY <3>1, HopEither DEF Values
  <2> HIDE DEF n, Values
  <2> QED BY <2>1
<1>3. PICK f \in [0..n -> Values] : f[0] = start /\ \A i \in 1..n : f[i] = next[<<i, f[i - 1]>>]
  <2> DEFINE base == start
  <2>1. base \in Values
    BY EmptySeq
  <2> HIDE DEF n, next, Values, base
  <2>2. Recursions(n, Values, base, next) # {}
    BY <1>1, <1>2, <2>1, RecursionExists
  <2> QED BY <2>2 DEF Recursions, base
<1> DEFINE Follows(g) ==
             g = [i \in 0..n |-> IF i = 0 THEN start ELSE Hop(g[i - 1], ts)]
           chosen == CHOOSE g : Follows(g)
<1>4. Follows(f)
  <2>1. ASSUME NEW i \in 0..n
        PROVE  f[i] = IF i = 0 THEN start ELSE Hop(f[i - 1], ts)
    <3>1. CASE i = 0
      BY <1>3, <3>1
    <3>2. CASE i # 0
      <4>1. i \in 1..n /\ i - 1 \in 0..n
        BY <1>1, <3>2
      <4>2. <<i, f[i - 1]>> \in (1..n) \X Values
        BY <4>1
      <4> QED BY <1>3, <3>2, <4>1, <4>2
    <3> QED BY <3>1, <3>2
  <2> HIDE DEF n, Values, next
  <2> QED BY <2>1
<1>5. Follows(chosen)
  <2> HIDE DEF Follows
  <2> QED BY <1>4
<1>6. chosen[0] = start /\ \A i \in 1..n : chosen[i] = Hop(chosen[i - 1], ts)
  <2> HIDE DEF chosen
  <2>1. \A i \in 0..n : chosen[i] = IF i = 0 THEN start ELSE Hop(chosen[i - 1], ts)
    BY <1>5
  <2> HIDE DEF n, Follows
  <2>2. 0 \in 0..n /\ \A i \in 1..n : i \in 0..n /\ i # 0
    BY <1>1
  <2> QED BY <2>1, <2>2
<1>7. ClimbFrom(l, ix, pid, ts) = chosen[n]
  BY DEF ClimbFrom
<1> QED BY <1>6, <1>7


\* The chain of a process.
LEMMA WalkUpIsLineage ==
  ASSUME view \in DOMAIN Views, NEW ix, InIndex(ix), NEW pid \in Nat, NEW ts,
         NEW w, w = WalkUp(ix, pid, ts)
  PROVE  /\ InIndex(w.ix) /\ w.visited \in SUBSET Nat
         /\ w.chain # <<>> => OnTheWay(w, pid, ts, MaxHops)
<1> DEFINE l == LookUpProcess(ix, pid, ts)
           start == [chain |-> <<l.node>>, ix |-> ix \ l.gone, visited |-> {pid}, done |-> FALSE]
<1>1. w = ClimbFrom(l, ix, pid, ts)
  BY DEF WalkUp
<1>2. l.node # Nobody => IsOf(l.node, pid, ts)
  BY LookUpIsOf
<1>3. InIndex(ix \ l.gone)
  BY LookUpGone, GhostsGo
<1> HIDE DEF l
<1>4. CASE l.node = Nobody
  <2>1. w = [start EXCEPT !.chain = <<>>]
    BY <1>1, <1>4 DEF ClimbFrom
  <2>2. w.ix = ix \ l.gone /\ w.visited = {pid} /\ w.chain = <<>>
    BY <2>1
  <2> QED BY <1>3, <2>2
<1>5. CASE l.node # Nobody
  <2>1. l.node \in Persons /\ l.node.id[1] = pid /\ (V.built => By(l.node.id[2], ts))
    BY <1>2, <1>5 DEF IsOf
  <2>2. <<l.node>> \in Seq(Persons) /\ Len(<<l.node>>) = 1 /\ <<l.node>>[1] = l.node
    BY <2>1
  <2>3. start \in Ways
    BY <1>3, <2>2 DEF Ways, InIndex
  <2>4. OnTheWay(start, pid, ts, 0)
    <3> DEFINE c == <<l.node>>
    <3>1. start.chain = c /\ start.visited = {pid}
      OBVIOUS
    <3>2. c[1] = l.node /\ Len(c) = 1
      BY <2>2
    <3> HIDE DEF start, c
    <3> QED BY <2>1, <2>3, <3>1, <3>2 DEF OnTheWay
  <2> HIDE DEF start
  <2>5. PICK after : /\ w = after[MaxHops] /\ after[0] = start
                     /\ \A i \in 1..MaxHops : after[i] = Hop(after[i - 1], ts)
    BY <1>1, <1>5, <2>3, ClimbRecursion DEF start
  <2> DEFINE T == {i \in 0..MaxHops : OnTheWay(after[i], pid, ts, i)}
  <2>6. 0 \in T
    BY <2>4, <2>5, QueriesAssumption
  <2>7. ASSUME NEW i \in 1..MaxHops, i - 1 \in T
        PROVE  i \in T
    <3>1. i \in Nat /\ i - 1 \in Nat /\ (i - 1) + 1 = i /\ i \in 0..MaxHops
      BY QueriesAssumption
    <3>2. OnTheWay(after[i - 1], pid, ts, i - 1) /\ after[i] = Hop(after[i - 1], ts)
      BY <2>5, <2>7
    <3>3. OnTheWay(after[i], pid, ts, (i - 1) + 1)
      BY <3>1, <3>2, HopStays
    <3> QED BY <3>1, <3>3
  <2>8. MaxHops \in T
    <3> HIDE DEF T
    <3>1. MaxHops \in Nat /\ \A i \in 0..MaxHops : i \in T
      BY <2>6, <2>7, SetInduction, QueriesAssumption
    <3> QED BY <3>1
  <2>9. OnTheWay(w, pid, ts, MaxHops)
    BY <2>5, <2>8
  <2>10. w \in Ways
    BY <2>9 DEF OnTheWay
  <2> QED BY <2>9, <2>10 DEF Ways, InIndex
<1> QED BY <1>4, <1>5
\* The recursion of Among.
LEMMA AmongRecursion ==
  ASSUME NEW s, NEW S, Len(s) \in Nat
  PROVE  \E dict : /\ Among(s, S) = dict[Len(s)] /\ dict[0] = <<>>
                   /\ \A i \in 1..Len(s) : dict[i] = (IF s[i] \in S THEN Append(dict[i - 1], s[i]) ELSE dict[i - 1])
<1> DEFINE n == Len(s)
           Values == Seq(S)
           next == [y \in (1..n) \X Values |-> (IF s[y[1]] \in S THEN Append(y[2], s[y[1]]) ELSE y[2])]
<1>1. n \in Nat /\ TRUE
  OBVIOUS
<1>2. next \in [(1..n) \X Values -> Values]
  <2>1. ASSUME NEW y \in (1..n) \X Values
        PROVE  ((IF s[y[1]] \in S THEN Append(y[2], s[y[1]]) ELSE y[2])) \in Values
    <3>1. y[2] \in Seq(S)
      OBVIOUS
    <3>2. s[y[1]] \in S => Append(y[2], s[y[1]]) \in Seq(S)
      BY <3>1, AppendProperties
    <3> QED BY <3>1, <3>2
  <2> HIDE DEF n, Values
  <2> QED BY <2>1
<1>3. PICK f \in [0..n -> Values] : f[0] = <<>> /\ \A i \in 1..n : f[i] = next[<<i, f[i - 1]>>]
  <2> DEFINE base == <<>>
  <2>1. base \in Values
    BY EmptySeq
  <2> HIDE DEF n, next, Values, base
  <2>2. Recursions(n, Values, base, next) # {}
    BY <1>1, <1>2, <2>1, RecursionExists
  <2> QED BY <2>2 DEF Recursions, base
<1> DEFINE Follows(g) ==
             g = [i \in 0..n |-> IF i = 0 THEN <<>> ELSE (IF s[i] \in S THEN Append(g[i - 1], s[i]) ELSE g[i - 1])]
           chosen == CHOOSE g : Follows(g)
<1>4. Follows(f)
  <2>1. ASSUME NEW i \in 0..n
        PROVE  f[i] = IF i = 0 THEN <<>> ELSE (IF s[i] \in S THEN Append(f[i - 1], s[i]) ELSE f[i - 1])
    <3>1. CASE i = 0
      BY <1>3, <3>1
    <3>2. CASE i # 0
      <4>1. i \in 1..n /\ i - 1 \in 0..n
        BY <1>1, <3>2
      <4>2. <<i, f[i - 1]>> \in (1..n) \X Values
        BY <4>1
      <4> QED BY <1>3, <3>2, <4>1, <4>2
    <3> QED BY <3>1, <3>2
  <2> HIDE DEF n, Values, next
  <2> QED BY <2>1
<1>5. Follows(chosen)
  <2> HIDE DEF Follows
  <2> QED BY <1>4
<1>6. chosen[0] = <<>> /\ \A i \in 1..n : chosen[i] = (IF s[i] \in S THEN Append(chosen[i - 1], s[i]) ELSE chosen[i - 1])
  <2> HIDE DEF chosen
  <2>1. \A i \in 0..n : chosen[i] = IF i = 0 THEN <<>> ELSE (IF s[i] \in S THEN Append(chosen[i - 1], s[i]) ELSE chosen[i - 1])
    BY <1>5
  <2> HIDE DEF n, Follows
  <2>2. 0 \in 0..n /\ \A i \in 1..n : i \in 0..n /\ i # 0
    BY <1>1
  <2> QED BY <2>1, <2>2
<1>7. Among(s, S) = chosen[n]
  BY DEF Among
<1> QED BY <1>6, <1>7


LEMMA AmongIsSeq ==
  ASSUME NEW s, NEW S, Len(s) \in Nat
  PROVE  Among(s, S) \in Seq(S)
<1> DEFINE Kept(f) == /\ Among(s, S) = f[Len(s)] /\ f[0] = <<>>
                      /\ \A i \in 1..Len(s) : f[i] = (IF s[i] \in S THEN Append(f[i - 1], s[i]) ELSE f[i - 1])
<1>1. PICK f : Kept(f)
  BY AmongRecursion
<1> DEFINE n == Len(s)
           T == {i \in 0..n : f[i] \in Seq(S)}
<1>2. 0 \in T
  <2>1. f[0] = <<>>
    BY <1>1
  <2>2. f[0] \in Seq(S)
    BY <2>1, EmptySeq
  <2> QED BY <2>2
<1>3. ASSUME NEW i \in 1..n, i - 1 \in T
      PROVE  i \in T
  <2>1. f[i - 1] \in Seq(S) /\ f[i] = (IF s[i] \in S THEN Append(f[i - 1], s[i]) ELSE f[i - 1])
    BY <1>1, <1>3
  <2>2. s[i] \in S => Append(f[i - 1], s[i]) \in Seq(S)
    BY <2>1, AppendProperties
  <2>3. f[i] \in Seq(S)
    BY <2>1, <2>2
  <2>4. i \in 0..n
    OBVIOUS
  <2> QED BY <2>3, <2>4
<1>4. n \in T
  <2> HIDE DEF T
  <2>1. n \in Nat /\ \A i \in 0..n : i \in T
    BY <1>2, <1>3, SetInduction
  <2> QED BY <2>1
<1> QED BY <1>1, <1>4

\* The first of a sequence.
LEMMA FirstIsSeq ==
  ASSUME NEW S, NEW s \in Seq(S), NEW n \in Nat
  PROVE  FirstOf(s, n) \in Seq(S) /\ Len(FirstOf(s, n)) \in Nat
         /\ DOMAIN FirstOf(s, n) = 1..Len(FirstOf(s, n))
<1> DEFINE k == IF Len(s) < n THEN Len(s) ELSE n
<1>1. k \in Nat /\ k <= Len(s) /\ Len(s) \in Nat
  BY LenProperties
<1> HIDE DEF k
<1>2. \A i \in 1..k : s[i] \in S
  <2>1. s \in [1..Len(s) -> S]
    BY LenProperties
  <2> QED BY <1>1, <2>1
<1>3. SubSeq(s, 1, k) \in Seq(S)
  BY <1>1, <1>2, SubSeqProperties
<1>4. FirstOf(s, n) \in Seq(S)
  BY <1>3 DEF FirstOf, k
<1> QED BY <1>4, LenProperties

-----------------------------------------------------------------------------
(* The tree. *)

\* The children of a process are nodes of the graph.
LEMMA ChildrenAreNodes ==
  ASSUME view \in DOMAIN Views, NEW ix, NEW pid, NEW order \in Seq(Nat), NEW limit \in Nat
  PROVE  ProcessChildren(ix, pid, order, limit).kids \in Seq(Nodes)
<1>1. DOMAIN V.nodes \subseteq Nodes /\ IsFiniteSet(DOMAIN V.nodes)
  BY ViewIsSound
<1>2. CASE V.built
  <2> DEFINE pids == FirstOf(Among(order, ChildPids(ix, pid)), limit)
             ids == [i \in DOMAIN pids |-> Newest(IdsOf(ix, pids[i]))]
  <2>1. DOMAIN pids = 1..Len(pids) /\ Len(pids) \in Nat
    <3>1. Among(order, ChildPids(ix, pid)) \in Seq(ChildPids(ix, pid))
      BY AmongIsSeq, LenProperties
    <3> QED BY <3>1, FirstIsSeq
  <2> HIDE DEF pids
  <2>2. Len(ids) \in Nat
    <3>1. ids \in [1..Len(pids) -> ToSet(ids)]
      BY <2>1 DEF ToSet
    <3>2. ids \in Seq(ToSet(ids))
      BY <2>1, <3>1, IsASeq
    <3> HIDE DEF ids
    <3> QED BY <3>2, LenProperties
  <2> HIDE DEF ids
  <2>3. Among(ids, DOMAIN V.nodes) \in Seq(DOMAIN V.nodes)
    BY <2>2, AmongIsSeq
  <2>4. ProcessChildren(ix, pid, order, limit).kids = Among(ids, DOMAIN V.nodes)
    BY <1>2 DEF ProcessChildren, ids, pids
  <2> QED BY <1>1, <2>3, <2>4
<1>3. CASE ~V.built
  <2> DEFINE S == {n \in DOMAIN V.nodes : V.nodes[n].parent = pid}
             n == Cardinality(S)
  <2>1. IsFiniteSet(S) /\ S \subseteq Nodes
    BY <1>1, FS_Subset
  <2> HIDE DEF S
  <2>2. n \in Nat /\ ExistsBijection(1..n, S)
    BY <2>1, FS_CardinalityType
  <2>3. \E f \in [1..n -> S] : IsInjective(f)
    BY <2>2 DEF ExistsBijection, Bijection, Injection, Surjection, IsInjective
  <2>4. SetToSeq(S) \in [1..n -> S]
    BY <2>3 DEF SetToSeq
  <2>5. SetToSeq(S) \in Seq(S)
    BY <2>2, <2>4, IsASeq
  <2>6. FirstOf(SetToSeq(S), limit) \in Seq(S)
    BY <2>5, FirstIsSeq
  <2>7. ProcessChildren(ix, pid, order, limit).kids = FirstOf(SetToSeq(S), limit)
    BY <1>3 DEF ProcessChildren, S
  <2> QED BY <2>1, <2>6, <2>7
<1> QED BY <1>2, <1>3
\* One more node.
Reached(t, n) == [ix |-> t.ix, visited |-> t.visited \union {n[1]}, nodes |-> Append(t.nodes, n)]

LEMMA ReachedIsDescent ==
  ASSUME NEW t \in Descents, NEW n \in Nodes
  PROVE  /\ Reached(t, n) \in Descents /\ Reached(t, n).ix = t.ix
         /\ Reached(t, n).visited = t.visited \union {n[1]}
         /\ Reached(t, n).nodes = Append(t.nodes, n)
<1>1. n[1] \in Nat
  BY DEF Nodes
<1>2. /\ t = [ix |-> t.ix, visited |-> t.visited, nodes |-> t.nodes]
      /\ t.ix \in SUBSET Nodes /\ t.visited \in SUBSET Nat /\ t.nodes \in Seq(Nodes)
  BY DEF Descents
<1>3. Append(t.nodes, n) \in Seq(Nodes)
  BY <1>2, AppendProperties
<1>4. Reached(t, n) = [ix |-> t.ix, visited |-> t.visited \union {n[1]}, nodes |-> Append(t.nodes, n)]
  BY DEF Reached
<1> QED BY <1>1, <1>2, <1>3, <1>4 DEF Descents

\* What may be below.
Unders == [Descents \X Nat -> Descents]

LEMMA ReachIsDescent ==
  ASSUME NEW t \in Descents, NEW n \in Nodes, NEW many, NEW under \in Unders
  PROVE  Reach(t, n, many, under) \in Descents
<1>1. Reached(t, n) \in Descents /\ n[1] \in Nat
  BY ReachedIsDescent DEF Nodes
<1>2. under[<<Reached(t, n), n[1]>>] \in Descents
  BY <1>1 DEF Unders
<1>3. \/ Reach(t, n, many, under) = t
      \/ Reach(t, n, many, under) = Reached(t, n)
      \/ Reach(t, n, many, under) = under[<<Reached(t, n), n[1]>>]
  BY DEF Reach, Reached
<1> QED BY <1>1, <1>2, <1>3

\* The recursion of ReachAll.
LEMMA ReachRecursion ==
  ASSUME NEW t \in Descents, NEW kids \in Seq(Nodes), NEW under \in Unders
  PROVE  \E dict : /\ ReachAll(t, kids, under) = dict[Len(kids)] /\ dict[0] = t
                   /\ \A i \in 1..Len(kids) : dict[i] = Reach(dict[i - 1], kids[i], Len(kids) > ManyChildren, under)
<1> DEFINE n == Len(kids)
           Values == Descents
           next == [y \in (1..n) \X Values |-> Reach(y[2], kids[y[1]], Len(kids) > ManyChildren, under)]
<1>1. n \in Nat /\ TRUE
  BY LenProperties
<1>2. next \in [(1..n) \X Values -> Values]
  <2>1. ASSUME NEW y \in (1..n) \X Values
        PROVE  (Reach(y[2], kids[y[1]], Len(kids) > ManyChildren, under)) \in Values
    <3>1. y[2] \in Descents /\ kids[y[1]] \in Nodes
      BY LenProperties
    <3> HIDE DEF n, Values
    <3> QED BY <3>1, ReachIsDescent DEF Values
  <2> HIDE DEF n, Values
  <2> QED BY <2>1
<1>3. PICK f \in [0..n -> Values] : f[0] = t /\ \A i \in 1..n : f[i] = next[<<i, f[i - 1]>>]
  <2> DEFINE base == t
  <2>1. base \in Values
    BY EmptySeq
  <2> HIDE DEF n, next, Values, base
  <2>2. Recursions(n, Values, base, next) # {}
    BY <1>1, <1>2, <2>1, RecursionExists
  <2> QED BY <2>2 DEF Recursions, base
<1> DEFINE Follows(g) ==
             g = [i \in 0..n |-> IF i = 0 THEN t ELSE Reach(g[i - 1], kids[i], Len(kids) > ManyChildren, under)]
           chosen == CHOOSE g : Follows(g)
<1>4. Follows(f)
  <2>1. ASSUME NEW i \in 0..n
        PROVE  f[i] = IF i = 0 THEN t ELSE Reach(f[i - 1], kids[i], Len(kids) > ManyChildren, under)
    <3>1. CASE i = 0
      BY <1>3, <3>1
    <3>2. CASE i # 0
      <4>1. i \in 1..n /\ i - 1 \in 0..n
        BY <1>1, <3>2
      <4>2. <<i, f[i - 1]>> \in (1..n) \X Values
        BY <4>1
      <4> QED BY <1>3, <3>2, <4>1, <4>2
    <3> QED BY <3>1, <3>2
  <2> HIDE DEF n, Values, next
  <2> QED BY <2>1
<1>5. Follows(chosen)
  <2> HIDE DEF Follows
  <2> QED BY <1>4
<1>6. chosen[0] = t /\ \A i \in 1..n : chosen[i] = Reach(chosen[i - 1], kids[i], Len(kids) > ManyChildren, under)
  <2> HIDE DEF chosen
  <2>1. \A i \in 0..n : chosen[i] = IF i = 0 THEN t ELSE Reach(chosen[i - 1], kids[i], Len(kids) > ManyChildren, under)
    BY <1>5
  <2> HIDE DEF n, Follows
  <2>2. 0 \in 0..n /\ \A i \in 1..n : i \in 0..n /\ i # 0
    BY <1>1
  <2> QED BY <2>1, <2>2
<1>7. ReachAll(t, kids, under) = chosen[n]
  BY DEF ReachAll
<1> QED BY <1>6, <1>7


\* On the way down from a process whose line is known.
Grown(t, line) ==
  /\ t \in Descents /\ InIndex(t.ix) /\ line \subseteq t.visited
  /\ Len(t.nodes) <= MaxDescendants
  /\ \A i \in 1..Len(t.nodes) : t.nodes[i][1] \in t.visited \ line
  /\ \A i, j \in 1..Len(t.nodes) : t.nodes[i][1] = t.nodes[j][1] => i = j

Grows(under, line) ==
  /\ under \in Unders
  /\ \A t \in Descents, p \in Nat : Grown(t, line) => Grown(under[<<t, p>>], line)

LEMMA ReachedGrown ==
  ASSUME NEW line, NEW t, Grown(t, line), NEW n \in Nodes, n[1] \notin t.visited,
         ~(Len(t.nodes) >= MaxDescendants)
  PROVE  Grown(Reached(t, n), line)
<1> DEFINE r == Reached(t, n)
           k == Len(t.nodes)
<1>1. t \in Descents /\ t.nodes \in Seq(Nodes) /\ k \in Nat
  BY LenProperties DEF Grown, Descents
<1>2. r \in Descents /\ r.ix = t.ix /\ r.visited = t.visited \union {n[1]} /\ r.nodes = Append(t.nodes, n)
  BY <1>1, ReachedIsDescent
<1>3. /\ Len(r.nodes) = k + 1 /\ r.nodes[k + 1] = n
      /\ \A i \in 1..k : r.nodes[i] = t.nodes[i]
  BY <1>1, <1>2, AppendProperties
<1>4. k + 1 <= MaxDescendants
  BY <1>1, QueriesAssumption
<1>5. /\ InIndex(t.ix) /\ line \subseteq t.visited
      /\ \A i \in 1..k : t.nodes[i][1] \in t.visited \ line
      /\ \A i, j \in 1..k : t.nodes[i][1] = t.nodes[j][1] => i = j
  BY DEF Grown
<1> HIDE DEF r, k
<1>6. \A i \in 1..(k + 1) : i = k + 1 \/ i \in 1..k
  BY <1>1
<1>7. \A i \in 1..(k + 1) : r.nodes[i][1] \in r.visited \ line
  <2> TAKE i \in 1..(k + 1)
  <2>1. CASE i = k + 1
    <3>1. r.nodes[i] = n
      BY <1>3, <2>1
    <3>2. n[1] \in r.visited /\ n[1] \notin line
      BY <1>2, <1>5
    <3> QED BY <3>1, <3>2
  <2>2. CASE i \in 1..k
    BY <1>2, <1>3, <1>5, <2>2
  <2> QED BY <1>6, <2>1, <2>2
<1>8. \A i, j \in 1..(k + 1) : r.nodes[i][1] = r.nodes[j][1] => i = j
  <2> TAKE i, j \in 1..(k + 1)
  <2> HAVE r.nodes[i][1] = r.nodes[j][1]
  <2>1. i \in 1..k => r.nodes[i][1] = t.nodes[i][1] /\ t.nodes[i][1] # n[1]
    BY <1>3, <1>5
  <2>2. j \in 1..k => r.nodes[j][1] = t.nodes[j][1] /\ t.nodes[j][1] # n[1]
    BY <1>3, <1>5
  <2>3. CASE i = k + 1
    BY <1>3, <1>6, <2>2, <2>3
  <2>4. CASE i \in 1..k
    BY <1>3, <1>5, <1>6, <2>1, <2>2, <2>4
  <2> QED BY <1>6, <2>3, <2>4
<1>9. line \subseteq r.visited
  BY <1>2, <1>5
<1> QED BY <1>2, <1>3, <1>4, <1>5, <1>7, <1>8, <1>9 DEF Grown, r

LEMMA ReachGrown ==
  ASSUME NEW line, NEW t, Grown(t, line), NEW n \in Nodes, NEW many, NEW under, Grows(under, line)
  PROVE  Grown(Reach(t, n, many, under), line)
<1>1. CASE Len(t.nodes) >= MaxDescendants \/ n[1] \in t.visited
  BY <1>1 DEF Reach
<1>2. CASE ~(Len(t.nodes) >= MaxDescendants \/ n[1] \in t.visited)
  <2>1. Reach(t, n, many, under) = IF many THEN Reached(t, n) ELSE under[<<Reached(t, n), n[1]>>]
    BY <1>2 DEF Reach, Reached
  <2>2. Grown(Reached(t, n), line)
    BY <1>2, ReachedGrown
  <2>4. Reached(t, n) \in Descents /\ n[1] \in Nat
    BY <2>2 DEF Grown, Nodes
  <2>3. Grown(under[<<Reached(t, n), n[1]>>], line)
    BY <2>2, <2>4 DEF Grows
  <2> QED BY <2>1, <2>2, <2>3
<1> QED BY <1>1, <1>2

LEMMA ReachAllGrown ==
  ASSUME NEW line, NEW t, Grown(t, line), NEW kids \in Seq(Nodes), NEW under, Grows(under, line)
  PROVE  Grown(ReachAll(t, kids, under), line)
<1> DEFINE n == Len(kids)
           many == n > ManyChildren
<1>1. n \in Nat /\ \A i \in 1..n : kids[i] \in Nodes
  BY LenProperties
<1>2. t \in Descents /\ under \in Unders
  BY DEF Grown, Grows
<1>3. PICK f : /\ ReachAll(t, kids, under) = f[n] /\ f[0] = t
               /\ \A i \in 1..n : f[i] = Reach(f[i - 1], kids[i], many, under)
  BY <1>2, ReachRecursion
<1> HIDE DEF n, many
<1> DEFINE T == {i \in 0..n : Grown(f[i], line)}
<1>4. 0 \in T
  BY <1>1, <1>3
<1>5. ASSUME NEW i \in 1..n, i - 1 \in T
      PROVE  i \in T
  <2>1. Grown(f[i - 1], line) /\ f[i] = Reach(f[i - 1], kids[i], many, under) /\ kids[i] \in Nodes
    BY <1>1, <1>3, <1>5
  <2>2. Grown(f[i], line)
    BY <2>1, ReachGrown
  <2>3. i \in 0..n
    BY <1>1
  <2> QED BY <2>2, <2>3
<1>6. n \in T
  <2> HIDE DEF T
  <2>1. \A i \in 0..n : i \in T
    BY <1>1, <1>4, <1>5, SetInduction
  <2> QED BY <1>1, <2>1
<1> QED BY <1>3, <1>6
\* From a process on.
Begun(t, gone) == [t EXCEPT !.ix = @ \ gone]

LEMMA BegunIsDescent ==
  ASSUME NEW t \in Descents, NEW gone
  PROVE  /\ Begun(t, gone) \in Descents /\ Begun(t, gone).ix = t.ix \ gone
         /\ Begun(t, gone).visited = t.visited /\ Begun(t, gone).nodes = t.nodes
BY DEF Begun, Descents

LEMMA DescentEither ==
  ASSUME view \in DOMAIN Views, NEW t, NEW pid, NEW order \in Seq(Nat), NEW under
  PROVE  \/ Descent(t, pid, order, under) = t
         \/ \E gone : /\ Ghosts(gone)
                       /\ \E kids \in Seq(Nodes) :
                            Descent(t, pid, order, under) = ReachAll(Begun(t, gone), kids, under)
<1> DEFINE c == ProcessChildren(t.ix, pid, order, MaxChildren)
<1>1. c.kids \in Seq(Nodes)
  BY ChildrenAreNodes, QueriesAssumption
<1>3. Ghosts(c.gone)
  <2>1. c.gone = {} \/ \E s : c.gone = s \ DOMAIN V.nodes
    BY DEF ProcessChildren
  <2> QED BY <2>1 DEF Ghosts
<1>2. \/ Descent(t, pid, order, under) = t
      \/ Descent(t, pid, order, under) = ReachAll(Begun(t, c.gone), c.kids, under)
  BY DEF Descent, Begun
<1> HIDE DEF c
<1> QED BY <1>1, <1>2, <1>3

LEMMA ReachAllIsDescent ==
  ASSUME NEW t \in Descents, NEW kids \in Seq(Nodes), NEW under \in Unders
  PROVE  ReachAll(t, kids, under) \in Descents
<1> DEFINE n == Len(kids)
           many == n > ManyChildren
<1>1. n \in Nat /\ \A i \in 1..n : kids[i] \in Nodes
  BY LenProperties
<1>2. PICK f : /\ ReachAll(t, kids, under) = f[n] /\ f[0] = t
               /\ \A i \in 1..n : f[i] = Reach(f[i - 1], kids[i], many, under)
  BY ReachRecursion
<1> HIDE DEF n, many
<1> DEFINE T == {i \in 0..n : f[i] \in Descents}
<1>3. 0 \in T
  BY <1>1, <1>2
<1>4. ASSUME NEW i \in 1..n, i - 1 \in T
      PROVE  i \in T
  <2>1. f[i - 1] \in Descents /\ f[i] = Reach(f[i - 1], kids[i], many, under) /\ kids[i] \in Nodes
    BY <1>1, <1>2, <1>4
  <2>2. f[i] \in Descents
    BY <2>1, ReachIsDescent
  <2>3. i \in 0..n
    BY <1>1
  <2> QED BY <2>2, <2>3
<1>5. n \in T
  <2> HIDE DEF T
  <2>1. \A i \in 0..n : i \in T
    BY <1>1, <1>3, <1>4, SetInduction
  <2> QED BY <1>1, <2>1
<1> QED BY <1>2, <1>5

LEMMA DescentIsDescent ==
  ASSUME view \in DOMAIN Views, NEW t \in Descents, NEW pid, NEW order \in Seq(Nat), NEW under \in Unders
  PROVE  Descent(t, pid, order, under) \in Descents
<1>1. CASE Descent(t, pid, order, under) = t
  BY <1>1
<1>2. ASSUME NEW gone, NEW kids \in Seq(Nodes),
             Descent(t, pid, order, under) = ReachAll(Begun(t, gone), kids, under)
      PROVE  Descent(t, pid, order, under) \in Descents
  <2>1. Begun(t, gone) \in Descents
    BY BegunIsDescent
  <2>2. ReachAll(Begun(t, gone), kids, under) \in Descents
    BY <2>1, ReachAllIsDescent
  <2> QED BY <1>2, <2>2
<1> QED BY <1>1, <1>2, DescentEither

LEMMA DescentGrown ==
  ASSUME view \in DOMAIN Views, NEW line, NEW t, Grown(t, line), NEW pid, NEW order \in Seq(Nat),
         NEW under, Grows(under, line)
  PROVE  Grown(Descent(t, pid, order, under), line)
<1>1. CASE Descent(t, pid, order, under) = t
  BY <1>1
<1>2. ASSUME NEW gone, Ghosts(gone), NEW kids \in Seq(Nodes),
             Descent(t, pid, order, under) = ReachAll(Begun(t, gone), kids, under)
      PROVE  Grown(Descent(t, pid, order, under), line)
  <2>1. /\ Begun(t, gone) \in Descents /\ Begun(t, gone).ix = t.ix \ gone
        /\ Begun(t, gone).visited = t.visited /\ Begun(t, gone).nodes = t.nodes
    BY BegunIsDescent DEF Grown
  <2>2. InIndex(t.ix \ gone)
    BY <1>2, GhostsGo DEF Grown
  <2>3. Grown(Begun(t, gone), line)
    BY <2>1, <2>2 DEF Grown
  <2>4. Grown(ReachAll(Begun(t, gone), kids, under), line)
    BY <2>3, ReachAllGrown
  <2> QED BY <1>2, <2>4
<1> QED BY <1>1, <1>2, DescentEither

\* A level more.
Lowest == [a \in Descents \X Nat |-> a[1]]
Deeper(under, order) == [a \in Descents \X Nat |-> Descent(a[1], a[2], order, under)]

LEMMA DeeperIsUnder ==
  ASSUME view \in DOMAIN Views, NEW order \in Seq(Nat), NEW under \in Unders
  PROVE  Deeper(under, order) \in Unders
<1>1. ASSUME NEW a \in Descents \X Nat
      PROVE  Descent(a[1], a[2], order, under) \in Descents
  <2>1. a[1] \in Descents
    OBVIOUS
  <2> QED BY <2>1, DescentIsDescent
<1> QED BY <1>1 DEF Deeper, Unders

LEMMA DeeperGrows ==
  ASSUME view \in DOMAIN Views, NEW order \in Seq(Nat), NEW line, NEW under, Grows(under, line)
  PROVE  Grows(Deeper(under, order), line)
<1>1. Deeper(under, order) \in Unders
  BY DeeperIsUnder DEF Grows
<1>2. ASSUME NEW t \in Descents, NEW p \in Nat, Grown(t, line)
      PROVE  Grown(Deeper(under, order)[<<t, p>>], line)
  <2>1. Deeper(under, order)[<<t, p>>] = Descent(t, p, order, under)
    BY DEF Deeper
  <2>2. Grown(Descent(t, p, order, under), line)
    BY <1>2, DescentGrown
  <2> QED BY <2>1, <2>2
<1> QED BY <1>1, <1>2 DEF Grows

\* The recursion of Subtree.
LEMMA SubtreeRecursion ==
  ASSUME view \in DOMAIN Views, NEW t, NEW pid, NEW order \in Seq(Nat)
  PROVE  \E dict : /\ Subtree(t, pid, order) = dict[MaxDepth][<<t, pid>>] /\ dict[0] = Lowest
                   /\ \A i \in 1..MaxDepth : dict[i] = Deeper(dict[i - 1], order)
<1> DEFINE n == MaxDepth
           Values == Unders
           next == [y \in (1..n) \X Values |-> Deeper(y[2], order)]
<1>1. n \in Nat /\ TRUE
  BY QueriesAssumption
<1>2. next \in [(1..n) \X Values -> Values]
  <2>1. ASSUME NEW y \in (1..n) \X Values
        PROVE  (Deeper(y[2], order)) \in Values
    <3>1. y[2] \in Unders
      BY DEF Values
    <3> HIDE DEF n, Values
    <3> QED BY <3>1, DeeperIsUnder DEF Values
  <2> HIDE DEF n, Values
  <2> QED BY <2>1
<1>3. PICK f \in [0..n -> Values] : f[0] = Lowest /\ \A i \in 1..n : f[i] = next[<<i, f[i - 1]>>]
  <2> DEFINE base == Lowest
  <2>1. base \in Values
    BY DEF Lowest, Unders
  <2> HIDE DEF n, next, Values, base
  <2>2. Recursions(n, Values, base, next) # {}
    BY <1>1, <1>2, <2>1, RecursionExists
  <2> QED BY <2>2 DEF Recursions, base
<1> DEFINE Follows(g) ==
             g = [i \in 0..n |-> IF i = 0 THEN Lowest ELSE Deeper(g[i - 1], order)]
           chosen == CHOOSE g : Follows(g)
<1>4. Follows(f)
  <2>1. ASSUME NEW i \in 0..n
        PROVE  f[i] = IF i = 0 THEN Lowest ELSE Deeper(f[i - 1], order)
    <3>1. CASE i = 0
      BY <1>3, <3>1
    <3>2. CASE i # 0
      <4>1. i \in 1..n /\ i - 1 \in 0..n
        BY <1>1, <3>2
      <4>2. <<i, f[i - 1]>> \in (1..n) \X Values
        BY <4>1
      <4> QED BY <1>3, <3>2, <4>1, <4>2
    <3> QED BY <3>1, <3>2
  <2> HIDE DEF n, Values, next
  <2> QED BY <2>1
<1>5. Follows(chosen)
  <2> HIDE DEF Follows
  <2> QED BY <1>4
<1>6. chosen[0] = Lowest /\ \A i \in 1..n : chosen[i] = Deeper(chosen[i - 1], order)
  <2> HIDE DEF chosen
  <2>1. \A i \in 0..n : chosen[i] = IF i = 0 THEN Lowest ELSE Deeper(chosen[i - 1], order)
    BY <1>5
  <2> HIDE DEF n, Follows
  <2>2. 0 \in 0..n /\ \A i \in 1..n : i \in 0..n /\ i # 0
    BY <1>1
  <2> QED BY <2>1, <2>2
<1>7. Subtree(t, pid, order) = chosen[n][<<t, pid>>]
  BY DEF Subtree, Lowest, Deeper
<1> QED BY <1>6, <1>7


\* The tree below a process whose line is known: nodes of other processes, each
\* of them once, and not too many.
LEMMA SubtreeGrown ==
  ASSUME view \in DOMAIN Views, NEW line, NEW t, Grown(t, line), NEW pid \in Nat, NEW order \in Seq(Nat)
  PROVE  Grown(Subtree(t, pid, order), line)
<1>1. PICK f : /\ Subtree(t, pid, order) = f[MaxDepth][<<t, pid>>] /\ f[0] = Lowest
               /\ \A i \in 1..MaxDepth : f[i] = Deeper(f[i - 1], order)
  BY SubtreeRecursion
<1>2. Grows(Lowest, line)
  BY DEF Grows, Lowest, Unders
<1> DEFINE T == {i \in 0..MaxDepth : Grows(f[i], line)}
<1>3. MaxDepth \in Nat
  BY QueriesAssumption
<1>4. 0 \in T
  BY <1>1, <1>2, <1>3
<1>5. ASSUME NEW i \in 1..MaxDepth, i - 1 \in T
      PROVE  i \in T
  <2>1. Grows(f[i - 1], line) /\ f[i] = Deeper(f[i - 1], order)
    BY <1>1, <1>5
  <2>2. Grows(f[i], line)
    BY <2>1, DeeperGrows
  <2>3. i \in 0..MaxDepth
    BY <1>3
  <2> QED BY <2>2, <2>3
<1>6. MaxDepth \in T
  <2> HIDE DEF T
  <2>1. \A i \in 0..MaxDepth : i \in T
    BY <1>3, <1>4, <1>5, SetInduction
  <2> QED BY <1>3, <2>1
<1>7. t \in Descents
  BY DEF Grown
<1>8. Grown(f[MaxDepth][<<t, pid>>], line)
  BY <1>6, <1>7 DEF Grows
<1> QED BY <1>1, <1>8
-----------------------------------------------------------------------------
(* The answers. *)

\* What LineageHolds says of an answer.
LineageOf(pid, ts, c, below) ==
  LET ids == [i \in DOMAIN c |-> c[i].id]
  IN /\ Last(ids)[1] = pid
     /\ IsInjective(PidsOf(ids \o below))
     /\ \A i \in 1..(Len(c) - 1) : c[i + 1].parent = ids[i][1]
     /\ V.built => \A i \in DOMAIN c : By(ids[i][2], ts)
     /\ Len(c) <= MaxHops + 1 /\ Len(below) <= MaxDescendants

\* A way up, and nodes of others below.
LEMMA LineageFound ==
  ASSUME NEW w, NEW pid, NEW ts, OnTheWay(w, pid, ts, MaxHops),
         NEW below \in Seq(Nodes), Len(below) <= MaxDescendants,
         \A i \in 1..Len(below) : below[i][1] \notin w.visited,
         \A i, j \in 1..Len(below) : below[i][1] = below[j][1] => i = j
  PROVE  LineageOf(pid, ts, w.chain, below)
<1> DEFINE c == w.chain
           k == Len(c)
           m == Len(below)
           ids == [i \in DOMAIN c |-> c[i].id]
           all == ids \o below
<1>1. /\ c \in Seq(Persons) /\ k \in 1..(MaxHops + 1) /\ c[k].id[1] = pid
      /\ \A i \in 1..k : c[i].id[1] \in w.visited
      /\ V.built => \A i \in 1..k : By(c[i].id[2], ts)
      /\ \A i, j \in 1..k : c[i].id[1] = c[j].id[1] => i = j
      /\ \A i \in 1..(k - 1) : c[i + 1].parent = c[i].id[1]
  BY DEF OnTheWay, Ways
<1>2. DOMAIN c = 1..k /\ k \in Nat /\ m \in Nat /\ \A i \in 1..k : c[i] \in Persons
  BY <1>1, LenProperties
<1>3. ids \in [1..k -> Nodes]
  BY <1>2 DEF Persons
<1>4. ids \in Seq(Nodes) /\ Len(ids) = k
  <2>1. ids \in Seq(Nodes)
    BY <1>2, <1>3, IsASeq
  <2> HIDE DEF ids
  <2>2. DOMAIN ids = 1..k /\ DOMAIN ids = 1..Len(ids) /\ Len(ids) \in Nat
    BY <1>3, <2>1, LenProperties
  <2>3. Len(ids) = k
    BY <1>2, <2>2
  <2> QED BY <2>1, <2>3
<1>5. \A i \in 1..k : ids[i] = c[i].id
  BY <1>2
<1> HIDE DEF ids, k, m
<1>6. /\ all \in Seq(Nodes) /\ Len(all) = k + m
      /\ \A i \in 1..(k + m) : all[i] = IF i <= k THEN ids[i] ELSE below[i - k]
  BY <1>4, ConcatProperties DEF m
<1>7. DOMAIN all = 1..(k + m)
  BY <1>6, LenProperties
<1> HIDE DEF all
<1>8. \A i \in 1..(k + m) : \/ i \in 1..k /\ all[i][1] = c[i].id[1] /\ all[i][1] \in w.visited
                            \/ /\ i - k \in 1..m /\ all[i][1] = below[i - k][1]
                               /\ all[i][1] \notin w.visited
  <2> TAKE i \in 1..(k + m)
  <2>1. CASE i <= k
    <3>1. i \in 1..k
      BY <1>2, <2>1
    <3> QED BY <1>1, <1>5, <1>6, <2>1, <3>1 DEF k
  <2>2. CASE ~(i <= k)
    <3>1. i - k \in 1..m
      BY <1>2, <2>2
    <3>2. all[i] = below[i - k]
      BY <1>6, <2>2
    <3> QED BY <3>1, <3>2 DEF m
  <2> QED BY <2>1, <2>2
<1>9. \A i, j \in 1..(k + m) : all[i][1] = all[j][1] => i = j
  <2> TAKE i, j \in 1..(k + m)
  <2> HAVE all[i][1] = all[j][1]
  <2>1. CASE i \in 1..k /\ all[i][1] = c[i].id[1] /\ all[i][1] \in w.visited
    <3>1. j \in 1..k /\ all[j][1] = c[j].id[1]
      BY <1>8, <2>1
    <3>2. c[i].id[1] = c[j].id[1]
      BY <2>1, <3>1
    <3> QED BY <1>1, <2>1, <3>1, <3>2 DEF k
  <2>2. CASE i - k \in 1..m /\ all[i][1] = below[i - k][1] /\ all[i][1] \notin w.visited
    <3>1. j - k \in 1..m /\ all[j][1] = below[j - k][1]
      BY <1>8, <2>2
    <3>2. i - k = j - k
      BY <2>2, <3>1 DEF m
    <3>3. i \in Int /\ j \in Int /\ k \in Int
      BY <1>2
    <3> QED BY <3>2, <3>3
  <2> QED BY <1>8, <2>1, <2>2
<1>10. IsInjective(PidsOf(all))
  <2>1. DOMAIN PidsOf(all) = 1..(k + m) /\ \A i \in 1..(k + m) : PidsOf(all)[i] = all[i][1]
    BY <1>7 DEF PidsOf
  <2> QED BY <1>9, <2>1 DEF IsInjective
<1>11. Last(ids)[1] = pid
  <2>1. Last(ids) = ids[k] /\ k \in 1..k
    BY <1>1, <1>4 DEF Last, k
  <2> QED BY <1>1, <1>5, <2>1 DEF k
<1>12. \A i \in 1..(k - 1) : c[i + 1].parent = ids[i][1]
  <2> TAKE i \in 1..(k - 1)
  <2>1. i \in 1..k
    BY <1>2
  <2> QED BY <1>1, <1>5, <2>1 DEF k
<1>13. V.built => \A i \in DOMAIN c : By(ids[i][2], ts)
  BY <1>1, <1>2, <1>5 DEF k
<1>14. k <= MaxHops + 1 /\ m <= MaxDescendants
  BY <1>1, <1>2, QueriesAssumption DEF k, m
<1> QED BY <1>10, <1>11, <1>12, <1>13, <1>14 DEF LineageOf, ids, all, k, m

\* The answer of a walk up, and of a tree.
LEMMA ChainIsLineage ==
  ASSUME view \in DOMAIN Views, NEW ix, InIndex(ix), NEW pid \in Nat, NEW ts,
         NEW w, w = WalkUp(ix, pid, ts)
  PROVE  InIndex(w.ix) /\ (w.chain # <<>> => LineageOf(pid, ts, w.chain, <<>>))
<1>1. InIndex(w.ix) /\ (w.chain # <<>> => OnTheWay(w, pid, ts, MaxHops))
  BY WalkUpIsLineage
<1> DEFINE below == <<>>
<1>2. /\ below \in Seq(Nodes) /\ Len(below) = 0 /\ 0 <= MaxDescendants
  BY EmptySeq, QueriesAssumption
<1> HIDE DEF below
<1>3. 1..Len(below) = {} /\ Len(below) <= MaxDescendants
  BY <1>2
<1>4. w.chain # <<>> => LineageOf(pid, ts, w.chain, below)
  BY <1>1, <1>2, <1>3, LineageFound
<1> QED BY <1>1, <1>4 DEF below

LEMMA TreeIsLineage ==
  ASSUME view \in DOMAIN Views, NEW ix, InIndex(ix), NEW pid \in Nat, NEW ts, NEW order \in Seq(Nat),
         NEW t, t = ProcessTree(ix, pid, ts, order)
  PROVE  InIndex(t.ix) /\ (t.chain # <<>> => LineageOf(pid, ts, t.chain, t.below))
<1> DEFINE up == WalkUp(ix, pid, ts)
           begun == [ix |-> up.ix, visited |-> up.visited, nodes |-> <<>>]
           down == Subtree(begun, pid, order)
<1>1. /\ InIndex(up.ix) /\ up.visited \in SUBSET Nat
      /\ up.chain # <<>> => OnTheWay(up, pid, ts, MaxHops)
  BY WalkUpIsLineage
<1>2. t = IF up.chain = <<>> THEN [ix |-> up.ix, chain |-> <<>>, below |-> <<>>]
          ELSE [ix |-> down.ix, chain |-> up.chain, below |-> down.nodes]
  BY DEF ProcessTree, TreeOf
<1> HIDE DEF up
<1>3. CASE up.chain = <<>>
  BY <1>1, <1>2, <1>3
<1>4. CASE up.chain # <<>>
  <2>1. begun \in Descents
    BY <1>1, EmptySeq DEF Descents, InIndex
  <2>2. begun.ix = up.ix /\ begun.visited = up.visited /\ begun.nodes = <<>>
    OBVIOUS
  <2>3. Grown(begun, up.visited)
    <3>1. Len(begun.nodes) = 0 /\ 0 <= MaxDescendants /\ InIndex(begun.ix)
      BY <1>1, <2>2, EmptySeq, QueriesAssumption DEF InIndex
    <3> HIDE DEF begun
    <3> QED BY <2>1, <2>2, <3>1 DEF Grown
  <2> HIDE DEF begun
  <2>4. Grown(down, up.visited)
    BY <2>3, SubtreeGrown
  <2> HIDE DEF down
  <2>5. t.ix = down.ix /\ t.chain = up.chain /\ t.below = down.nodes
    BY <1>2, <1>4
  <2>6. InIndex(down.ix) /\ down.nodes \in Seq(Nodes)
    BY <2>4 DEF Grown, Descents, InIndex
  <2>7. LineageOf(pid, ts, up.chain, down.nodes)
    <3>1. /\ Len(down.nodes) <= MaxDescendants
          /\ \A i \in 1..Len(down.nodes) : down.nodes[i][1] \notin up.visited
          /\ \A i, j \in 1..Len(down.nodes) : down.nodes[i][1] = down.nodes[j][1] => i = j
      BY <2>4 DEF Grown
    <3> QED BY <1>1, <1>4, <2>6, <3>1, LineageFound
  <2> QED BY <2>5, <2>6, <2>7
<1> QED BY <1>3, <1>4

Answered == answer.chain # <<>> => LineageOf(answer.pid, answer.ts, answer.chain, answer.below)

QueriesInv ==
  /\ view \in DOMAIN Views /\ InIndex(index)
  /\ answer = NoAnswer \/ Answered

LEMMA QueriesInitially == QueriesInit => QueriesInv
<1> SUFFICES ASSUME QueriesInit
             PROVE  QueriesInv
  OBVIOUS
<1>1. view \in DOMAIN Views /\ answer = NoAnswer
  BY DEF QueriesInit
<1>2. index = IF V.built THEN DOMAIN V.nodes \union DOMAIN V.ghosts ELSE {}
  BY DEF QueriesInit
<1>3. InIndex(index)
  <2>1. IsFiniteSet(DOMAIN V.nodes \union DOMAIN V.ghosts)
    BY <1>1, ViewIsSound, FS_Union
  <2> QED BY <1>1, <1>2, <2>1, ViewIsSound, FS_EmptySet DEF InIndex
<1> QED BY <1>1, <1>3 DEF QueriesInv

\* A step that answers.
LEMMA AnswerStep ==
  ASSUME QueriesInv, view' = view, InIndex(index'),
         answer'.chain # <<>> => LineageOf(answer'.pid, answer'.ts, answer'.chain, answer'.below)
  PROVE  QueriesInv'
<1>1. V' = V
  BY DEF V
<1>2. Answered'
  BY <1>1 DEF Answered, LineageOf
<1>3. InIndex(index)'
  BY <1>1 DEF InIndex
<1> QED BY <1>2, <1>3 DEF QueriesInv

LEMMA AskedIsPid == ASSUME view \in DOMAIN Views PROVE PidsAsked \subseteq Nat
BY ViewIsSound DEF PidsAsked, Nodes

LEMMA QueriesStep == QueriesInv /\ [QueriesNext]_queryVars => QueriesInv'
<1> SUFFICES ASSUME QueriesInv, [QueriesNext]_queryVars
             PROVE  QueriesInv'
  OBVIOUS
<1>1. view \in DOMAIN Views /\ InIndex(index)
  BY DEF QueriesInv
<1>2. PidsAsked \subseteq Nat
  BY <1>1, AskedIsPid
<1>3. CASE UNCHANGED queryVars
  <2>1. view' = view /\ index' = index /\ answer' = answer /\ V' = V
    BY <1>3 DEF queryVars, V
  <2> QED BY <2>1 DEF QueriesInv, InIndex, Answered, LineageOf
<1>4. CASE TakeAnswer
  <2>1. view' = view /\ index' = index /\ answer' = NoAnswer' /\ V' = V
    BY <1>4 DEF TakeAnswer, NoAnswer, V
  <2> QED BY <2>1 DEF QueriesInv, InIndex
<1>5. CASE AskChain
  <2>1. PICK pid \in PidsAsked, ts \in Moments : \E w \in {WalkUp(index, pid, ts)} :
          /\ index' = w.ix
          /\ answer' = [kind |-> "chain", pid |-> pid, ts |-> ts, chain |-> w.chain, below |-> <<>>,
                        user |-> IF w.chain = <<>> THEN Nobody ELSE UserOfChain(w.chain)]
    BY <1>5 DEF AskChain
  <2>2. PICK w : /\ w = WalkUp(index, pid, ts) /\ index' = w.ix
                 /\ answer' = [kind |-> "chain", pid |-> pid, ts |-> ts, chain |-> w.chain, below |-> <<>>,
                               user |-> IF w.chain = <<>> THEN Nobody ELSE UserOfChain(w.chain)]
    BY <2>1
  <2>3. InIndex(w.ix) /\ (w.chain # <<>> => LineageOf(pid, ts, w.chain, <<>>))
    BY <1>1, <1>2, <2>2, ChainIsLineage
  <2>4. answer'.chain = w.chain /\ answer'.below = <<>> /\ answer'.pid = pid /\ answer'.ts = ts
    BY <2>2
  <2>5. view' = view
    BY <1>5 DEF AskChain
  <2> QED BY <2>2, <2>3, <2>4, <2>5, AnswerStep
<1>6. CASE AskTree
  <2>1. PICK pid \in PidsAsked, ts \in Moments, order \in Orders :
          \E t \in {ProcessTree(index, pid, ts, order)} :
            /\ index' = t.ix
            /\ answer' = [kind |-> "tree", pid |-> pid, ts |-> ts, chain |-> t.chain, below |-> t.below,
                          user |-> Nobody]
    BY <1>6 DEF AskTree
  <2>2. PICK t : /\ t = ProcessTree(index, pid, ts, order) /\ index' = t.ix
                 /\ answer' = [kind |-> "tree", pid |-> pid, ts |-> ts, chain |-> t.chain,
                               below |-> t.below, user |-> Nobody]
    BY <2>1
  <2>3. InIndex(t.ix) /\ (t.chain # <<>> => LineageOf(pid, ts, t.chain, t.below))
    BY <1>1, <1>2, <2>2, TreeIsLineage, QueriesAssumption
  <2>4. answer'.chain = t.chain /\ answer'.below = t.below /\ answer'.pid = pid /\ answer'.ts = ts
    BY <2>2
  <2>5. view' = view
    BY <1>6 DEF AskTree
  <2> QED BY <2>2, <2>3, <2>4, <2>5, AnswerStep
<1>7. CASE AskAttackChain
  <2>1. PICK pid \in PidsAsked, order \in Orders :
          \E t \in {ProcessTree(index, pid, Untimed, order)} :
            index' = t.ix /\ answer' = AttackChain(pid, t)
    BY <1>7 DEF AskAttackChain
  <2>2. PICK t : /\ t = ProcessTree(index, pid, Untimed, order) /\ index' = t.ix
                 /\ answer' = AttackChain(pid, t)
    BY <2>1
  <2>3. InIndex(t.ix) /\ (t.chain # <<>> => LineageOf(pid, Untimed, t.chain, t.below))
    BY <1>1, <1>2, <2>2, TreeIsLineage, QueriesAssumption
  <2>4. /\ answer'.chain = t.chain /\ answer'.below = t.below /\ answer'.pid = pid
        /\ answer'.ts = Untimed
    BY <2>2 DEF AttackChain
  <2>5. view' = view
    BY <1>7 DEF AskAttackChain
  <2> QED BY <2>2, <2>3, <2>4, <2>5, AnswerStep
<1> QED BY <1>3, <1>4, <1>5, <1>6, <1>7 DEF QueriesNext

\* An answer about the lineage of a process names each process once, each next
\* to its parent, and while there is an index none that was not there yet: for
\* every graph, ledger and order, whatever ghosts the index had.
THEOREM LineagesHold == QueriesSpec => []LineageHolds
<1>1. QueriesInv => LineageHolds
  <2> SUFFICES ASSUME QueriesInv, answer.kind # "none", answer.chain # <<>>
               PROVE  LineageOf(answer.pid, answer.ts, answer.chain, answer.below)
    BY DEF LineageHolds, LineageOf
  <2>1. answer # NoAnswer
    BY DEF NoAnswer
  <2> QED BY <2>1 DEF QueriesInv, Answered
<1> QED BY <1>1, QueriesInitially, QueriesStep, PTL DEF QueriesSpec

\* No query evicts a node that the graph has from the index.
THEOREM NodesAreNotEvicted == QueriesSpec => []NodesStayIndexed
<1>1. QueriesInv => NodesStayIndexed
  BY DEF QueriesInv, InIndex, NodesStayIndexed
<1> QED BY <1>1, QueriesInitially, QueriesStep, PTL DEF QueriesSpec

-----------------------------------------------------------------------------
(* The files of an answer. *)

FilesOf(pid) == {f \in TouchedBy(NodesOf(pid), "files") : f.op \in FileOps}

\* Through the index all the nodes of the graph are found that a pid has.
LEMMA RowsAreNodes ==
  ASSUME NEW ix, InIndex(ix), NEW pid
  PROVE  RowsForPid(ix, pid) = NodesOf(pid)
BY DEF InIndex, RowsForPid, IdsOf, NodesOf

LEMMA FilesAreFinite ==
  ASSUME view \in DOMAIN Views, NEW pid
  PROVE  IsFiniteSet(FilesOf(pid)) /\ \A f \in FilesOf(pid) : f.at \in Nat
<1> DEFINE files == {V.nodes[n].files : n \in NodesOf(pid)}
<1>1. NodesOf(pid) \in SUBSET (DOMAIN V.nodes)
  BY DEF NodesOf
<1>2. IsFiniteSet(NodesOf(pid))
  BY <1>1, ViewIsSound, FS_Subset
<1>3. IsFiniteSet(files)
  <2> DEFINE f == [n \in NodesOf(pid) |-> V.nodes[n].files]
  <2>1. f \in Surjection(NodesOf(pid), files)
    BY DEF Surjection
  <2> HIDE DEF f, files
  <2> QED BY <1>2, <2>1, FS_Surjection
<1>4. \A fs \in files : IsFiniteSet(fs) /\ \A f \in fs : f.at \in Nat
  BY <1>1, ViewIsSound
<1>5. IsFiniteSet(UNION files) /\ \A f \in UNION files : f.at \in Nat
  <2> HIDE DEF files
  <2> QED BY <1>3, <1>4, FS_UNION
<1>6. FilesOf(pid) \in SUBSET (UNION files)
  BY DEF FilesOf, TouchedBy
<1> HIDE DEF files
<1> QED BY <1>5, <1>6, FS_Subset

\* The latest of all are among the latest of each part.
LEMMA LatestInPart ==
  ASSUME NEW all, IsFiniteSet(all), NEW n \in Nat, NEW m \in Nat, n <= m,
         NEW part \in SUBSET all, NEW r \in part, r \in LatestOf(all, n)
  PROVE  r \in LatestOf(part, m)
<1>1. r \in LatestRows(part, n)
  BY LatestOfPart DEF LatestOf, LatestRows
<1>2. {x \in part : x.at > r.at} \in SUBSET part /\ part \in SUBSET all
  OBVIOUS
<1>3. Cardinality({x \in part : x.at > r.at}) \in Nat
  BY <1>2, FS_Subset, FS_CardinalityType
<1>4. Cardinality({x \in part : x.at > r.at}) < n
  BY <1>1 DEF LatestRows
<1>5. Cardinality({x \in part : x.at > r.at}) < m
  BY <1>3, <1>4
<1> QED BY <1>5 DEF LatestOf

LEMMA FilesByOne ==
  ASSUME NEW sources, NEW s \in sources, NEW o \in FileOps,
         NEW r \in RowsLimited({f \in TouchedBy(s, "files") : f.op = o})
  PROVE  r \in FilesBy(sources)
<1> DEFINE OfOne(x, p) == RowsLimited({f \in TouchedBy(x, "files") : f.op = p})
           all == {OfOne(x, p) : x \in sources, p \in FileOps}
<1>1. r \in OfOne(s, o)
  OBVIOUS
<1>2. FilesBy(sources) = UNION all
  BY DEF FilesBy
<1> HIDE DEF OfOne
<1>3. OfOne(s, o) \in all
  OBVIOUS
<1> QED BY <1>1, <1>2, <1>3

\* A query for each kind of edge, and by the index for each node.
LEMMA FilesMerged ==
  ASSUME view \in DOMAIN Views, NEW ix, InIndex(ix), NEW pid
  PROVE  FileActivity(ix, pid) = LatestOf(FilesOf(pid), FilesShown)
<1> DEFINE ns == NodesOf(pid)
           sources == IF V.built THEN {{n} : n \in ns} ELSE {ns}
           Kind(s, o) == {f \in TouchedBy(s, "files") : f.op = o}
           merged == FilesBy(sources)
           all == FilesOf(pid)
<1>1. FileActivity(ix, pid) = LatestOf(merged, FilesShown)
  <2>1. RowsForPid(ix, pid) = ns
    BY RowsAreNodes
  <2> QED BY <2>1 DEF FileActivity
<1>2. IsFiniteSet(all) /\ \A f \in all : f.at \in Nat
  BY FilesAreFinite
<1>3. ASSUME NEW s \in sources, NEW o \in FileOps
      PROVE  Kind(s, o) \in SUBSET all
  BY DEF TouchedBy, FilesOf
<1>4. merged \in SUBSET all
  <2> HIDE DEF merged, all
  <2> SUFFICES ASSUME NEW r \in merged
               PROVE  r \in all
    OBVIOUS
  <2>1. PICK s \in sources, o \in FileOps : r \in RowsLimited(Kind(s, o))
    BY DEF merged, FilesBy
  <2>2. r \in Kind(s, o)
    BY <2>1 DEF RowsLimited, LatestOf
  <2> HIDE DEF Kind, sources
  <2> QED BY <1>3, <2>2
<1>5. ASSUME NEW r \in LatestOf(all, FilesShown)
      PROVE  r \in merged
  <2>1. r \in all
    BY DEF LatestOf
  <2>2. PICK n \in ns : r \in V.nodes[n].files
    BY <2>1 DEF FilesOf, TouchedBy
  <2>3. r.op \in FileOps
    BY <2>1 DEF FilesOf
  <2>4. PICK s \in sources : n \in s
    OBVIOUS
  <2>5. r \in Kind(s, r.op)
    BY <2>2, <2>4 DEF TouchedBy
  <2>6. Kind(s, r.op) \in SUBSET all
    BY <1>3, <2>3
  <2>7. r \in LatestOf(Kind(s, r.op), FilesPerNode)
    <3>1. FilesShown \in Nat /\ FilesPerNode \in Nat /\ FilesShown <= FilesPerNode
      BY QueriesAssumption
    <3> HIDE DEF Kind, all
    <3> QED BY <1>2, <1>5, <2>5, <2>6, <3>1, LatestInPart
  <2>8. r \in RowsLimited(Kind(s, r.op))
    BY <2>7 DEF RowsLimited
  <2>9. PICK o \in FileOps : o = r.op
    BY <2>3
  <2>10. r \in RowsLimited({f \in TouchedBy(s, "files") : f.op = o})
    BY <2>8, <2>9
  <2> HIDE DEF sources
  <2> QED BY <2>10, FilesByOne
<1>6. LatestOf(merged, FilesShown) = LatestOf(all, FilesShown)
  <2>1. FilesShown \in Nat
    BY QueriesAssumption
  <2> HIDE DEF merged, all
  <2>2. LatestRows(all, FilesShown) \subseteq merged
    BY <1>5 DEF LatestOf, LatestRows
  <2>3. LatestRows(merged, FilesShown) = LatestRows(all, FilesShown)
    BY <1>2, <1>4, <2>1, <2>2, LatestOfEnough
  <2> QED BY <2>3 DEF LatestOf, LatestRows
<1> QED BY <1>1, <1>6

\* The files that an attack chain shows are the latest that any process of the
\* pid has touched, also where the index has lost ghosts on the way.
THEOREM FilesShownAreLatest == QueriesSpec => []FilesAreLatest
<1>1. QueriesInit => FilesAreLatest
  BY DEF QueriesInit, NoAnswer, FilesAreLatest
<1>2. QueriesInv /\ QueriesInv' /\ FilesAreLatest /\ [QueriesNext]_queryVars => FilesAreLatest'
  <2> SUFFICES ASSUME QueriesInv, QueriesInv', FilesAreLatest, [QueriesNext]_queryVars
               PROVE  FilesAreLatest'
    OBVIOUS
  <2>1. CASE UNCHANGED queryVars
    BY <2>1 DEF queryVars, FilesAreLatest, TouchedBy, NodesOf, V
  <2>2. CASE TakeAnswer \/ AskChain \/ AskTree
    <3>1. answer'.kind # "attack"
      <4>1. CASE TakeAnswer
        BY <4>1 DEF TakeAnswer, NoAnswer
      <4>2. CASE AskChain
        BY <4>2 DEF AskChain
      <4>3. CASE AskTree
        BY <4>3 DEF AskTree
      <4> QED BY <2>2, <4>1, <4>2, <4>3
    <3> QED BY <3>1 DEF FilesAreLatest
  <2>3. CASE AskAttackChain
    <3>1. view' = view /\ V' = V
      BY <2>3 DEF AskAttackChain, V
    <3>2. PICK pid, t : index' = t.ix /\ answer' = AttackChain(pid, t)
      BY <2>3 DEF AskAttackChain
    <3>3. InIndex(t.ix)
      BY <3>1, <3>2 DEF QueriesInv, InIndex
    <3>4. answer'.pid = pid /\ answer'.files = FileActivity(t.ix, pid)
      BY <3>2 DEF AttackChain
    <3>5. answer'.files = LatestOf(FilesOf(pid), FilesShown)
      BY <3>3, <3>4, FilesMerged DEF QueriesInv
    <3> QED BY <3>1, <3>4, <3>5 DEF FilesAreLatest, FilesOf, TouchedBy, NodesOf
  <2> QED BY <2>1, <2>2, <2>3 DEF QueriesNext
<1> QED BY <1>1, <1>2, QueriesInitially, QueriesStep, PTL DEF QueriesSpec
=============================================================================
