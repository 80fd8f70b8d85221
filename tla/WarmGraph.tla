------------------------------ MODULE WarmGraph -----------------------------
(***************************************************************************)
(* The warm graph (agent/ledger/warm_cache.py): every so often a thread    *)
(* exports the last hours of the forensic ledger (agent/ledger/reader.py), *)
(* loads them into a new graph in a directory of its own, serves that      *)
(* instead of the one before, and removes the other's directory.  The      *)
(* analyzer's transient graph (agent/ledger/slicer.py) is built in the     *)
(* same way and removed after use.                                         *)
(*                                                                         *)
(* A row of the ledger is [at, nodes, edges]: nodes [id, kind, seen, val], *)
(* edges [type, from, to, val].                                            *)
(***************************************************************************)
EXTENDS Integers, Sequences, FiniteSets, SequencesExt, Functions

CONSTANTS
  Missing,          \* No directory, no endpoint.
  Rows,             \* By name: the rows a ledger will have, as they are written.
  EdgeTables,
  MaxEdges,         \* _MAX_EDGES_PER_TYPE
  FirstWindow, Window,       \* first_window_hours and window_hours
  Stale,            \* Age at which a start removes a directory.
  Directories,      \* Names that mkdtemp gives; one that is in use is not given again.
  MaxSeconds, MaxWarmFaults  \* Bounds of the clock, and of failures and ends of the process.

ASSUME WarmAssumption ==
  /\ {MaxEdges, FirstWindow, Window, Stale, MaxSeconds, MaxWarmFaults} \subseteq Nat
  /\ Missing \notin Directories
  /\ \A name \in DOMAIN Rows :
       /\ Rows[name] \in Seq(ToSet(Rows[name]))
       /\ \A row \in ToSet(Rows[name]) :
            /\ row.at \in Int
            /\ row.nodes \in Seq(ToSet(row.nodes)) /\ row.edges \in Seq(ToSet(row.edges))
       /\ \A n, m \in UNION {ToSet(row.nodes) : row \in ToSet(Rows[name])} :
            n.seen \in Int /\ (n.id = m.id => n.kind = m.kind)

VARIABLES
  script,           \* The name of the rows.
  now,
  written,          \* How many of them are in the ledger.
  running,          \* The agent runs.
  stopping,         \* _stop is set.
  first,            \* _first_rebuild
  step,             \* Of the thread: "wait", "export", "load", "swap", "remove" or "ended".
  building,         \* [dir, start, end], and then [dir, rows, failed]: what a graph is made of.
  served,           \* _current_conn, _current_db and _current_tmpdir.
  leftover,         \* The directory to be removed.
  slice,            \* The directory of a transient graph in use.
  dirs,             \* The directories there are, and when each was made.
  cleaned,          \* stop() has removed what was served.
  ready,            \* _ready is set.
  warmFaults,
  \* History.
  stray             \* Directories of earlier runs, of slices that failed and of
                    \* rebuilds that failed before they had begun.

threadVars == <<first, step, building, leftover>>
runVars == <<script, now, written, running, stopping, cleaned>>
warmVars == <<runVars, threadVars, served, slice, dirs, ready, warmFaults, stray>>

NoGraph == [dir |-> Missing]
Ledger == SubSeq(Rows[script], 1, written)
WarmFault == warmFaults < MaxWarmFaults /\ warmFaults' = warmFaults + 1

-----------------------------------------------------------------------------
(* export_entities_csv: nodes by id, edges by type and endpoints. *)

With(f, k, v) == [x \in DOMAIN f \union {k} |-> IF x = k THEN v ELSE f[x]]

\* The last one of a process, the one last seen of anything else.
AddNode(nodes, n) ==
  IF n.kind = "process" \/ n.id \notin DOMAIN nodes \/ n.seen > nodes[n.id].seen
  THEN With(nodes, n.id, n) ELSE nodes

\* The last one, until the table is full; an edge without an end is none.
AddEdge(edges, e) ==
  IF \/ Missing \in {e.from, e.to}
     \/ Cardinality({k \in DOMAIN edges : k[1] = e.type}) >= MaxEdges
  THEN edges ELSE With(edges, <<e.type, e.from, e.to>>, e)

\* Variant (a bug this code does not have): edges are not held against the nodes.
AnyEdges(edges, nodes) == edges

\* _write_edge_csv: no edge without its nodes.
ValidEdges(edges, nodes) ==
  Restrict(edges, {k \in DOMAIN edges : {k[2], k[3]} \subseteq DOMAIN nodes})

\* The rows are written as events are dealt with, and read in the order of their
\* time (ORDER BY ts), those of one time as they were written.
InOrder(rows) == \A i, j \in DOMAIN rows : i < j => rows[i].at <= rows[j].at

Place(rows, row) ==
  CHOOSE n \in 0..Len(rows) :
    /\ \A i \in 1..n : rows[i].at <= row.at
    /\ \A i \in (n + 1)..Len(rows) : row.at < rows[i].at

InWindow(rows, start, end) ==
  LET kept[i \in 0..Len(rows)] ==
        IF i = 0 THEN <<>>
        ELSE IF start <= rows[i].at /\ rows[i].at <= end
             THEN InsertAt(kept[i - 1], Place(kept[i - 1], rows[i]) + 1, rows[i])
             ELSE kept[i - 1]
  IN kept[Len(rows)]

NodesOfRows(rows) == FlattenSeq([i \in DOMAIN rows |-> rows[i].nodes])
EdgesOfRows(rows) == FlattenSeq([i \in DOMAIN rows |-> rows[i].edges])

\* The dicts of a window, record by record.
NodeDict(records) ==
  LET dict[i \in 0..Len(records)] ==
        IF i = 0 THEN <<>> ELSE AddNode(dict[i - 1], records[i])
  IN dict[Len(records)]

EdgeDict(records) ==
  LET dict[i \in 0..Len(records)] ==
        IF i = 0 THEN <<>> ELSE AddEdge(dict[i - 1], records[i])
  IN dict[Len(records)]

\* The graph of some rows.  Tables are loaded one by one; one of edges that
\* fails is left out.
Export(rows, failed) ==
  LET nodes == NodeDict(NodesOfRows(rows))
      edges == ValidEdges(EdgeDict(EdgesOfRows(rows)), nodes)
  IN [nodes |-> nodes, edges |-> Restrict(edges, {k \in DOMAIN edges : k[1] \notin failed})]

-----------------------------------------------------------------------------
WarmInit ==
  /\ script \in DOMAIN Rows /\ now = 0 /\ written = 0
  /\ running = TRUE /\ stopping = FALSE /\ cleaned = FALSE
  /\ first = TRUE /\ step = "wait" /\ building = NoGraph /\ leftover = Missing
  /\ served = NoGraph /\ slice = Missing /\ dirs = <<>> /\ stray = {}
  /\ ready = FALSE /\ warmFaults = 0

WarmTick ==
  /\ now < MaxSeconds /\ now' = now + 1
  /\ UNCHANGED <<script, written, running, stopping, cleaned, threadVars, served, slice, dirs,
                 ready, warmFaults, stray>>

\* The ledger's writer.
RecordRow ==
  /\ running /\ written < Len(Rows[script]) /\ Rows[script][written + 1].at <= now
  /\ written' = written + 1
  /\ UNCHANGED <<script, now, running, stopping, cleaned, threadVars, served, slice, dirs, ready,
                 warmFaults, stray>>

-----------------------------------------------------------------------------
(* The thread. *)

NewDirectory == CHOOSE d \in Directories \ DOMAIN dirs : TRUE
MakeDirectory == DOMAIN dirs # Directories /\ dirs' = With(dirs, NewDirectory, now)
RemoveDirectory(d) == dirs' = Restrict(dirs, DOMAIN dirs \ {d})

\* Variant (a bug this code does not have): every window is like the first.
WindowFirst == FirstWindow

\* The first window is short, even if nothing comes of it.
WindowLength == IF first THEN FirstWindow ELSE Window

BeginRebuild ==
  /\ running /\ ~stopping /\ step = "wait"
  /\ MakeDirectory
  /\ building' = [dir |-> NewDirectory, start |-> now - WindowLength, end |-> now]
  /\ step' = "export" /\ first' = FALSE
  /\ UNCHANGED <<runVars, leftover, served, slice, ready, warmFaults, stray>>

\* mkdtemp or makedirs fails, which is before the try: a directory that has been made
\* is nobody's.
BeginRebuildFails ==
  /\ running /\ ~stopping /\ step = "wait" /\ WarmFault
  /\ first' = FALSE /\ ready' = TRUE
  /\ \/ MakeDirectory /\ stray' = stray \union {NewDirectory}
     \/ UNCHANGED <<dirs, stray>>
  /\ UNCHANGED <<runVars, step, building, leftover, served, slice>>

\* The end of a turn: the graph is said to be ready, whatever has come of it.
EndTurn ==
  /\ step' = (IF stopping THEN "ended" ELSE "wait") /\ ready' = TRUE
  /\ building' = NoGraph /\ leftover' = Missing

\* One read of the ledger.  With nothing in the window the graph before stays.
ExportRows ==
  /\ running /\ step = "export"
  /\ \E rows \in {InWindow(Ledger, building.start, building.end)} :
       IF NodesOfRows(rows) = <<>>
       THEN EndTurn /\ RemoveDirectory(building.dir)
       ELSE /\ step' = "load"
            /\ building' = [dir |-> building.dir, rows |-> rows, failed |-> {}]
            /\ UNCHANGED <<dirs, ready, leftover>>
  /\ UNCHANGED <<runVars, first, served, slice, warmFaults, stray>>

LoadTables ==
  /\ running /\ step = "load"
  /\ \E failed \in {{}} \union {{t} : t \in EdgeTables} :
       /\ IF failed = {} THEN UNCHANGED warmFaults ELSE WarmFault
       /\ building' = [building EXCEPT !.failed = failed]
  /\ step' = "swap"
  /\ UNCHANGED <<runVars, first, leftover, served, slice, dirs, ready, stray>>

\* Variant (a bug this code does not have): the directory is forgotten.
FailsLeaving ==
  /\ running /\ step \in {"export", "load"} /\ WarmFault
  /\ EndTurn /\ dirs' = dirs
  /\ UNCHANGED <<runVars, first, served, slice, stray>>

\* The ledger cannot be read, nodes cannot be loaded: the directory is removed.
RebuildFails ==
  /\ running /\ step \in {"export", "load"} /\ WarmFault
  /\ EndTurn /\ RemoveDirectory(building.dir)
  /\ UNCHANGED <<runVars, first, served, slice, stray>>

Swap ==
  /\ running /\ step = "swap"
  /\ served' = building
  /\ leftover' = served.dir
  /\ step' = "remove" /\ building' = NoGraph
  /\ UNCHANGED <<runVars, first, slice, dirs, ready, warmFaults, stray>>

\* The graph before is removed, though a reader may have its connection.
RemoveOld ==
  /\ running /\ step = "remove"
  /\ EndTurn /\ RemoveDirectory(leftover)
  /\ UNCHANGED <<runVars, first, served, slice, warmFaults, stray>>

EndThread ==
  /\ running /\ stopping /\ step = "wait"
  /\ step' = "ended"
  /\ UNCHANGED <<runVars, first, building, leftover, served, slice, dirs, ready, warmFaults, stray>>

-----------------------------------------------------------------------------
(* A transient graph: one that cannot be built is not closed either. *)

OpenSlice ==
  /\ running /\ slice = Missing
  /\ MakeDirectory /\ slice' = NewDirectory
  /\ UNCHANGED <<runVars, threadVars, served, ready, warmFaults, stray>>

OpenSliceFails ==
  /\ running /\ slice = Missing /\ WarmFault
  /\ MakeDirectory /\ stray' = stray \union {NewDirectory}
  /\ UNCHANGED <<runVars, threadVars, served, slice, ready>>

CloseSlice ==
  /\ running /\ slice # Missing
  /\ slice' = Missing /\ RemoveDirectory(slice)
  /\ UNCHANGED <<runVars, threadVars, served, ready, warmFaults, stray>>

-----------------------------------------------------------------------------
(* The agent. *)

Stop ==
  /\ running /\ ~stopping /\ stopping' = TRUE
  /\ UNCHANGED <<script, now, written, running, cleaned, threadVars, served, slice, dirs, ready,
                 warmFaults, stray>>

\* _cleanup_current, when the thread has ended or has not within ten seconds.
CleanUp ==
  /\ running /\ stopping /\ ~cleaned /\ cleaned' = TRUE
  /\ IF step = "ended" THEN UNCHANGED warmFaults ELSE WarmFault
  /\ served' = NoGraph
  /\ IF served = NoGraph THEN UNCHANGED dirs ELSE RemoveDirectory(served.dir)
  /\ UNCHANGED <<script, now, written, running, stopping, threadVars, slice, ready, stray>>

\* The process ends, whether it has stopped or not; its directories stay.
Die ==
  /\ running /\ running' = FALSE /\ WarmFault
  /\ served' = NoGraph /\ slice' = Missing /\ building' = NoGraph /\ leftover' = Missing
  /\ step' = "ended" /\ ready' = FALSE /\ stray' = DOMAIN dirs
  /\ UNCHANGED <<script, now, written, stopping, cleaned, first, dirs>>

\* A start removes the directories that are old enough.
StartAgain ==
  /\ ~running /\ running' = TRUE /\ stopping' = FALSE /\ cleaned' = FALSE
  /\ first' = TRUE /\ step' = "wait"
  /\ dirs' = Restrict(dirs, {d \in DOMAIN dirs : now - dirs[d] <= Stale})
  /\ stray' = stray \intersect DOMAIN dirs'
  /\ UNCHANGED <<script, now, written, building, leftover, served, slice, ready, warmFaults>>

-----------------------------------------------------------------------------
RebuildTurn ==
  BeginRebuild \/ ExportRows \/ LoadTables \/ Swap \/ RemoveOld \/ EndThread

WarmNext ==
  \/ RebuildTurn \/ BeginRebuildFails \/ RebuildFails \/ OpenSlice \/ OpenSliceFails \/ CloseSlice
  \/ WarmTick \/ RecordRow \/ Stop \/ CleanUp \/ Die \/ StartAgain

WarmSpec == WarmInit /\ [][WarmNext]_warmVars

\* The thread goes on, its wait comes to an end, and a slice is closed.
WarmFairness == WF_warmVars(RebuildTurn) /\ WF_warmVars(CloseSlice)
-----------------------------------------------------------------------------
\* What is served is one slice of the ledger: a process as in its latest row,
\* whenever that was written, anything else as it was last seen, and edges with both
\* their ends ("dangling-reference filtering"), the latest of each unless its table
\* is full.
LastRecorded(records, Same(_)) ==
  records[CHOOSE i \in DOMAIN records :
            Same(records[i]) /\ \A j \in DOMAIN records : Same(records[j]) => j <= i]

ServedIsWhole ==
  served # NoGraph =>
    LET g == Export(served.rows, served.failed)
        nodes == NodesOfRows(served.rows)
        edges == EdgesOfRows(served.rows)
    IN /\ InOrder(served.rows)
       /\ DOMAIN g.nodes = {n.id : n \in ToSet(nodes)} /\ DOMAIN g.nodes # {}
       /\ \A x \in DOMAIN g.nodes :
            IF g.nodes[x].kind = "process"
            THEN g.nodes[x] = LastRecorded(nodes, LAMBDA n : n.id = x)
            ELSE \A n \in ToSet(nodes) : n.id = x => n.seen <= g.nodes[x].seen
       /\ \A k \in DOMAIN g.edges :
            /\ {k[2], k[3]} \subseteq DOMAIN g.nodes
            /\ Cardinality({<<e.from, e.to>> : e \in {x \in ToSet(edges) : x.type = k[1]}}) < MaxEdges =>
                 g.edges[k] = LastRecorded(edges, LAMBDA e : <<e.type, e.from, e.to>> = k)

\* While the agent runs there is no directory of its graphs but the one that is
\* served, the one that is being built, the one about to be removed and the
\* slice's ("The old graph is cleaned up after swap") -- and the strays.
DirectoriesAreCleared ==
  DOMAIN dirs \ stray \subseteq {served.dir, building.dir, leftover, slice}

\* What is recorded is served before it leaves the window, as long as the agent
\* runs, whatever has failed before.
RowNumbers == UNION {DOMAIN Rows[s] : s \in DOMAIN Rows}
IsWritten(i) == i \in 1..written
IsServed(i) == served # NoGraph /\ Rows[script][i] \in ToSet(served.rows)
IsServedOrOld(i) == IsWritten(i) /\ (IsServed(i) \/ now - Window > Rows[script][i].at)

RowsAreServed ==
  \A i \in RowNumbers :
    (running /\ IsWritten(i)) ~> (IsServedOrOld(i) \/ stopping \/ ~running)
=============================================================================
