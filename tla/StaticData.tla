----------------------------- MODULE StaticData -----------------------------
(***************************************************************************)
(* The static data (eve/sde-downloader.ts, eve/sde-loader.ts) and the star *)
(* map made of it (eve/map-graph.ts, app.ts): the setup unpacks an export, *)
(* loads its files one after the other into tables, each in a transaction, *)
(* and notes the build; the service, a process of its own, builds the map  *)
(* when it starts and the build is another.  Either may die anywhere.      *)
(*                                                                         *)
(* Two files stand for all: the systems and the gates.  A line is parsed   *)
(* or not, its record can be bound to the statement or not, and a system   *)
(* has coordinates or not.                                                 *)
(***************************************************************************)
EXTENDS Integers, Sequences, FiniteSetsExt, SequencesExt, Functions

CONSTANTS
  Exports,     \* of an export, the lines of both files
  BatchSize,   \* BATCH_SIZE
  MaxLoads, MaxStarts,   \* bounds: loads begun, starts of the service
  Nothing

Files == {"systems", "gates"}
After == [systems |-> "gates", gates |-> "old meta"]

VARIABLES
  disk,        \* the file of the export that is unpacked
  table,       \* the rows of each table
  meta,        \* the build in sde_meta
  load,        \* what the loader is at: "idle", a file, or the meta
  line, batch, pending,   \* of the open transaction
  loads,
  graph,       \* map_systems and map_edges
  graphMeta,   \* the build and the systems of map_graph_meta
  service,     \* "down", "up", or "mapless": up, and the map was not built
  starts,
  cache,       \* of the service: the graph that its searches use
  fresh        \* the last load has "ended", and the service started after it: "yes"

loader == <<load, line, batch, pending, loads>>
map == <<graph, graphMeta>>
vars == <<disk, table, meta, loader, map, service, starts, cache, fresh>>

Empty == [systems |-> {}, edges |-> {}]

TypeOK ==
  /\ load \in Files \cup {"idle", "old meta", "meta"} /\ loads \in 0..MaxLoads /\ starts \in 0..MaxStarts
  /\ meta \in 1..MaxLoads \cup {Nothing} /\ Len(batch) <= BatchSize
  /\ DOMAIN graph = DOMAIN Empty /\ cache \in {Nothing, graph}
  /\ service \in {"down", "up", "mapless"} /\ fresh \in {"no", "ended", "yes"}

Init ==
  /\ disk \in [Files -> {Nothing}] /\ table = [f \in Files |-> {}] /\ meta = Nothing
  /\ load = "idle" /\ line = 0 /\ batch = <<>> /\ pending = {} /\ loads = 0
  /\ graph = Empty /\ graphMeta = Nothing /\ service = "down" /\ starts = 0 /\ cache = Nothing
  /\ fresh = "no"

-----------------------------------------------------------------------------
\* extractZip writes the files one by one, and may stop after any.
Unpack ==
  /\ load = "idle"
  /\ \E e \in Exports, F \in SUBSET Files \ {{}} :
       disk' = [f \in Files |-> IF f \in F THEN e[f] ELSE disk[f]]
  /\ UNCHANGED <<table, meta, loader, map, service, starts, cache, fresh>>

-----------------------------------------------------------------------------
(* The loader.                                                             *)

LoadStarts ==
  /\ load = "idle" /\ loads < MaxLoads /\ loads' = loads + 1
  /\ load' = "systems" /\ line' = 0 /\ fresh' = "no"
  /\ UNCHANGED <<disk, table, meta, batch, pending, map, service, starts, cache>>

\* BEGIN IMMEDIATE and DELETE; a file that is missing is passed over.
OpenFile ==
  /\ load \in Files /\ line = 0
  /\ IF disk[load] = Nothing THEN load' = After[load] /\ line' = 0 ELSE line' = 1 /\ UNCHANGED load
  /\ batch' = <<>> /\ pending' = {}
  /\ UNCHANGED <<disk, table, meta, loads, map, service, starts, cache, fresh>>

Bound(rows) == {l.row : l \in {l \in ToSet(rows) : l.form # "unbound"}}
WholeBatch(rows) == IF \E l \in ToSet(rows) : l.form = "unbound" THEN {} ELSE Bound(rows)   \* a bug
\* flushBatch: all rows, or row by row those that can be bound.
Flushed(rows) == Bound(rows)

InTransaction == load \in Files /\ line > 0

ReadLine ==
  /\ InTransaction /\ line <= Len(disk[load]) /\ line' = line + 1
  /\ LET l == disk[load][line]
         next == IF l.form = "torn" THEN batch ELSE Append(batch, l)
     IN IF Len(next) >= BatchSize
        THEN pending' = pending \cup Flushed(next) /\ batch' = <<>>
        ELSE batch' = next /\ UNCHANGED pending
  /\ UNCHANGED <<disk, table, meta, load, loads, map, service, starts, cache, fresh>>

Commit ==
  /\ InTransaction /\ line > Len(disk[load])
  /\ table' = [table EXCEPT ![load] = pending \cup Flushed(batch)]
  /\ load' = After[load] /\ line' = 0 /\ batch' = <<>> /\ pending' = {}
  /\ UNCHANGED <<disk, meta, loads, map, service, starts, cache, fresh>>

\* The reading fails, or the process is killed, in a transaction or between two.
CommitsAnyway == [table EXCEPT ![load] = pending]                  \* a bug
Rollback == table

LoadFails ==
  /\ load # "idle" /\ load' = "idle"
  /\ table' = (IF InTransaction THEN Rollback ELSE table)
  /\ line' = 0 /\ batch' = <<>> /\ pending' = {}
  /\ UNCHANGED <<disk, meta, loads, map, service, starts, cache, fresh>>

\* The build is a number of its own for every load.
DateOnly == 1                                                      \* a bug
NewBuild == loads

ForgetBuild ==
  /\ load = "old meta" /\ load' = "meta" /\ meta' = Nothing
  /\ UNCHANGED <<disk, table, line, batch, pending, loads, map, service, starts, cache, fresh>>

NoteBuild ==
  /\ load = "meta" /\ load' = "idle" /\ meta' = NewBuild /\ fresh' = "ended"
  /\ UNCHANGED <<disk, table, line, batch, pending, loads, map, service, starts, cache>>

-----------------------------------------------------------------------------
(* The service.                                                            *)

\* Of the rows: the systems with coordinates, and the gates between two of
\* them, both ways.
Known(tables) == {r.id : r \in {r \in tables.systems : r.placed}}
Links(tables) == {<<r.from, r.to>> : r \in tables.gates}
Derived(tables) ==
  LET known == Known(tables)
      gates == {l \in Links(tables) : l[1] # l[2] /\ {l[1], l[2]} \subseteq known}
  IN [systems |-> known, edges |-> gates \cup {<<l[2], l[1]>> : l \in gates}]

\* buildMapGraph throws rather than draw a part of the map.
Buildable(tables) ==
  /\ 10 * Cardinality(Known(tables)) >= 9 * Cardinality(tables.systems)
  /\ Derived(tables).edges # {}

UpToDate == graphMeta # Nothing /\ graphMeta.count > 0 /\ graphMeta.build = meta

\* The migrations need the write lock, which an open transaction holds.
Start ==
  /\ service = "down" /\ starts < MaxStarts /\ starts' = starts + 1 /\ ~InTransaction
  /\ cache' = Nothing /\ fresh' = (IF fresh = "no" THEN "no" ELSE "yes")
  /\ IF table.systems # {} /\ (UpToDate \/ Buildable(table))
     THEN /\ service' = "up"
          /\ graph' = (IF UpToDate THEN graph ELSE Derived(table))
          /\ graphMeta' = (IF UpToDate THEN graphMeta
                           ELSE [build |-> meta, count |-> Cardinality(Known(table))])
     ELSE service' = "mapless" /\ UNCHANGED map
  /\ UNCHANGED <<disk, table, meta, loader>>

Search ==
  /\ service # "down" /\ graphMeta # Nothing /\ cache = Nothing
  /\ cache' = graph
  /\ UNCHANGED <<disk, table, meta, loader, map, service, starts, fresh>>

Stop ==
  /\ service # "down" /\ service' = "down" /\ cache' = Nothing /\ fresh' = (IF fresh = "no" THEN "no" ELSE "ended")
  /\ UNCHANGED <<disk, table, meta, loader, map, starts>>

Next ==
  \/ Unpack \/ LoadStarts \/ OpenFile \/ ReadLine \/ Commit \/ LoadFails \/ ForgetBuild \/ NoteBuild
  \/ Start \/ Search \/ Stop

Spec == Init /\ [][Next]_vars

-----------------------------------------------------------------------------
RowsOf(lines) == {l.row : l \in {l \in ToSet(lines) : l.form = "good"}}

\* "A running bot never observes the partial table": whatever fails, a table
\* is empty as it was at first, or has every good line of one file.
TablesAreWhole ==
  \A f \in Files : table[f] = {} \/ \E e \in Exports : table[f] = RowsOf(e[f])

\* After a load that ended, the next start has the map of what was loaded, or
\* none; and no gate of a map leads out of it, or one way only.
MapIsOfTheLoad ==
  /\ fresh = "yes" /\ service = "up" => graph = Derived(table) /\ Buildable(table)
  /\ \A l \in graph.edges : {l[1], l[2]} \subseteq graph.systems /\ <<l[2], l[1]>> \in graph.edges

StaticDataSound == TablesAreWhole /\ MapIsOfTheLoad
=============================================================================
