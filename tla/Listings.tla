---------------------------- MODULE Listings ----------------------------
(***************************************************************************)
(* The listing operations of the three proof stores.  They share the order *)
(* of positions, the cursor tests of internal/model and the page that a    *)
(* listing promises.  A row is a record with a position pos = <<a, b>>:    *)
(* (received or closed time, id), (level, start index), (tree size, result *)
(* key), or (index, 0).  Ids are at least 1; 0 is the empty id.            *)
(*                                                                         *)
(* Options are a record: limit, asc (the direction), after and has (the    *)
(* cursor), and the filters batch, level, from and to, 0 meaning unset.    *)
(*                                                                         *)
(* Then the listing operations of each store over the rows of one kind.    *)
(***************************************************************************)
EXTENDS Naturals, Sequences, SequencesExt, FiniteSets

CONSTANTS
  PebbleTileSize,   \* leaves or nodes of a batch tree in one tile of the Pebble store
  TikvTileSize      \* the same of the TiKV store

NoCursor == <<0, 0>>

CompareBatchRootPosition(p, q) == p[1] < q[1] \/ (p[1] = q[1] /\ p[2] < q[2])

CompareUint64Position(p, q) == p[1] < q[1]

\* A tree size, then the encoded identity of the stream and the sink.
CompareResultKeys(p, q) == p[1] < q[1] \/ (p[1] = q[1] /\ p[2] < q[2])

HasCursor(o) == o.after # NoCursor

BatchRootAfterCursor(r, o) ==
  \/ ~HasCursor(o)
  \/ o.asc /\ CompareBatchRootPosition(o.after, r.pos)
  \/ ~o.asc /\ CompareBatchRootPosition(r.pos, o.after)

Uint64AfterCursor(r, o) ==
  \/ o.after[1] = 0
  \/ o.asc /\ CompareUint64Position(o.after, r.pos)
  \/ ~o.asc /\ CompareUint64Position(r.pos, o.after)

RecordIndexAfterCursor(r, o) ==
  \/ ~HasCursor(o)
  \/ o.asc /\ CompareBatchRootPosition(o.after, r.pos)
  \/ ~o.asc /\ CompareBatchRootPosition(r.pos, o.after)

RecordIndexProofLevel(r) == IF r.level > 0 THEN r.level ELSE IF r.batch > 0 THEN 3 ELSE 2

\* The other filters, by client, tenant, content and storage token, have the
\* same form.
RecordIndexMatchesListOptions(r, o) ==
  /\ o.batch > 0 => r.batch = o.batch
  /\ o.level > 0 => RecordIndexProofLevel(r) = o.level
  /\ o.from > 0 => r.pos[1] >= o.from
  /\ o.to > 0 => r.pos[1] <= o.to

\* The rows of S in key order, and the other way round.
Ascending(S) == SetToSortSeq(S, LAMBDA r, q: CompareBatchRootPosition(r.pos, q.pos))
Descending(S) == Reverse(Ascending(S))

\* The first n elements of a scan.
Take(s, n) == SubSeq(s, 1, IF n < Len(s) THEN n ELSE Len(s))

-------------------------------------------------------------------------
(* The file store, internal/proofstore/local.go.  A directory is read and
   sorted, and a page is a range of the sorted entries [lower, upper).  Heads
   and leaves may also be read by number, until one is missing. *)

orderedRecordIndexEntries(S) == Ascending(S)
orderedRootEntries(S) == Ascending(S)
orderedManifestEntries(S) == Ascending(S)
orderedGlobalNodeEntries(S) == Ascending(S)
globalOutboxEntries(S) == Ascending(S)

\* sort.Search: the least index whose entry satisfies Test, from 1.
Search(s, Test(_)) ==
  LET hits == {i \in 1..Len(s) : Test(s[i])}
  IN IF hits = {} THEN Len(s) + 1 ELSE CHOOSE i \in hits : \A j \in hits : i <= j

recordIndexPageRange(s, o) ==
  LET lower == Search(s, LAMBDA r: r.pos[1] >= o.from)
      upper == IF o.to > 0 THEN Search(s, LAMBDA r: r.pos[1] > o.to) ELSE Len(s) + 1
      after == Search(s, LAMBDA r: CompareBatchRootPosition(o.after, r.pos))
      at == Search(s, LAMBDA r: ~CompareBatchRootPosition(r.pos, o.after))
  IN [lower |-> IF HasCursor(o) /\ o.asc /\ after > lower THEN after ELSE lower,
      upper |-> IF HasCursor(o) /\ ~o.asc /\ at < upper THEN at ELSE upper]

rootPageRange(s, o) ==
  [lower |-> IF HasCursor(o) /\ o.asc THEN Search(s, LAMBDA r: CompareBatchRootPosition(o.after, r.pos)) ELSE 1,
   upper |-> IF HasCursor(o) /\ ~o.asc THEN Search(s, LAMBDA r: ~CompareBatchRootPosition(r.pos, o.after))
             ELSE Len(s) + 1]

sortedDirectoryPageRange(s) == [lower |-> 1, upper |-> Len(s) + 1]

\* The entries of a range in the asked direction.
Ranged(s, range, o) ==
  LET part == SubSeq(s, range.lower, range.upper - 1)
  IN IF o.asc THEN part ELSE Reverse(part)

LocalRecordDirectory(S, o) ==
  IF o.batch > 0 THEN {r \in S : r.batch = o.batch}
  ELSE IF o.level > 0 THEN {r \in S : RecordIndexProofLevel(r) = o.level}
  ELSE S

LocalListRecordIndexes(S, o) ==
  LET s == orderedRecordIndexEntries(LocalRecordDirectory(S, o))
  IN Take(SelectSeq(Ranged(s, recordIndexPageRange(s, o), o),
                    LAMBDA r: RecordIndexMatchesListOptions(r, o) /\ RecordIndexAfterCursor(r, o)), o.limit)

LocalListRootsAfter(S, o) ==
  LET s == orderedRootEntries(S)
  IN Take(SubSeq(s, Search(s, LAMBDA r: r.pos[1] > o.after[1]), Len(s)), o.limit)

LocalListRootsPage(S, o) ==
  LET s == orderedRootEntries(S)
  IN Take(SelectSeq(Ranged(s, rootPageRange(s, o), o), LAMBDA r: BatchRootAfterCursor(r, o)), o.limit)

LocalListManifestsAfter(S, o) ==
  LET s == orderedManifestEntries(S)
  IN Take(SubSeq(s, Search(s, LAMBDA r: CompareBatchRootPosition(o.after, r.pos)), Len(s)), o.limit)

LocalListGlobalLogNodesAfter(S, o) ==
  LET s == orderedGlobalNodeEntries(S)
      start == IF o.has THEN Search(s, LAMBDA r: CompareBatchRootPosition(o.after, r.pos)) ELSE 1
  IN Take(SubSeq(s, start, Len(s)), o.limit)

LocalListGlobalLogTilesAfter(S, o) ==
  Take(SelectSeq(Ascending(S), LAMBDA r: o.has => r.pos[1] > o.after[1]), o.limit)

LocalListGlobalLogOutboxItemsAfter(S, o) ==
  Take(SelectSeq(globalOutboxEntries(S), LAMBDA r: CompareBatchRootPosition(o.after, r.pos)), o.limit)

LocalListBatchTreeLeaves(S, o) ==
  Take(SelectSeq(Ascending(S), LAMBDA r: o.has => r.pos[1] > o.after[1]), o.limit)

LocalListBatchTreeNodes(S, o) ==
  LET asLeaves == IF ~o.has /\ o.from > 0 THEN [o EXCEPT !.after = <<o.from - 1, 0>>, !.has = TRUE] ELSE o
  IN IF o.level = 0 THEN LocalListBatchTreeLeaves(S, asLeaves)
     ELSE Take(SelectSeq(Ascending(S),
                         LAMBDA r: r.pos[1] >= o.from /\ (o.has => r.pos[1] > o.after[1])), o.limit)

\* Rows read by number from first on, until one is missing.
Consecutive(S, first) ==
  {r \in S : r.pos[1] >= first /\ \A n \in first..r.pos[1] : \E q \in S : q.pos[1] = n}

LocalListSignedTreeHeadsAfter(S, o) == Take(Ascending(Consecutive(S, o.after[1] + 1)), o.limit)

LocalListSignedTreeHeadsPage(S, o) ==
  LET s == Ascending(S)
  IN Take(SelectSeq(Ranged(s, sortedDirectoryPageRange(s), o), LAMBDA r: Uint64AfterCursor(r, o)), o.limit)

LocalListGlobalLeavesRange(S, o) == Take(Ascending(Consecutive(S, o.after[1])), o.limit)

listGlobalLeavesPageFromDirectory(S, o) ==
  LET s == Ascending(S)
  IN Take(SelectSeq(Ranged(s, sortedDirectoryPageRange(s), o), LAMBDA r: Uint64AfterCursor(r, o)), o.limit)

\* A leaf file beyond the stored tree size belongs to an append that has not
\* committed.
listCommittedGlobalLeavesPage(S, treeSize, o) ==
  LET start == IF o.after[1] > 0 THEN o.after[1] + 1 ELSE 0
      upper == IF o.after[1] > 0 /\ o.after[1] < treeSize THEN o.after[1] ELSE treeSize
  IN Take(IF o.asc THEN Ascending({r \in S : r.pos[1] >= start /\ r.pos[1] < treeSize})
                   ELSE Descending({r \in S : r.pos[1] < upper}), o.limit)

\* Without a stored state the directory is listed; then it has no leaf that
\* was committed.
LocalListGlobalLeavesPage(S, treeSize, o) ==
  IF treeSize > 0 THEN listCommittedGlobalLeavesPage(S, treeSize, o)
  ELSE listGlobalLeavesPageFromDirectory(S, o)

listSTHAnchorResultsPage(S, o) ==
  LET s == Ascending(S)
      lower == IF o.asc /\ o.has THEN Search(s, LAMBDA r: CompareResultKeys(o.after, r.pos)) ELSE 1
      upper == IF ~o.asc /\ o.has THEN Search(s, LAMBDA r: ~CompareResultKeys(r.pos, o.after)) ELSE Len(s) + 1
  IN Take(Ranged(s, [lower |-> lower, upper |-> upper], o), o.limit)

-------------------------------------------------------------------------
(* internal/proofstore/pebble.  An iterator reads the state it was opened on. *)

PebbleSeekGE(S, p) == Ascending({r \in S : ~CompareBatchRootPosition(r.pos, p)})
PebbleSeekLT(S, p) == Descending({r \in S : CompareBatchRootPosition(r.pos, p)})

PebbleScan(S, o, has) ==
  IF o.asc THEN IF has THEN PebbleSeekGE(S, o.after) ELSE Ascending(S)
           ELSE IF has THEN PebbleSeekLT(S, o.after) ELSE Descending(S)

PebbleListRootsAfter(S, o) ==
  Take(SelectSeq(PebbleSeekGE(S, <<o.after[1] + 1, 0>>), LAMBDA r: r.pos[1] > o.after[1]), o.limit)

PebbleListRootsPage(S, o) ==
  Take(SelectSeq(PebbleScan(S, o, HasCursor(o)), LAMBDA r: BatchRootAfterCursor(r, o)), o.limit)

PebbleListSignedTreeHeadsPage(S, o) ==
  Take(SelectSeq(PebbleScan(S, o, o.after[1] > 0), LAMBDA r: Uint64AfterCursor(r, o)), o.limit)

PebbleListSignedTreeHeadsAfter(S, o) == Take(PebbleSeekGE(S, <<o.after[1] + 1, 0>>), o.limit)

PebbleListGlobalLeavesPage(S, o) ==
  Take(SelectSeq(PebbleScan(S, o, o.after[1] > 0), LAMBDA r: Uint64AfterCursor(r, o)), o.limit)

PebbleListGlobalLeavesRange(S, o) == Take(PebbleSeekGE(S, o.after), o.limit)

PebbleListGlobalLogNodesAfter(S, o) ==
  LET scan == IF o.has THEN PebbleSeekGE(S, o.after) ELSE Ascending(S)
  IN Take(SelectSeq(scan, LAMBDA r: o.has => CompareBatchRootPosition(o.after, r.pos)), o.limit)

PebbleListGlobalLogTilesAfter(S, o) ==
  LET scan == IF o.has THEN PebbleSeekGE(S, <<o.after[1], 0>>) ELSE Ascending(S)
  IN Take(SelectSeq(scan, LAMBDA r: o.has => r.pos[1] > o.after[1]), o.limit)

PebbleListManifestsAfter(S, o) ==
  Take(SelectSeq(PebbleSeekGE(S, o.after),
                 LAMBDA r: HasCursor(o) => CompareBatchRootPosition(o.after, r.pos)), o.limit)

PebbleListGlobalLogOutboxItemsAfter(S, o) ==
  LET scan == IF HasCursor(o) THEN PebbleSeekGE(S, o.after) ELSE Ascending(S)
  IN Take(SelectSeq(scan, LAMBDA r: CompareBatchRootPosition(o.after, r.pos)), o.limit)

PebbleListSTHAnchorResultsPage(S, o) ==
  Take(SelectSeq(PebbleScan(S, o, o.has), LAMBDA r: o.has => r.pos # o.after), o.limit)

\* Every tile of the tree is read from the first one on.
PebbleTileScan(S) ==
  LET all == Ascending(S)
      Tile(k) == SubSeq(all, (k - 1) * PebbleTileSize + 1,
                        IF k * PebbleTileSize < Len(all) THEN k * PebbleTileSize ELSE Len(all))
  IN FlattenSeq([k \in 1..((Len(all) + PebbleTileSize - 1) \div PebbleTileSize) |-> Tile(k)])

PebbleListBatchTreeLeaves(S, o) ==
  Take(SelectSeq(PebbleTileScan(S), LAMBDA r: o.has => r.pos[1] > o.after[1]), o.limit)

PebbleListBatchTreeNodes(S, o) ==
  LET asLeaves == IF ~o.has /\ o.from > 0 THEN [o EXCEPT !.after = <<o.from - 1, 0>>, !.has = TRUE] ELSE o
  IN IF o.level = 0 THEN PebbleListBatchTreeLeaves(S, asLeaves)
     ELSE Take(SelectSeq(PebbleTileScan(S),
                         LAMBDA r: r.pos[1] >= o.from /\ (o.has => r.pos[1] > o.after[1])), o.limit)

PebbleRecordListPrefix(S, o, mode) ==
  IF mode # "time_only" /\ o.batch > 0 THEN {r \in S : r.batch = o.batch}
  ELSE IF mode # "time_only" /\ o.level > 0 THEN {r \in S : RecordIndexProofLevel(r) = o.level}
  ELSE S

PebbleRecordRangeExhausted(r, o) ==
  IF o.asc THEN o.to > 0 /\ r.pos[1] > o.to ELSE o.from > 0 /\ r.pos[1] < o.from

\* The scan starts at the cursor, else at the near end of the time range.
PebbleListRecordIndexes(S, o, mode) ==
  LET rows == PebbleRecordListPrefix(S, o, mode)
      scan == IF HasCursor(o) THEN PebbleScan(rows, o, TRUE)
              ELSE IF o.asc THEN PebbleSeekGE(rows, <<o.from, 0>>)
              ELSE IF o.to > 0 THEN PebbleSeekLT(rows, <<o.to + 1, 0>>) ELSE Descending(rows)
      Read(acc, r) ==
        IF acc.exhausted \/ Len(acc.records) >= o.limit THEN acc
        ELSE IF PebbleRecordRangeExhausted(r, o) THEN [acc EXCEPT !.exhausted = TRUE]
        ELSE IF RecordIndexMatchesListOptions(r, o) /\ RecordIndexAfterCursor(r, o)
               THEN [acc EXCEPT !.records = Append(@, r)] ELSE acc
  IN FoldLeft(Read, [records |-> <<>>, exhausted |-> FALSE], scan).records

-------------------------------------------------------------------------
(* internal/proofstore/tikv.  An iterator reads one snapshot, so a listing is a
   function of the rows; a scan is the sequence of the rows it still has to
   visit. *)

TikvFirst(S) == Ascending(S)
TikvLast(S) == Descending(S)
TikvSeekGE(S, p) == Ascending({r \in S : ~CompareBatchRootPosition(r.pos, p)})
TikvSeekLT(S, p) == Descending({r \in S : CompareBatchRootPosition(r.pos, p)})

TikvScan(S, o, has) ==
  IF o.asc THEN IF has THEN TikvSeekGE(S, o.after) ELSE TikvFirst(S)
           ELSE IF has THEN TikvSeekLT(S, o.after) ELSE TikvLast(S)

\* Only the closing time of the cursor counts.
TikvListRootsAfter(S, o) ==
  LET seen == TikvSeekGE(S, <<o.after[1] + 1, 0>>)
  IN Take(SelectSeq(seen, LAMBDA r: r.pos[1] > o.after[1]), o.limit)

TikvListRootsPage(S, o) ==
  Take(SelectSeq(TikvScan(S, o, HasCursor(o)), LAMBDA r: BatchRootAfterCursor(r, o)), o.limit)

TikvListSignedTreeHeadsPage(S, o) ==
  Take(SelectSeq(TikvScan(S, o, o.after[1] > 0), LAMBDA r: Uint64AfterCursor(r, o)), o.limit)

TikvListSignedTreeHeadsAfter(S, o) == Take(TikvSeekGE(S, <<o.after[1] + 1, 0>>), o.limit)

TikvListGlobalLeavesPage(S, o) ==
  Take(SelectSeq(TikvScan(S, o, o.after[1] > 0), LAMBDA r: Uint64AfterCursor(r, o)), o.limit)

TikvListGlobalLeavesRange(S, o) == Take(TikvSeekGE(S, o.after), o.limit)

TikvListGlobalLogNodesAfter(S, o) ==
  LET scan == IF o.has THEN TikvSeekGE(S, o.after) ELSE TikvFirst(S)
  IN Take(SelectSeq(scan, LAMBDA r: o.has => CompareBatchRootPosition(o.after, r.pos)), o.limit)

\* A tile's key also holds its width; the cursor does not.
TikvListGlobalLogTilesAfter(S, o) ==
  LET scan == IF o.has THEN TikvSeekGE(S, <<o.after[1], 0>>) ELSE TikvFirst(S)
  IN Take(SelectSeq(scan, LAMBDA r: o.has => r.pos[1] > o.after[1]), o.limit)

TikvListManifestsAfter(S, o) ==
  Take(SelectSeq(TikvSeekGE(S, o.after), LAMBDA r: HasCursor(o) => CompareBatchRootPosition(o.after, r.pos)),
       o.limit)

TikvListGlobalLogOutboxItemsAfter(S, o) ==
  LET scan == IF HasCursor(o) THEN TikvSeekGE(S, o.after) ELSE TikvFirst(S)
  IN Take(SelectSeq(scan, LAMBDA r: CompareBatchRootPosition(o.after, r.pos)), o.limit)

TikvListSTHAnchorResultsPage(S, o) ==
  Take(SelectSeq(TikvScan(S, o, o.has), LAMBDA r: o.has => r.pos # o.after), o.limit)

\* Batch trees are stored in tiles keyed by their first index.
TikvTiles(S) ==
  LET all == Ascending(S)
  IN {SubSeq(all, k * TikvTileSize + 1,
             IF (k + 1) * TikvTileSize < Len(all) THEN (k + 1) * TikvTileSize ELSE Len(all)) :
        k \in {j \in 0..Len(all) : j * TikvTileSize < Len(all)}}

\* The scan starts at the last tile that begins at or before the index.
TikvTileScan(S, index) ==
  LET tiles == TikvTiles(S)
      before == {t \in tiles : t[1].pos[1] < index + 1}
      from == IF before = {} THEN tiles
              ELSE {t \in tiles : \A b \in before : t[1].pos[1] >= b[1].pos[1]}
  IN FlattenSeq(SetToSortSeq(from, LAMBDA t, u: t[1].pos[1] < u[1].pos[1]))

TikvListBatchTreeLeaves(S, o) ==
  LET scan == IF o.has THEN TikvTileScan(S, o.after[1]) ELSE TikvFirst(S)
  IN Take(SelectSeq(scan, LAMBDA r: o.has => r.pos[1] > o.after[1]), o.limit)

\* Level 0 is answered from the leaves.
TikvListBatchTreeNodes(S, o) ==
  LET start == IF o.has /\ o.after[1] > o.from THEN o.after[1] ELSE o.from
      asLeaves == IF ~o.has /\ o.from > 0 THEN [o EXCEPT !.after = <<o.from - 1, 0>>, !.has = TRUE] ELSE o
  IN IF o.level = 0 THEN TikvListBatchTreeLeaves(S, asLeaves)
     ELSE Take(SelectSeq(TikvTileScan(S, start),
                         LAMBDA r: r.pos[1] >= o.from /\ (o.has => r.pos[1] > o.after[1])), o.limit)

\* The narrowest index that answers the query; time alone in time-only mode.
TikvRecordListPrefix(S, o, mode) ==
  IF mode # "time_only" /\ o.batch > 0 THEN {r \in S : r.batch = o.batch}
  ELSE IF mode # "time_only" /\ o.level > 0 THEN {r \in S : RecordIndexProofLevel(r) = o.level}
  ELSE S

TikvRecordRangeExhausted(r, o) ==
  IF o.asc THEN o.to > 0 /\ r.pos[1] > o.to ELSE o.from > 0 /\ r.pos[1] < o.from

TikvConsume(acc, r, o) ==
  IF acc.exhausted \/ Len(acc.records) >= o.limit THEN acc
  ELSE IF TikvRecordRangeExhausted(r, o) THEN [acc EXCEPT !.exhausted = TRUE]
  ELSE IF RecordIndexMatchesListOptions(r, o) /\ RecordIndexAfterCursor(r, o)
         THEN [acc EXCEPT !.records = Append(@, r)] ELSE acc

\* References are resolved together, in scan order.
TikvVisitRecordIndexRefs(acc, o) ==
  FoldLeft(LAMBDA a, r: TikvConsume(a, r, o), [acc EXCEPT !.pending = <<>>], acc.pending)

TikvReadEntry(acc, r, o) ==
  LET kept == [acc EXCEPT !.pending = Append(@, r)]
      flushed == TikvVisitRecordIndexRefs(acc, o)
  IN IF acc.exhausted \/ Len(acc.records) >= o.limit THEN acc
     ELSE IF r.ref THEN IF Len(kept.pending) >= o.limit - Len(kept.records)
                          THEN TikvVisitRecordIndexRefs(kept, o) ELSE kept
     ELSE TikvConsume(flushed, r, o)


TikvListRecordIndexes(S, o, mode) ==
  LET rows == {r \in TikvRecordListPrefix(S, o, mode) :
                 (o.from > 0 => r.pos[1] >= o.from) /\ (o.to > 0 => r.pos[1] <= o.to)}
      read == FoldLeft(LAMBDA a, r: TikvReadEntry(a, r, o),
                       [records |-> <<>>, pending |-> <<>>, exhausted |-> FALSE],
                       TikvScan(rows, o, HasCursor(o)))
  IN TikvVisitRecordIndexRefs(read, o).records
=========================================================================
