-------------------------- MODULE StoreListing --------------------------
(***************************************************************************)
(* A client, or an internal task, pages through one listing of a proof     *)
(* store while writers add rows.  The three stores answer with their own   *)
(* algorithms; the HTTP and the gRPC handlers parse the limit and the      *)
(* cursor, ask the store and hand out the cursor of the next page; the     *)
(* backup and the log's own tasks page until a page is empty.              *)
(***************************************************************************)
EXTENDS Listings, Integers

CONSTANTS
  DefaultLimit,   \* page size of a request that names none (100 in the code)
  MaxLimit,       \* largest page size a request may name (1000 in the code)
  RecordAt,       \* record id -> time of receipt
  RecordBatch,    \* record id -> batch
  RootAt,         \* batch id -> closing time
  MaxRows,        \* bound: rows of a numbered listing
  MaxPages        \* bound: pages one walk asks for

VARIABLES
  query,      \* the request that is paged: listing, store, api, limit, direction, filters
  rows,       \* the rows of the listing
  treeSize,   \* leaves: the size in the stored log state
  paging      \* [cursor, seen, before, pages, status, zero]

listingVars == <<query, rows, treeSize, paging>>

Row(pos) == [pos |-> pos, batch |-> 0, level |-> 0, ref |-> FALSE]

Numbered == {"heads", "leaves", "batch_leaves", "batch_nodes"}

\* Rows a writer can have stored, by listing.  TiKV record indexes are
\* references, or whole values written before there were any.
PossibleRows(listing) ==
  CASE listing = "records" -> {[pos |-> <<RecordAt[i], i>>, batch |-> RecordBatch[i], level |-> 0, ref |-> b] :
                                 i \in DOMAIN RecordAt, b \in IF query.store = "tikv" THEN BOOLEAN ELSE {TRUE}}
    [] listing = "roots" -> {Row(<<RootAt[i], i>>) : i \in DOMAIN RootAt}
    [] listing = "roots_after" -> {Row(<<i, i>>) : i \in DOMAIN RootAt}
    [] listing = "nodes" -> {Row(<<l, s>>) : l \in 0..1, s \in 0..1}
    [] listing = "anchors" -> {Row(<<n, k>>) : n \in 1..2, k \in 1..2}
    [] listing \in {"manifests", "outbox"} -> {Row(<<0, i>>) : i \in DOMAIN RootAt}
    [] listing = "tiles" -> {Row(<<s, 1>>) : s \in 0..2}
    [] listing = "heads" -> {Row(<<n, 0>>) : n \in 1..MaxRows}
    [] OTHER -> {Row(<<n, 0>>) : n \in 0..(MaxRows - 1)}

FirstNumber == IF query.listing = "heads" THEN 1 ELSE 0

\* The rows of a batch's tree carry the level that is asked for.
Leveled(r) == IF query.listing = "batch_nodes" THEN [r EXCEPT !.level = query.level] ELSE r

------------------------------------------------------------------------
\* Requests.  A limit of -1 is an absent one.
NoFilter == [batch |-> 0, level |-> 0, from |-> 0, to |-> 0, start |-> 0]

Filters(listing) ==
  CASE listing = "records" ->
         [batch : 0..1, level : {0, 4}, from : {0, 2}, to : 0..2, start : {0}]
    [] listing = "batch_nodes" -> {[NoFilter EXCEPT !.level = l, !.from = s] : l \in 0..1, s \in 0..1}
    [] listing = "roots" -> {[NoFilter EXCEPT !.start = t] : t \in 0..1}
    [] OTHER -> {NoFilter}

HttpListings == {"records", "roots", "heads", "leaves", "nodes", "batch_leaves", "batch_nodes", "anchors"}
GrpcListings == {"records", "roots", "heads", "leaves", "anchors"}
TaskListings == {"roots", "roots_after", "heads", "leaves", "nodes", "tiles", "manifests", "outbox",
                 "batch_leaves", "batch_nodes"}

\* Listings that have a direction; the others ascend.
Directed == {"records", "roots", "heads", "leaves", "anchors"}

Queries ==
  UNION {{[listing |-> l, api |-> a, store |-> s, mode |-> m, raw |-> n, asc |-> d,
           batch |-> f.batch, level |-> f.level, from |-> f.from, to |-> f.to, start |-> f.start] :
            s \in {"file", "pebble", "tikv"}, m \in IF l = "records" THEN {"full", "time_only"} ELSE {"full"},
            n \in IF a = "task" \/ l = "records" THEN 1..2 ELSE (-1)..(MaxLimit + 1),
            d \in IF a = "task" \/ l \notin Directed THEN {TRUE} ELSE BOOLEAN, f \in Filters(l)} :
         a \in {"http", "grpc", "task"}, l \in HttpListings \cup TaskListings}

\* The file store has no index mode.
Asked(q) == (q.mode = "time_only" => q.store # "file") /\
            CASE q.api = "http" -> q.listing \in HttpListings
                 [] q.api = "grpc" -> q.listing \in GrpcListings
                 [] OTHER -> q.listing \in TaskListings

parseLimitQuery(raw) == IF raw = -1 THEN DefaultLimit ELSE IF raw \in 1..MaxLimit THEN raw ELSE 0

parseLimitRequest(raw) == IF raw <= 0 THEN DefaultLimit ELSE IF raw > MaxLimit THEN 0 ELSE raw

RequestLimit == IF query.api = "http" THEN parseLimitQuery(query.raw) ELSE parseLimitRequest(query.raw)

\* A cursor is absent or the position it encodes.
encodeRecordCursor(r) == <<r.pos>>
encodeRootCursor(r) == <<r.pos>>
encodeUint64Cursor(r) == <<<<r.pos[1], 0>>>>
encodeAnchorCursor(r) == <<r.pos>>
encodeGlobalNodeCursor(r) == <<r.pos>>

decodeRecordCursor(token) == token[1]
decodeRootCursor(token) == token[1]
decodeUint64Cursor(token) == token[1]
decodeAnchorCursor(token) == token[1]
decodeGlobalNodeCursor(token) == token[1]

\* The options of a request, and its cursor added to them.
Request(limit) ==
  [limit |-> limit, asc |-> query.asc, after |-> NoCursor, has |-> FALSE,
   batch |-> query.batch, level |-> query.level, from |-> query.from, to |-> query.to]

AfterCursor(o, position) ==
  IF paging.cursor = <<>> THEN o ELSE [o EXCEPT !.after = position, !.has = TRUE]

parseRecordListOptions(limit) == AfterCursor(Request(limit), decodeRecordCursor(paging.cursor))
\* Without a cursor roots may start after a time.
parseRootListOptions(limit) == AfterCursor([Request(limit) EXCEPT !.after = <<query.start, 0>>], decodeRootCursor(paging.cursor))
parseTreeHeadListOptions(limit) == AfterCursor(Request(limit), decodeUint64Cursor(paging.cursor))
parseGlobalLeafListOptions(limit) == AfterCursor(Request(limit), decodeUint64Cursor(paging.cursor))
parseBatchTreeLeafListOptions(limit) == AfterCursor(Request(limit), decodeUint64Cursor(paging.cursor))
parseBatchTreeNodeListOptions(limit) == AfterCursor(Request(limit), decodeUint64Cursor(paging.cursor))
parseGlobalNodeListOptions(limit) == AfterCursor(Request(limit), decodeGlobalNodeCursor(paging.cursor))
parseAnchorListOptions(limit) == AfterCursor(Request(limit), decodeAnchorCursor(paging.cursor))

ValidRecordOptions == RequestLimit > 0 /\ (query.from > 0 /\ query.to > 0 => query.from <= query.to)

------------------------------------------------------------------------
\* The stores' answers.
Records(o) == CASE query.store = "tikv" -> TikvListRecordIndexes(rows, o, query.mode)
                [] query.store = "pebble" -> PebbleListRecordIndexes(rows, o, query.mode)
                [] OTHER -> LocalListRecordIndexes(rows, o)
RootsPage(o) == CASE query.store = "tikv" -> TikvListRootsPage(rows, o)
                  [] query.store = "pebble" -> PebbleListRootsPage(rows, o)
                  [] OTHER -> LocalListRootsPage(rows, o)
RootsAfter(o) == CASE query.store = "tikv" -> TikvListRootsAfter(rows, o)
                   [] query.store = "pebble" -> PebbleListRootsAfter(rows, o)
                   [] OTHER -> LocalListRootsAfter(rows, o)
HeadsPage(o) == CASE query.store = "tikv" -> TikvListSignedTreeHeadsPage(rows, o)
                  [] query.store = "pebble" -> PebbleListSignedTreeHeadsPage(rows, o)
                  [] OTHER -> LocalListSignedTreeHeadsPage(rows, o)
HeadsAfter(o) == CASE query.store = "tikv" -> TikvListSignedTreeHeadsAfter(rows, o)
                   [] query.store = "pebble" -> PebbleListSignedTreeHeadsAfter(rows, o)
                   [] OTHER -> LocalListSignedTreeHeadsAfter(rows, o)
LeavesPage(o) == CASE query.store = "tikv" -> TikvListGlobalLeavesPage(rows, o)
                   [] query.store = "pebble" -> PebbleListGlobalLeavesPage(rows, o)
                   [] OTHER -> LocalListGlobalLeavesPage(rows, treeSize, o)
LeavesRange(o) == CASE query.store = "tikv" -> TikvListGlobalLeavesRange(rows, o)
                    [] query.store = "pebble" -> PebbleListGlobalLeavesRange(rows, o)
                    [] OTHER -> LocalListGlobalLeavesRange(rows, o)
NodesAfter(o) == CASE query.store = "tikv" -> TikvListGlobalLogNodesAfter(rows, o)
                   [] query.store = "pebble" -> PebbleListGlobalLogNodesAfter(rows, o)
                   [] OTHER -> LocalListGlobalLogNodesAfter(rows, o)
TilesAfter(o) == CASE query.store = "tikv" -> TikvListGlobalLogTilesAfter(rows, o)
                   [] query.store = "pebble" -> PebbleListGlobalLogTilesAfter(rows, o)
                   [] OTHER -> LocalListGlobalLogTilesAfter(rows, o)
ManifestsAfter(o) == CASE query.store = "tikv" -> TikvListManifestsAfter(rows, o)
                       [] query.store = "pebble" -> PebbleListManifestsAfter(rows, o)
                       [] OTHER -> LocalListManifestsAfter(rows, o)
OutboxAfter(o) == CASE query.store = "tikv" -> TikvListGlobalLogOutboxItemsAfter(rows, o)
                    [] query.store = "pebble" -> PebbleListGlobalLogOutboxItemsAfter(rows, o)
                    [] OTHER -> LocalListGlobalLogOutboxItemsAfter(rows, o)
BatchLeaves(o) == CASE query.store = "tikv" -> TikvListBatchTreeLeaves(rows, o)
                    [] query.store = "pebble" -> PebbleListBatchTreeLeaves(rows, o)
                    [] OTHER -> LocalListBatchTreeLeaves(rows, o)
BatchNodes(o) == CASE query.store = "tikv" -> TikvListBatchTreeNodes(rows, o)
                   [] query.store = "pebble" -> PebbleListBatchTreeNodes(rows, o)
                   [] OTHER -> LocalListBatchTreeNodes(rows, o)
Anchors(o) == CASE query.store = "tikv" -> TikvListSTHAnchorResultsPage(rows, o)
                [] query.store = "pebble" -> PebbleListSTHAnchorResultsPage(rows, o)
                [] OTHER -> listSTHAnchorResultsPage(rows, o)

------------------------------------------------------------------------
\* Rows the request asks for: they match, lie beyond a starting time, and a
\* leaf is committed.
Wanted(r) ==
  /\ RecordIndexMatchesListOptions(r, query)
  /\ query.start > 0 => IF query.asc THEN CompareBatchRootPosition(<<query.start, 0>>, r.pos)
                                     ELSE CompareBatchRootPosition(r.pos, <<query.start, 0>>)
  /\ query.listing = "leaves" /\ query.api # "task" /\ treeSize > 0 => r.pos[1] < treeSize

\* Rows asked for that have been there since the first page was asked for; a
\* record that is promoted meanwhile may enter or leave a filter.
Noted == IF paging.pages = 0 THEN {r \in rows : Wanted(r)} ELSE paging.before \cap rows

Refuse == paging' = [paging EXCEPT !.status = "refused"] /\ UNCHANGED <<query, rows, treeSize>>

\* A full page carries the cursor of its last row.
Respond(page, limit, Encode(_)) ==
  /\ paging' = [paging EXCEPT
       !.seen = @ \o page, !.pages = @ + 1, !.before = Noted,
       !.cursor = IF Len(page) = limit THEN Encode(Last(page)) ELSE <<>>,
       !.status = IF Len(page) = limit THEN "paging" ELSE "done",
       !.zero = @ \/ (query.listing = "leaves" /\ Len(page) = limit /\ Last(page).pos[1] = 0)]
  /\ UNCHANGED <<query, rows, treeSize>>

Asks(api, listing) ==
  /\ query.api = api /\ query.listing = listing
  /\ paging.status = "paging" /\ paging.pages < MaxPages

HttpListRecords ==
  /\ Asks("http", "records")
  /\ IF ValidRecordOptions THEN
       Respond(Records(parseRecordListOptions(RequestLimit)), RequestLimit, encodeRecordCursor)
     ELSE Refuse

HttpListRoots ==
  /\ Asks("http", "roots")
  /\ IF RequestLimit > 0 THEN
       Respond(RootsPage(parseRootListOptions(RequestLimit)), RequestLimit, encodeRootCursor)
     ELSE Refuse

HttpListSTHs ==
  /\ Asks("http", "heads")
  /\ IF RequestLimit > 0 THEN
       Respond(HeadsPage(parseTreeHeadListOptions(RequestLimit)), RequestLimit, encodeUint64Cursor)
     ELSE Refuse

HttpListGlobalLeaves ==
  /\ Asks("http", "leaves")
  /\ IF RequestLimit > 0 THEN
       Respond(LeavesPage(parseGlobalLeafListOptions(RequestLimit)), RequestLimit, encodeUint64Cursor)
     ELSE Refuse

HttpListGlobalTreeNodes ==
  /\ Asks("http", "nodes")
  /\ IF RequestLimit > 0 THEN
       Respond(NodesAfter(parseGlobalNodeListOptions(RequestLimit)), RequestLimit, encodeGlobalNodeCursor)
     ELSE Refuse

\* An empty first page of a batch that has records means its tree is not
\* stored yet: the request fails.
RequireBatchTreeIndex(page) == paging.cursor # <<>> \/ page # <<>> \/ BatchLeaves(Request(1)) # <<>>

HttpListBatchTreeLeaves ==
  /\ Asks("http", "batch_leaves")
  /\ LET page == BatchLeaves(parseBatchTreeLeafListOptions(RequestLimit))
     IN IF RequestLimit > 0 /\ RequireBatchTreeIndex(page)
          THEN Respond(page, RequestLimit, encodeUint64Cursor) ELSE Refuse

HttpListBatchTreeNodes ==
  /\ Asks("http", "batch_nodes")
  /\ LET page == BatchNodes(parseBatchTreeNodeListOptions(RequestLimit))
     IN IF RequestLimit > 0 /\ RequireBatchTreeIndex(page)
          THEN Respond(page, RequestLimit, encodeUint64Cursor) ELSE Refuse

HttpListAnchors ==
  /\ Asks("http", "anchors")
  /\ IF RequestLimit > 0 THEN
       Respond(Anchors(parseAnchorListOptions(RequestLimit)), RequestLimit, encodeAnchorCursor)
     ELSE Refuse

GrpcListRecords ==
  /\ Asks("grpc", "records")
  /\ IF ValidRecordOptions THEN
       Respond(Records(parseRecordListOptions(RequestLimit)), RequestLimit, encodeRecordCursor)
     ELSE Refuse

GrpcListRoots ==
  /\ Asks("grpc", "roots")
  /\ IF RequestLimit > 0 THEN
       Respond(RootsPage(parseRootListOptions(RequestLimit)), RequestLimit, encodeRootCursor)
     ELSE Refuse

GrpcListSTHs ==
  /\ Asks("grpc", "heads")
  /\ IF RequestLimit > 0 THEN
       Respond(HeadsPage(parseTreeHeadListOptions(RequestLimit)), RequestLimit, encodeUint64Cursor)
     ELSE Refuse

GrpcListGlobalLeaves ==
  /\ Asks("grpc", "leaves")
  /\ IF RequestLimit > 0 THEN
       Respond(LeavesPage(parseGlobalLeafListOptions(RequestLimit)), RequestLimit, encodeUint64Cursor)
     ELSE Refuse

GrpcListAnchors ==
  /\ Asks("grpc", "anchors")
  /\ IF RequestLimit > 0 THEN
       Respond(Anchors(parseAnchorListOptions(RequestLimit)), RequestLimit, encodeAnchorCursor)
     ELSE Refuse

\* The backup and the log's own tasks: page after page until one is empty.
Walk(page, Encode(_)) ==
  /\ paging' = [paging EXCEPT
       !.seen = @ \o page, !.pages = @ + 1, !.before = Noted,
       !.cursor = IF page # <<>> THEN Encode(Last(page)) ELSE @,
       !.status = IF page # <<>> THEN "paging" ELSE "done"]
  /\ UNCHANGED <<query, rows, treeSize>>

nextIndex(r) == <<<<r.pos[1] + 1, 0>>>>

WalkManifests ==
  Asks("task", "manifests") /\ Walk(ManifestsAfter(AfterCursor(Request(query.raw), decodeRootCursor(paging.cursor))), encodeRootCursor)
WalkBatchTreeLeaves ==
  Asks("task", "batch_leaves") /\ Walk(BatchLeaves(AfterCursor(Request(query.raw), decodeUint64Cursor(paging.cursor))), encodeUint64Cursor)
WalkBatchTreeNodes ==
  Asks("task", "batch_nodes") /\ Walk(BatchNodes(AfterCursor(Request(query.raw), decodeUint64Cursor(paging.cursor))), encodeUint64Cursor)
WalkRoots == Asks("task", "roots") /\ Walk(RootsPage(parseRootListOptions(query.raw)), encodeRootCursor)
WalkRootsAfter ==
  Asks("task", "roots_after") /\ Walk(RootsAfter(AfterCursor(Request(query.raw), decodeUint64Cursor(paging.cursor))), encodeUint64Cursor)
WalkGlobalLeaves ==
  Asks("task", "leaves") /\ Walk(LeavesRange(AfterCursor(Request(query.raw), decodeUint64Cursor(paging.cursor))), nextIndex)
WalkGlobalLogNodes ==
  Asks("task", "nodes") /\ Walk(NodesAfter(AfterCursor(Request(query.raw), decodeGlobalNodeCursor(paging.cursor))), encodeGlobalNodeCursor)
WalkSignedTreeHeads ==
  Asks("task", "heads") /\ Walk(HeadsAfter(AfterCursor(Request(query.raw), decodeUint64Cursor(paging.cursor))), encodeUint64Cursor)
WalkGlobalLogTiles ==
  Asks("task", "tiles") /\ Walk(TilesAfter(AfterCursor(Request(query.raw), decodeUint64Cursor(paging.cursor))), encodeUint64Cursor)
WalkGlobalLogOutbox ==
  Asks("task", "outbox") /\ Walk(OutboxAfter(AfterCursor(Request(query.raw), decodeRootCursor(paging.cursor))), encodeRootCursor)

------------------------------------------------------------------------
\* Writers.  Numbered rows are appended; the file store writes a leaf before
\* the state that commits it.
InsertRow ==
  /\ query.listing \notin Numbered /\ paging.status = "paging"
  /\ \E r \in PossibleRows(query.listing) :
       /\ \A q \in rows : q.pos # r.pos
       /\ rows' = rows \cup {r}
  /\ UNCHANGED <<query, treeSize, paging>>

AppendRow ==
  /\ query.listing \in Numbered /\ paging.status = "paging"
  /\ Cardinality(rows) < MaxRows /\ treeSize = Cardinality(rows)
  /\ rows' = rows \cup {Leveled(Row(<<FirstNumber + Cardinality(rows), 0>>))}
  /\ treeSize' = IF query.listing = "leaves" /\ query.store = "file" THEN treeSize ELSE treeSize + 1
  /\ UNCHANGED <<query, paging>>

CommitAppend ==
  /\ treeSize < Cardinality(rows) /\ query.listing \in Numbered
  /\ treeSize' = treeSize + 1
  /\ UNCHANGED <<query, rows, paging>>

PromoteRecord ==
  /\ query.listing = "records" /\ paging.status = "paging"
  /\ \E r \in rows : r.level = 0 /\ rows' = (rows \ {r}) \cup {[r EXCEPT !.level = 4]}
  /\ UNCHANGED <<query, treeSize, paging>>

ListingInit ==
  /\ query \in {q \in Queries : Asked(q)}
  /\ IF query.listing \in Numbered
       THEN \E n \in 0..MaxRows : rows = {Leveled(Row(<<FirstNumber + i, 0>>)) : i \in 0..(n - 1)}
       ELSE rows \in {S \in SUBSET PossibleRows(query.listing) : \A r, q \in S : r.pos = q.pos => r = q}
  /\ treeSize = IF query.listing \in Numbered THEN Cardinality(rows) ELSE 0
  /\ paging = [cursor |-> <<>>, seen |-> <<>>, before |-> {}, pages |-> 0, status |-> "paging", zero |-> FALSE]

ListingNext ==
  \/ HttpListRecords \/ HttpListRoots \/ HttpListSTHs \/ HttpListGlobalLeaves \/ HttpListGlobalTreeNodes
  \/ HttpListBatchTreeLeaves \/ HttpListBatchTreeNodes \/ HttpListAnchors
  \/ GrpcListRecords \/ GrpcListRoots \/ GrpcListSTHs \/ GrpcListGlobalLeaves \/ GrpcListAnchors
  \/ WalkManifests \/ WalkBatchTreeLeaves \/ WalkBatchTreeNodes \/ WalkRoots \/ WalkRootsAfter
  \/ WalkGlobalLeaves \/ WalkGlobalLogNodes \/ WalkSignedTreeHeads \/ WalkGlobalLogTiles \/ WalkGlobalLogOutbox
  \/ InsertRow \/ AppendRow \/ CommitAppend \/ PromoteRecord

ListingSpec == ListingInit /\ [][ListingNext]_listingVars

------------------------------------------------------------------------
\* The rows handed out come in the asked direction, so none comes twice.
InOrder ==
  \A i \in 1..(Len(paging.seen) - 1) :
    IF query.asc THEN CompareBatchRootPosition(paging.seen[i].pos, paging.seen[i + 1].pos)
                 ELSE CompareBatchRootPosition(paging.seen[i + 1].pos, paging.seen[i].pos)

=========================================================================
