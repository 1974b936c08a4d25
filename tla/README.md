# TLA+ development of pragmaticDB

pragmaticDB is a small relational database server: SQL statements arrive on a
TCP socket, an executor runs them on tables of slotted pages, each table has a
buffer pool and a file of its own, and `COMMIT` flushes the pools and rewrites
the catalog file. These modules model the storage engine, the process and its
files, and the server with its clients. TLC checks them on small instances, and
TLAPS proves all safety properties of the storage engine, the process and its
files, and the sessions, for every size. Paths below are relative to the repository.

## The system

| Component | Code | State | Operations |
|---|---|---|---|
| DiskManager | `src/manager/disk_manager.cpp` | one file of page images | WritePage, ReadPage |
| BufferPoolManager | `src/manager/buffer_pool_manager.cpp` | frames (`pages_`), `page_table_`, `free_list_`, `lru_list_`, `next_page_id_` | NewPage, FetchPage, UnpinPage, FlushPage, FlushAllPages, DeletePage |
| PageDataManager | `src/manager/page_data_manager.cpp` | none; works on a page: header, slot directory, tuples | InitializePage, InsertTuple, GetTuple, DeleteTuple, CompactOnePage |
| RecordManager | `src/manager/record_manager.cpp` | `page_ids_`, its own pool and file | Insert, Get, Delete, Update, GetSlotCount, Flush |
| TableManager, TableIterator | `src/manager/table_manager.cpp`, `src/utils/table_iterator.cpp` | iterator: record id, index in the page list | InsertTuple, DeleteTuple, GetTuple, Begin, End, `++` |
| Catalog | `src/catalog/catalog.cpp` | `tables_`, `table_names_`, `next_table_oid_`, `data/catalog.db` | CreateTable, GetTable, SaveCatalog, LoadCatalog |
| Executor | `src/query/executor.cpp` | none; refers to the catalog | CREATE, INSERT, SELECT, DELETE, COMMIT |
| Parser | `src/query/parser.cpp` | none | Parse |
| TcpServer, main | `src/network/tcp_server.cpp`, `main.cpp` | listening socket, one client | Start, HandleClient |
| DBClient | `tools/bench.cpp` | a socket | connect, query, leave |
| Schema, Column, Value, Tuple, factories | `src/catalog`, `src/type`, `src/factory` | none | conversions between strings, values and tuple bytes |

Interaction is by direct calls in one thread: server → parser, executor →
catalog → table manager → record manager → (page data manager on the frame's
bytes, buffer pool → disk manager). The pool hands out `Page*` pointers into its
frames, so everything above it depends on the pin discipline. Pages and the
catalog file meet only in `COMMIT` and `CREATE TABLE`, which save the page lists
of all tables, and in `LoadCatalog` after a restart.

What is hard here: the cache must be invisible through any sequence of fetches,
evictions, deletions and flushes; bytes are moved within a page while a slot
directory points at them; 16-bit sizes; a search for space that must leave no
pin, no row and no page behind on any exit; the process may be stopped
between any two writes to several files that are not updated together; and
clients come, wait, leave and break off while the one thread serves another of
them. Nothing runs concurrently inside the process. `PROJECT.json` lists the hazards with
their lines and the properties that cover them.

What makes each component correct:

- pool: a pinned page stays where its pointer says, no flagged write is lost, no
  frame is lost, table and frames agree; together it *is* a page store.
- page: directory and tuples never meet, tuples never overlap, compaction moves
  no row and leaves no hole; together it *is* a store of numbered rows.
- records: no pin is left behind, an insert finds the room there is, answers are
  true; together it *is* a store of records.
- scan: every row that stays is visited, none twice, and `operator++` returns.
- database: what `COMMIT` acknowledged survives a stop, unless that falls inside
  `SaveCatalog`; what was acknowledged is seen; ids that memory or the catalog file
  lists are not given out again; saved tables stay registered.
- server: a statement does what its documentation says, once, and the client that
  sent it reads the answer (for the forms of the run `server`; `server_documented`
  has those of which it is not so); every session ends, so every client is served; no
  client that keeps to the protocol can end the process.

## Modules

| Module | What it is |
|---|---|
| `DiskManager` | the file as a value: `WritePage`, `ReadPage`, holes, reads past the end |
| `PageStore` | abstract: numbered pages whose contents change only by writing under a pin |
| `BufferPool` | BufferPoolManager over a DiskManager file, with a client that pins, writes and unpins |
| `BufferPoolProofs` | its inductive invariant and theorems |
| `SlotStore` | abstract: numbered rows, never reused |
| `SlottedPage` | one page byte by byte, compaction step by step, 16-bit arithmetic |
| `SlottedPageProofs` | its inductive invariant and theorems |
| `RowPage` | the page as the layers above see it: rows in slot order and a free-space count |
| `RowPageProofs` | lemmas about it, by induction over the rows |
| `RecordStore` | abstract: records under identifiers |
| `RecordManager` | extends `BufferPool`: RecordManager is the pool's client, one step per fetch, access and unpin |
| `RecordManagerProofs` | its inductive invariant and theorems, on those of the pool |
| `TableScan` | TableManager and the iterator, slot by slot, with changes between its steps |
| `TableScanProofs` | its inductive invariant and theorems |
| `Database` | catalog, tables with their pools and files, statements, stop and restart |
| `DatabaseProofs` | its inductive invariant and theorems |
| `Sql` | what one statement does: parser, tuple layout, value conversion and the executor's answers, as operators |
| `SqlService` | abstract: tables of rows of values, and calls that take effect once and are answered |
| `Server` | extends `Sql`: accept loop, sessions send by send, the connections, the clients |
| `ServerProofs` | its inductive invariant and theorems |
| `MC*` | the instances TLC checks |

How state corresponds: variables carry the names of the fields they model
(`page_table`, `free_list`, `free_space_offset`, `page_ids`, `next_table_oid`,
...). In `BufferPool`, `held`, `ptr`, `written` and `unflagged` belong to the
client: its pins, the frame each pointer refers to, and the pages it has written
in all and since its last unpin. In `RecordManager`, `op` is the program counter
and the locals of the call in progress. In `Database`, `stmt` is that of the
statement, and `created`, `promise` and `pending` are history: what the
statements that returned have promised. In `Server`, `pc` is where the thread is
in `Start` and `HandleClient`, `link` is the server's end of each connection,
`phase` and `buf` are the client's, and `call` is history: the statement each
client sent and the answer computed for it. Every guard is a condition or early
return of the code; calls that fail and change nothing are stuttering steps
unless the caller goes on differently (`RecordManager`'s `FetchFails`).

Choices worth knowing:

- `DiskManager.ReadPage` past the end returns the caller's buffer unchanged, as
  the code does; a frame that is reused therefore shows its previous page.
- `lru_list_` and `lru_pos_` are updated together in the code and are one
  variable. Hash-map iteration in `FlushAllPages` is a set.
- `SlottedPage` keeps the directory apart from the page's bytes.
  `RoomForTupleAndSlot` is what makes that faithful, and the runs that rely on
  it check it.
- `TableScan` takes calls of RecordManager as atomic, as the single thread makes
  them. Its client may insert and delete in the body of the scan's loop, which
  TableManager allows; the executor collects record ids first and deletes after.
- `RowPage` abstracts bytes to a free-space count; `SlottedPage` is the evidence
  that this is what the bytes implement, as long as `Update` does not grow
  tuples, which no component above it asks for.
- A client of the pool that unpins with `is_dirty = false` after writing gives
  its writes up; `RecordManager::Insert` does so when a tuple does not fit an
  empty page.
- In `Database` a page access (fetch, change, unpin) is one step, with at most
  one file write in it; no operation holds two pins, which
  `RecordManager!OnePinAtATime` checks. The catalog reaches its file in one
  write after the truncation (it is shorter than the stream's buffer).
- In `Database` a file may fail to open when it is to be written, in an eviction, in
  COMMIT's flush or in SaveCatalog. The code answers as if nothing had happened, so
  the histories drop what that write was to keep (the rows of the one page, or what
  COMMIT was to save) and the properties say that nothing else is lost and that
  later writes make up for it. The violation runs have no such errors.
- An INSERT into a listed page whose bytes are zero writes outside the page. The
  outcome is undefined; `Database` does not follow it further than the stop of
  the process, so its properties say nothing of behaviours beyond it.
- In `Sql` a text is a sequence of words, and a word a sequence of atoms: names,
  keywords, numerals and single punctuation characters. That keeps what the
  parser's outcome depends on (blanks, glued punctuation, case) and nothing else.
  Rows are a bag, because the order in which a scan finds them is a matter of
  where RecordManager put them. Integers have four bytes of `ByteValues` values;
  256 is the code's.
- `Server` runs a statement in one step on the tables as the record store keeps
  them; what happens below is `RecordManager`'s and `Database`'s. The stop of the
  process is followed by `Database!Crash`, not by `Server`.
- `SqlService` knows a statement by its meaning. `MCServer` writes down, beside
  each text, what docs/sql-reference.md says it means; the refinement
  `ServiceKept` compares the two, the tuples' bytes included. It says nothing of
  texts that are not in the corpus. An INSERT with too few values is in it,
  though the document has full rows only: that the missing ones are zero bytes
  is taken from the code (`src/type/tuple.cpp`).
- In `Database`, `created` gets a name when CREATE's own save, or that of a COMMIT
  after it, ends, and never loses one but at a start without a catalog. A stop
  inside `SaveCatalog` is how that comes about; `database_restart` shows it, and
  `CommittedRowsSurvive` and `CreatedTablesDurable` leave it out.
- Ids are given out again after a stop: `next_page_id` and `next_table_oid` are
  restored as of the last save, so a page or table made since then, or whose save
  failed or was torn, has its id reused. `IdsInUseNotReused` is about the others.
- `RowPage.Fits` drops the `uint16_t` casts of `HasEnoughSpaceForInsert`, which
  matter for tuples near 64 KiB only.
- A send to a connection that the client has closed is answered by a reset; a send
  after the reset has arrived fails, or raises SIGPIPE. `send` is called without
  MSG_NOSIGNAL and nothing ignores the signal, so the process ends. Which of the
  two it is depends on the state of the connection and is left open.
- A read returns one line. DBClient sends a line with one `send` and waits for the
  prompt; `OneLineInFlight` checks that the server's prompts then leave no second
  line to be joined to it. That TCP delivers a short line in one piece is assumed.
- An INSERT with more values than the table has columns reads past the end of a
  vector. The model lets it end in an error or in the end of the process, and does
  not follow a copy to an offset that nobody set.

## Runs

| Run | Module / cfg | Shows |
|---|---|---|
| `pool` | `MCBufferPool` / `BufferPool_core` | all pool invariants, `FlushIsComplete`, and that the pool implements `PageStore` |
| `pool_two_pins` | `MCBufferPool` / `BufferPool_pinned` | **violation**: with two pins, a page pinned once more is a victim |
| `page` | `MCSlottedPage` / `SlottedPage_core` | the page implements `SlotStore` without growing updates |
| `page_space` | `MCSlottedPage` / `SlottedPage_space` | room, no overlap and no hole, growing updates included |
| `page_growing` | `MCSlottedPage` / `SlottedPage_growing` | **violation**: compaction after a growing update overwrites a row |
| `records` | `MCRecordManager` / `RecordManager_core` | pin discipline, search for space, answers, and that it implements `RecordStore` |
| `scan` | `MCTableScan` / `TableScan_core` | scans under inserts, deletes and compaction are complete and in order; `operator++` returns |
| `database` | `MCDatabase` / `Database_core` | durability and visibility with a stop at any point and a write that fails; saved tables stay registered and saved ids in use |
| `database_listed` | `MCDatabase` / `Database_listed` | **violation**: the catalog lists pages that were never written |
| `database_restart` | `MCDatabase` / `Database_restart` | **violation**: a stop inside SaveCatalog loses every table |
| `server` | `MCServer` / `Server_core` | the server implements `SqlService` for the 21 statements of its corpus, serves every client, and ends only by an ill-typed INSERT or a client that breaks off |
| `server_documented` | `MCServer` / `Server_documented` | **violation**: documented forms the server has wrong: `COMMIT;` with its semicolon is refused, `DELETE ... WHERE ok = TRUE;` takes no row, a DELETE with `>` or `AND`, "not implemented", deletes by equality |

The violations are disagreements between the code and what a test, a comment or
a document of the repository says; `PROJECT.json` quotes both. Two of them
(`pool_two_pins`, `page_growing`) need calls that no component makes today.
`server_documented` has three disagreements, of which TLC reports the one it meets
first; with `Forms` reduced to one of its groups it reports that one. Its property,
`FormsAsDocumented`, holds of the forms of `server`.

Seen while modelling, without a run of their own:

- docs/persistance.md says that "`INSERT` rows live in RAM (buffer pool) until you
  `COMMIT`". An eviction writes uncommitted rows to the table's file, and when a
  CREATE of another table has saved the page's id, a restart finds them.
- `HasEnoughSpace` adds in 16 bits and wraps for tuples near 64 KiB; a 1023-byte
  statement cannot make one.
- An INSERT of a word that is no number, or of one out of range, into an INTEGER
  column ends the process (`StopsForCause` names it): `std::stoi`'s exceptions are
  not `runtime_error`s. So does a client that closes its connection before it has
  read its answer, when the reset comes between the answer's two sends.
- `DELETE ... WHERE id=7` without blanks, or with an incomplete clause, is a DELETE
  of every row. `SELECT * FROM t WHERE ...`, "under work", is answered with all
  rows, and `CREATE TABLE IF NOT EXISTS t (...)`, "not implemented", makes a table
  called `IF`.
- The slots of deleted rows are never reused, so a table that is filled and emptied
  over and over grows.
- `CREATE TABLE t(id INTEGER)`, without a blank before the parenthesis, makes a
  table called `t(id` with no columns. INSERTs into a table without columns are
  answered with "1 row inserted." and store nothing.

Bounds. `pool`: 2 frames, 3 pages, 2 images, one pin per page: the smallest
instance in which a fetch must choose between a free frame and a victim, a page
is evicted and fetched back, and all frames can be pinned with a page left over.
`page`: an 8-byte page with a 2-byte header and 1-byte slots, tuples of 1 to 3
bytes over two values, `Width` 16: up to three rows, so that compaction meets a
hole before, between and after live tuples, and moves tuples onto their own old
bytes. `records`: pages of 4 bytes, tuples of 1, 2 and 4 bytes (two to a page,
one to a page, none), one frame, two pages: every page change evicts, and the
client could hold two pins if the code took them; `Data` is all images such a page
can have. `scan`: the same pages, three
page ids, one tuple of 1 byte and one of 4 that fits no page: up to three slots
to a page, any of them deleted, and page ids that differ from their place in
`page_ids_`. `database`: two tables of
which one holds rows, two pages of 3 bytes each (one row, and one more after a
delete and compaction), one frame; stops and restarts are unbounded, and
one file does not open when it is to be written. With one frame and one table that
holds rows, no COMMIT of this instance has two dirty pages; that case is the
theorem's. `server`: two
clients of which one may break off, so that each is served after the other has
left in either way; a listen queue of one; integers of four one-bit bytes, -8 to
7, with a negative and an out-of-range literal among the statements; two tables
with their columns in opposite orders, present or not when the server starts; 21
statements, two of them per behaviour. Two are enough because the refinement
compares the whole tables after every step, not only what is answered. The bounds
`MaxPages`, `MaxTables`, `MaxPins`, `MaxFileErrors`, `Busy` and `MaxQueries` stand in guards marked
"bound". Only `server` may stop: all clients are gone, or the process is.

Fairness. `TableScan` assumes weak fairness of the steps of the loop inside
`operator++`: the loop runs in the only thread and waits for nothing, so once
begun it is carried on; nothing is assumed of the client, which may stop calling.
`Server` assumes weak fairness of the server's thread, which is never blocked but
in `accept` and `read`, where no step is enabled, and of each client that has
connected: DBClient runs a finite program without pauses, reads what there is and
leaves at the end. Nothing is assumed of clients connecting or breaking off, or of
a reset arriving. A client that stays connected and silent is excluded by this: it
starves all others, since the accept loop serves one session to its end. All other
properties are safety properties and action properties.

## Proofs

`BufferPoolProofs` proves, for every pool size, every number of pages and every
set of images, under `PoolAssumption` and `MaxPins = 1`:

| Theorem | States |
|---|---|
| `TypeCorrect` | `TypeOK` |
| `TableAndFramesAgree` | `TableMatchesFrames` |
| `FramesStayUsable` | `NoFrameLost` |
| `PinCountsAreTrue` | `PinsMatchHolders` |
| `PinnedPagesStay` | `PointerValid` |
| `ExhaustionIsReal` | `NoSpuriousExhaustion` |
| `WritesSurvive` | `NoWriteLost` |
| `FlushCompletes` | `FlushIsComplete`, an action property |
| `Refinement` | `CachingInvisible`: every step is a step of `PageStore` or a stutter |

`MaxPins = 1` is not a convenience: with two pins the properties are false, as
`pool_two_pins` shows. It is the discipline of the pool's client, and only these
theorems assume it: the lemmas about the pool's operations do not, and
`RecordManagerProofs` shows that RecordManager keeps it.

The invariant `IInv` adds to the properties what makes them inductive: an
unpinned page is all `lru_list_` contains (`LruUnpinned`), an empty frame has no
pins and is clean (`EmptyUnpinned`), only allocated pages are resident, pinned or
written (`OnlyAllocated`), and only a page whose holder has not unpinned it yet
has writes it has not flagged (`UnflaggedHeld`). `NoFrameLost` and `LruUnpinned`
give that the frame `GetFreeFrameOrVictim` picks is not pinned, hence
`PointerValid`; `TableMatchesFrames` and `NoWriteLost` give that what the victim
held is on disk before its frame is taken over, hence the refinement. There is a
lemma for each list operation, one for what installing a page does to a frame
(`InstallLemma`), one for each action, and `StepLemma` combines them.

`SlottedPageProofs` proves, for every page size, header size, slot size and set of
tuples, under `PageAssumption`:

| Theorem | States |
|---|---|
| `TypeCorrect` | `TypeOK`: no 16-bit field wraps, the directory stays in the page |
| `RoomKept` | `RoomForTupleAndSlot` |
| `TuplesApart` | `NoOverlap` |
| `CompactionSafe` | `CompactionMovesNoRow`, an action property |
| `SpaceIsReclaimed` | `CompactionReclaims`, an action property |
| `Refinement` | `RowsReadBack`: every step is a step of `SlotStore` or a stutter |

Two more assumptions are stated in each theorem: `Growing = FALSE`, clients do not
ask `Update` for a longer tuple (`page_growing` shows what happens if they do), and
`ShortTuples`, no tuple is so long that its size plus a slot wraps in 16 bits. The
instance of the run `page` satisfies both.

The key to the invariant is `Descending`: as long as no tuple grows, a later slot
lies below an earlier one, so `CompactOnePage`, which packs tuples upwards in slot
order, writes only over bytes of tuples it has already moved and of dead ones.
`CompactedAbove` says where `write_ptr` is in the middle of that loop. Given both,
`MoveLemma` shows that a tuple moves up and not past another, and `CompactRows` that
the bytes of every other row stay. `RowsAreTuples` is needed for the refinement
alone: an update must find a row that is not deleted. `Reclaimed`, that every byte
above `write_ptr` is one of a tuple already moved, is for `SpaceIsReclaimed`.

`RowPageProofs` has no theorems of a specification but what the next three need of
the pages: `InsertRow`, `SetRow` and `Compact` keep a page well formed (`PageOK`: the
free space is at most what slots and live tuples leave), and `Compact` keeps the rows.
`Used` is a recursive function over the rows. The induction theorems of the library
take an operator and cannot be instantiated, so `Induction` states the principle for a
set of numbers, and each fact by induction defines the set of the numbers it holds for.

`TableScanProofs`, for every page size, set of tuples and number of pages:

| Theorem | States |
|---|---|
| `ScanTypeCorrect` | `ScanTypeOK` |
| `ScanGoesForward` | `VisitedInOrder` |
| `ScanIsComplete` | `EveryRowVisited` |

The invariant: a listed page has rows and the others have none (`TableOK`); the
iterator is at a slot of the page its index names, or at the end of it in the middle
of `operator++` (`IteratorOK`); what was visited lies before it (`VisitedOK`); and a
row that was there since `Begin` was visited or lies ahead (`DueOK`). `Grows` is what
an insert may do to the table under an iterator: lists grow at their ends only, so
before and ahead stay what they were.

`RecordManagerProofs`, for every pool size, page size, set of tuples and number of
pages, with no assumption on pins:

| Theorem | States |
|---|---|
| `PoolUnderRecords` | `PinsMatchHolders`, `PointerValid` and `NoWriteLost` of the pool under this client |
| `RecordTypeCorrect` | `RecordTypeOK` |
| `OnePin` | `OnePinAtATime` |
| `PoolSuffices` | `PoolNeverExhausted` |
| `RowsAreListed` | `NoOrphanRow` |
| `TrueAnswers` | `AnswersAreTrue` |
| `GrowthIsNeeded` | `GrowsOnlyWhenFull`, an action property |
| `RecordRefinement` | `RecordsReadBack`: every step is a step of `RecordStore` or a stutter |

The invariant `RInv` is the pool's, the pages' (`PagesOK`) and one of four cases for
the call in progress: none (`IdleOK`), Insert in a loop over the list (`LoopOK`),
Insert with a new page (`NewOK`), a call on one record (`RowOK`). Each says which page
is pinned, which write is not flagged yet and so must be flagged by the unpin to come,
and what the call has found out. For `GrowthIsNeeded` that is `FullUpTo`: the pages
the second loop has passed have no room even when compacted. `RecordAssumption` has the
page images among the pool's `Data`.

`DatabaseProofs`, for every number of tables, pages, frames and file errors:

| Theorem | States |
|---|---|
| `DatabaseTypeCorrect` | `DatabaseTypeOK` |
| `CommittedRowsAreSafe` | `CommittedRowsSurvive` |
| `StatementsAreSeen` | `StatementsSeen` |
| `IdsInUseStay` | `IdsInUseNotReused` |
| `CreatedTablesStay` | `CreatedTablesDurable` |

The heart of the invariant is `Kept`, which says where a record is that a statement
promised: in every frame that has its page, and in the file or in a dirty frame; and
once COMMIT has saved it, in the file and in the catalog's page list. An eviction
moves it from the frame to the file, a compaction rewrites its page with the row in
place, a stop drops the frames. `CommitOK` adds that the tables COMMIT has passed have
no dirty frame, which is what lets the end of COMMIT promise. `Saved` says that memory
has every table and page the catalog file lists: a CREATE or a new page adds to memory,
a save makes the two equal, and a start makes memory of the file. With it a save cannot
drop a name or an id that an earlier one kept, which is what `CreatedTablesStay` and
`IdsInUseStay` need. `DatabaseAssumption` has
that zero bytes are not the image of an initialised page: `free_space_offset` is not 0.

`ServerProofs`, for any clients, listen queue and statements:

| Theorem | States |
|---|---|
| `ServerTypeCorrect` | `ServerTypeOK` |
| `LinesAreSingle` | `OneLineInFlight` |
| `StopsOnlyForCause` | `StopsForCause`, an action property |

The invariant is one of each client: `PlaceOK`, a connection that is neither new nor
over is in the queue or served; `TalkOK`, a client that waits has a line at the
server, which then owes it the prompt, or the prompt is under way; `CallOK`, the line
is its statement; `PoliteOK`, the session of a client that keeps to the protocol ends
with `Bye!` and never meets a reset. `StopsOnlyForCause` also needs that each column
has a type (`TablesOK`), and `CorpusAssumption`, which says what it means for `Corpus`
to give a text its meaning: an INSERT has the values of its row, and a value that is
one of its column's type can be converted. TLC evaluates it for the statements of the
run.

Only model-checked: the liveness properties `IncrementReturns` and
`EveryClientServed`, which are out of the prover's reach; `ServiceKept`, because the
parser and the answers are built with `SelectSeq`, `BagOfAll` and other operators that
take an operator, about which the provers know nothing; and the page with growing
updates (`page_space`).

## Not modelled

- File errors other than a file that does not open for writing: pages and catalogs
  written in part, and an open in `WritePage` that fails when the next one succeeds.
  That next one has `ios::out` alone and truncates the table's file, after which
  nothing is promised that a model could keep. Failing reads.
- Catalogs torn inside their contents, which need a catalog longer than the output
  stream's buffer, and the overflow of `PAGE_SIZE * page_id` in a file of 2 GiB.
- Lines that TCP splits, lines of 1024 bytes and more, and clients that send
  without waiting for the prompt.
- Failures of `socket`, `bind`, `listen` and `accept`; the wording and layout of
  answers; what the benchmark measures. The tests are read for what they expect.

## Plan

In order:

1. done: `DiskManager`, `BufferPool`, `PageStore`, the pool's theorems.
2. done: `SlottedPage`, `SlotStore`, `RowPage`.
3. done: `RecordManager`, `RecordStore`, composed over `BufferPool`.
4. done: `Database`, with stop and restart and writes that fail.
5. done: `TableScan`.
6. done: `Sql`, `SqlService` and `Server`.
7. done: the theorems of `SlottedPage`.
8. done: the theorems of `RecordManager`, `TableScan`, `Database` and `Server`.
9. Theorems: room and no overlap with growing updates, which `page_space` checks; that
   `SlottedPage` implements the page of `RowPage`, now an argument in words (above).
