------------------------------- MODULE Database -------------------------------
(***************************************************************************)
(* The whole database process and its files: Catalog                       *)
(* (src/catalog/catalog.cpp), one RecordManager with its own pool and file *)
(* per table, and the statements Executor (src/query/executor.cpp) runs on *)
(* them, one at a time.  A step is at most one write to a file, so Crash   *)
(* (the process is stopped) falls between any two of them.                 *)
(*                                                                         *)
(* No operation here holds two pins (RecordManager!OnePinAtATime), so a    *)
(* table's pool is the sequence of its resident pages in lru_list_ order.  *)
(* Every tuple fits an empty page.  The catalog is shorter than the output *)
(* stream's buffer, so it reaches its file in one write.                   *)
(*                                                                         *)
(* A page the catalog lists may never have been written.  Its image, if    *)
(* the frame's bytes are zero, has free_space_offset 0, and InsertTuple    *)
(* then writes outside the page: such an INSERT is not followed further.   *)
(*                                                                         *)
(* Opening a file to write it may fail, MaxFileErrors times, and then for  *)
(* the whole call.  The code does not notice: WritePage returns void and   *)
(* the frame counts as clean, SaveCatalog returns early, and the statement *)
(* reports success.  The histories forget what the lost write was to keep, *)
(* so the properties say that an error costs nothing else.                 *)
(***************************************************************************)
EXTENDS DiskManager, RowPage, SequencesExt

CONSTANTS
    Names,      \* table names
    Busy,       \* bound: tables whose rows the statements touch
    MaxTables,  \* bound: table oids are 0 .. MaxTables - 1
    PoolSize,   \* kDefaultPoolSize
    MaxFileErrors, \* bound: files that do not open when they are to be written
    Unreadable, \* a catalog file that is missing, or truncated and empty
    Nothing     \* promise: no row, or none known after a crash or a lost write

ASSUME DatabaseAssumption ==
    /\ Busy \subseteq Names /\ MaxFileErrors \in Nat
    /\ MaxTables \in Nat /\ PoolSize \in Nat \ {0} /\ MaxPages \in Nat
    /\ \A d \in Tuples : Size[d] + SlotSize <= Capacity
    /\ Nothing \notin Tuples \cup {Deleted}
    \* InitializePage leaves no page all zero bytes: free_space_offset is not 0.
    /\ Zero \notin [rows : Seq(Tuples \cup {Deleted}), free : Nat]

VARIABLES
    running,        \* whether the process is
    next_table_oid, \* Catalog: next_table_oid_
    tables,         \* Catalog: tables_, with each RecordManager's page list and pool
    stmt,           \* the statement in progress and where it is, or Idle
    files,          \* data/table_<oid>.db
    catalog_file,   \* data/catalog.db
    file_errors,    \* files that did not open so far
    created,        \* history: tables whose CREATE, or a COMMIT after it, saved the catalog
    promise,        \* history: what the statements that returned left of a record
    pending         \* history: records written since the last COMMIT that saved

memory == <<running, next_table_oid, tables, stmt>>
history == <<created, promise, pending>>
vars == <<memory, files, catalog_file, file_errors, history>>

Oid == 0 .. MaxTables - 1
NoOid == -1
RecordId == [oid : Oid, page_id : PageId, slot_id : 0 .. Capacity]
Idle == [kind |-> "none"]

\* Whether a file that is to be written opens.
Opens == IF file_errors < MaxFileErrors THEN BOOLEAN ELSE {TRUE}

Listed(tbl, p) == \E i \in 1 .. Len(tbl.page_ids) : tbl.page_ids[i] = p
Registered == {tables[o].name : o \in DOMAIN tables}

-------------------------------------------------------------------------------
(* A table's pool.                                                            *)

Rows(image) == IF image = Zero THEN <<>> ELSE image.rows

\* The write of a frame: the file with the dirty page written back, unless
\* it does not open, and the page whose contents that loses.
WriteBack(o, frame, opens) ==
    [file |-> IF frame.is_dirty /\ opens
              THEN WritePage(files[o], frame.page_id, frame.data) ELSE files[o],
     lost |-> IF frame.is_dirty /\ ~opens THEN {frame.page_id} ELSE {}]

\* Mutants: the pool grows past its size; the victim is not written back.
FreeFrameOneMore(o, opens) ==
    LET pool == tables[o].pool
        back == WriteBack(o, Head(pool), opens)
    IN  IF Len(pool) <= PoolSize
        THEN [pool |-> pool, file |-> files[o], lost |-> {}, buf |-> Zero]
        ELSE [pool |-> Tail(pool), file |-> back.file, lost |-> back.lost,
              buf |-> Head(pool).data]

FreeFrameVictimDropped(o, opens) ==
    LET pool == tables[o].pool
    IN  IF Len(pool) < PoolSize
        THEN [pool |-> pool, file |-> files[o], lost |-> {}, buf |-> Zero]
        ELSE [pool |-> Tail(pool), file |-> files[o], lost |-> {},
              buf |-> Head(pool).data]

\* GetFreeFrameOrVictim: the pool without the victim, the file with its dirty
\* page written back, and the bytes the frame still holds.
FreeFrame(o, opens) ==
    LET pool == tables[o].pool
        back == WriteBack(o, Head(pool), opens)
    IN  IF Len(pool) < PoolSize
        THEN [pool |-> pool, file |-> files[o], lost |-> {}, buf |-> Zero]
        ELSE [pool |-> Tail(pool), file |-> back.file, lost |-> back.lost,
              buf |-> Head(pool).data]

\* page_table_.find(p): where table o's pool has p, nowhere or once.
Hits(o, p) == {i \in 1 .. Len(tables[o].pool) : tables[o].pool[i].page_id = p}
HitFrame(o, p) == CHOOSE i \in Hits(o, p) : TRUE

\* FetchPage: the frame of p, and the pool without it.
FetchPage(o, p, opens) ==
    LET free == FreeFrame(o, opens)
    IN  IF Hits(o, p) # {}
        THEN [pool  |-> RemoveAt(tables[o].pool, HitFrame(o, p)),
              file  |-> files[o], lost |-> {}, frame |-> tables[o].pool[HitFrame(o, p)]]
        ELSE [pool  |-> free.pool, file |-> free.file, lost |-> free.lost,
              frame |-> [page_id |-> p, is_dirty |-> FALSE,
                         data |-> ReadPage(free.file, p, free.buf)]]

\* UnpinPage of the frame f fetched, its contents now `data`.
UnpinPage(o, f, data, is_dirty) ==
    /\ tables' = [tables EXCEPT ![o].pool =
                     Append(f.pool, [page_id |-> f.frame.page_id, data |-> data,
                                     is_dirty |-> f.frame.is_dirty \/ is_dirty])]
    /\ files' = [files EXCEPT ![o] = f.file]

DirtyPages(o) ==
    {p \in PageId : \E i \in 1 .. Len(tables[o].pool) :
                       tables[o].pool[i].page_id = p /\ tables[o].pool[i].is_dirty}

\* What FetchPage would find in page p, if no frame holds stale bytes for it.
ImageOf(o, p) ==
    IF Hits(o, p) # {} THEN tables[o].pool[HitFrame(o, p)].data
    ELSE ReadPage(files[o], p, Zero)

-------------------------------------------------------------------------------
(* Catalog.                                                                   *)

\* Mutant: the page list is saved without next_page_id.
SnapshotNoNextPage ==
    [next_table_oid |-> next_table_oid,
     tables |-> [o \in DOMAIN tables |->
                    [name |-> tables[o].name, page_ids |-> tables[o].page_ids,
                     next_page_id |-> 0]]]

\* What SaveCatalog writes.
Snapshot ==
    [next_table_oid |-> next_table_oid,
     tables |-> [o \in DOMAIN tables |->
                    [name |-> tables[o].name, page_ids |-> tables[o].page_ids,
                     next_page_id |-> tables[o].next_page_id]]]

\* Mutant: a table is not rebuilt when its page list is empty.
LoadedEmptyDropped(snapshot) ==
    [o \in {q \in DOMAIN snapshot.tables : snapshot.tables[q].page_ids # <<>>} |->
        [name |-> snapshot.tables[o].name,
         page_ids |-> snapshot.tables[o].page_ids,
         next_page_id |-> snapshot.tables[o].next_page_id, pool |-> <<>>]]

\* What LoadCatalog makes of a complete file: the tables with empty pools.
Loaded(snapshot) ==
    [o \in DOMAIN snapshot.tables |->
        [name |-> snapshot.tables[o].name,
         page_ids |-> snapshot.tables[o].page_ids,
         next_page_id |-> snapshot.tables[o].next_page_id, pool |-> <<>>]]

NewTable(name) ==
    [name |-> name, page_ids |-> <<>>, next_page_id |-> 0, pool |-> <<>>]

\* SaveCatalog opens the file with ios::trunc, then writes it.
SaveTruncate ==
    /\ stmt.kind \in {"CREATE", "COMMIT"} /\ stmt.at = "truncate"
    /\ catalog_file' = Unreadable
    /\ stmt' = [stmt EXCEPT !.at = "write"]
    /\ UNCHANGED <<running, next_table_oid, tables, files, file_errors, history>>

\* The file cannot be opened: SaveCatalog returns and nothing new is kept.
SaveFails ==
    /\ FALSE \in Opens
    /\ stmt.kind \in {"CREATE", "COMMIT"} /\ stmt.at = "truncate"
    /\ stmt' = Idle
    /\ file_errors' = file_errors + 1
    /\ UNCHANGED <<running, next_table_oid, tables, files, catalog_file, history>>

\* The write ends SaveCatalog, and the statement that called it: CREATE promises
\* its own table, COMMIT all there are.
SaveWrite ==
    /\ stmt.kind \in {"CREATE", "COMMIT"} /\ stmt.at = "write"
    /\ catalog_file' = Snapshot
    /\ stmt' = Idle
    /\ created' = created \cup (IF stmt.kind = "CREATE" THEN {stmt.name} ELSE Registered)
    /\ pending' = IF stmt.kind = "COMMIT" THEN {} ELSE pending
    /\ UNCHANGED <<running, next_table_oid, tables, files, file_errors, promise>>

-------------------------------------------------------------------------------
(* CREATE, INSERT, SELECT and DELETE.                                         *)

Begin(statement) ==
    /\ running /\ stmt = Idle
    /\ stmt' = statement

CreateTable(name) ==
    /\ Begin([kind |-> "CREATE", at |-> "truncate", name |-> name])
    /\ name \notin Registered
    /\ next_table_oid < MaxTables       \* bound
    /\ tables' = [o \in DOMAIN tables \cup {next_table_oid} |->
                     IF o = next_table_oid THEN NewTable(name) ELSE tables[o]]
    /\ next_table_oid' = next_table_oid + 1
    /\ UNCHANGED <<running, files, catalog_file, file_errors, history>>

BeginInsert(o, d) ==
    /\ Begin([kind |-> "INSERT", oid |-> o, tuple |-> d, phase |-> "probe", i |-> 1])
    /\ tables[o].next_page_id < MaxPages    \* bound
    /\ UNCHANGED <<running, next_table_oid, tables, files, catalog_file, file_errors, history>>

\* What is still known of the records once table o's pages `lost` were not written.
Known(o, lost) ==
    [r \in RecordId |-> IF r.oid = o /\ r.page_id \in lost THEN Nothing ELSE promise[r]]

Forget(o, lost) ==
    /\ promise' = Known(o, lost)
    /\ file_errors' = file_errors + Cardinality(lost)
    /\ UNCHANGED <<created, pending>>

\* The statement has left `row` in record rid and returns.
Acknowledge(rid, row, lost) ==
    /\ promise' = [Known(rid.oid, lost) EXCEPT ![rid] = row]
    /\ file_errors' = file_errors + Cardinality(lost)
    /\ pending' = pending \cup {rid}
    /\ UNCHANGED created

\* One iteration of Insert's first loop, or of the second, which compacts.
InsertInPage ==
    /\ stmt.kind = "INSERT" /\ stmt.i <= Len(tables[stmt.oid].page_ids)
    /\ \E opens \in Opens :
       LET p == tables[stmt.oid].page_ids[stmt.i]
           f == FetchPage(stmt.oid, p, opens)
           page == IF stmt.phase = "probe" THEN f.frame.data ELSE Compact(f.frame.data)
       IN  /\ f.frame.data # Zero       \* otherwise a write outside the page
           /\ IF Fits(page, stmt.tuple)
              THEN /\ UnpinPage(stmt.oid, f, InsertRow(page, stmt.tuple), TRUE)
                   /\ stmt' = Idle
                   /\ Acknowledge([oid |-> stmt.oid, page_id |-> p,
                                   slot_id |-> NewSlotId(page)], stmt.tuple, f.lost)
              ELSE /\ UnpinPage(stmt.oid, f, page, stmt.phase = "compact")
                   /\ stmt' = [stmt EXCEPT !.i = @ + 1]
                   /\ Forget(stmt.oid, f.lost)
    /\ UNCHANGED <<running, next_table_oid, catalog_file>>

InsertLoopEnd ==
    /\ stmt.kind = "INSERT" /\ stmt.i > Len(tables[stmt.oid].page_ids)
    /\ stmt.phase = "probe"
    /\ stmt' = [stmt EXCEPT !.phase = "compact", !.i = 1]
    /\ UNCHANGED <<running, next_table_oid, tables, files, catalog_file, file_errors, history>>

InsertNewPage ==
    /\ stmt.kind = "INSERT" /\ stmt.i > Len(tables[stmt.oid].page_ids)
    /\ stmt.phase = "compact"
    /\ \E opens \in Opens :
       LET p == tables[stmt.oid].next_page_id
           free == FreeFrame(stmt.oid, opens)
       IN  /\ tables' = [tables EXCEPT ![stmt.oid] =
                  [@ EXCEPT !.next_page_id = p + 1,
                            !.page_ids = Append(tables[stmt.oid].page_ids, p),
                            !.pool = Append(free.pool,
                                [page_id |-> p, is_dirty |-> TRUE,
                                 data |-> InsertRow(EmptyPage, stmt.tuple)])]]
           /\ files' = [files EXCEPT ![stmt.oid] = free.file]
           /\ Acknowledge([oid |-> stmt.oid, page_id |-> p, slot_id |-> 0], stmt.tuple,
                          free.lost)
    /\ stmt' = Idle
    /\ UNCHANGED <<running, next_table_oid, catalog_file>>

\* SELECT scans every page; DELETE does so first, for the records that match.
BeginScan(kind, o, match) ==
    /\ Begin([kind |-> kind, oid |-> o, match |-> match, i |-> 1, rids |-> <<>>])
    /\ UNCHANGED <<running, next_table_oid, tables, files, catalog_file, file_errors, history>>

\* The records of page p that match, in slot order.
Matching(o, p, rows, match) ==
    LET found[n \in 0 .. Len(rows)] ==
            IF n = 0 THEN <<>>
            ELSE IF rows[n] \in match
            THEN Append(found[n - 1], [oid |-> o, page_id |-> p, slot_id |-> n - 1])
            ELSE found[n - 1]
    IN  found[Len(rows)]

Scan ==
    /\ stmt.kind \in {"SELECT", "DELETE"}
    /\ stmt.i <= Len(tables[stmt.oid].page_ids)
    /\ \E opens \in Opens :
       LET p == tables[stmt.oid].page_ids[stmt.i]
           f == FetchPage(stmt.oid, p, opens)
       IN  /\ UnpinPage(stmt.oid, f, f.frame.data, FALSE)
           /\ stmt' = [stmt EXCEPT !.i = @ + 1,
                          !.rids = @ \o Matching(stmt.oid, p, Rows(f.frame.data),
                                                 stmt.match)]
           /\ Forget(stmt.oid, f.lost)
    /\ UNCHANGED <<running, next_table_oid, catalog_file>>

Scanned == /\ stmt.kind \in {"SELECT", "DELETE"}
           /\ stmt.i > Len(tables[stmt.oid].page_ids)

DeleteRow ==
    /\ Scanned /\ stmt.rids # <<>>
    /\ \E opens \in Opens :
       LET rid == Head(stmt.rids)
           f == FetchPage(stmt.oid, rid.page_id, opens)
       IN  IF rid.slot_id < Len(Rows(f.frame.data))
           THEN /\ UnpinPage(stmt.oid, f, SetRow(f.frame.data, rid.slot_id + 1, Deleted),
                             TRUE)
                /\ Acknowledge(rid, Deleted, f.lost)
           ELSE /\ UnpinPage(stmt.oid, f, f.frame.data, FALSE)
                /\ Forget(stmt.oid, f.lost)
    /\ stmt' = [stmt EXCEPT !.rids = Tail(@)]
    /\ UNCHANGED <<running, next_table_oid, catalog_file>>

ScanEnd ==
    /\ Scanned /\ stmt.rids = <<>>
    /\ stmt' = Idle
    /\ UNCHANGED <<running, next_table_oid, tables, files, catalog_file, file_errors, history>>

-------------------------------------------------------------------------------
(* COMMIT: FlushAllPages of one table after the other, then SaveCatalog.      *)

BeginCommit ==
    /\ Begin([kind |-> "COMMIT", at |-> "flush", oid |-> NoOid, todo |-> DOMAIN tables])
    /\ UNCHANGED <<running, next_table_oid, tables, files, catalog_file, file_errors, history>>

CommitTable ==
    /\ stmt.kind = "COMMIT" /\ stmt.at = "flush" /\ stmt.oid = NoOid
    /\ IF stmt.todo = {} THEN stmt' = [stmt EXCEPT !.at = "truncate"]
       ELSE \E o \in stmt.todo :
                stmt' = [stmt EXCEPT !.oid = o, !.todo = @ \ {o}]
    /\ UNCHANGED <<running, next_table_oid, tables, files, catalog_file, file_errors, history>>

\* Mutant: the file is not written.
FlushPageSkipped(o, i, opens) ==
    /\ UNCHANGED files
    /\ tables' = [tables EXCEPT ![o].pool[i].is_dirty = FALSE]
    /\ Forget(o, {})

\* FlushPage of a dirty frame.
FlushPage(o, i, opens) ==
    LET back == WriteBack(o, tables[o].pool[i], opens)
    IN  /\ files' = [files EXCEPT ![o] = back.file]
        /\ tables' = [tables EXCEPT ![o].pool[i].is_dirty = FALSE]
        /\ Forget(o, back.lost)

CommitFlush ==
    /\ stmt.kind = "COMMIT" /\ stmt.at = "flush" /\ stmt.oid # NoOid
    /\ \E i \in 1 .. Len(tables[stmt.oid].pool), opens \in Opens :
          /\ tables[stmt.oid].pool[i].is_dirty
          /\ FlushPage(stmt.oid, i, opens)
    /\ UNCHANGED <<running, next_table_oid, stmt, catalog_file>>

CommitTableEnd ==
    /\ stmt.kind = "COMMIT" /\ stmt.at = "flush" /\ stmt.oid # NoOid
    /\ DirtyPages(stmt.oid) = {}
    /\ stmt' = [stmt EXCEPT !.oid = NoOid]
    /\ UNCHANGED <<running, next_table_oid, tables, files, catalog_file, file_errors, history>>

-------------------------------------------------------------------------------
(* The process stops at any point, and starts again.                          *)

Crash ==
    /\ running
    /\ running' = FALSE
    /\ next_table_oid' = 0
    /\ tables' = [o \in {} |-> Nothing]
    /\ stmt' = Idle
    /\ promise' = [r \in RecordId |-> IF r \in pending THEN Nothing ELSE promise[r]]
    /\ pending' = {}
    /\ UNCHANGED <<files, catalog_file, file_errors, created>>

\* main: LoadCatalog, then the server.  A catalog that is gone takes all promises
\* with it (TablesSurviveRestart is what says that this happens).
Start ==
    /\ ~running
    /\ running' = TRUE
    /\ IF catalog_file = Unreadable
       THEN /\ UNCHANGED <<next_table_oid, tables>>
            /\ created' = {}
            /\ promise' = [r \in RecordId |-> Nothing]
       ELSE /\ next_table_oid' = catalog_file.next_table_oid
            /\ tables' = Loaded(catalog_file)
            /\ UNCHANGED <<created, promise>>
    /\ UNCHANGED <<stmt, files, catalog_file, file_errors, pending>>

-------------------------------------------------------------------------------

Init ==
    /\ running = FALSE
    /\ next_table_oid = 0
    /\ tables = [o \in {} |-> Nothing]
    /\ stmt = Idle
    /\ files = [o \in Oid |-> EmptyFile]
    /\ catalog_file = Unreadable
    /\ file_errors = 0
    /\ created = {}
    /\ promise = [r \in RecordId |-> Nothing]
    /\ pending = {}

Next ==
    \/ \E name \in Names : CreateTable(name)
    \/ \E o \in {q \in DOMAIN tables : tables[q].name \in Busy} :
          \/ \E d \in Tuples : BeginInsert(o, d)
          \/ BeginScan("SELECT", o, {})
          \/ \E match \in {Tuples} \cup {{d} : d \in Tuples} : BeginScan("DELETE", o, match)
    \/ InsertInPage
    \/ InsertLoopEnd
    \/ InsertNewPage
    \/ Scan
    \/ DeleteRow
    \/ ScanEnd
    \/ BeginCommit
    \/ CommitTable
    \/ CommitFlush
    \/ CommitTableEnd
    \/ SaveTruncate
    \/ SaveFails
    \/ SaveWrite
    \/ Crash
    \/ Start

Spec == Init /\ [][Next]_vars

-------------------------------------------------------------------------------
(* Properties.                                                                *)

\* A row as the table `tbl` shows it when `Image` gives the contents of its pages.
RowIn(tbl, Image(_), r) ==
    IF Listed(tbl, r.page_id) /\ r.slot_id < Len(Rows(Image(r.page_id)))
    THEN Rows(Image(r.page_id))[r.slot_id + 1] ELSE Nothing

\* What the process, if it stopped now and started again, would find in record r.
Durable(r) ==
    IF catalog_file # Unreadable /\ r.oid \in DOMAIN catalog_file.tables
    THEN RowIn(Loaded(catalog_file)[r.oid], LAMBDA p : ReadPage(files[r.oid], p, Zero), r)
    ELSE Nothing

\* Every variable keeps its type, and the pool its bound.
DatabaseTypeOK ==
    /\ running \in BOOLEAN
    /\ next_table_oid \in 0 .. MaxTables
    /\ DOMAIN tables \subseteq Oid
    /\ \A o \in DOMAIN tables :
          /\ tables[o].name \in Names
          /\ tables[o].page_ids \in Seq(PageId)
          /\ tables[o].next_page_id \in 0 .. MaxPages
          /\ Len(tables[o].pool) <= PoolSize
          /\ \A i \in 1 .. Len(tables[o].pool) : tables[o].pool[i].page_id \in PageId
    /\ \A o \in Oid, p \in PageId : Len(Rows(files[o].page[p])) <= Capacity
    /\ created \subseteq Names
    /\ pending \subseteq RecordId
    /\ file_errors \in 0 .. MaxFileErrors

\* What a COMMIT acknowledged is on disk ever after, up to the next statement
\* that changes the record: rows survive and deleted rows stay deleted, though
\* evictions, compactions and later COMMITs rewrite their pages and the process
\* may stop between any two writes.  A page that could not be written costs the
\* rows of that page and no others, and the next write of it keeps its new rows;
\* a COMMIT that could not save the catalog costs nothing an earlier one kept.
\* While there is no complete catalog file nothing is said: a stop inside
\* SaveCatalog loses everything (TablesSurviveRestart).
CommittedRowsSurvive ==
    catalog_file # Unreadable =>
        \A r \in RecordId \ pending :
            promise[r] \in Tuples \cup {Deleted} => Durable(r) = promise[r]

\* Every acknowledged INSERT and DELETE is what the running process shows,
\* before and after COMMIT and restart, whatever eviction did to the page, unless
\* the page could not be written.
StatementsSeen ==
    running => \A r \in RecordId :
        promise[r] \in Tuples \cup {Deleted} =>
            RowIn(tables[r.oid], LAMBDA p : ImageOf(r.oid, p), r) = promise[r]

\* No oid and no page id in use is given out again.  In use is what memory lists
\* and, while the process runs, what the complete catalog file lists: memory has
\* all of it, under the same names, and the next ids are above it.  Ids of which
\* neither knows are given out again: those of the pages and tables that were made
\* after the last save when the process stopped (LoadCatalog restores next_page_id
\* and next_table_oid as of that save).
IdsInUseNotReused ==
    running =>
        /\ \A o \in DOMAIN tables : o < next_table_oid
        /\ \A o, q \in DOMAIN tables : tables[o].name = tables[q].name => o = q
        /\ \A o \in DOMAIN tables :
              /\ \A p \in PageId : Listed(tables[o], p) => p < tables[o].next_page_id
              /\ \A i, j \in 1 .. Len(tables[o].page_ids) :
                    tables[o].page_ids[i] = tables[o].page_ids[j] => i = j
        /\ catalog_file # Unreadable =>
              \A o \in DOMAIN catalog_file.tables :
                 /\ o \in DOMAIN tables /\ tables[o].name = catalog_file.tables[o].name
                 /\ \A p \in PageId : Listed(catalog_file.tables[o], p) => Listed(tables[o], p)

\* "CREATE TABLE immediately writes the schema" (docs/persistance.md): a table
\* whose CREATE saved the catalog is registered in this process and in every later
\* one, and is in every complete catalog file, whatever CREATEs, COMMITs, saves that
\* fail and restarts follow; a table whose own save failed is kept from the next
\* COMMIT on.  The exception is a stop inside SaveCatalog, which leaves no catalog
\* (the next start then promises nothing; TablesSurviveRestart is about that).
CreatedTablesDurable ==
    /\ running => created \subseteq Registered
    /\ catalog_file # Unreadable =>
          created \subseteq {catalog_file.tables[o].name : o \in DOMAIN catalog_file.tables}

\* "Page IDs (so we know which disk pages belong to this table)"
\* (src/catalog/catalog.cpp): the pages a restart finds in the catalog are on
\* disk.
ListedPagesWritten ==
    ~running /\ catalog_file # Unreadable =>
        \A o \in DOMAIN catalog_file.tables, p \in PageId :
            Listed(catalog_file.tables[o], p) => p \in files[o].extent

\* "On the next make run, the server reads catalog.db and all your tables are
\* already registered" (docs/persistance.md).
TablesSurviveRestart ==
    [][Start => created \subseteq {tables'[o].name : o \in DOMAIN tables'}]_vars
===============================================================================
