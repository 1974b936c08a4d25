---------------------------- MODULE DatabaseProofs -----------------------------
(***************************************************************************)
(* Proofs about Database, for every number of tables, pages and frames and *)
(* every page size: what COMMIT acknowledged survives a crash between any  *)
(* two writes, and the running process shows what its statements did.      *)
(***************************************************************************)
EXTENDS Database, RowPageProofs, SequenceTheorems, FiniteSetTheorems

-------------------------------------------------------------------------------
(* The inductive invariant.                                                   *)

Images == {Zero} \cup {page \in [rows : Seq(Row), free : Nat] : PageOK(page)}
PoolFrame == [page_id : PageId, is_dirty : BOOLEAN, data : Images]
File == [extent : SUBSET PageId, page : [PageId -> Images]]
Table == [name : Names, page_ids : Seq(PageId), next_page_id : 0 .. MaxPages,
          pool : Seq(PoolFrame)]

Types ==
    /\ running \in BOOLEAN
    /\ files \in [Oid -> File]
    /\ file_errors \in 0 .. MaxFileErrors
    /\ created \subseteq Names
    /\ promise \in [RecordId -> Tuples \cup {Deleted, Nothing}]
    /\ pending \subseteq RecordId
    /\ ~running => pending = {} /\ next_table_oid = 0 /\ DOMAIN tables = {}

\* A page list, in memory or in the catalog file.
EntryOK(t) ==
    /\ t.name \in Names /\ t.page_ids \in Seq(PageId) /\ t.next_page_id \in 0 .. MaxPages
    /\ \A i \in 1 .. Len(t.page_ids) : t.page_ids[i] < t.next_page_id
    /\ \A i, j \in 1 .. Len(t.page_ids) : t.page_ids[i] = t.page_ids[j] => i = j

\* The ids in use are below the next ones, and no table has two.
CatalogOK(next, ts) ==
    /\ next \in 0 .. MaxTables
    /\ DOMAIN ts \subseteq 0 .. next - 1
    /\ \A o \in DOMAIN ts : EntryOK(ts[o])
    /\ \A o, q \in DOMAIN ts : ts[o].name = ts[q].name => o = q

\* A pool holds pages of the table's list, each in one frame.
PoolOK(t) ==
    /\ t.pool \in Seq(PoolFrame)
    /\ Len(t.pool) <= PoolSize
    /\ \A i \in 1 .. Len(t.pool) : Listed(t, t.pool[i].page_id)
    /\ \A i, j \in 1 .. Len(t.pool) : t.pool[i].page_id = t.pool[j].page_id => i = j

Memory ==
    /\ CatalogOK(next_table_oid, tables)
    /\ \A o \in DOMAIN tables : tables[o] \in Table /\ PoolOK(tables[o])

\* Memory has every table and page the catalog file has.
Saved ==
    running /\ catalog_file # Unreadable =>
        \A o \in DOMAIN catalog_file.tables :
            /\ o \in DOMAIN tables /\ tables[o].name = catalog_file.tables[o].name
            /\ \A p \in PageId : Listed(catalog_file.tables[o], p) => Listed(tables[o], p)

Disk ==
    /\ catalog_file # Unreadable => CatalogOK(catalog_file.next_table_oid, catalog_file.tables)
    /\ Saved
    /\ CreatedTablesDurable

\* An image holds `row` in slot s.
HasRow(image, s, row) == s < Len(Rows(image)) /\ Rows(image)[s + 1] = row

InFile(file, r) ==
    r.page_id \in file.extent /\ HasRow(file.page[r.page_id], r.slot_id, promise[r])

OnDisk(r) == InFile(files[r.oid], r)

DirtyIn(pool, p) == \E i \in 1 .. Len(pool) : pool[i].page_id = p /\ pool[i].is_dirty

\* Where a promised record is kept.  Until a COMMIT has saved it, a dirty frame
\* may be the only place; from then on the file and the catalog have it too.
Kept(r) ==
    /\ running => /\ r.oid \in DOMAIN tables
                  /\ Listed(tables[r.oid], r.page_id)
                  /\ \A i \in 1 .. Len(tables[r.oid].pool) :
                        tables[r.oid].pool[i].page_id = r.page_id =>
                            HasRow(tables[r.oid].pool[i].data, r.slot_id, promise[r])
                  /\ OnDisk(r) \/ DirtyIn(tables[r.oid].pool, r.page_id)
    /\ r \notin pending =>
          /\ OnDisk(r)
          /\ catalog_file # Unreadable => /\ r.oid \in DOMAIN catalog_file.tables
                                          /\ Listed(catalog_file.tables[r.oid], r.page_id)

Promises == \A r \in RecordId : promise[r] # Nothing => Kept(r)

\* The statement in progress.  The tables COMMIT is done with have no dirty page.
InsertOK ==
    /\ stmt \in [kind : {"INSERT"}, oid : Oid, tuple : Tuples,
                 phase : {"probe", "compact"}, i : Nat \ {0}]
    /\ stmt.oid \in DOMAIN tables
    /\ tables[stmt.oid].next_page_id < MaxPages

ScanOK ==
    /\ stmt \in [kind : {"SELECT", "DELETE"}, oid : Oid, match : SUBSET Tuples,
                 i : Nat \ {0}, rids : Seq(RecordId)]
    /\ stmt.oid \in DOMAIN tables
    /\ \A k \in 1 .. Len(stmt.rids) : /\ stmt.rids[k].oid = stmt.oid
                                      /\ Listed(tables[stmt.oid], stmt.rids[k].page_id)

CommitOK ==
    /\ stmt \in [kind : {"COMMIT"}, at : {"flush", "truncate", "write"},
                 oid : Oid \cup {NoOid}, todo : SUBSET Oid]
    /\ stmt.todo \subseteq DOMAIN tables
    /\ stmt.oid # NoOid => stmt.oid \in DOMAIN tables
    /\ stmt.at # "flush" => stmt.oid = NoOid /\ stmt.todo = {}
    /\ \A o \in DOMAIN tables \ (stmt.todo \cup {stmt.oid}) :
          \A i \in 1 .. Len(tables[o].pool) : ~tables[o].pool[i].is_dirty

CreateOK ==
    /\ stmt \in [kind : {"CREATE"}, at : {"truncate", "write"}, name : Names]
    /\ stmt.name \in Registered

StmtOK ==
    /\ stmt # Idle => running
    /\ \/ stmt = Idle
       \/ CreateOK
       \/ InsertOK
       \/ ScanOK
       \/ CommitOK

Data == Types /\ Memory /\ Disk /\ Promises
IInv == Data /\ StmtOK

-------------------------------------------------------------------------------
(* Images, and the records a scan finds in one.                               *)

LEMMA ImageFacts ==
    ASSUME NEW d \in Images
    PROVE  /\ Rows(d) \in Seq(Row) /\ Len(Rows(d)) \in 0 .. Capacity
           /\ d # Zero => PageOK(d) /\ Rows(d) = d.rows
<1>1. CASE d = Zero
  BY <1>1, RowAssumption DEF Rows
<1>2. CASE d # Zero
  <2>1. PageOK(d) /\ Rows(d) = d.rows
    BY <1>2 DEF Images, Rows
  <2> QED BY <2>1, PageBounds DEF PageOK
<1> QED BY <1>1, <1>2

LEMMA PageIsImage ==
    ASSUME NEW page, PageOK(page)
    PROVE  page \in Images /\ page # Zero /\ Rows(page) = page.rows
<1>1. page \in [rows : Seq(Row), free : Nat] /\ page # Zero
  BY DatabaseAssumption DEF PageOK, Row
<1> QED BY <1>1 DEF Images, Rows

\* `f` lists the matching records of the first n rows, for every n.
IsMatching(f, o, p, rows, match, n) ==
    f = [i \in 0 .. n |->
            IF i = 0 THEN <<>>
            ELSE IF rows[i] \in match
            THEN Append(f[i - 1], [oid |-> o, page_id |-> p, slot_id |-> i - 1])
            ELSE f[i - 1]]

RecordsOf(o, p) == {r \in RecordId : r.oid = o /\ r.page_id = p}

LEMMA MatchingExists ==
    ASSUME NEW o \in Oid, NEW p \in PageId, NEW rows \in Seq(Row), NEW match,
           Len(rows) <= Capacity
    PROVE  \E f \in [0 .. Len(rows) -> Seq(RecordsOf(o, p))] :
               IsMatching(f, o, p, rows, match, Len(rows))
<1> DEFINE S == {n \in Nat : n <= Len(rows) =>
                    \E f \in [0 .. n -> Seq(RecordsOf(o, p))] :
                        IsMatching(f, o, p, rows, match, n)}
<1>0. Len(rows) \in Nat /\ Capacity \in Nat
  BY RowAssumption
<1>1. 0 \in S
  <2> DEFINE f == [i \in 0 .. 0 |-> <<>>]
  <2>1. f \in [0 .. 0 -> Seq(RecordsOf(o, p))]
    OBVIOUS
  <2>2. IsMatching(f, o, p, rows, match, 0)
    BY DEF IsMatching
  <2> HIDE DEF f
  <2> QED BY <2>1, <2>2
<1>2. ASSUME NEW n \in Nat, n \in S PROVE n + 1 \in S
  <2> SUFFICES ASSUME n + 1 <= Len(rows)
               PROVE  \E f \in [0 .. n + 1 -> Seq(RecordsOf(o, p))] :
                          IsMatching(f, o, p, rows, match, n + 1)
    OBVIOUS
  <2>1. PICK f \in [0 .. n -> Seq(RecordsOf(o, p))] : IsMatching(f, o, p, rows, match, n)
    BY <1>0, <1>2
  <2> DEFINE rid == [oid |-> o, page_id |-> p, slot_id |-> n]
             last == IF rows[n + 1] \in match THEN Append(f[n], rid) ELSE f[n]
             g == [i \in 0 .. n + 1 |-> IF i = n + 1 THEN last ELSE f[i]]
  <2>2. rid \in RecordsOf(o, p)
    BY <1>0 DEF RecordsOf, RecordId
  <2>3. last \in Seq(RecordsOf(o, p))
    <3>1. f[n] \in Seq(RecordsOf(o, p))
      OBVIOUS
    <3> HIDE DEF rid
    <3> QED BY <2>2, <3>1
  <2>4. g \in [0 .. n + 1 -> Seq(RecordsOf(o, p))]
    <3> HIDE DEF last
    <3> QED BY <2>3
  <2>5. /\ \A i \in 0 .. n : g[i] = f[i]
        /\ g[n + 1] = last
    OBVIOUS
  <2>6. ASSUME NEW i \in 0 .. n + 1
        PROVE  g[i] = IF i = 0 THEN <<>>
                      ELSE IF rows[i] \in match
                      THEN Append(g[i - 1], [oid |-> o, page_id |-> p, slot_id |-> i - 1])
                      ELSE g[i - 1]
    <3>1. CASE i = n + 1
      <4>1. i - 1 = n /\ i # 0 /\ g[i - 1] = f[n]
        BY <2>5, <3>1
      <4> HIDE DEF g
      <4> QED BY <2>5, <3>1, <4>1
    <3>2. CASE i \in 0 .. n
      <4>1. g[i] = f[i] /\ (i # 0 => g[i - 1] = f[i - 1])
        BY <2>5, <3>2
      <4>2. f[i] = IF i = 0 THEN <<>>
                   ELSE IF rows[i] \in match
                   THEN Append(f[i - 1], [oid |-> o, page_id |-> p, slot_id |-> i - 1])
                   ELSE f[i - 1]
        BY <2>1, <3>2 DEF IsMatching
      <4> HIDE DEF g
      <4> QED BY <4>1, <4>2
    <3> QED BY <3>1, <3>2
  <2>7. IsMatching(g, o, p, rows, match, n + 1)
    <3>1. g = [i \in 0 .. n + 1 |-> g[i]]
      OBVIOUS
    <3> HIDE DEF g
    <3> QED BY <2>6, <3>1 DEF IsMatching
  <2> HIDE DEF g
  <2> QED BY <2>4, <2>7
<1>3. Nat \subseteq S
  <2> HIDE DEF S
  <2> QED BY <1>1, <1>2, Induction
<1> QED BY <1>0, <1>3

LEMMA MatchingType ==
    ASSUME NEW o \in Oid, NEW p \in PageId, NEW rows \in Seq(Row), NEW match,
           Len(rows) <= Capacity
    PROVE  Matching(o, p, rows, match) \in Seq(RecordsOf(o, p))
<1> DEFINE n == Len(rows)
           F(f) == [i \in 0 .. n |->
                       IF i = 0 THEN <<>>
                       ELSE IF rows[i] \in match
                       THEN Append(f[i - 1], [oid |-> o, page_id |-> p, slot_id |-> i - 1])
                       ELSE f[i - 1]]
           found == CHOOSE f : f = F(f)
<1>1. \E f : f = F(f)
  <2>1. \E f \in [0 .. n -> Seq(RecordsOf(o, p))] : IsMatching(f, o, p, rows, match, n)
    BY MatchingExists, Zenon
  <2>2. PICK f : IsMatching(f, o, p, rows, match, n)
    BY <2>1, Zenon
  <2> QED BY <2>2, Zenon DEF IsMatching
<1>2. found = F(found)
  BY <1>1, Zenon
<1>3. Matching(o, p, rows, match) = found[n]
  BY DEF Matching
<1>4. n \in Nat
  OBVIOUS
<1> DEFINE S == {k \in Nat : k <= n => found[k] \in Seq(RecordsOf(o, p))}
<1>5. \A i \in 0 .. n :
          found[i] = IF i = 0 THEN <<>>
                     ELSE IF rows[i] \in match
                     THEN Append(found[i - 1], [oid |-> o, page_id |-> p, slot_id |-> i - 1])
                     ELSE found[i - 1]
  BY <1>2, Zenon
<1> HIDE DEF found, n
<1>6. 0 \in S
  <2>1. 0 \in 0 .. n /\ 0 \in Nat
    BY <1>4
  <2>2. found[0] = <<>>
    BY <1>5, <2>1, Zenon
  <2>3. <<>> \in Seq(RecordsOf(o, p))
    OBVIOUS
  <2> QED BY <2>1, <2>2, <2>3, Zenon
<1>7. ASSUME NEW k \in Nat, k \in S PROVE k + 1 \in S
  <2> SUFFICES ASSUME k + 1 <= n PROVE found[k + 1] \in Seq(RecordsOf(o, p))
    OBVIOUS
  <2>1. found[k] \in Seq(RecordsOf(o, p))
    BY <1>4, <1>7
  <2>2. k + 1 \in 0 .. n /\ k + 1 # 0 /\ (k + 1) - 1 = k
    BY <1>4
  <2>3. k \in 0 .. Capacity
    BY <1>4, RowAssumption DEF n
  <2>4. [oid |-> o, page_id |-> p, slot_id |-> k] \in RecordsOf(o, p)
    BY <2>3 DEF RecordsOf, RecordId
  <2>5. found[k + 1] = IF rows[k + 1] \in match
                       THEN Append(found[k], [oid |-> o, page_id |-> p, slot_id |-> k])
                       ELSE found[k]
    BY <1>5, <2>2
  <2> QED BY <2>1, <2>4, <2>5, AppendProperties
<1>8. Nat \subseteq S
  <2> HIDE DEF S
  <2> QED BY <1>6, <1>7, Induction
<1> QED BY <1>3, <1>4, <1>8

-------------------------------------------------------------------------------
(* A table's pool: eviction, fetch, and what a page put into a frame means    *)
(* for the promises.                                                          *)

LEMMA TableFacts ==
    ASSUME Memory, NEW o \in DOMAIN tables
    PROVE  /\ o \in Oid /\ tables[o] \in Table /\ PoolOK(tables[o]) /\ EntryOK(tables[o])
           /\ Len(tables[o].pool) \in Nat /\ Len(tables[o].page_ids) \in Nat
           /\ \A i \in 1 .. Len(tables[o].pool) : tables[o].pool[i] \in PoolFrame
<1>1. tables[o] \in Table /\ PoolOK(tables[o]) /\ EntryOK(tables[o])
  BY DEF Memory, CatalogOK
<1>2. o \in Oid
  BY DatabaseAssumption DEF Memory, CatalogOK, Oid
<1> QED BY <1>1, <1>2 DEF PoolOK, EntryOK

\* Steps that leave the catalog file alone, and take no table and no page away.
LEMMA DiskKept ==
    ASSUME Disk, UNCHANGED <<running, catalog_file, created>>,
           \A o \in DOMAIN tables :
              /\ o \in DOMAIN tables' /\ tables'[o].name = tables[o].name
              /\ \A p \in PageId : Listed(tables[o], p) => Listed(tables'[o], p)
    PROVE  Disk'
<1>1. Registered \subseteq Registered'
  BY DEF Registered
<1>2. CreatedTablesDurable'
  BY <1>1 DEF Disk, CreatedTablesDurable
<1>3. Saved'
  BY DEF Disk, Saved, Listed
<1> QED BY <1>2, <1>3 DEF Disk

\* The write of a dirty page, or its loss.
LEMMA WriteBackLemma ==
    ASSUME Types, NEW o \in Oid, NEW frame \in PoolFrame, NEW opens \in Opens, NEW back,
           back = WriteBack(o, frame, opens)
    PROVE  /\ back.file \in File
           /\ file_errors + Cardinality(back.lost) \in 0 .. MaxFileErrors
           /\ back.lost \subseteq {frame.page_id}
           /\ files[o].extent \subseteq back.file.extent
           /\ \A q \in PageId \ {frame.page_id} : back.file.page[q] = files[o].page[q]
           /\ \/ ~frame.is_dirty /\ back.file = files[o] /\ back.lost = {}
              \/ frame.is_dirty /\ back.file = files[o] /\ back.lost = {frame.page_id}
              \/ /\ frame.is_dirty /\ back.lost = {}
                 /\ frame.page_id \in back.file.extent
                 /\ back.file.page[frame.page_id] = frame.data
<1>1. /\ files[o] \in File
      /\ frame.page_id \in PageId /\ frame.is_dirty \in BOOLEAN /\ frame.data \in Images
      /\ file_errors \in 0 .. MaxFileErrors /\ MaxFileErrors \in Nat
  BY DatabaseAssumption DEF Types, PoolFrame
<1>2. Cardinality({}) = 0 /\ Cardinality({frame.page_id}) = 1
  BY FS_EmptySet, FS_Singleton
<1>3. CASE ~frame.is_dirty
  <2>1. back.file = files[o] /\ back.lost = {}
    BY <1>3 DEF WriteBack
  <2> QED BY <1>1, <1>2, <1>3, <2>1
<1>4. CASE frame.is_dirty /\ ~opens
  <2>1. back.file = files[o] /\ back.lost = {frame.page_id}
    BY <1>4 DEF WriteBack
  <2>2. file_errors < MaxFileErrors
    BY <1>4, Zenon DEF Opens
  <2>3. file_errors + 1 \in 0 .. MaxFileErrors
    BY <1>1, <2>2
  <2> QED BY <1>1, <1>2, <1>4, <2>1, <2>3
<1>5. CASE frame.is_dirty /\ opens
  <2>1. /\ back.lost = {}
        /\ back.file = [extent |-> files[o].extent \cup 0 .. frame.page_id,
                        page |-> [files[o].page EXCEPT ![frame.page_id] = frame.data]]
    BY <1>5 DEF WriteBack, WritePage
  <2>2. 0 .. frame.page_id \subseteq PageId /\ frame.page_id \in 0 .. frame.page_id
    BY <1>1, DatabaseAssumption DEF PageId
  <2>3. back.file \in File
    BY <1>1, <2>1, <2>2 DEF File
  <2>4. /\ frame.page_id \in back.file.extent
        /\ files[o].extent \subseteq back.file.extent
    BY <2>1, <2>2
  <2>5. /\ back.file.page[frame.page_id] = frame.data
        /\ \A q \in PageId \ {frame.page_id} : back.file.page[q] = files[o].page[q]
    BY <1>1, <2>1 DEF File
  <2>6. back.lost = {} /\ file_errors + 0 \in 0 .. MaxFileErrors
    BY <1>1, <2>1
  <2> QED BY <1>2, <1>5, <2>3, <2>4, <2>5, <2>6
<1> QED BY <1>3, <1>4, <1>5, Zenon

\* A frame is free for page p: the pool has no frame for p, and every promised
\* record that did not get lost is where it was, or in the file.
Freed(o, p, pool, file, lost) ==
    /\ pool \in Seq(PoolFrame) /\ Len(pool) < PoolSize
    /\ \A i \in 1 .. Len(pool) :
          pool[i].page_id # p /\ \E j \in 1 .. Len(tables[o].pool) : pool[i] = tables[o].pool[j]
    /\ \A i, j \in 1 .. Len(pool) : pool[i].page_id = pool[j].page_id => i = j
    /\ file \in File
    /\ lost \subseteq PageId
    /\ file_errors + Cardinality(lost) \in 0 .. MaxFileErrors
    /\ \A r \in RecordId :
          r.oid = o /\ promise[r] # Nothing /\ r.page_id \notin lost =>
              /\ OnDisk(r) => InFile(file, r)
              /\ r.page_id # p /\ DirtyIn(tables[o].pool, r.page_id) =>
                    InFile(file, r) \/ DirtyIn(pool, r.page_id)

LEMMA FreeFrameLemma ==
    ASSUME Data, running, NEW o \in DOMAIN tables, NEW p \in PageId, Hits(o, p) = {},
           NEW opens \in Opens, NEW free, free = FreeFrame(o, opens)
    PROVE  /\ Freed(o, p, free.pool, free.file, free.lost)
           /\ free.buf \in Images
           /\ free.file.page[p] = files[o].page[p]
           /\ files[o].extent \subseteq free.file.extent
<1> DEFINE pool == tables[o].pool
<1>1. /\ o \in Oid /\ PoolOK(tables[o]) /\ Len(pool) \in Nat
      /\ \A i \in 1 .. Len(pool) : pool[i] \in PoolFrame
  BY TableFacts DEF Data
<1>2. /\ pool \in Seq(PoolFrame) /\ Len(pool) <= PoolSize
      /\ \A i, j \in 1 .. Len(pool) : pool[i].page_id = pool[j].page_id => i = j
      /\ \A i \in 1 .. Len(pool) : pool[i].page_id # p
  BY <1>1 DEF PoolOK, Hits
<1>3. files[o] \in File /\ Types
  BY <1>1 DEF Data, Types
<1>4. CASE Len(pool) < PoolSize
  <2>1. free.pool = pool /\ free.file = files[o] /\ free.lost = {} /\ free.buf = Zero
    BY <1>4 DEF FreeFrame
  <2>2. file_errors + Cardinality({}) \in 0 .. MaxFileErrors
    <3>1. Cardinality({}) = 0
      BY FS_EmptySet
    <3> QED BY <1>3, <3>1 DEF Types
  <2>3. ASSUME NEW r \in RecordId, r.oid = o
        PROVE  /\ OnDisk(r) => InFile(files[o], r)
               /\ DirtyIn(tables[o].pool, r.page_id) => DirtyIn(pool, r.page_id)
    BY <2>3 DEF OnDisk
  <2>4. Freed(o, p, pool, files[o], {})
    <3> HIDE DEF pool
    <3> QED BY <1>1, <1>2, <1>3, <1>4, <2>2, <2>3 DEF Freed, pool
  <2> QED BY <2>1, <2>4 DEF Images
<1>5. CASE ~(Len(pool) < PoolSize)
  <2> DEFINE back == WriteBack(o, Head(pool), opens)
  <2>1. /\ free.pool = Tail(pool) /\ free.file = back.file /\ free.lost = back.lost
        /\ free.buf = Head(pool).data
    BY <1>5 DEF FreeFrame
  <2>2. pool # <<>> /\ 1 \in 1 .. Len(pool) /\ Len(pool) = PoolSize
    BY <1>1, <1>2, <1>5, DatabaseAssumption
  <2>3. Head(pool) = pool[1] /\ Head(pool) \in PoolFrame
    BY <1>2, <2>2
  <2>4. /\ Tail(pool) \in Seq(PoolFrame) /\ Len(Tail(pool)) = Len(pool) - 1
        /\ \A i \in 1 .. Len(Tail(pool)) : Tail(pool)[i] = pool[i + 1]
    BY <1>2, <2>2, HeadTailProperties
  <2>5. /\ back.file \in File
        /\ file_errors + Cardinality(back.lost) \in 0 .. MaxFileErrors
        /\ back.lost \subseteq {pool[1].page_id}
        /\ files[o].extent \subseteq back.file.extent
        /\ \A q \in PageId \ {pool[1].page_id} : back.file.page[q] = files[o].page[q]
        /\ \/ ~pool[1].is_dirty /\ back.file = files[o] /\ back.lost = {}
           \/ pool[1].is_dirty /\ back.file = files[o] /\ back.lost = {pool[1].page_id}
           \/ /\ pool[1].is_dirty /\ back.lost = {}
              /\ pool[1].page_id \in back.file.extent
              /\ back.file.page[pool[1].page_id] = pool[1].data
    BY <1>1, <1>3, <2>3, WriteBackLemma
  <2>6. pool[1].page_id \in PageId /\ pool[1].data \in Images /\ pool[1].page_id # p
    BY <1>1, <1>2, <2>2 DEF PoolFrame
  <2> HIDE DEF back, pool
  <2>7. ASSUME NEW r \in RecordId, r.oid = o, promise[r] # Nothing, r.page_id \notin back.lost
        PROVE  /\ OnDisk(r) => InFile(back.file, r)
               /\ DirtyIn(pool, r.page_id) => InFile(back.file, r) \/ DirtyIn(Tail(pool), r.page_id)
    <3>1. r.page_id \in PageId
      BY DEF RecordId
    <3>2. \A i \in 1 .. Len(pool) : pool[i].page_id = r.page_id =>
              HasRow(pool[i].data, r.slot_id, promise[r])
      BY <2>7 DEF Data, Promises, Kept, pool
    <3>3. CASE r.page_id = pool[1].page_id
      <4>1. (back.file = files[o] /\ ~pool[1].is_dirty) \/ InFile(back.file, r)
        BY <2>2, <2>5, <2>7, <3>2, <3>3 DEF InFile
      <4>2. DirtyIn(pool, r.page_id) => pool[1].is_dirty
        BY <1>2, <2>2, <3>3 DEF DirtyIn
      <4> QED BY <2>7, <4>1, <4>2 DEF OnDisk
    <3>4. CASE r.page_id # pool[1].page_id
      <4>1. OnDisk(r) => InFile(back.file, r)
        BY <2>5, <2>7, <3>1, <3>4 DEF OnDisk, InFile
      <4>2. ASSUME NEW i \in 1 .. Len(pool), pool[i].page_id = r.page_id, pool[i].is_dirty
            PROVE  DirtyIn(Tail(pool), r.page_id)
        <5>1. i - 1 \in 1 .. Len(Tail(pool)) /\ Tail(pool)[i - 1] = pool[i]
          BY <1>1, <2>4, <3>4, <4>2 DEF pool
        <5> QED BY <4>2, <5>1 DEF DirtyIn
      <4> QED BY <4>1, <4>2 DEF DirtyIn
    <3> QED BY <3>3, <3>4
  <2>8. \A i \in 1 .. Len(Tail(pool)) : i + 1 \in 1 .. Len(pool) /\ Tail(pool)[i] = pool[i + 1]
    BY <1>1, <2>4 DEF pool
  <2>9. \A i, j \in 1 .. Len(Tail(pool)) :
            Tail(pool)[i].page_id = Tail(pool)[j].page_id => i = j
    <3> SUFFICES ASSUME NEW i \in 1 .. Len(Tail(pool)), NEW j \in 1 .. Len(Tail(pool)),
                        Tail(pool)[i].page_id = Tail(pool)[j].page_id
                 PROVE  i = j
      OBVIOUS
    <3>1. i + 1 = j + 1
      BY <1>2, <2>8
    <3> QED BY <3>1
  <2>10. Freed(o, p, Tail(pool), back.file, back.lost)
    <3>1. /\ Len(Tail(pool)) < PoolSize /\ back.lost \subseteq PageId
          /\ \A i \in 1 .. Len(Tail(pool)) :
                /\ Tail(pool)[i].page_id # p
                /\ \E j \in 1 .. Len(tables[o].pool) : Tail(pool)[i] = tables[o].pool[j]
      BY <1>1, <1>2, <2>2, <2>4, <2>5, <2>6, <2>8, DatabaseAssumption DEF pool
    <3> QED BY <2>4, <2>5, <2>7, <2>9, <3>1 DEF Freed, pool
  <2>11. back.file.page[p] = files[o].page[p]
    BY <2>5, <2>6
  <2> QED BY <2>1, <2>3, <2>5, <2>6, <2>10, <2>11
<1> QED BY <1>4, <1>5

LEMMA RemoveAtLemma ==
    ASSUME NEW S, NEW s \in Seq(S), NEW k \in 1 .. Len(s)
    PROVE  /\ RemoveAt(s, k) \in Seq(S) /\ Len(RemoveAt(s, k)) = Len(s) - 1
           /\ \A i \in 1 .. k - 1 : RemoveAt(s, k)[i] = s[i]
           /\ \A i \in k .. Len(s) - 1 : RemoveAt(s, k)[i] = s[i + 1]
<1> DEFINE left == SubSeq(s, 1, k - 1)
           right == SubSeq(s, k + 1, Len(s))
<1>1. k \in Int /\ k >= 1 /\ k <= Len(s) /\ Len(s) \in Nat
  OBVIOUS
<1>2. /\ left \in Seq(S) /\ Len(left) = k - 1
      /\ \A i \in 1 .. k - 1 : left[i] = s[i]
  <2>1. 1 \in Int /\ k - 1 \in Int /\ \A i \in 1 .. k - 1 : s[i] \in S
    BY <1>1
  <2>2. /\ left \in Seq(S) /\ Len(left) = (IF 1 <= k - 1 THEN (k - 1) - 1 + 1 ELSE 0)
        /\ \A i \in 1 .. (k - 1) - 1 + 1 : left[i] = s[1 + i - 1]
    BY <2>1, SubSeqProperties
  <2> HIDE DEF left
  <2> QED BY <1>1, <2>2
<1>3. /\ right \in Seq(S) /\ Len(right) = Len(s) - k
      /\ \A i \in 1 .. Len(s) - k : right[i] = s[k + i]
  <2>1. k + 1 \in Int /\ Len(s) \in Int /\ \A i \in k + 1 .. Len(s) : s[i] \in S
    BY <1>1
  <2>2. /\ right \in Seq(S)
        /\ Len(right) = (IF k + 1 <= Len(s) THEN Len(s) - (k + 1) + 1 ELSE 0)
        /\ \A i \in 1 .. Len(s) - (k + 1) + 1 : right[i] = s[(k + 1) + i - 1]
    BY <2>1, SubSeqProperties
  <2> HIDE DEF right
  <2> QED BY <1>1, <2>2
<1>4. RemoveAt(s, k) = left \o right
  BY DEF RemoveAt
<1> HIDE DEF left, right
<1> DEFINE both == left \o right
<1>5. /\ both \in Seq(S)
      /\ Len(both) = Len(left) + Len(right)
      /\ \A i \in 1 .. Len(left) + Len(right) :
            both[i] = IF i <= Len(left) THEN left[i] ELSE right[i - Len(left)]
  BY <1>2, <1>3, ConcatProperties
<1> HIDE DEF both
<1>6. \A i \in 1 .. k - 1 : both[i] = s[i]
  BY <1>1, <1>2, <1>3, <1>5
<1>7. ASSUME NEW i \in k .. Len(s) - 1 PROVE both[i] = s[i + 1]
  <2>1. i - (k - 1) \in 1 .. Len(s) - k /\ k + (i - (k - 1)) = i + 1 /\ ~(i <= k - 1)
    BY <1>1
  <2>2. both[i] = right[i - (k - 1)]
    <3>1. i \in 1 .. Len(left) + Len(right) /\ ~(i <= Len(left))
      BY <1>1, <1>2, <1>3, <2>1
    <3>2. both[i] = right[i - Len(left)]
      BY <1>5, <3>1
    <3> QED BY <1>2, <3>2
  <2>3. right[i - (k - 1)] = s[k + (i - (k - 1))]
    BY <1>3, <2>1
  <2> QED BY <2>1, <2>2, <2>3
<1> QED BY <1>1, <1>2, <1>3, <1>4, <1>5, <1>6, <1>7 DEF both

\* FetchPage: the frame for a page of the list, and what is promised of it.
LEMMA FetchLemma ==
    ASSUME Data, running, NEW o \in DOMAIN tables, NEW p \in PageId,
           NEW opens \in Opens, NEW f, f = FetchPage(o, p, opens)
    PROVE  /\ Freed(o, p, f.pool, f.file, f.lost)
           /\ f.frame \in PoolFrame /\ f.frame.page_id = p
           /\ \A r \in RecordsOf(o, p) :
                 promise[r] # Nothing /\ r.page_id \notin f.lost =>
                     /\ HasRow(f.frame.data, r.slot_id, promise[r])
                     /\ InFile(f.file, r) \/ f.frame.is_dirty
<1> DEFINE pool == tables[o].pool
<1>1. /\ o \in Oid /\ PoolOK(tables[o]) /\ Len(pool) \in Nat
      /\ \A i \in 1 .. Len(pool) : pool[i] \in PoolFrame
  BY TableFacts DEF Data
<1>2. /\ pool \in Seq(PoolFrame) /\ Len(pool) <= PoolSize
      /\ \A i, j \in 1 .. Len(pool) : pool[i].page_id = pool[j].page_id => i = j
  BY <1>1 DEF PoolOK
<1>3. files[o] \in File /\ Types
  BY <1>1 DEF Data, Types
<1>4. ASSUME NEW r \in RecordsOf(o, p), promise[r] # Nothing
      PROVE  /\ r \in RecordId /\ r.oid = o /\ r.page_id = p
             /\ \A i \in 1 .. Len(pool) : pool[i].page_id = p =>
                    HasRow(pool[i].data, r.slot_id, promise[r])
             /\ InFile(files[o], r) \/ DirtyIn(pool, p)
  BY <1>4 DEF RecordsOf, Data, Promises, Kept, OnDisk
<1>5. CASE Hits(o, p) # {}
  <2> DEFINE k == HitFrame(o, p)
             rest == RemoveAt(pool, k)
  <2>1. k \in 1 .. Len(pool) /\ pool[k].page_id = p
    BY <1>5, Zenon DEF Hits, HitFrame
  <2>2. /\ f.pool = rest /\ f.file = files[o] /\ f.lost = {} /\ f.frame = pool[k]
    BY <1>5 DEF FetchPage
  <2> HIDE DEF k, pool
  <2>3. /\ rest \in Seq(PoolFrame) /\ Len(rest) = Len(pool) - 1
        /\ \A i \in 1 .. k - 1 : rest[i] = pool[i]
        /\ \A i \in k .. Len(pool) - 1 : rest[i] = pool[i + 1]
    BY <1>2, <2>1, RemoveAtLemma DEF pool
  <2> HIDE DEF rest
  <2>4. ASSUME NEW i \in 1 .. Len(rest)
        PROVE  \E j \in 1 .. Len(pool) :
                   /\ rest[i] = pool[j] /\ j # k
                   /\ i < k => j = i
                   /\ i >= k => j = i + 1
    <3>1. CASE i < k
      <4>1. i \in 1 .. k - 1 /\ i \in 1 .. Len(pool) /\ i # k
        BY <1>1, <2>1, <2>3, <3>1 DEF pool
      <4> QED BY <2>1, <2>3, <3>1, <4>1
    <3>2. CASE i >= k
      <4>1. i \in k .. Len(pool) - 1 /\ i + 1 \in 1 .. Len(pool) /\ i + 1 # k
        BY <1>1, <2>1, <2>3, <3>2 DEF pool
      <4> QED BY <2>1, <2>3, <3>2, <4>1
    <3> QED BY <2>1, <2>3, <3>1, <3>2
  <2>5. \A j \in 1 .. Len(pool) : j # k =>
            \E i \in 1 .. Len(rest) : rest[i] = pool[j]
    <3> SUFFICES ASSUME NEW j \in 1 .. Len(pool), j # k
                 PROVE  \E i \in 1 .. Len(rest) : rest[i] = pool[j]
      OBVIOUS
    <3>1. CASE j < k
      <4>1. j \in 1 .. Len(rest) /\ j \in 1 .. k - 1
        BY <1>1, <2>1, <2>3, <3>1 DEF pool
      <4> QED BY <2>3, <3>1, <4>1
    <3>2. CASE j > k
      <4>1. j - 1 \in 1 .. Len(rest) /\ j - 1 \in k .. Len(pool) - 1 /\ (j - 1) + 1 = j
        BY <1>1, <2>1, <2>3, <3>2 DEF pool
      <4> QED BY <2>3, <4>1
    <3> QED BY <1>1, <2>1, <3>1, <3>2 DEF pool
  <2>6. \A i, j \in 1 .. Len(rest) : rest[i].page_id = rest[j].page_id => i = j
    <3> SUFFICES ASSUME NEW i \in 1 .. Len(rest), NEW j \in 1 .. Len(rest),
                        rest[i].page_id = rest[j].page_id
                 PROVE  i = j
      OBVIOUS
    <3>1. PICK u \in 1 .. Len(pool) :
             rest[i] = pool[u] /\ u # k /\ (i < k => u = i) /\ (i >= k => u = i + 1)
      BY <2>4
    <3>2. PICK v \in 1 .. Len(pool) :
             rest[j] = pool[v] /\ v # k /\ (j < k => v = j) /\ (j >= k => v = j + 1)
      BY <2>4
    <3>3. u = v
      BY <1>2, <3>1, <3>2 DEF pool
    <3> QED BY <2>1, <3>1, <3>2, <3>3
  <2>7. file_errors + Cardinality({}) \in 0 .. MaxFileErrors
    <3>1. Cardinality({}) = 0
      BY FS_EmptySet
    <3> QED BY <1>3, <3>1 DEF Types
  <2>8. ASSUME NEW r \in RecordId, r.oid = o
        PROVE  /\ OnDisk(r) => InFile(files[o], r)
               /\ r.page_id # p /\ DirtyIn(pool, r.page_id) => DirtyIn(rest, r.page_id)
    <3>1. OnDisk(r) => InFile(files[o], r)
      BY <2>8 DEF OnDisk
    <3>2. r.page_id # p /\ DirtyIn(pool, r.page_id) => DirtyIn(rest, r.page_id)
      BY <2>1, <2>5 DEF DirtyIn
    <3> QED BY <3>1, <3>2
  <2>9. /\ Len(rest) < PoolSize
        /\ \A i \in 1 .. Len(rest) :
              rest[i].page_id # p /\ \E j \in 1 .. Len(pool) : rest[i] = pool[j]
    <3>1. Len(rest) < PoolSize
      BY <1>1, <1>2, <2>3, DatabaseAssumption DEF pool
    <3>2. \A j \in 1 .. Len(pool) : j # k => pool[j].page_id # p
      BY <1>2, <2>1 DEF pool
    <3> QED BY <2>4, <3>1, <3>2
  <2>10. Freed(o, p, rest, files[o], {})
    BY <1>3, <2>3, <2>6, <2>7, <2>8, <2>9 DEF Freed, pool
  <2>11. pool[k] \in PoolFrame
    BY <1>1, <2>1 DEF pool
  <2>12. ASSUME NEW r \in RecordsOf(o, p), promise[r] # Nothing
         PROVE  /\ HasRow(pool[k].data, r.slot_id, promise[r])
                /\ InFile(files[o], r) \/ pool[k].is_dirty
    <3>1. HasRow(pool[k].data, r.slot_id, promise[r])
      BY <1>4, <2>1, <2>12 DEF pool
    <3>2. DirtyIn(pool, p) => pool[k].is_dirty
      BY <1>2, <2>1 DEF DirtyIn, pool
    <3> QED BY <1>4, <2>12, <3>1, <3>2 DEF pool
  <2> QED BY <2>1, <2>2, <2>10, <2>11, <2>12
<1>6. CASE Hits(o, p) = {}
  <2> DEFINE free == FreeFrame(o, opens)
             frame == [page_id |-> p, is_dirty |-> FALSE,
                       data |-> ReadPage(free.file, p, free.buf)]
  <2>1. /\ f.pool = free.pool /\ f.file = free.file /\ f.lost = free.lost
        /\ f.frame = frame
    BY <1>6 DEF FetchPage
  <2>2. /\ Freed(o, p, free.pool, free.file, free.lost)
        /\ free.buf \in Images
        /\ free.file.page[p] = files[o].page[p]
        /\ files[o].extent \subseteq free.file.extent
    BY <1>6, FreeFrameLemma
  <2> HIDE DEF free
  <2>3. free.file \in File
    BY <2>2 DEF Freed
  <2>4. ReadPage(free.file, p, free.buf) \in Images
    BY <2>2, <2>3 DEF ReadPage, File
  <2>5. frame \in PoolFrame /\ frame.page_id = p
    BY <2>4 DEF PoolFrame
  <2>6. ASSUME NEW r \in RecordsOf(o, p), promise[r] # Nothing
        PROVE  /\ HasRow(frame.data, r.slot_id, promise[r])
               /\ InFile(free.file, r)
    <3>1. ~DirtyIn(pool, p)
      BY <1>6 DEF Hits, DirtyIn
    <3>2. InFile(files[o], r) /\ r.page_id = p
      BY <1>4, <2>6, <3>1
    <3>3. InFile(free.file, r) /\ p \in free.file.extent
      BY <2>2, <3>2 DEF InFile
    <3> QED BY <3>2, <3>3 DEF InFile, ReadPage
  <2> HIDE DEF frame
  <2> QED BY <2>1, <2>2, <2>5, <2>6
<1> QED BY <1>5, <1>6

\* Page p is put into the frame that was freed for it, with the contents `data`
\* and the flag `dirty`; what is newly promised is on p and not yet committed.
Installs(o, p, file, lost, data, dirty) ==
    /\ promise' \in [RecordId -> Tuples \cup {Deleted, Nothing}]
    /\ pending' \subseteq RecordId /\ pending \subseteq pending'
    /\ \A r \in RecordId : promise'[r] # Nothing =>
          \/ /\ promise'[r] = promise[r]
             /\ r.oid = o => r.page_id \notin lost
             /\ r \in RecordsOf(o, p) => /\ HasRow(data, r.slot_id, promise[r])
                                         /\ InFile(file, r) \/ dirty
          \/ /\ r \in pending' /\ r \in RecordsOf(o, p) /\ dirty
             /\ HasRow(data, r.slot_id, promise'[r])

TableBecomes(o, t) ==
    /\ DOMAIN tables' = DOMAIN tables /\ tables'[o] = t
    /\ \A q \in DOMAIN tables \ {o} : tables'[q] = tables[q]
    /\ t.name = tables[o].name
    /\ \A q : Listed(tables[o], q) => Listed(t, q)

LEMMA InstallLemma ==
    ASSUME Data, running, NEW o \in DOMAIN tables, NEW p \in PageId,
           NEW pool, NEW file, NEW lost, Freed(o, p, pool, file, lost),
           NEW data \in Images, NEW dirty \in BOOLEAN,
           NEW t \in Table, EntryOK(t), Listed(t, p), TableBecomes(o, t),
           t.pool = Append(pool, [page_id |-> p, is_dirty |-> dirty, data |-> data]),
           files' = [files EXCEPT ![o] = file],
           file_errors' = file_errors + Cardinality(lost),
           UNCHANGED <<running, next_table_oid, catalog_file, created>>,
           Installs(o, p, file, lost, data, dirty)
    PROVE  Data'
<1> DEFINE frame == [page_id |-> p, is_dirty |-> dirty, data |-> data]
           n == Len(pool)
<1>0. /\ promise' \in [RecordId -> Tuples \cup {Deleted, Nothing}]
      /\ pending' \subseteq RecordId /\ pending \subseteq pending'
      /\ \A r \in RecordId : promise'[r] # Nothing =>
            \/ /\ promise'[r] = promise[r]
               /\ r.oid = o => r.page_id \notin lost
               /\ r \in RecordsOf(o, p) => /\ HasRow(data, r.slot_id, promise[r])
                                           /\ InFile(file, r) \/ dirty
            \/ /\ r \in pending' /\ r \in RecordsOf(o, p) /\ dirty
               /\ HasRow(data, r.slot_id, promise'[r])
  BY DEF Installs
<1>. /\ DOMAIN tables' = DOMAIN tables /\ tables'[o] = t
     /\ \A q \in DOMAIN tables \ {o} : tables'[q] = tables[q]
     /\ t.name = tables[o].name
     /\ \A q : Listed(tables[o], q) => Listed(t, q)
  BY DEF TableBecomes
<1>1. /\ o \in Oid /\ PoolOK(tables[o]) /\ tables[o] \in Table
      /\ Len(tables[o].pool) \in Nat
  BY TableFacts DEF Data
<1>2. /\ pool \in Seq(PoolFrame) /\ n \in Nat /\ n < PoolSize
      /\ file \in File /\ frame \in PoolFrame
      /\ PoolSize \in Nat
  BY DatabaseAssumption DEF Freed, PoolFrame
<1>3. /\ t.pool \in Seq(PoolFrame) /\ Len(t.pool) = n + 1 /\ t.pool[n + 1] = frame
      /\ \A i \in 1 .. n : t.pool[i] = pool[i]
      /\ \A i \in 1 .. n + 1 : i \in 1 .. n \/ i = n + 1
      /\ \A i \in 1 .. n : i \in 1 .. n + 1
      /\ n + 1 \in 1 .. n + 1
  <2> HIDE DEF frame
  <2> QED BY <1>2, AppendProperties DEF frame
<1>4. \A i \in 1 .. n : pool[i].page_id # p /\ \E j \in 1 .. Len(tables[o].pool) :
                                                   pool[i] = tables[o].pool[j]
  BY DEF Freed
<1>5. frame.page_id = p /\ frame.is_dirty = dirty /\ frame.data = data
  OBVIOUS
<1> HIDE DEF frame, n
<1>6. Types'
  <2>1. files' \in [Oid -> File]
    BY <1>1, <1>2 DEF Data, Types
  <2>2. file_errors' \in 0 .. MaxFileErrors
    BY DEF Freed
  <2> QED BY <1>0, <2>1, <2>2 DEF Data, Types
<1>7. Memory'
  <2>1. CatalogOK(next_table_oid', tables')
    <3>1. \A q \in DOMAIN tables : tables'[q].name = tables[q].name /\ EntryOK(tables'[q])
      BY DEF Data, Memory, CatalogOK
    <3> QED BY <3>1 DEF Data, Memory, CatalogOK
  <2>2. PoolOK(t)
    <3>1. ASSUME NEW i \in 1 .. n + 1 PROVE Listed(t, t.pool[i].page_id)
      <4>1. CASE i = n + 1
        BY <1>3, <1>5, <4>1
      <4>2. CASE i \in 1 .. n
        <5>1. PICK j \in 1 .. Len(tables[o].pool) : pool[i] = tables[o].pool[j]
          BY <1>4, <4>2
        <5>2. Listed(tables[o], tables[o].pool[j].page_id)
          BY <1>1 DEF PoolOK
        <5>3. t.pool[i] = tables[o].pool[j]
          BY <1>3, <4>2, <5>1
        <5> QED BY <5>2, <5>3
      <4> QED BY <1>3, <4>1, <4>2
    <3>2. \A i, j \in 1 .. Len(t.pool) : t.pool[i].page_id = t.pool[j].page_id => i = j
      <4> SUFFICES ASSUME NEW i \in 1 .. n + 1, NEW j \in 1 .. n + 1,
                          t.pool[i].page_id = t.pool[j].page_id
                   PROVE  i = j
        BY <1>3
      <4>1. CASE i \in 1 .. n /\ j \in 1 .. n
        BY <1>3, <4>1 DEF Freed, n
      <4>2. CASE i = n + 1
        BY <1>3, <1>4, <1>5, <4>2
      <4>3. CASE j = n + 1
        BY <1>3, <1>4, <1>5, <4>3
      <4> QED BY <1>3, <4>1, <4>2, <4>3
    <3>3. Len(t.pool) <= PoolSize
      BY <1>2, <1>3
    <3> QED BY <1>3, <3>1, <3>2, <3>3 DEF PoolOK
  <2> QED BY <2>1, <2>2 DEF Data, Memory
<1>8. Disk'
  <2>1. \A q \in DOMAIN tables :
           /\ q \in DOMAIN tables' /\ tables'[q].name = tables[q].name
           /\ \A k \in PageId : Listed(tables[q], k) => Listed(tables'[q], k)
    BY DEF TableBecomes
  <2> QED BY <2>1, DiskKept DEF Data
<1>9. ASSUME NEW r \in RecordId, promise'[r] # Nothing PROVE Kept(r)'
  <2>1. r.oid \in Oid /\ r.page_id \in PageId /\ (r \notin pending' => r \notin pending)
    BY <1>0 DEF RecordId
  <2>2. CASE r.oid # o
    <3>1. promise'[r] = promise[r]
      BY <1>0, <1>9, <2>2 DEF RecordsOf
    <3>2. Kept(r)
      BY <1>9, <3>1 DEF Data, Promises
    <3>3. files'[r.oid] = files[r.oid]
      BY <2>1, <2>2 DEF Data, Types
    <3>4. OnDisk(r)' <=> OnDisk(r)
      BY <3>1, <3>3 DEF OnDisk, InFile
    <3>5. r.oid \in DOMAIN tables' /\ tables'[r.oid] = tables[r.oid]
      BY <2>2, <3>2 DEF Kept
    <3> QED BY <2>1, <3>1, <3>2, <3>4, <3>5 DEF Kept
  <2>3. CASE r.oid = o /\ r.page_id # p
    <3>1. promise'[r] = promise[r] /\ r.page_id \notin lost
      BY <1>0, <1>9, <2>3 DEF RecordsOf
    <3>2. Kept(r)
      BY <1>9, <3>1 DEF Data, Promises
    <3>3. files'[r.oid] = file
      BY <2>1, <2>3 DEF Data, Types
    <3>4. /\ OnDisk(r) => InFile(file, r)
          /\ DirtyIn(tables[o].pool, r.page_id) => InFile(file, r) \/ DirtyIn(pool, r.page_id)
      BY <1>9, <2>3, <3>1 DEF Freed
    <3>5. InFile(file, r) => OnDisk(r)'
      BY <3>1, <3>3 DEF OnDisk, InFile
    <3>6. DirtyIn(pool, r.page_id) => DirtyIn(t.pool, r.page_id)
      BY <1>3 DEF DirtyIn, n
    <3>7. ASSUME NEW i \in 1 .. Len(t.pool), t.pool[i].page_id = r.page_id
          PROVE  HasRow(t.pool[i].data, r.slot_id, promise[r])
      <4>1. i \in 1 .. n
        BY <1>3, <1>5, <2>3, <3>7
      <4>2. PICK j \in 1 .. Len(tables[o].pool) : pool[i] = tables[o].pool[j]
        BY <1>4, <4>1
      <4>3. t.pool[i] = tables[o].pool[j]
        BY <1>3, <4>1, <4>2
      <4> QED BY <2>3, <3>2, <3>7, <4>3 DEF Kept
    <3>8. Listed(tables'[r.oid], r.page_id)
      BY <2>3, <3>2 DEF Kept
    <3> QED BY <2>1, <2>3, <3>1, <3>2, <3>4, <3>5, <3>6, <3>7, <3>8 DEF Kept
  <2>4. CASE r.oid = o /\ r.page_id = p
    <3>1. r \in RecordsOf(o, p)
      BY <2>4 DEF RecordsOf
    <3>2. files'[r.oid] = file
      BY <2>1, <2>4 DEF Data, Types
    <3>3. ASSUME NEW i \in 1 .. Len(t.pool), t.pool[i].page_id = p
          PROVE  t.pool[i].data = data
      BY <1>3, <1>4, <1>5, <3>3
    <3>4. dirty => DirtyIn(t.pool, p)
      BY <1>3, <1>5 DEF DirtyIn
    <3>5. HasRow(data, r.slot_id, promise'[r])
      BY <1>0, <1>9, <3>1
    <3>6. CASE promise'[r] = promise[r] /\ p \notin lost /\ (InFile(file, r) \/ dirty)
      <4>1. Kept(r)
        BY <1>9, <3>6 DEF Data, Promises
      <4>2. OnDisk(r) => InFile(file, r)
        BY <1>9, <2>4, <3>6 DEF Freed
      <4>3. InFile(file, r) => OnDisk(r)'
        BY <3>2, <3>6 DEF OnDisk, InFile
      <4> QED BY <2>1, <2>4, <3>3, <3>4, <3>5, <3>6, <4>1, <4>2, <4>3 DEF Kept
    <3>7. CASE r \in pending' /\ dirty
      BY <2>4, <3>3, <3>4, <3>5, <3>7 DEF Kept
    <3> QED BY <1>0, <1>9, <2>4, <3>1, <3>6, <3>7
  <2> QED BY <2>2, <2>3, <2>4
<1> QED BY <1>6, <1>7, <1>8, <1>9 DEF Data, Promises

\* No page list has changed.
SameLists ==
    /\ DOMAIN tables' = DOMAIN tables
    /\ \A q \in DOMAIN tables : /\ tables'[q].page_ids = tables[q].page_ids
                                /\ tables'[q].next_page_id = tables[q].next_page_id

\* A page of the list is fetched, its contents become `data`, and it is unpinned.
Accesses(o, p, f, data, is_dirty) ==
    /\ promise' \in [RecordId -> Tuples \cup {Deleted, Nothing}]
    /\ pending' \subseteq RecordId /\ pending \subseteq pending'
    /\ \A r \in RecordId : promise'[r] # Nothing =>
          \/ /\ promise'[r] = promise[r]
             /\ r.oid = o => r.page_id \notin f.lost
             /\ r \in RecordsOf(o, p) /\ HasRow(f.frame.data, r.slot_id, promise[r]) =>
                   HasRow(data, r.slot_id, promise[r])
          \/ /\ r \in pending' /\ r \in RecordsOf(o, p) /\ is_dirty
             /\ HasRow(data, r.slot_id, promise'[r])

LEMMA AccessLemma ==
    ASSUME Data, running, NEW o \in DOMAIN tables, NEW p \in PageId, Listed(tables[o], p),
           NEW opens \in Opens, NEW f, f = FetchPage(o, p, opens),
           NEW data \in Images, NEW is_dirty \in BOOLEAN, UnpinPage(o, f, data, is_dirty),
           file_errors' = file_errors + Cardinality(f.lost),
           UNCHANGED <<running, next_table_oid, catalog_file, created>>,
           Accesses(o, p, f, data, is_dirty)
    PROVE  Data' /\ SameLists
<1>0. PICK dirty \in BOOLEAN : dirty = (f.frame.is_dirty \/ is_dirty)
  BY Zenon
<1> DEFINE frame == [page_id |-> p, is_dirty |-> dirty, data |-> data]
           t == [tables[o] EXCEPT !.pool = Append(f.pool, frame)]
<1>1. /\ Freed(o, p, f.pool, f.file, f.lost)
      /\ f.frame \in PoolFrame /\ f.frame.page_id = p
      /\ \A r \in RecordsOf(o, p) :
            promise[r] # Nothing /\ r.page_id \notin f.lost =>
                /\ HasRow(f.frame.data, r.slot_id, promise[r])
                /\ InFile(f.file, r) \/ f.frame.is_dirty
  BY FetchLemma
<1>2. tables[o] \in Table /\ EntryOK(tables[o])
  BY TableFacts DEF Data
<1>4. frame \in PoolFrame
  BY DEF PoolFrame
<1>5. /\ tables' = [tables EXCEPT ![o] = t]
      /\ files' = [files EXCEPT ![o] = f.file]
  BY <1>0, <1>1 DEF UnpinPage
<1> HIDE DEF frame
<1>6. f.pool \in Seq(PoolFrame)
  BY <1>1 DEF Freed
<1>7. Append(f.pool, frame) \in Seq(PoolFrame)
  BY <1>4, <1>6, AppendProperties
<1>8. /\ t \in Table /\ t.name = tables[o].name /\ t.page_ids = tables[o].page_ids
      /\ t.next_page_id = tables[o].next_page_id /\ t.pool = Append(f.pool, frame)
  BY <1>2, <1>7 DEF Table
<1>9. /\ DOMAIN tables' = DOMAIN tables /\ tables'[o] = t
      /\ \A q \in DOMAIN tables \ {o} : tables'[q] = tables[q]
  BY <1>5
<1> HIDE DEF t
<1>10. EntryOK(t)
  BY <1>2, <1>8 DEF EntryOK
<1>11. \A q : Listed(t, q) <=> Listed(tables[o], q)
  BY <1>8 DEF Listed
<1>12. SameLists
  BY <1>8, <1>9 DEF SameLists
<1>13. ASSUME NEW r \in RecordId, promise'[r] # Nothing
       PROVE  \/ /\ promise'[r] = promise[r]
                 /\ r.oid = o => r.page_id \notin f.lost
                 /\ r \in RecordsOf(o, p) => /\ HasRow(data, r.slot_id, promise[r])
                                             /\ InFile(f.file, r) \/ dirty
              \/ /\ r \in pending' /\ r \in RecordsOf(o, p) /\ dirty
                 /\ HasRow(data, r.slot_id, promise'[r])
  BY <1>0, <1>1, <1>13 DEF RecordsOf, Accesses
<1>14. t.pool = Append(f.pool, [page_id |-> p, is_dirty |-> dirty, data |-> data])
  BY <1>8 DEF frame
<1>15. Installs(o, p, f.file, f.lost, data, dirty)
  BY <1>13 DEF Installs, Accesses
<1>16. Data'
  <2>1. TableBecomes(o, t) /\ Listed(t, p)
    BY <1>8, <1>9, <1>11 DEF TableBecomes
  <2>2. Freed(o, p, f.pool, f.file, f.lost) /\ o \in DOMAIN tables /\ p \in PageId
    BY <1>1
  <2>3. data \in Images /\ dirty \in BOOLEAN /\ t \in Table /\ EntryOK(t)
    BY <1>8, <1>10
  <2>4. files' = [files EXCEPT ![o] = f.file]
    BY <1>5
  <2>5. UNCHANGED <<running, next_table_oid, catalog_file, created>>
    OBVIOUS
  <2>6. file_errors' = file_errors + Cardinality(f.lost)
    OBVIOUS
  <2>7. Data /\ running
    OBVIOUS
  <2>8. \A T \in Table :
           /\ EntryOK(T) /\ Listed(T, p) /\ TableBecomes(o, T)
           /\ T.pool = Append(f.pool, [page_id |-> p, is_dirty |-> dirty, data |-> data])
           => Data'
    BY <2>2, <2>3, <2>4, <2>5, <2>6, <2>7, <1>15, InstallLemma
  <2>9. EntryOK(t) /\ Listed(t, p) /\ TableBecomes(o, t) /\ t \in Table
    BY <1>8, <1>10, <2>1
  <2> QED BY <2>8, <2>9, <1>14, Zenon
<1> QED BY <1>12, <1>16

\* What a statement that returns promises of record rid, and what a lost page
\* takes back of the others.
LEMMA KnownType ==
    ASSUME Types, NEW o, NEW lost
    PROVE  /\ Known(o, lost) \in [RecordId -> Tuples \cup {Deleted, Nothing}]
           /\ \A r \in RecordId : Known(o, lost)[r] # Nothing =>
                 /\ Known(o, lost)[r] = promise[r]
                 /\ r.oid = o => r.page_id \notin lost
  BY DEF Types, Known

LEMMA ForgetLemma ==
    ASSUME Data, running, NEW o \in DOMAIN tables, NEW p \in PageId, Listed(tables[o], p),
           NEW opens \in Opens, NEW f, f = FetchPage(o, p, opens),
           NEW data \in Images, Rows(data) = Rows(f.frame.data),
           NEW is_dirty \in BOOLEAN, UnpinPage(o, f, data, is_dirty),
           Forget(o, f.lost), UNCHANGED <<running, next_table_oid, catalog_file>>
    PROVE  Data' /\ SameLists
<1>1. /\ promise' = Known(o, f.lost)
      /\ file_errors' = file_errors + Cardinality(f.lost)
      /\ UNCHANGED <<created, pending>>
  BY DEF Forget
<1>2. /\ promise' \in [RecordId -> Tuples \cup {Deleted, Nothing}]
      /\ \A r \in RecordId : promise'[r] # Nothing =>
            promise'[r] = promise[r] /\ (r.oid = o => r.page_id \notin f.lost)
  BY <1>1, KnownType DEF Data
<1>3. pending' \subseteq RecordId /\ pending \subseteq pending'
  BY <1>1 DEF Data, Types
<1>4. \A s, row : HasRow(f.frame.data, s, row) => HasRow(data, s, row)
  BY DEF HasRow
<1>5. Accesses(o, p, f, data, is_dirty)
  BY <1>2, <1>3, <1>4 DEF Accesses
<1> QED BY <1>1, <1>5, AccessLemma

LEMMA AcknowledgeLemma ==
    ASSUME Data, running, NEW o \in DOMAIN tables, NEW p \in PageId, Listed(tables[o], p),
           NEW opens \in Opens, NEW f, f = FetchPage(o, p, opens),
           NEW rid \in RecordsOf(o, p), NEW row \in Tuples \cup {Deleted},
           NEW data \in Images, HasRow(data, rid.slot_id, row),
           \A r \in RecordsOf(o, p) \ {rid} : \A d :
               HasRow(f.frame.data, r.slot_id, d) => HasRow(data, r.slot_id, d),
           UnpinPage(o, f, data, TRUE),
           Acknowledge(rid, row, f.lost), UNCHANGED <<running, next_table_oid, catalog_file>>
    PROVE  Data' /\ SameLists
<1>1. rid \in RecordId /\ rid.oid = o
  BY DEF RecordsOf
<1>2. /\ promise' = [Known(o, f.lost) EXCEPT ![rid] = row]
      /\ file_errors' = file_errors + Cardinality(f.lost)
      /\ pending' = pending \cup {rid} /\ UNCHANGED created
  BY <1>1 DEF Acknowledge
<1>3. /\ Known(o, f.lost) \in [RecordId -> Tuples \cup {Deleted, Nothing}]
      /\ \A r \in RecordId : Known(o, f.lost)[r] # Nothing =>
            /\ Known(o, f.lost)[r] = promise[r]
            /\ r.oid = o => r.page_id \notin f.lost
  BY KnownType DEF Data
<1>4. /\ promise' \in [RecordId -> Tuples \cup {Deleted, Nothing}]
      /\ promise'[rid] = row
      /\ \A r \in RecordId \ {rid} : promise'[r] = Known(o, f.lost)[r]
  BY <1>1, <1>2, <1>3
<1>5. /\ pending' \subseteq RecordId /\ pending \subseteq pending' /\ rid \in pending'
  BY <1>1, <1>2 DEF Data, Types
<1>6. ASSUME NEW r \in RecordId, promise'[r] # Nothing
      PROVE  \/ /\ promise'[r] = promise[r]
                /\ r.oid = o => r.page_id \notin f.lost
                /\ r \in RecordsOf(o, p) /\ HasRow(f.frame.data, r.slot_id, promise[r]) =>
                      HasRow(data, r.slot_id, promise[r])
             \/ /\ r \in pending' /\ r \in RecordsOf(o, p) /\ TRUE
                /\ HasRow(data, r.slot_id, promise'[r])
  <2>1. CASE r = rid
    BY <1>4, <1>5, <2>1
  <2>2. CASE r # rid
    BY <1>3, <1>4, <1>6, <2>2
  <2> QED BY <2>1, <2>2
<1>7. Accesses(o, p, f, data, TRUE) /\ TRUE \in BOOLEAN
  BY <1>4, <1>5, <1>6 DEF Accesses
<1> QED BY <1>2, <1>7, AccessLemma

-------------------------------------------------------------------------------
(* Every action keeps the invariant.                                          *)

LEMMA KindOf ==
    ASSUME StmtOK
    PROVE  /\ stmt.kind = "INSERT" => InsertOK /\ running
           /\ stmt.kind \in {"SELECT", "DELETE"} => ScanOK /\ running
           /\ stmt.kind = "COMMIT" => CommitOK /\ running
           /\ stmt.kind = "CREATE" => CreateOK /\ running
<1>1. CASE stmt = Idle
  BY <1>1 DEF Idle
<1>2. CASE stmt # Idle /\ CreateOK
  BY <1>2 DEF StmtOK, CreateOK
<1>3. CASE stmt # Idle /\ InsertOK
  BY <1>3 DEF StmtOK, InsertOK
<1>4. CASE stmt # Idle /\ ScanOK
  BY <1>4 DEF StmtOK, ScanOK
<1>5. CASE stmt # Idle /\ CommitOK
  BY <1>5 DEF StmtOK, CommitOK
<1> QED BY <1>1, <1>2, <1>3, <1>4, <1>5 DEF StmtOK

LEMMA ListedPage ==
    ASSUME Data, NEW o \in DOMAIN tables, NEW i \in Nat \ {0}, i <= Len(tables[o].page_ids)
    PROVE  tables[o].page_ids[i] \in PageId /\ Listed(tables[o], tables[o].page_ids[i])
<1>1. tables[o].page_ids \in Seq(PageId) /\ Len(tables[o].page_ids) \in Nat
  BY TableFacts DEF Data, EntryOK
<1>2. i \in 1 .. Len(tables[o].page_ids)
  BY <1>1
<1> QED BY <1>1, <1>2 DEF Listed

LEMMA InsertInPageOK ==
    ASSUME IInv, InsertInPage
    PROVE  IInv'
<1>1. InsertOK /\ running /\ Data
  BY KindOf DEF IInv, InsertInPage
<1> DEFINE o == stmt.oid
           p == tables[o].page_ids[stmt.i]
           d == stmt.tuple
<1>2. /\ o \in DOMAIN tables /\ stmt.i \in Nat \ {0} /\ d \in Tuples
      /\ stmt.phase \in {"probe", "compact"}
  BY <1>1 DEF InsertOK
<1>3. p \in PageId /\ Listed(tables[o], p)
  BY <1>1, <1>2, ListedPage DEF InsertInPage
<1>4. PICK opens \in Opens :
         LET f == FetchPage(o, p, opens)
             page == IF stmt.phase = "probe" THEN f.frame.data ELSE Compact(f.frame.data)
         IN  /\ f.frame.data # Zero
             /\ IF Fits(page, d)
                THEN /\ UnpinPage(o, f, InsertRow(page, d), TRUE)
                     /\ stmt' = Idle
                     /\ Acknowledge([oid |-> o, page_id |-> p,
                                     slot_id |-> NewSlotId(page)], d, f.lost)
                ELSE /\ UnpinPage(o, f, page, stmt.phase = "compact")
                     /\ stmt' = [stmt EXCEPT !.i = @ + 1]
                     /\ Forget(o, f.lost)
  BY DEF InsertInPage
<1> DEFINE f == FetchPage(o, p, opens)
           page == IF stmt.phase = "probe" THEN f.frame.data ELSE Compact(f.frame.data)
           rid == [oid |-> o, page_id |-> p, slot_id |-> NewSlotId(page)]
<1>5. UNCHANGED <<running, next_table_oid, catalog_file>>
  BY DEF InsertInPage
<1>6. f.frame.data \in Images /\ f.frame.data # Zero
  <2>1. f.frame \in PoolFrame
    BY <1>1, <1>2, <1>3, FetchLemma
  <2> QED BY <1>4, <2>1 DEF PoolFrame
<1>7. PageOK(f.frame.data) /\ Rows(f.frame.data) = f.frame.data.rows
  BY <1>6, ImageFacts
<1>8. PageOK(page) /\ page.rows = Rows(f.frame.data)
  BY <1>7, CompactOK
<1>9. page \in Images /\ Rows(page) = Rows(f.frame.data)
  BY <1>8, PageIsImage
<1>10. CASE Fits(page, d)
  <2>0. /\ UnpinPage(o, f, InsertRow(page, d), TRUE) /\ stmt' = Idle
        /\ Acknowledge(rid, d, f.lost)
    BY <1>4, <1>10
  <2> HIDE DEF page, f, o, p, d
  <2>1. /\ PageOK(InsertRow(page, d)) /\ InsertRow(page, d).rows = Append(page.rows, d)
        /\ Len(page.rows) < Capacity
    BY <1>2, <1>8, <1>10, InsertRowOK
  <2>3. page.rows \in Seq(Row) /\ d \in Row /\ Len(page.rows) \in Nat
    BY <1>2, <1>8 DEF PageOK, Row
  <2>4. rid \in RecordsOf(o, p) /\ rid.slot_id = Len(page.rows)
    <3>1. o \in Oid
      BY <1>1, <1>2, TableFacts DEF Data
    <3>2. Len(page.rows) \in 0 .. Capacity
      BY <2>1, <2>3, RowAssumption
    <3> QED BY <1>3, <3>1, <3>2 DEF RecordsOf, RecordId, NewSlotId
  <2> DEFINE data == InsertRow(page, d)
  <2>5. data \in Images /\ Rows(data) = Append(page.rows, d)
    BY <2>1, PageIsImage
  <2>6. HasRow(data, rid.slot_id, d)
    <3> HIDE DEF data, rid
    <3> QED BY <2>3, <2>4, <2>5, AppendProperties DEF HasRow
  <2>7. ASSUME NEW r \in RecordsOf(o, p) \ {rid}, NEW row, HasRow(f.frame.data, r.slot_id, row)
        PROVE  HasRow(data, r.slot_id, row)
    <3>1. r.slot_id \in Nat
      BY DEF RecordsOf, RecordId
    <3>2. /\ Len(Append(page.rows, d)) = Len(page.rows) + 1
          /\ \A i \in 1 .. Len(page.rows) : Append(page.rows, d)[i] = page.rows[i]
      BY <2>3, AppendProperties
    <3>3. r.slot_id < Len(page.rows) /\ page.rows[r.slot_id + 1] = row
      BY <1>8, <2>7 DEF HasRow
    <3>4. r.slot_id + 1 \in 1 .. Len(page.rows) /\ r.slot_id < Len(page.rows) + 1
      BY <2>3, <3>1, <3>3
    <3> HIDE DEF data, rid
    <3> QED BY <2>5, <3>2, <3>3, <3>4 DEF HasRow
  <2> HIDE DEF data, rid
  <2>8. Data'
    BY <1>1, <1>2, <1>3, <1>5, <2>0, <2>4, <2>5, <2>6, <2>7, AcknowledgeLemma DEF f, data
  <2> QED BY <2>0, <2>8 DEF IInv, StmtOK
<1>11. CASE ~Fits(page, d)
  <2>1. /\ UnpinPage(o, f, page, stmt.phase = "compact") /\ Forget(o, f.lost)
        /\ stmt' = [stmt EXCEPT !.i = @ + 1]
    BY <1>4, <1>11
  <2>2. PICK compacted \in BOOLEAN : compacted = (stmt.phase = "compact")
    BY Zenon
  <2>3. Data' /\ SameLists
    <3> HIDE DEF p, o, page, f
    <3> QED BY <1>1, <1>2, <1>3, <1>5, <1>9, <2>1, <2>2, ForgetLemma DEF f
  <2>4. InsertOK'
    BY <1>1, <2>1, <2>3 DEF InsertOK, SameLists
  <2> QED BY <1>1, <1>5, <2>3, <2>4 DEF IInv, StmtOK
<1> QED BY <1>10, <1>11

\* A scan goes on with the records `rids` and the page index i.
LEMMA ScanGoesOn ==
    ASSUME Data, ScanOK, SameLists, NEW rids \in Seq(RecordId), NEW i \in Nat \ {0},
           \A k \in 1 .. Len(rids) : /\ rids[k].oid = stmt.oid
                                     /\ Listed(tables[stmt.oid], rids[k].page_id),
           stmt' = [stmt EXCEPT !.i = i, !.rids = rids]
    PROVE  ScanOK'
<1>1. /\ stmt' \in [kind : {"SELECT", "DELETE"}, oid : Oid, match : SUBSET Tuples,
                    i : Nat \ {0}, rids : Seq(RecordId)]
      /\ stmt'.oid = stmt.oid /\ stmt'.rids = rids
  BY DEF ScanOK
<1>2. /\ stmt.oid \in DOMAIN tables /\ stmt.oid \in DOMAIN tables'
      /\ tables'[stmt.oid].page_ids = tables[stmt.oid].page_ids
  BY DEF ScanOK, SameLists
<1>3. \A q : Listed(tables[stmt.oid], q) => Listed(tables'[stmt.oid], q)
  BY <1>2 DEF Listed
<1> QED BY <1>1, <1>2, <1>3 DEF ScanOK

LEMMA ScanStepOK ==
    ASSUME IInv, Scan
    PROVE  IInv'
<1>1. ScanOK /\ running /\ Data
  BY KindOf DEF IInv, Scan
<1> DEFINE o == stmt.oid
           p == tables[o].page_ids[stmt.i]
<1>2. /\ o \in DOMAIN tables /\ stmt.i \in Nat \ {0} /\ stmt.rids \in Seq(RecordId)
      /\ \A k \in 1 .. Len(stmt.rids) : /\ stmt.rids[k].oid = o
                                        /\ Listed(tables[o], stmt.rids[k].page_id)
  BY <1>1 DEF ScanOK
<1>3. p \in PageId /\ Listed(tables[o], p) /\ o \in Oid
  BY <1>1, <1>2, ListedPage, TableFacts DEF Scan, Data
<1>4. PICK opens \in Opens :
         LET f == FetchPage(o, p, opens)
         IN  /\ UnpinPage(o, f, f.frame.data, FALSE)
             /\ stmt' = [stmt EXCEPT !.i = @ + 1,
                            !.rids = @ \o Matching(o, p, Rows(f.frame.data), stmt.match)]
             /\ Forget(o, f.lost)
  BY DEF Scan
<1> DEFINE f == FetchPage(o, p, opens)
           found == Matching(o, p, Rows(f.frame.data), stmt.match)
           rids == stmt.rids \o found
<1>5. /\ UnpinPage(o, f, f.frame.data, FALSE) /\ Forget(o, f.lost)
      /\ stmt' = [stmt EXCEPT !.i = stmt.i + 1, !.rids = rids]
      /\ UNCHANGED <<running, next_table_oid, catalog_file>>
  BY <1>4 DEF Scan
<1>6. f.frame.data \in Images
  <2>1. f.frame \in PoolFrame
    BY <1>1, <1>2, <1>3, FetchLemma
  <2> QED BY <2>1 DEF PoolFrame
<1>7. found \in Seq(RecordsOf(o, p))
  <2>1. Rows(f.frame.data) \in Seq(Row) /\ Len(Rows(f.frame.data)) <= Capacity
    BY <1>6, ImageFacts, RowAssumption
  <2> HIDE DEF o, p, f
  <2> QED BY <1>3, <2>1, MatchingType
<1>8. Data' /\ SameLists
  <2> HIDE DEF o, p, f, rids
  <2> QED BY <1>1, <1>2, <1>3, <1>5, <1>6, ForgetLemma DEF f
<1> HIDE DEF found, p, f
<1>9. rids \in Seq(RecordId) /\ Len(rids) = Len(stmt.rids) + Len(found)
  <2>1. found \in Seq(RecordId)
    BY <1>7 DEF RecordsOf
  <2> QED BY <1>2, <2>1, ConcatProperties
<1>10. ASSUME NEW k \in 1 .. Len(rids)
       PROVE  rids[k].oid = o /\ Listed(tables[o], rids[k].page_id)
  <2>1. Len(stmt.rids) \in Nat /\ Len(found) \in Nat
    BY <1>2, <1>7
  <2>2. CASE k <= Len(stmt.rids)
    <3>1. k \in 1 .. Len(stmt.rids) /\ rids[k] = stmt.rids[k]
      BY <1>2, <1>7, <2>1, <2>2, <1>9, ConcatProperties
    <3> QED BY <1>2, <3>1
  <2>3. CASE k > Len(stmt.rids)
    <3>1. k - Len(stmt.rids) \in 1 .. Len(found) /\ rids[k] = found[k - Len(stmt.rids)]
      BY <1>2, <1>7, <2>1, <2>3, <1>9, ConcatProperties
    <3>2. rids[k] \in RecordsOf(o, p)
      BY <1>7, <3>1
    <3> QED BY <1>3, <3>2 DEF RecordsOf
  <2> QED BY <2>1, <2>2, <2>3
<1>11. stmt.i + 1 \in Nat \ {0}
  BY <1>2
<1> HIDE DEF rids
<1>12. ScanOK'
  BY <1>1, <1>5, <1>8, <1>9, <1>10, <1>11, ScanGoesOn
<1> QED BY <1>1, <1>5, <1>8, <1>12 DEF IInv, StmtOK

LEMMA DeleteRowOK ==
    ASSUME IInv, DeleteRow
    PROVE  IInv'
<1>1. ScanOK /\ running /\ Data
  BY KindOf DEF IInv, DeleteRow, Scanned
<1> DEFINE o == stmt.oid
           rid == Head(stmt.rids)
           p == rid.page_id
<1>2. /\ o \in DOMAIN tables /\ stmt.rids \in Seq(RecordId) /\ stmt.rids # <<>>
      /\ stmt.i \in Nat \ {0}
      /\ \A k \in 1 .. Len(stmt.rids) : /\ stmt.rids[k].oid = o
                                        /\ Listed(tables[o], stmt.rids[k].page_id)
  BY <1>1 DEF ScanOK, DeleteRow
<1>3. rid \in RecordId /\ rid.oid = o /\ Listed(tables[o], p)
  <2>1. rid = stmt.rids[1] /\ 1 \in 1 .. Len(stmt.rids)
    BY <1>2, HeadTailProperties, EmptySeq
  <2> QED BY <1>2, <2>1
<1>4. p \in PageId /\ rid.slot_id \in Nat
  BY <1>3 DEF RecordId
<1>5. PICK opens \in Opens :
         LET f == FetchPage(o, p, opens)
         IN  IF rid.slot_id < Len(Rows(f.frame.data))
             THEN /\ UnpinPage(o, f, SetRow(f.frame.data, rid.slot_id + 1, Deleted), TRUE)
                  /\ Acknowledge(rid, Deleted, f.lost)
             ELSE /\ UnpinPage(o, f, f.frame.data, FALSE)
                  /\ Forget(o, f.lost)
  BY DEF DeleteRow
<1> DEFINE f == FetchPage(o, p, opens)
           rows == Rows(f.frame.data)
           s == rid.slot_id + 1
<1>6. /\ stmt' = [stmt EXCEPT !.rids = Tail(@)]
      /\ UNCHANGED <<running, next_table_oid, catalog_file>>
  BY DEF DeleteRow
<1>7. f.frame.data \in Images
  <2>1. f.frame \in PoolFrame
    BY <1>1, <1>2, <1>4, FetchLemma
  <2> QED BY <2>1 DEF PoolFrame
<1>8. rows \in Seq(Row) /\ Len(rows) \in Nat
  BY <1>7, ImageFacts
<1>9. rid \in RecordsOf(o, p)
  BY <1>3 DEF RecordsOf
<1>10. ASSUME rid.slot_id < Len(rows) PROVE Data' /\ SameLists
  <2> DEFINE data == SetRow(f.frame.data, s, Deleted)
  <2>0. UnpinPage(o, f, data, TRUE) /\ Acknowledge(rid, Deleted, f.lost)
    BY <1>5, <1>10
  <2> HIDE DEF o, rid, f
  <2>1. f.frame.data # Zero
    BY <1>4, <1>10 DEF Rows
  <2>2. PageOK(f.frame.data) /\ rows = f.frame.data.rows
    BY <1>7, <2>1, ImageFacts
  <2> HIDE DEF rows
  <2>3. s \in 1 .. Len(rows) /\ Deleted \in Row
    BY <1>4, <1>8, <1>10 DEF Row
  <2>4. LiveSize(Deleted) <= LiveSize(rows[s])
    <3>1. rows[s] \in Row
      BY <1>8, <2>3
    <3>2. LiveSize(rows[s]) \in Nat /\ LiveSize(Deleted) = 0
      BY <3>1, RowAssumption DEF LiveSize, Row
    <3> QED BY <3>2
  <2>5. PageOK(data) /\ data.rows = [rows EXCEPT ![s] = Deleted]
    BY <2>2, <2>3, <2>4, SetRowOK
  <2>6. data \in Images /\ Rows(data) = [rows EXCEPT ![s] = Deleted]
    BY <2>5, PageIsImage
  <2>7. Len(Rows(data)) = Len(rows) /\ \A i \in 1 .. Len(rows) :
                                          Rows(data)[i] = IF i = s THEN Deleted ELSE rows[i]
    BY <1>8, <2>3, <2>6
  <2> HIDE DEF data
  <2>8. HasRow(data, rid.slot_id, Deleted)
    BY <1>10, <2>3, <2>7 DEF HasRow
  <2>9. ASSUME NEW r \in RecordsOf(o, p) \ {rid}, NEW row, HasRow(f.frame.data, r.slot_id, row)
        PROVE  HasRow(data, r.slot_id, row)
    <3>1. r.slot_id \in Nat /\ r.slot_id # rid.slot_id
      BY <1>9 DEF RecordsOf, RecordId
    <3>2. r.slot_id < Len(rows) /\ rows[r.slot_id + 1] = row
      BY <2>9 DEF HasRow, rows
    <3>3. r.slot_id + 1 \in 1 .. Len(rows) /\ r.slot_id + 1 # s
      BY <1>4, <1>8, <3>1, <3>2
    <3> QED BY <2>7, <3>2, <3>3 DEF HasRow
  <2> HIDE DEF p
  <2> QED BY <1>1, <1>2, <1>3, <1>4, <1>6, <1>9, <2>0, <2>6, <2>8, <2>9, AcknowledgeLemma DEF f
<1>11. ASSUME ~(rid.slot_id < Len(rows)) PROVE Data' /\ SameLists
  <2>1. UnpinPage(o, f, f.frame.data, FALSE) /\ Forget(o, f.lost)
    BY <1>5, <1>11
  <2> HIDE DEF o, rid, p, f
  <2> QED BY <1>1, <1>2, <1>3, <1>4, <1>6, <1>7, <2>1, ForgetLemma DEF f
<1>12. Data' /\ SameLists
  BY <1>10, <1>11
<1>13. ScanOK'
  <2> DEFINE rest == Tail(stmt.rids)
  <2>1. /\ rest \in Seq(RecordId) /\ Len(rest) = Len(stmt.rids) - 1
        /\ \A k \in 1 .. Len(rest) : rest[k] = stmt.rids[k + 1]
        /\ Len(stmt.rids) \in Nat
    BY <1>2, HeadTailProperties
  <2>2. stmt' = [stmt EXCEPT !.i = stmt.i, !.rids = rest]
    BY <1>1, <1>6 DEF ScanOK
  <2> HIDE DEF rest
  <2>3. \A k \in 1 .. Len(rest) : rest[k].oid = o /\ Listed(tables[o], rest[k].page_id)
    BY <1>2, <2>1
  <2> QED BY <1>1, <1>2, <1>12, <2>1, <2>2, <2>3, ScanGoesOn
<1> QED BY <1>1, <1>6, <1>12, <1>13 DEF IInv, StmtOK

LEMMA InsertNewPageOK ==
    ASSUME IInv, InsertNewPage
    PROVE  IInv'
<1>1. InsertOK /\ running /\ Data
  BY KindOf DEF IInv, InsertNewPage
<1> DEFINE o == stmt.oid
           p == tables[o].next_page_id
           d == stmt.tuple
           rid == [oid |-> o, page_id |-> p, slot_id |-> 0]
           data == InsertRow(EmptyPage, d)
           frame == [page_id |-> p, is_dirty |-> TRUE, data |-> data]
<1>2. o \in DOMAIN tables /\ d \in Tuples /\ p < MaxPages
  BY <1>1 DEF InsertOK
<1>3. /\ o \in Oid /\ tables[o] \in Table /\ EntryOK(tables[o]) /\ PoolOK(tables[o])
      /\ p \in PageId /\ p \in Nat /\ p + 1 \in 0 .. MaxPages
  <2>1. o \in Oid /\ tables[o] \in Table /\ EntryOK(tables[o]) /\ PoolOK(tables[o])
    BY <1>1, <1>2, TableFacts DEF Data
  <2>2. p \in 0 .. MaxPages /\ MaxPages \in Nat
    BY <2>1, DatabaseAssumption DEF EntryOK
  <2> QED BY <1>2, <2>1, <2>2 DEF PageId
<1>4. PICK opens \in Opens :
         LET free == FreeFrame(o, opens)
         IN  /\ tables' = [tables EXCEPT ![o] =
                    [@ EXCEPT !.next_page_id = p + 1,
                              !.page_ids = Append(tables[o].page_ids, p),
                              !.pool = Append(free.pool, frame)]]
             /\ files' = [files EXCEPT ![o] = free.file]
             /\ Acknowledge(rid, d, free.lost)
  BY DEF InsertNewPage
<1> DEFINE free == FreeFrame(o, opens)
           ids == Append(tables[o].page_ids, p)
           pool == Append(free.pool, frame)
           t == [tables[o] EXCEPT !.next_page_id = p + 1, !.page_ids = ids, !.pool = pool]
<1>5. /\ tables' = [tables EXCEPT ![o] = t]
      /\ files' = [files EXCEPT ![o] = free.file]
      /\ promise' = [Known(o, free.lost) EXCEPT ![rid] = d]
      /\ file_errors' = file_errors + Cardinality(free.lost)
      /\ pending' = pending \cup {rid}
      /\ UNCHANGED <<running, next_table_oid, catalog_file, created>>
      /\ stmt' = Idle
  <2>1. tables' = [tables EXCEPT ![o] = t]
    BY <1>4, <1>2, <1>3 DEF Table
  <2>2. rid.oid = o
    OBVIOUS
  <2> HIDE DEF rid
  <2>3. /\ files' = [files EXCEPT ![o] = free.file]
        /\ Acknowledge(rid, d, free.lost)
    BY <1>4
  <2>4. stmt' = Idle /\ UNCHANGED <<running, next_table_oid, catalog_file>>
    BY DEF InsertNewPage
  <2> HIDE DEF free, t
  <2> QED BY <2>1, <2>2, <2>3, <2>4 DEF Acknowledge
<1>6. ~Listed(tables[o], p)
  BY <1>3 DEF EntryOK, Listed
<1>7. Hits(o, p) = {}
  BY <1>3, <1>6 DEF Hits, PoolOK
<1>8. Freed(o, p, free.pool, free.file, free.lost)
  BY <1>1, <1>2, <1>3, <1>7, FreeFrameLemma
<1>9. data \in Images /\ Rows(data) = <<d>> /\ d \in Row
  <2>1. Fits(EmptyPage, d)
    BY <1>2, DatabaseAssumption DEF Fits, EmptyPage
  <2>2. PageOK(data) /\ data.rows = Append(<<>>, d)
    BY <1>2, <2>1, EmptyPageOK, InsertRowOK DEF EmptyPage
  <2>3. data \in Images /\ Rows(data) = data.rows
    BY <2>2, PageIsImage
  <2> QED BY <1>2, <2>2, <2>3 DEF Row
<1>10. HasRow(data, 0, d)
  BY <1>9 DEF HasRow
<1> HIDE DEF data
<1>11. frame \in PoolFrame
  BY <1>3, <1>9 DEF PoolFrame
<1>12. /\ pool \in Seq(PoolFrame) /\ ids \in Seq(PageId)
       /\ Len(ids) = Len(tables[o].page_ids) + 1 /\ ids[Len(ids)] = p
       /\ Len(tables[o].page_ids) \in Nat
       /\ \A i \in 1 .. Len(tables[o].page_ids) : ids[i] = tables[o].page_ids[i]
  <2>1. free.pool \in Seq(PoolFrame) /\ tables[o].page_ids \in Seq(PageId)
    BY <1>3, <1>8 DEF Freed, EntryOK
  <2> HIDE DEF frame, free, p
  <2> QED BY <1>3, <1>11, <2>1, AppendProperties
<1> HIDE DEF free, frame
<1>13. /\ t \in Table /\ t.name = tables[o].name /\ t.page_ids = ids
       /\ t.next_page_id = p + 1 /\ t.pool = pool
  <2> HIDE DEF pool, ids, p
  <2> QED BY <1>3, <1>12 DEF Table
<1> HIDE DEF ids, pool, t
<1>14. EntryOK(t)
  <2>1. \A i \in 1 .. Len(ids) : i \in 1 .. Len(tables[o].page_ids) \/ i = Len(ids)
    BY <1>12
  <2>2. \A i \in 1 .. Len(tables[o].page_ids) : tables[o].page_ids[i] < p
    BY <1>3 DEF EntryOK
  <2>3. \A i \in 1 .. Len(ids) : ids[i] < p + 1
    <3> SUFFICES ASSUME NEW i \in 1 .. Len(ids) PROVE ids[i] < p + 1
      OBVIOUS
    <3>1. ids[i] \in PageId
      BY <1>12
    <3>2. ids[i] < p \/ ids[i] = p
      BY <1>12, <2>1, <2>2
    <3> QED BY <1>3, <3>1, <3>2 DEF PageId
  <2>4. \A i, j \in 1 .. Len(ids) : ids[i] = ids[j] => i = j
    <3> SUFFICES ASSUME NEW i \in 1 .. Len(ids), NEW j \in 1 .. Len(ids), ids[i] = ids[j]
                 PROVE  i = j
      OBVIOUS
    <3>1. CASE i \in 1 .. Len(tables[o].page_ids) /\ j \in 1 .. Len(tables[o].page_ids)
      BY <1>3, <1>12, <3>1 DEF EntryOK
    <3>2. CASE i = Len(ids) /\ j \in 1 .. Len(tables[o].page_ids)
      BY <1>6, <1>12, <3>2 DEF Listed
    <3>3. CASE j = Len(ids) /\ i \in 1 .. Len(tables[o].page_ids)
      BY <1>6, <1>12, <3>3 DEF Listed
    <3> QED BY <2>1, <3>1, <3>2, <3>3
  <2>5. t.name \in Names
    BY <1>3, <1>13 DEF EntryOK
  <2> QED BY <1>3, <1>12, <1>13, <2>3, <2>4, <2>5 DEF EntryOK
<1>15. Listed(t, p) /\ \A q : Listed(tables[o], q) => Listed(t, q)
  <2>1. Len(ids) \in 1 .. Len(ids)
        /\ \A i \in 1 .. Len(tables[o].page_ids) : i \in 1 .. Len(ids)
    BY <1>12
  <2> QED BY <1>12, <1>13, <2>1 DEF Listed
<1>16. TableBecomes(o, t)
  BY <1>5, <1>2, <1>13, <1>15 DEF TableBecomes
<1>17. rid \in RecordsOf(o, p) /\ rid \in RecordId
  <2>1. 0 \in 0 .. Capacity
    BY RowAssumption
  <2> QED BY <1>3, <2>1 DEF RecordsOf, RecordId
<1> HIDE DEF rid
<1>18. Installs(o, p, free.file, free.lost, data, TRUE)
  <2>1. /\ Known(o, free.lost) \in [RecordId -> Tuples \cup {Deleted, Nothing}]
        /\ \A r \in RecordId : Known(o, free.lost)[r] # Nothing =>
              /\ Known(o, free.lost)[r] = promise[r]
              /\ r.oid = o => r.page_id \notin free.lost
    BY <1>1, KnownType DEF Data
  <2>2. /\ promise' \in [RecordId -> Tuples \cup {Deleted, Nothing}]
        /\ promise'[rid] = d
        /\ \A r \in RecordId \ {rid} : promise'[r] = Known(o, free.lost)[r]
    BY <1>2, <1>5, <1>17, <2>1
  <2>3. pending' \subseteq RecordId /\ pending \subseteq pending' /\ rid \in pending'
    BY <1>1, <1>5, <1>17 DEF Data, Types
  <2>4. \A r \in RecordsOf(o, p) : promise[r] = Nothing
    BY <1>1, <1>6 DEF Data, Promises, Kept, RecordsOf
  <2>5. HasRow(data, rid.slot_id, d)
    BY <1>10 DEF rid
  <2>6. ASSUME NEW r \in RecordId, promise'[r] # Nothing
        PROVE  \/ /\ promise'[r] = promise[r]
                  /\ r.oid = o => r.page_id \notin free.lost
                  /\ r \in RecordsOf(o, p) => /\ HasRow(data, r.slot_id, promise[r])
                                              /\ InFile(free.file, r) \/ TRUE
               \/ /\ r \in pending' /\ r \in RecordsOf(o, p) /\ TRUE
                  /\ HasRow(data, r.slot_id, promise'[r])
    <3>1. CASE r = rid
      BY <1>17, <2>2, <2>3, <2>5, <3>1
    <3>2. CASE r # rid
      BY <2>1, <2>2, <2>4, <2>6, <3>2
    <3> QED BY <3>1, <3>2
  <2> QED BY <2>2, <2>3, <2>6 DEF Installs
<1>19. t.pool = Append(free.pool, [page_id |-> p, is_dirty |-> TRUE, data |-> data])
  BY <1>13 DEF pool, frame
<1> HIDE DEF p, o, d
<1>20. \A T \in Table :
          /\ EntryOK(T) /\ Listed(T, p) /\ TableBecomes(o, T)
          /\ T.pool = Append(free.pool, [page_id |-> p, is_dirty |-> TRUE, data |-> data])
          => Data'
  BY <1>1, <1>2, <1>3, <1>5, <1>8, <1>9, <1>18, InstallLemma
<1>21. t \in Table /\ EntryOK(t) /\ Listed(t, p) /\ TableBecomes(o, t)
  BY <1>13, <1>14, <1>15, <1>16
<1>22. Data'
  BY <1>19, <1>20, <1>21, Zenon
<1> QED BY <1>5, <1>22 DEF IInv, StmtOK

LEMMA CommitFlushOK ==
    ASSUME IInv, CommitFlush
    PROVE  IInv'
<1>1. CommitOK /\ running /\ Data
  BY KindOf DEF IInv, CommitFlush
<1> DEFINE o == stmt.oid
           pool == tables[o].pool
<1>2. o \in DOMAIN tables
  BY <1>1 DEF CommitOK, CommitFlush
<1>3. /\ o \in Oid /\ tables[o] \in Table /\ PoolOK(tables[o]) /\ EntryOK(tables[o])
      /\ pool \in Seq(PoolFrame) /\ Len(pool) \in Nat
      /\ \A j \in 1 .. Len(pool) : pool[j] \in PoolFrame
  BY <1>1, <1>2, TableFacts DEF Data, PoolOK
<1>4. PICK i \in 1 .. Len(pool), opens \in Opens : pool[i].is_dirty /\ FlushPage(o, i, opens)
  BY DEF CommitFlush
<1> DEFINE p == pool[i].page_id
           back == WriteBack(o, pool[i], opens)
           frame == [pool[i] EXCEPT !.is_dirty = FALSE]
           flushed == [pool EXCEPT ![i] = frame]
           t == [tables[o] EXCEPT !.pool = flushed]
<1>5. /\ files' = [files EXCEPT ![o] = back.file]
      /\ promise' = Known(o, back.lost)
      /\ file_errors' = file_errors + Cardinality(back.lost)
      /\ UNCHANGED <<running, next_table_oid, catalog_file, created, pending, stmt>>
  BY <1>4 DEF FlushPage, Forget, CommitFlush
<1>6. pool[i] \in PoolFrame /\ p \in PageId
  BY <1>3 DEF PoolFrame
<1>7. /\ frame \in PoolFrame /\ frame.page_id = p /\ frame.data = pool[i].data
      /\ frame.is_dirty = FALSE
  BY <1>6 DEF PoolFrame
<1>8. tables' = [tables EXCEPT ![o] = t]
  <2>1. tables' = [tables EXCEPT ![o].pool[i].is_dirty = FALSE]
    BY <1>4 DEF FlushPage
  <2> QED BY <2>1
<1> HIDE DEF frame
<1>9. /\ flushed \in Seq(PoolFrame) /\ Len(flushed) = Len(pool)
      /\ \A j \in 1 .. Len(pool) : flushed[j] = IF j = i THEN frame ELSE pool[j]
  BY <1>3, <1>7
<1> HIDE DEF flushed
<1>10. /\ t \in Table /\ t.name = tables[o].name /\ t.page_ids = tables[o].page_ids
       /\ t.next_page_id = tables[o].next_page_id /\ t.pool = flushed
  BY <1>3, <1>9 DEF Table
<1> HIDE DEF t
<1>11. /\ DOMAIN tables' = DOMAIN tables /\ tables'[o] = t
       /\ \A q \in DOMAIN tables \ {o} : tables'[q] = tables[q]
  BY <1>2, <1>8
<1>12. /\ back.file \in File
       /\ file_errors + Cardinality(back.lost) \in 0 .. MaxFileErrors
       /\ back.lost \subseteq {p}
       /\ files[o].extent \subseteq back.file.extent
       /\ \A q \in PageId \ {p} : back.file.page[q] = files[o].page[q]
       /\ p \notin back.lost => /\ p \in back.file.extent
                                /\ back.file.page[p] = pool[i].data
  <2>1. /\ back.file \in File
        /\ file_errors + Cardinality(back.lost) \in 0 .. MaxFileErrors
        /\ back.lost \subseteq {p}
        /\ files[o].extent \subseteq back.file.extent
        /\ \A q \in PageId \ {p} : back.file.page[q] = files[o].page[q]
        /\ \/ ~pool[i].is_dirty /\ back.file = files[o] /\ back.lost = {}
           \/ pool[i].is_dirty /\ back.file = files[o] /\ back.lost = {p}
           \/ /\ pool[i].is_dirty /\ back.lost = {}
              /\ p \in back.file.extent
              /\ back.file.page[p] = pool[i].data
    <3>1. Types /\ o \in Oid /\ pool[i] \in PoolFrame /\ opens \in Opens
      BY <1>1, <1>3, <1>6 DEF Data
    <3> HIDE DEF o, pool
    <3> QED BY <3>1, WriteBackLemma
  <2> HIDE DEF back, pool, p
  <2>2. p \notin back.lost => p \in back.file.extent /\ back.file.page[p] = pool[i].data
    BY <1>4, <2>1, Zenon
  <2> QED BY <2>1, <2>2
<1> HIDE DEF back
<1>13. \A j \in 1 .. Len(pool) : /\ t.pool[j].page_id = pool[j].page_id
                                 /\ t.pool[j].data = pool[j].data
                                 /\ j # i => t.pool[j] = pool[j]
  BY <1>7, <1>9, <1>10
<1>14. Len(t.pool) = Len(pool) /\ \A q : Listed(t, q) <=> Listed(tables[o], q)
  BY <1>9, <1>10 DEF Listed
<1>15. /\ promise' \in [RecordId -> Tuples \cup {Deleted, Nothing}]
       /\ \A r \in RecordId : promise'[r] # Nothing =>
             promise'[r] = promise[r] /\ (r.oid = o => r.page_id \notin back.lost)
  BY <1>1, <1>5, KnownType DEF Data
<1> HIDE DEF o
<1>16. Types'
  <2>1. files' \in [Oid -> File]
    BY <1>1, <1>3, <1>5, <1>12 DEF Data, Types
  <2> QED BY <1>1, <1>5, <1>12, <1>15, <2>1 DEF Data, Types
<1>17. Memory'
  <2>1. EntryOK(t) /\ t.name = tables[o].name
    BY <1>3, <1>10 DEF EntryOK
  <2>2. \A q \in DOMAIN tables : tables'[q].name = tables[q].name /\ EntryOK(tables'[q])
    BY <1>1, <1>11, <2>1 DEF Data, Memory, CatalogOK
  <2>3. CatalogOK(next_table_oid', tables')
    BY <1>1, <1>5, <1>11, <2>2 DEF Data, Memory, CatalogOK
  <2>4. PoolOK(t)
    BY <1>3, <1>9, <1>10, <1>13, <1>14 DEF PoolOK
  <2> QED BY <1>1, <1>10, <1>11, <2>3, <2>4 DEF Data, Memory
<1>18. Disk'
  <2>1. \A q \in DOMAIN tables :
           /\ q \in DOMAIN tables' /\ tables'[q].name = tables[q].name
           /\ \A k \in PageId : Listed(tables[q], k) => Listed(tables'[q], k)
    BY <1>10, <1>11, <1>14
  <2> QED BY <1>1, <1>5, <2>1, DiskKept DEF Data
<1>19. ASSUME NEW r \in RecordId, promise'[r] # Nothing PROVE Kept(r)'
  <2>1. r.oid \in Oid /\ r.page_id \in PageId /\ promise'[r] = promise[r] /\ Kept(r)
    BY <1>1, <1>15, <1>19 DEF RecordId, Data, Promises
  <2>2. CASE r.oid # o
    <3>1. files'[r.oid] = files[r.oid]
      BY <1>1, <1>5, <2>1, <2>2 DEF Data, Types
    <3>2. OnDisk(r)' <=> OnDisk(r)
      BY <2>1, <3>1 DEF OnDisk, InFile
    <3>3. r.oid \in DOMAIN tables => r.oid \in DOMAIN tables' /\ tables'[r.oid] = tables[r.oid]
      BY <1>11, <2>2
    <3> QED BY <1>5, <2>1, <3>2, <3>3 DEF Kept
  <2>3. CASE r.oid = o
    <3>1. files'[r.oid] = back.file /\ r.page_id \notin back.lost
      BY <1>1, <1>3, <1>5, <1>15, <1>19, <2>3 DEF Data, Types
    <3>2. \A j \in 1 .. Len(pool) :
             pool[j].page_id = r.page_id => HasRow(pool[j].data, r.slot_id, promise[r])
      BY <1>1, <2>1, <2>3 DEF Kept
    <3>3. CASE r.page_id = p
      <4>1. InFile(back.file, r)
        BY <1>12, <3>1, <3>2, <3>3 DEF InFile
      <4>2. OnDisk(r)'
        BY <2>1, <3>1, <4>1 DEF OnDisk, InFile
      <4> QED BY <1>1, <1>5, <1>11, <1>13, <1>14, <2>1, <2>3, <4>2 DEF Kept
    <3>4. CASE r.page_id # p
      <4>1. OnDisk(r) => OnDisk(r)'
        BY <1>12, <2>1, <2>3, <3>1, <3>4 DEF OnDisk, InFile
      <4>2. DirtyIn(pool, r.page_id) => DirtyIn(t.pool, r.page_id)
        BY <1>13, <1>14, <3>4 DEF DirtyIn
      <4> QED BY <1>1, <1>5, <1>11, <1>13, <1>14, <2>1, <2>3, <4>1, <4>2 DEF Kept
    <3> QED BY <3>3, <3>4
  <2> QED BY <2>2, <2>3
<1>20. Data'
  BY <1>16, <1>17, <1>18, <1>19 DEF Data, Promises
<1>21. CommitOK'
  BY <1>1, <1>5, <1>11 DEF CommitOK, o
<1> QED BY <1>1, <1>5, <1>20, <1>21 DEF IInv, StmtOK

\* Steps that only move the statement on, or count an error.
LEMMA QuietData ==
    ASSUME Data, UNCHANGED <<running, next_table_oid, tables, files, catalog_file, history>>,
           file_errors' \in 0 .. MaxFileErrors
    PROVE  Data'
<1>1. UNCHANGED <<created, promise, pending>>
  BY DEF history
<1>2. Types'
  BY <1>1 DEF Data, Types
<1>3. Memory'
  BY DEF Data, Memory
<1>4. Disk'
  BY <1>1, DiskKept DEF Data
<1>5. Promises'
  BY <1>1 DEF Data, Promises, Kept, OnDisk, InFile
<1> QED BY <1>2, <1>3, <1>4, <1>5 DEF Data

LEMMA SaveTruncateOK ==
    ASSUME IInv, SaveTruncate
    PROVE  IInv'
<1>1. /\ catalog_file' = Unreadable /\ stmt' = [stmt EXCEPT !.at = "write"]
      /\ UNCHANGED <<running, next_table_oid, tables, files, file_errors>>
      /\ UNCHANGED <<created, promise, pending>>
  BY DEF SaveTruncate, history
<1>2. Types' /\ Memory'
  BY <1>1 DEF IInv, Data, Types, Memory
<1>3. Disk'
  BY <1>1 DEF IInv, Data, Disk, Saved, CreatedTablesDurable, Registered
<1>4. Promises'
  BY <1>1 DEF IInv, Data, Promises, Kept, OnDisk, InFile
<1>5. StmtOK'
  <2>1. CASE stmt.kind = "CREATE"
    <3>1. CreateOK /\ running
      BY <2>1, KindOf DEF IInv
    <3>2. CreateOK'
      BY <1>1, <3>1 DEF CreateOK, Registered
    <3> QED BY <1>1, <3>1, <3>2 DEF StmtOK
  <2>2. CASE stmt.kind = "COMMIT"
    <3>1. CommitOK /\ running /\ stmt.at = "truncate"
      BY <2>2, KindOf DEF IInv, SaveTruncate
    <3>2. CommitOK'
      BY <1>1, <3>1 DEF CommitOK
    <3> QED BY <1>1, <3>1, <3>2 DEF StmtOK
  <2> QED BY <2>1, <2>2 DEF SaveTruncate
<1> QED BY <1>2, <1>3, <1>4, <1>5 DEF IInv, Data

\* Once COMMIT has flushed every table, what is promised is in the files, and the
\* catalog that is written now lists its page.
LEMMA SaveWriteOK ==
    ASSUME IInv, SaveWrite
    PROVE  IInv'
<1>1. /\ catalog_file' = Snapshot /\ stmt' = Idle
      /\ created' = created \cup (IF stmt.kind = "CREATE" THEN {stmt.name} ELSE Registered)
      /\ pending' = IF stmt.kind = "COMMIT" THEN {} ELSE pending
      /\ UNCHANGED <<running, next_table_oid, tables, files, file_errors, promise>>
  BY DEF SaveWrite
<1>2. Data /\ running
  BY KindOf DEF IInv, SaveWrite
<1>3. /\ Snapshot.next_table_oid = next_table_oid
      /\ DOMAIN Snapshot.tables = DOMAIN tables
      /\ \A o \in DOMAIN tables : /\ Snapshot.tables[o].name = tables[o].name
                                  /\ Snapshot.tables[o].page_ids = tables[o].page_ids
                                  /\ Snapshot.tables[o].next_page_id = tables[o].next_page_id
  BY DEF Snapshot
<1> DEFINE snap == Snapshot
<1> HIDE DEF snap
<1>4. /\ catalog_file' = snap /\ snap.next_table_oid = next_table_oid
      /\ DOMAIN snap.tables = DOMAIN tables
      /\ \A o \in DOMAIN tables : /\ snap.tables[o].name = tables[o].name
                                  /\ snap.tables[o].page_ids = tables[o].page_ids
                                  /\ snap.tables[o].next_page_id = tables[o].next_page_id
  BY <1>1, <1>3 DEF snap
<1>5. \A o \in DOMAIN tables : \A q : Listed(snap.tables[o], q) <=> Listed(tables[o], q)
  BY <1>4 DEF Listed
<1>0. created' \subseteq Registered /\ Registered \subseteq Names
  <2>1. stmt.kind = "CREATE" => stmt.name \in Registered
    BY KindOf DEF IInv, CreateOK
  <2>2. created \subseteq Registered
    BY <1>2 DEF Data, Disk, CreatedTablesDurable
  <2>3. Registered \subseteq Names
    BY <1>2 DEF Data, Memory, CatalogOK, EntryOK, Registered
  <2> QED BY <1>1, <2>1, <2>2, <2>3
<1>6. Types'
  BY <1>0, <1>1, <1>2 DEF Data, Types
<1>7. Memory'
  BY <1>1, <1>2 DEF Data, Memory
<1>8. Disk'
  <2>1. \A o \in DOMAIN tables : EntryOK(snap.tables[o])
    BY <1>2, <1>4 DEF Data, Memory, CatalogOK, EntryOK
  <2>2. CatalogOK(snap.next_table_oid, snap.tables)
    BY <1>2, <1>4, <2>1 DEF Data, Memory, CatalogOK
  <2>3. Registered \subseteq {snap.tables[o].name : o \in DOMAIN snap.tables}
    BY <1>4 DEF Registered
  <2>4. Registered' = Registered
    BY <1>1 DEF Registered
  <2>5. CreatedTablesDurable'
    BY <1>0, <1>4, <2>3, <2>4 DEF CreatedTablesDurable
  <2>6. Saved'
    BY <1>1, <1>4, <1>5 DEF Saved
  <2> QED BY <1>4, <2>2, <2>5, <2>6 DEF Disk
<1>9. ASSUME NEW r \in RecordId, promise'[r] # Nothing PROVE Kept(r)'
  <2>1. Kept(r) /\ promise'[r] = promise[r]
    BY <1>1, <1>2, <1>9 DEF Data, Promises
  <2>2. /\ r.oid \in DOMAIN tables /\ Listed(tables[r.oid], r.page_id)
        /\ OnDisk(r) \/ DirtyIn(tables[r.oid].pool, r.page_id)
    BY <1>2, <2>1 DEF Kept
  <2>3. r.oid \in DOMAIN snap.tables /\ Listed(snap.tables[r.oid], r.page_id)
    BY <1>4, <1>5, <2>2
  <2>4. OnDisk(r)' <=> OnDisk(r)
    BY <1>1 DEF OnDisk, InFile
  <2>5. r \notin pending' => OnDisk(r)
    <3>1. CASE stmt.kind = "COMMIT"
      <4>1. CommitOK /\ stmt.at = "write"
        BY <3>1, KindOf DEF IInv, SaveWrite
      <4>2. r.oid # NoOid
        BY DEF RecordId, NoOid, Oid
      <4>3. r.oid \notin stmt.todo \cup {stmt.oid}
        BY <4>1, <4>2 DEF CommitOK
      <4>4. ~DirtyIn(tables[r.oid].pool, r.page_id)
        BY <2>2, <4>1, <4>3 DEF CommitOK, DirtyIn
      <4> QED BY <2>2, <4>4
    <3>2. CASE stmt.kind # "COMMIT"
      BY <1>1, <2>1, <3>2 DEF Kept
    <3> QED BY <3>1, <3>2
  <2> QED BY <1>1, <1>2, <1>4, <2>1, <2>3, <2>4, <2>5 DEF Kept
<1> QED BY <1>1, <1>6, <1>7, <1>8, <1>9 DEF IInv, Data, Promises, StmtOK

LEMMA CreateTableOK ==
    ASSUME IInv, NEW name \in Names, CreateTable(name)
    PROVE  IInv'
<1> DEFINE new == next_table_oid
<1>1. /\ running /\ stmt' = [kind |-> "CREATE", at |-> "truncate", name |-> name]
      /\ name \notin Registered /\ new < MaxTables
      /\ tables' = [o \in DOMAIN tables \cup {new} |->
                       IF o = new THEN NewTable(name) ELSE tables[o]]
      /\ next_table_oid' = new + 1
      /\ UNCHANGED <<running, files, catalog_file, file_errors, created, promise, pending>>
  BY DEF CreateTable, Begin, history
<1>2. /\ new \in 0 .. MaxTables /\ DOMAIN tables \subseteq 0 .. new - 1
      /\ MaxTables \in Nat /\ MaxPages \in Nat
  BY DatabaseAssumption DEF IInv, Data, Memory, CatalogOK
<1>3. /\ new \notin DOMAIN tables /\ new + 1 \in 0 .. MaxTables
      /\ DOMAIN tables' = DOMAIN tables \cup {new}
      /\ DOMAIN tables' \subseteq 0 .. (new + 1) - 1
      /\ tables'[new] = NewTable(name)
      /\ \A o \in DOMAIN tables : tables'[o] = tables[o]
  BY <1>1, <1>2
<1>4. /\ NewTable(name) \in Table /\ NewTable(name).name = name
      /\ NewTable(name).page_ids = <<>> /\ NewTable(name).pool = <<>>
  BY <1>2 DEF NewTable, Table
<1>5. EntryOK(NewTable(name)) /\ PoolOK(NewTable(name))
  BY <1>2, <1>4, DatabaseAssumption DEF EntryOK, PoolOK, Table
<1>6. Types'
  BY <1>1 DEF IInv, Data, Types
<1>7. Memory'
  <2>1. CatalogOK(next_table_oid', tables')
    <3>1. \A o \in DOMAIN tables' : EntryOK(tables'[o])
      BY <1>3, <1>5 DEF IInv, Data, Memory, CatalogOK
    <3>2. \A o, q \in DOMAIN tables' : tables'[o].name = tables'[q].name => o = q
      BY <1>1, <1>3, <1>4 DEF IInv, Data, Memory, CatalogOK, Registered
    <3> QED BY <1>1, <1>3, <3>1, <3>2 DEF CatalogOK
  <2> QED BY <1>3, <1>4, <1>5, <2>1 DEF IInv, Data, Memory
<1>8. Disk'
  BY <1>1, <1>3, DiskKept DEF IInv, Data
<1>9. ASSUME NEW r \in RecordId, promise'[r] # Nothing PROVE Kept(r)'
  <2>1. Kept(r) /\ promise'[r] = promise[r]
    BY <1>1, <1>9 DEF IInv, Data, Promises
  <2>2. r.oid \in DOMAIN tables /\ r.oid \in DOMAIN tables' /\ tables'[r.oid] = tables[r.oid]
    BY <1>1, <1>3, <2>1 DEF Kept
  <2>3. OnDisk(r)' <=> OnDisk(r)
    BY <1>1 DEF OnDisk, InFile
  <2> QED BY <1>1, <2>1, <2>2, <2>3 DEF Kept
<1>10. CreateOK' /\ running'
  BY <1>1, <1>3, <1>4 DEF CreateOK, Registered
<1> QED BY <1>6, <1>7, <1>8, <1>9, <1>10 DEF IInv, Data, Promises, StmtOK

\* What a crash leaves is what was committed: it is in the files.
LEMMA CrashOK ==
    ASSUME IInv, Crash
    PROVE  IInv'
<1>1. /\ running' = FALSE /\ next_table_oid' = 0 /\ stmt' = Idle /\ pending' = {}
      /\ tables' = [o \in {} |-> Nothing]
      /\ promise' = [r \in RecordId |-> IF r \in pending THEN Nothing ELSE promise[r]]
      /\ UNCHANGED <<files, catalog_file, file_errors, created>>
  BY DEF Crash
<1>2. DOMAIN tables' = {}
  BY <1>1
<1>3. Types'
  BY <1>1, <1>2 DEF IInv, Data, Types
<1>4. Memory'
  BY <1>1, <1>2, DatabaseAssumption DEF Memory, CatalogOK
<1>5. Disk'
  BY <1>1 DEF IInv, Data, Disk, Saved, CreatedTablesDurable
<1>6. ASSUME NEW r \in RecordId, promise'[r] # Nothing PROVE Kept(r)'
  <2>1. r \notin pending /\ promise'[r] = promise[r]
    BY <1>1, <1>6
  <2>2. Kept(r)
    BY <1>6, <2>1 DEF IInv, Data, Promises
  <2>3. OnDisk(r)' <=> OnDisk(r)
    BY <1>1, <2>1 DEF OnDisk, InFile
  <2> QED BY <1>1, <2>1, <2>2, <2>3 DEF Kept
<1> QED BY <1>1, <1>3, <1>4, <1>5, <1>6 DEF IInv, Data, Promises, StmtOK

LEMMA StartOK ==
    ASSUME IInv, Start
    PROVE  IInv'
<1>1. /\ ~running /\ running' = TRUE
      /\ UNCHANGED <<stmt, files, catalog_file, file_errors, pending>>
  BY DEF Start
<1>2. stmt = Idle /\ pending = {} /\ next_table_oid = 0 /\ DOMAIN tables = {}
  BY <1>1 DEF IInv, StmtOK, Data, Types
<1>3. StmtOK'
  BY <1>1, <1>2 DEF StmtOK
<1>4. CASE catalog_file = Unreadable
  <2>1. /\ UNCHANGED <<next_table_oid, tables>> /\ created' = {}
        /\ promise' = [r \in RecordId |-> Nothing]
    BY <1>4 DEF Start
  <2>2. Types' /\ Memory'
    BY <1>1, <2>1 DEF IInv, Data, Types, Memory
  <2>3. Disk' /\ Promises'
    BY <1>1, <1>4, <2>1 DEF Disk, Saved, CreatedTablesDurable, Promises
  <2> QED BY <1>3, <2>2, <2>3 DEF IInv, Data
<1>5. CASE catalog_file # Unreadable
  <2> DEFINE ts == catalog_file.tables
  <2>1. /\ next_table_oid' = catalog_file.next_table_oid /\ tables' = Loaded(catalog_file)
        /\ UNCHANGED <<created, promise>>
    BY <1>5 DEF Start
  <2>2. CatalogOK(catalog_file.next_table_oid, ts)
    BY <1>5 DEF IInv, Data, Disk
  <2>3. /\ DOMAIN tables' = DOMAIN ts
        /\ \A o \in DOMAIN ts :
              tables'[o] = [name |-> ts[o].name, page_ids |-> ts[o].page_ids,
                            next_page_id |-> ts[o].next_page_id, pool |-> <<>>]
    BY <2>1 DEF Loaded
  <2>4. \A o \in DOMAIN ts :
           /\ tables'[o].name = ts[o].name /\ tables'[o].page_ids = ts[o].page_ids
           /\ tables'[o].next_page_id = ts[o].next_page_id /\ tables'[o].pool = <<>>
    <3> SUFFICES ASSUME NEW o \in DOMAIN ts
                 PROVE  /\ tables'[o].name = ts[o].name
                        /\ tables'[o].page_ids = ts[o].page_ids
                        /\ tables'[o].next_page_id = ts[o].next_page_id
                        /\ tables'[o].pool = <<>>
      OBVIOUS
    <3> HIDE DEF ts
    <3>1. tables'[o] = [name |-> ts[o].name, page_ids |-> ts[o].page_ids,
                        next_page_id |-> ts[o].next_page_id, pool |-> <<>>]
      BY <2>3
    <3> QED BY <3>1
  <2> HIDE DEF ts
  <2>5. \A o \in DOMAIN ts : EntryOK(tables'[o])
    BY <2>2, <2>4 DEF CatalogOK, EntryOK
  <2>6. CatalogOK(next_table_oid', tables')
    BY <2>1, <2>2, <2>3, <2>4, <2>5 DEF CatalogOK
  <2>7. \A o \in DOMAIN ts : tables'[o] \in Table /\ PoolOK(tables'[o])
    <3> SUFFICES ASSUME NEW o \in DOMAIN ts
                 PROVE  tables'[o] \in Table /\ PoolOK(tables'[o])
      OBVIOUS
    <3>1. EntryOK(ts[o])
      BY <2>2 DEF CatalogOK
    <3>2. tables'[o] \in Table
      <4>1. tables'[o] = [name |-> ts[o].name, page_ids |-> ts[o].page_ids,
                          next_page_id |-> ts[o].next_page_id, pool |-> <<>>]
        BY <2>3
      <4>2. /\ ts[o].name \in Names /\ ts[o].page_ids \in Seq(PageId)
            /\ ts[o].next_page_id \in 0 .. MaxPages /\ <<>> \in Seq(PoolFrame)
        BY <3>1 DEF EntryOK
      <4> QED BY <4>1, <4>2 DEF Table
    <3>3. PoolOK(tables'[o])
      <4>1. tables'[o].pool = <<>> /\ Len(<<>>) = 0 /\ 0 <= PoolSize
        BY <2>4, DatabaseAssumption
      <4>2. <<>> \in Seq(PoolFrame) /\ 1 .. 0 = {}
        OBVIOUS
      <4> QED BY <4>1, <4>2 DEF PoolOK
    <3> QED BY <3>2, <3>3
  <2>8. Types' /\ Memory'
    BY <1>1, <2>1, <2>3, <2>6, <2>7 DEF IInv, Data, Types, Memory
  <2>9. Disk'
    <3>1. ts' = ts /\ created \subseteq {ts[o].name : o \in DOMAIN ts}
      BY <1>1, <1>5 DEF IInv, Data, Disk, CreatedTablesDurable, ts
    <3>2. Registered' = {ts[o].name : o \in DOMAIN ts}
      BY <2>3, <2>4 DEF Registered
    <3>3. CreatedTablesDurable'
      BY <2>1, <3>1, <3>2 DEF CreatedTablesDurable, ts
    <3>4. Saved'
      BY <2>3, <2>4, <3>1 DEF Saved, Listed, ts
    <3> QED BY <1>1, <2>2, <3>1, <3>3, <3>4 DEF Disk, ts
  <2>10. ASSUME NEW r \in RecordId, promise'[r] # Nothing PROVE Kept(r)'
    <3>1. Kept(r) /\ promise'[r] = promise[r] /\ r \notin pending
      BY <1>2, <2>1, <2>10 DEF IInv, Data, Promises
    <3>2. OnDisk(r) /\ r.oid \in DOMAIN ts /\ Listed(ts[r.oid], r.page_id)
      BY <1>5, <3>1 DEF Kept, ts
    <3>3. OnDisk(r)'
      BY <1>1, <3>1, <3>2 DEF OnDisk, InFile
    <3>4. /\ r.oid \in DOMAIN tables' /\ Listed(tables'[r.oid], r.page_id)
          /\ Len(tables'[r.oid].pool) = 0
      BY <2>3, <2>4, <3>2 DEF Listed
    <3>5. ts' = ts
      BY <1>1 DEF ts
    <3> QED BY <3>2, <3>3, <3>4, <3>5, <1>1 DEF Kept, ts
  <2> QED BY <1>3, <2>8, <2>9, <2>10 DEF IInv, Data, Promises
<1> QED BY <1>4, <1>5

LEMMA BeginInsertOK ==
    ASSUME IInv, NEW o \in DOMAIN tables, NEW d \in Tuples, BeginInsert(o, d)
    PROVE  IInv'
<1>1. Data'
  BY QuietData DEF IInv, BeginInsert, Data, Types
<1>2. o \in Oid
  BY TableFacts DEF IInv, Data
<1>3. InsertOK' /\ running'
  BY <1>2 DEF BeginInsert, Begin, InsertOK
<1> QED BY <1>1, <1>3 DEF IInv, StmtOK

LEMMA InsertLoopEndOK ==
    ASSUME IInv, InsertLoopEnd
    PROVE  IInv'
<1>1. Data'
  BY QuietData DEF IInv, InsertLoopEnd, Data, Types
<1>2. InsertOK /\ running
  BY KindOf DEF IInv, InsertLoopEnd
<1>3. InsertOK' /\ running'
  <2>1. /\ stmt' = [[stmt EXCEPT !.phase = "compact"] EXCEPT !.i = 1]
        /\ UNCHANGED <<running, tables>>
    BY DEF InsertLoopEnd
  <2>2. /\ stmt' \in [kind : {"INSERT"}, oid : Oid, tuple : Tuples,
                      phase : {"probe", "compact"}, i : Nat \ {0}]
        /\ stmt'.oid = stmt.oid
    <3>1. PICK s : s = [stmt EXCEPT !.phase = "compact"]
      OBVIOUS
    <3>2. /\ s \in [kind : {"INSERT"}, oid : Oid, tuple : Tuples,
                    phase : {"probe", "compact"}, i : Nat \ {0}]
          /\ s.oid = stmt.oid
      BY <1>2, <3>1 DEF InsertOK
    <3>3. stmt' = [s EXCEPT !.i = 1]
      BY <2>1, <3>1
    <3> QED BY <3>2, <3>3
  <2> QED BY <1>2, <2>1, <2>2 DEF InsertOK
<1> QED BY <1>1, <1>3 DEF IInv, StmtOK

LEMMA BeginScanOK ==
    ASSUME IInv, NEW o \in DOMAIN tables, NEW kind \in {"SELECT", "DELETE"},
           NEW match \in SUBSET Tuples, BeginScan(kind, o, match)
    PROVE  IInv'
<1>1. Data'
  BY QuietData DEF IInv, BeginScan, Data, Types
<1>2. o \in Oid
  BY TableFacts DEF IInv, Data
<1>3. ScanOK' /\ running'
  BY <1>2 DEF BeginScan, Begin, ScanOK
<1> QED BY <1>1, <1>3 DEF IInv, StmtOK

LEMMA ScanEndOK ==
    ASSUME IInv, ScanEnd
    PROVE  IInv'
<1>1. Data'
  BY QuietData DEF IInv, ScanEnd, Data, Types
<1> QED BY <1>1 DEF IInv, StmtOK, ScanEnd

LEMMA BeginCommitOK ==
    ASSUME IInv, BeginCommit
    PROVE  IInv'
<1>1. Data'
  BY QuietData DEF IInv, BeginCommit, Data, Types
<1>2. DOMAIN tables \subseteq Oid
  BY TableFacts DEF IInv, Data
<1>3. CommitOK' /\ running'
  BY <1>2 DEF BeginCommit, Begin, CommitOK
<1> QED BY <1>1, <1>3 DEF IInv, StmtOK

LEMMA CommitTableOK ==
    ASSUME IInv, CommitTable
    PROVE  IInv'
<1>1. Data'
  BY QuietData DEF IInv, CommitTable, Data, Types
<1>2. CommitOK /\ running
  BY KindOf DEF IInv, CommitTable
<1>3. CASE stmt.todo = {}
  <2>1. CommitOK' /\ running'
    BY <1>2, <1>3 DEF CommitTable, CommitOK
  <2> QED BY <1>1, <2>1 DEF IInv, StmtOK
<1>4. CASE stmt.todo # {}
  <2>1. PICK o \in stmt.todo : stmt' = [stmt EXCEPT !.oid = o, !.todo = @ \ {o}]
    BY <1>4 DEF CommitTable
  <2>2. /\ stmt' \in [kind : {"COMMIT"}, at : {"flush", "truncate", "write"},
                      oid : Oid \cup {NoOid}, todo : SUBSET Oid]
        /\ stmt'.oid = o /\ stmt'.todo = stmt.todo \ {o} /\ stmt'.at = stmt.at
    BY <1>2, <2>1 DEF CommitOK
  <2>3. CommitOK' /\ running'
    <3>1. UNCHANGED <<running, tables>> /\ stmt.at = "flush" /\ stmt.oid = NoOid
      BY DEF CommitTable
    <3>2. \A q \in DOMAIN tables : q # NoOid
      BY TableFacts DEF IInv, Data, Oid, NoOid
    <3>3. ASSUME NEW q \in DOMAIN tables \ (stmt'.todo \cup {stmt'.oid})
          PROVE  \A i \in 1 .. Len(tables[q].pool) : ~tables[q].pool[i].is_dirty
      <4>1. q \in DOMAIN tables \ (stmt.todo \cup {stmt.oid})
        BY <2>2, <3>1, <3>2
      <4> QED BY <1>2, <4>1 DEF CommitOK
    <3>4. stmt'.todo \subseteq DOMAIN tables /\ stmt'.oid \in DOMAIN tables
      BY <1>2, <2>2 DEF CommitOK
    <3> QED BY <1>2, <2>2, <3>1, <3>3, <3>4 DEF CommitOK
  <2> QED BY <1>1, <2>3 DEF IInv, StmtOK
<1> QED BY <1>3, <1>4

LEMMA CommitTableEndOK ==
    ASSUME IInv, CommitTableEnd
    PROVE  IInv'
<1>1. Data'
  BY QuietData DEF IInv, CommitTableEnd, Data, Types
<1>2. CommitOK /\ running /\ stmt.at = "flush" /\ stmt.oid # NoOid
  BY KindOf DEF IInv, CommitTableEnd
<1>3. stmt.oid \in DOMAIN tables
  BY <1>2 DEF CommitOK
<1>4. \A i \in 1 .. Len(tables[stmt.oid].pool) : ~tables[stmt.oid].pool[i].is_dirty
  <2>1. \A i \in 1 .. Len(tables[stmt.oid].pool) : tables[stmt.oid].pool[i].page_id \in PageId
    BY <1>3, TableFacts DEF IInv, Data, PoolFrame
  <2>2. DirtyPages(stmt.oid) = {}
    BY DEF CommitTableEnd
  <2> QED BY <2>1, <2>2 DEF DirtyPages
<1>5. CommitOK' /\ running'
  BY <1>2, <1>4 DEF CommitTableEnd, CommitOK
<1> QED BY <1>1, <1>5 DEF IInv, StmtOK

LEMMA SaveFailsOK ==
    ASSUME IInv, SaveFails
    PROVE  IInv'
<1>1. file_errors < MaxFileErrors
  BY Zenon DEF SaveFails, Opens
<1>2. file_errors' \in 0 .. MaxFileErrors
  BY <1>1, DatabaseAssumption DEF SaveFails, IInv, Data, Types
<1>3. Data'
  BY <1>2, QuietData DEF IInv, SaveFails
<1> QED BY <1>3 DEF IInv, StmtOK, SaveFails

LEMMA InitOK == Init => IInv
<1> SUFFICES ASSUME Init PROVE IInv
  OBVIOUS
<1>1. Types
  <2>1. EmptyFile \in File
    BY DEF EmptyFile, File, Images
  <2>2. files \in [Oid -> File]
    BY <2>1 DEF Init
  <2>3. file_errors \in 0 .. MaxFileErrors
    BY DatabaseAssumption DEF Init
  <2> QED BY <2>2, <2>3 DEF Init, Types
<1>2. Memory
  BY DatabaseAssumption DEF Init, Memory, CatalogOK
<1>3. Disk /\ Promises /\ StmtOK
  BY DEF Init, Disk, Saved, CreatedTablesDurable, Promises, StmtOK
<1> QED BY <1>1, <1>2, <1>3 DEF IInv, Data

LEMMA StepOK == IInv /\ [Next]_vars => IInv'
<1> SUFFICES ASSUME IInv, [Next]_vars PROVE IInv'
  OBVIOUS
<1>1. CASE UNCHANGED vars
  <2>1. UNCHANGED <<running, next_table_oid, tables, files, catalog_file, history>>
    BY <1>1 DEF vars, memory
  <2>2. UNCHANGED file_errors /\ UNCHANGED stmt
    BY <1>1 DEF vars, memory
  <2>3. Data'
    BY <2>1, <2>2, QuietData DEF IInv, Data, Types
  <2>4. StmtOK'
    BY <2>1, <2>2 DEF IInv, StmtOK, CreateOK, Registered, InsertOK, ScanOK, CommitOK
  <2> QED BY <2>3, <2>4 DEF IInv
<1>2. CASE \E name \in Names : CreateTable(name)
  BY <1>2, CreateTableOK
<1>3. ASSUME NEW o \in DOMAIN tables,
             \/ \E d \in Tuples : BeginInsert(o, d)
             \/ BeginScan("SELECT", o, {})
             \/ \E match \in {Tuples} \cup {{d} : d \in Tuples} : BeginScan("DELETE", o, match)
      PROVE  IInv'
  <2>1. CASE \E d \in Tuples : BeginInsert(o, d)
    BY <2>1, BeginInsertOK
  <2>2. CASE BeginScan("SELECT", o, {})
    BY <2>2, BeginScanOK
  <2>3. CASE \E match \in {Tuples} \cup {{d} : d \in Tuples} : BeginScan("DELETE", o, match)
    <3>1. PICK match \in {Tuples} \cup {{d} : d \in Tuples} : BeginScan("DELETE", o, match)
      BY <2>3
    <3>2. match \in SUBSET Tuples
      OBVIOUS
    <3> QED BY <3>1, <3>2, BeginScanOK
  <2> QED BY <1>3, <2>1, <2>2, <2>3
<1>4. CASE InsertInPage
  BY <1>4, InsertInPageOK
<1>5. CASE InsertLoopEnd
  BY <1>5, InsertLoopEndOK
<1>6. CASE InsertNewPage
  BY <1>6, InsertNewPageOK
<1>7. CASE Scan
  BY <1>7, ScanStepOK
<1>8. CASE DeleteRow
  BY <1>8, DeleteRowOK
<1>9. CASE ScanEnd
  BY <1>9, ScanEndOK
<1>10. CASE BeginCommit
  BY <1>10, BeginCommitOK
<1>11. CASE CommitTable
  BY <1>11, CommitTableOK
<1>12. CASE CommitFlush
  BY <1>12, CommitFlushOK
<1>13. CASE CommitTableEnd
  BY <1>13, CommitTableEndOK
<1>14. CASE SaveTruncate
  BY <1>14, SaveTruncateOK
<1>15. CASE SaveFails
  BY <1>15, SaveFailsOK
<1>16. CASE SaveWrite
  BY <1>16, SaveWriteOK
<1>17. CASE Crash
  BY <1>17, CrashOK
<1>18. CASE Start
  BY <1>18, StartOK
<1> QED
  BY <1>1, <1>2, <1>3, <1>4, <1>5, <1>6, <1>7, <1>8, <1>9, <1>10, <1>11, <1>12, <1>13,
     <1>14, <1>15, <1>16, <1>17, <1>18 DEF Next

LEMMA Invariance == Spec => []IInv
  BY InitOK, StepOK, PTL DEF Spec

-------------------------------------------------------------------------------
(* The theorems.                                                              *)

\* Every variable keeps its type and no pool grows past PoolSize, whatever the
\* statements, the crashes and the files that do not open.
THEOREM DatabaseTypeCorrect == Spec => []DatabaseTypeOK
<1>1. IInv => DatabaseTypeOK
  <2> SUFFICES ASSUME IInv PROVE DatabaseTypeOK
    OBVIOUS
  <2>1. Types /\ Memory
    BY DEF IInv, Data
  <2>2. ASSUME NEW o \in DOMAIN tables
        PROVE  /\ o \in Oid
               /\ tables[o].name \in Names
               /\ tables[o].page_ids \in Seq(PageId)
               /\ tables[o].next_page_id \in 0 .. MaxPages
               /\ Len(tables[o].pool) <= PoolSize
               /\ \A i \in 1 .. Len(tables[o].pool) : tables[o].pool[i].page_id \in PageId
    BY <2>1, TableFacts DEF EntryOK, PoolOK, PoolFrame
  <2>3. ASSUME NEW o \in Oid, NEW p \in PageId
        PROVE  Len(Rows(files[o].page[p])) <= Capacity
    <3>1. files[o].page[p] \in Images
      BY <2>1 DEF Types, File
    <3>2. Len(Rows(files[o].page[p])) \in 0 .. Capacity
      BY <3>1, ImageFacts
    <3> QED BY <3>2, RowAssumption
  <2> QED BY <2>1, <2>2, <2>3 DEF DatabaseTypeOK, Types, Memory, CatalogOK
<1> QED BY <1>1, Invariance, PTL

\* What a COMMIT acknowledged is in the files and listed by the catalog, and a
\* restart finds it, however eviction, compaction, later COMMITs and a crash
\* between two writes interleave.
THEOREM CommittedRowsAreSafe == Spec => []CommittedRowsSurvive
<1>1. IInv => CommittedRowsSurvive
  <2> SUFFICES ASSUME IInv, catalog_file # Unreadable, NEW r \in RecordId \ pending,
                      promise[r] \in Tuples \cup {Deleted}
               PROVE  Durable(r) = promise[r]
    BY DEF CommittedRowsSurvive
  <2> DEFINE ts == catalog_file.tables
             page == ReadPage(files[r.oid], r.page_id, Zero)
  <2>1. Kept(r)
    BY DatabaseAssumption DEF IInv, Data, Promises
  <2>2. OnDisk(r) /\ r.oid \in DOMAIN ts /\ Listed(ts[r.oid], r.page_id)
    BY <2>1 DEF Kept
  <2>3. HasRow(page, r.slot_id, promise[r])
    BY <2>2 DEF OnDisk, InFile, ReadPage
  <2>4. Listed(Loaded(catalog_file)[r.oid], r.page_id)
    BY <2>2 DEF Loaded, Listed
  <2>5. Durable(r) = IF /\ Listed(Loaded(catalog_file)[r.oid], r.page_id)
                        /\ r.slot_id < Len(Rows(page))
                     THEN Rows(page)[r.slot_id + 1] ELSE Nothing
    BY <2>2 DEF Durable, RowIn
  <2> QED BY <2>3, <2>4, <2>5 DEF HasRow
<1> QED BY <1>1, Invariance, PTL

\* The running process shows every INSERT and DELETE it acknowledged, from the
\* pool or from the file, before and after eviction, COMMIT and restart.
THEOREM StatementsAreSeen == Spec => []StatementsSeen
<1>1. IInv => StatementsSeen
  <2> SUFFICES ASSUME IInv, running, NEW r \in RecordId, promise[r] \in Tuples \cup {Deleted}
               PROVE  RowIn(tables[r.oid], LAMBDA p : ImageOf(r.oid, p), r) = promise[r]
    BY DEF StatementsSeen
  <2> DEFINE image == ImageOf(r.oid, r.page_id)
             pool == tables[r.oid].pool
  <2>1. Kept(r)
    BY DatabaseAssumption DEF IInv, Data, Promises
  <2>2. Listed(tables[r.oid], r.page_id)
    BY <2>1 DEF Kept
  <2>3. HasRow(image, r.slot_id, promise[r])
    <3>1. CASE Hits(r.oid, r.page_id) # {}
      <4>1. HitFrame(r.oid, r.page_id) \in Hits(r.oid, r.page_id)
        BY <3>1, Zenon DEF HitFrame
      <4>2. image = pool[HitFrame(r.oid, r.page_id)].data
        BY <3>1 DEF ImageOf
      <4> QED BY <2>1, <4>1, <4>2 DEF Kept, Hits
    <3>2. CASE Hits(r.oid, r.page_id) = {}
      <4>1. ~DirtyIn(pool, r.page_id)
        BY <3>2 DEF Hits, DirtyIn
      <4>2. OnDisk(r)
        BY <2>1, <4>1 DEF Kept
      <4> QED BY <3>2, <4>2 DEF ImageOf, OnDisk, InFile, ReadPage
    <3> QED BY <3>1, <3>2
  <2>4. RowIn(tables[r.oid], LAMBDA p : ImageOf(r.oid, p), r) =
            IF Listed(tables[r.oid], r.page_id) /\ r.slot_id < Len(Rows(image))
            THEN Rows(image)[r.slot_id + 1] ELSE Nothing
    BY DEF RowIn
  <2> QED BY <2>2, <2>3, <2>4 DEF HasRow
<1> QED BY <1>1, Invariance, PTL

\* Oids, names and page ids that memory or the complete catalog file lists are not
\* given out again, in this process or in one started from that file; ids that were
\* given out after the last save may be, once the process has stopped.
THEOREM IdsInUseStay == Spec => []IdsInUseNotReused
<1>1. IInv => IdsInUseNotReused
  <2> SUFFICES ASSUME IInv PROVE IdsInUseNotReused
    OBVIOUS
  <2>1. CatalogOK(next_table_oid, tables)
    BY DEF IInv, Data, Memory
  <2>2. \A o \in DOMAIN tables : o < next_table_oid
    BY <2>1 DEF CatalogOK
  <2>3. \A o, q \in DOMAIN tables : tables[o].name = tables[q].name => o = q
    BY <2>1 DEF CatalogOK
  <2>4. ASSUME NEW o \in DOMAIN tables
        PROVE  /\ \A p \in PageId : Listed(tables[o], p) => p < tables[o].next_page_id
               /\ \A i, j \in 1 .. Len(tables[o].page_ids) :
                     tables[o].page_ids[i] = tables[o].page_ids[j] => i = j
    BY <2>1 DEF CatalogOK, EntryOK, Listed
  <2>5. Saved
    BY DEF IInv, Data, Disk
  <2> QED BY <2>2, <2>3, <2>4, <2>5 DEF IdsInUseNotReused, Saved
<1> QED BY <1>1, Invariance, PTL

\* A table whose CREATE saved the catalog stays registered, in this process and in
\* every later one, and is in every complete catalog file, until a stop inside
\* SaveCatalog leaves none.
THEOREM CreatedTablesStay == Spec => []CreatedTablesDurable
<1>1. IInv => CreatedTablesDurable
  BY DEF IInv, Data, Disk
<1> QED BY <1>1, Invariance, PTL
===============================================================================
