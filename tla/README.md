# A verification model of the T2 FIPS library for iOS

The repository builds a FIPS-validated OpenSSL and SQLCipher for iOS and puts
two things on top of them: `T2Crypto`, a small encryption API, and
`EncryptedStore`, a Core Data incremental store that keeps an application's
objects in an encrypted SQLite file. This directory holds TLA+ modules of the
parts that keep state, TLC configurations that check them on small instances,
and proofs that TLAPS checks for every instance.

Paths below are relative to the repository's root; `ES` is
`T2Crypto/EncryptedStore.m`.

## Inventory

| Component | State it keeps | Operations | Hard behaviour | What makes it correct |
|---|---|---|---|---|
| **Store: saves, identifiers, faults** (ES 207-259, 413-516, 631-658, 1559-2029, 2103-2155, 2452-2465, 3222-3233) | the database file; the connection's transaction; `nodeCache`, `objectIDCache`, `objectCountCache` | obtain identifiers, register / unregister, fault, save, open | a save is many statements under one transaction, and SQLite fails in ways that differ in what happens to that transaction; caches outlive failed saves; crash | a save happens as a whole or not at all; an answer "saved" is durable; the transaction ends; identifiers do not collide; a cached node and its version tell the truth |
| **Store: many-to-many relationships** (ES 1292-1317, 1444-1482, 1712-1742, 1871-1999, 2031-2069, 518-631) | one table of links per relationship, with an order column for each end | write the list of one object, delete the links of one, read a list back | both ends save the same rows, in any order, with positions in each other's lists | what was saved is what the next fetch returns, in its order; no link to a missing object |
| **Store: opening and metadata** (ES 660-936) | metadata table; key of the file, cache size | load or create metadata, create the tables, set and change the passphrase | fresh, old and foreign files; a crash between the steps | an old file is migrated or refused, never half opened |
| **Store: migration** (ES 938-1416) | tables of two model versions | create, rename, copy and drop tables | many statements under one transaction that SQLite may take away; a mapping that fails does not stop the next | every object and link survives; a crash leaves one version or the other; an interrupted migration can be done again |
| **SQLCipher pager and codec** (`localFipsSslFiles/sqlcipher/src/pager.c`, `crypto.c`, `crypto_impl.c`) | pages of the file, rollback journal, page cache, the keys of two cipher contexts | lock, read, write, spill, commit, roll back, recover, rekey | crashes between system calls, writes that were not synced, a journal found by the next process, pages of two keys | a transaction happens as a whole or not at all; pages of one key; the cache says what the file says |
| **Store: fetches and predicates** (ES 261-411, 2157-2450, 2684-3144) | none of its own; it reads rows that saves wrote | predicate to SQL, joins, sort, limit, counts, faults on what was fetched | a clause is text built of text; NULL, subentities in one table, joins that multiply or lose rows | the answer holds the objects the predicate is true of, once each, under their own entity; a count is the number fetched |
| **T2Crypto** (`T2Crypto/T2Crypto.m`) | OpenSSL cipher contexts, one per call | derive a key, encrypt and decrypt buffers and files | unchecked results, lengths summed over calls | decrypting gives back what was encrypted, or an error |
| **FIPS mode** (`T2Crypto/FIPS_iOS_routines.m`) | OpenSSL's mode and self-test flags | turn on, flip, report | first use from any caller; entering twice | FIPS mode means a verified module; no call breaks a module that works |
| **FIPS fingerprint** (`SupplementalFiles/iOSIncoreTools/iOS/incore_macho.c`, `T2Crypto/fips_premain.c`, `fips_assert.c`) | the embedded signature of each slice of a fat file | compute at build time, load at process start | a tool that fails on one slice or leaves it out, a build that is linked again, a slice hashed over the wrong bytes | a slice runs in FIPS mode only with the fingerprint of its own code |
| **SQLitePlugin** (`test/testcordova/.../SQLitePlugin.m`) | table of open databases | open, close, delete, execute | opening sets FIPS mode; statements on a background queue against close | what it reports is true; no statement on a closed handle |
| **Build scripts, vendored code, sample applications** | - | - | - | not this library's logic |

The parts meet in four places. `EncryptedStore` and `SQLitePlugin` issue SQL
through `sqlite3_*`; SQLite turns a commit, an error or a key into calls of the
pager and the codec; the codec encrypts with OpenSSL, which refuses when FIPS
mode is on and its self tests have failed; and FIPS mode can only be entered
with the signature that the build embedded and the constructor loaded. What
`EncryptedStore` and `StoreMigration` take for granted of a COMMIT, a ROLLBACK
and a crash (the committed rows are there, as a whole, and nothing else) is
what `AtomicFile` states and `Pager` is checked against.

Contexts call the store through the persistent store coordinator, which holds
its lock during a call. The store runs everything synchronously on the
caller's thread against its one connection. All that can come between two
statements of a save is therefore SQLite itself (errors, automatic rollback)
and the end of the process; between two *calls* any context may come.

## Modules

| Module | What it is |
|---|---|
| `StoreData` | Rows, changes and save requests, and what one operation makes of one row. |
| `AtomicStore` | What a store promises: a request takes effect as a whole at the moment it is answered "saved", or never. |
| `EncryptedStore` | The save path and the caches, statement by statement. Implements `AtomicStore` with `store <- disk`. |
| `MCEncryptedStore` | TLC instances of `EncryptedStore`. |
| `EncryptedStore_proofs` | Theorems about `EncryptedStore`. |
| `StoreRelations` | Many-to-many relationships in one link table. |
| `MCStoreRelations` | TLC instances of `StoreRelations`. |
| `StoreRelations_proofs` | Theorems about `StoreRelations`. |
| `StoreEntities` | Two trees of entities, a table for each: what saves write, what a fetch joins, what it answers of the rows its condition selects, and what faults read. |
| `StoreFetch` | Fetch requests over these tables: predicates, and the truths of the WHERE clauses that they become. Extends `StoreEntities`. |
| `StoreFetch_proofs` | Theorems about `StoreEntities` and `StoreFetch`. |
| `MCStoreFetch` | Entities and requests for TLC. |
| `StoreMigration` | Opening a store: creating its tables, or moving those of an older model to the new one, and the metadata. |
| `MCStoreMigration` | A model with both kinds of relationship and every kind of mapping, for TLC. |
| `StoreMigration_proofs` | Theorems about `StoreMigration`: its types and its transaction. |
| `StoreMigrationTables_proofs` | Theorems about `StoreMigration`: what it makes of the tables. |
| `AtomicFile` | What a pager promises: a file of pages that changes by whole transactions, of which a crash may take back the last. |
| `Pager` | The rollback journal, the page cache and the two keys of the codec, one action per call to the operating system. Implements `AtomicFile`. |
| `MCPager` | TLC instances of `Pager`. |
| `Pager_proofs` | Theorems about `Pager`: its types and its journal. |
| `PagerContents_proofs` | Theorems about `Pager`: what the pages hold, and the refinement. |
| `FipsModule` | The FIPS object module from the build to the databases opened with it. |
| `MCFipsModule` | TLC instances of `FipsModule`. |
| `FipsModule_proofs` | Theorems about `FipsModule`. |

### EncryptedStore

| In the model | In the code |
|---|---|
| `disk`, `rows`, `inTransaction` | the committed rows, the rows the connection sees, `sqlite3_get_autocommit` |
| `objectIDCache`, `objectCountCache`, `nodeCache` | the instance variables; `objectIDCache` is its entry for the one table |
| `stage`, `request`, `pending`, `failed` | the position inside `performInTransaction:` and the three handlers |
| `ObtainPermanentID` | `obtainPermanentIDsForObjects:error:` and `maximumObjectIDInTable:` |
| `DidRegister`, `DidUnregister` | `managedObjectContextDid(Un)RegisterObjectsWithIDs:` |
| `NewValuesForObject`, `ServeFault` | `newValuesForObjectWithID:withContext:error:` |
| `FaultInSave` | the same call, fired from inside a handler by `[relationshipObject valueForKey:[inverse name]]` (ES 1616, 1791) |
| `localNodeCache`, `LateNodes` | the objects in the copy `localNodeCache`, and those whose nodes were cached after it was made |
| `ExecuteSaveRequest`, `BeginTransaction`, `BeginFails` | `handleSaveChangesRequest:error:` up to `BEGIN EXCLUSIVE` |
| `InsertObject`, `UpdateObject`, `DeleteObject` | one object of each handler, statement and cache together |
| `StatementFails`, `StatementRollsBack` | an error of the statement: alone, or with the whole transaction |
| `Commit`, `Rollback`, `NoTransactionToEnd`, `EndNotPrepared` | the end of `performInTransaction:` |
| `Reopen` | the process dies, or the store is deallocated, and the file is opened again |

Some points a reader may want to argue with:

- `handleSaveChangesRequest:` works on `[nodeCache mutableCopy]`. The copy is
  shallow: both dictionaries hold the same node objects, and handlers change
  nodes in place, so the variable `nodeCache` has the nodes of both,
  `localNodeCache` says which objects the copy has, and a failed save does *not*
  restore the nodes. `spoiled` collects the objects this happens to.
- A save that succeeds replaces `nodeCache` by the copy (ES 1569), and with it
  loses the nodes of the faults its own handlers fired. The object then has
  values in its context that no node stands for: the next save of it finds no
  node to give a version to, and the next fault serves version 1 again, of other
  values than the version 1 served before. `VersionsIdentifyValues` is false
  across such a save (TLC shows it in 18 steps if `served` is kept over it), so
  `served` starts anew when a save drops a node; the property compares the nodes
  before it with each other, and those after it.
- Where BEGIN, COMMIT or ROLLBACK cannot be prepared, the code finalizes a
  NULL statement, which returns `SQLITE_OK`. This is the failure `prepare`.
- `served` and `spoiled` are history: they record what contexts saw, and the
  properties are about them. No guard reads them.
- The failures are constants. `busy`, `statement`, `commit` and `read` end in
  errors the code handles; `autorollback` (`SQLITE_FULL`, `IOERR`, `NOMEM`,
  taken from SQLCipher's `vdbeaux.c`) and `prepare` are those it does not.

### StoreRelations

`links[o][p]` is the position of `p` in the list of `o` as the order column of
their row says, and 0 where there is no row; `disk` is the committed table. A
context creates, relates, reorders and deletes objects, keeping both ends in
step the way Core Data does with inverse relationships (external to the
repository), and saves. `HandleInserted` and `HandleUpdated` are
`handleUpdatedRelationInSaveRequest:` for one object, `WriteList` its loop,
`NextOrder` the position it takes in the partner's list, `Prune` its closing
DELETE; `HandleDeleted` is `handleDeletedRelationInSaveRequest:`, and
`ReadLists` the query of `newValueForRelationship:`. `misread` remembers where
a failing `SELECT COUNT` let the code skip a row; only the order is lost there.
The statements of one object are one step: nothing but a failure can come
between them, and that is `SaveListFails`. One context, the only writer, is
modelled: with a second one, Core Data's conflict detection would decide what
a list should be, not this code.

### StoreMigration

| In the model | In the code |
|---|---|
| `disk`, `view`, `inTransaction` | the committed file, the file as the connection sees it, the transaction |
| `step`, `mapping`, `success` | the next statement of `loadMetadata:`, the entity mapping it belongs to, what the block returns so far |
| `Open`, `BeginTransaction`, `Commit`, `LoadFails` | `performInTransaction:` around `loadMetadata:`, and the store the coordinator gets or does not get |
| `LoadMetadata` | `hasMetadataTable:`, the CREATE of the table, the SELECT of the metadata, and what they decide (create, migrate, accept) |
| `CreateTable`, `CreateLinks` | `initializeDatabase:` |
| `NextMapping`, `AddTable`, `RemoveTable` | the loop of `migrateFromModel:`, `createTableForEntity:`, `dropTableForEntity:` |
| `RenameTable`, `CreateNewTable`, `CopyRows`, `DropTable` | `alterTableForSourceEntity:` |
| `LinksExist`, `LinksUnread`, `RenameLinks` ... `DropLinks` | `alterRelationshipForSourceEntity:` |
| `DeleteMetadata`, `InsertMetadata` | `saveMetadata` |

- A statement succeeds, fails alone, or fails and takes the transaction with it
  (`Statement`); after that the connection is in autocommit mode and every
  statement is durable by itself. `rolledBack`, `unread` and `initial` are
  history: they say which runs the properties speak of, and no guard reads them.
- `CopyRows` copies attributes and relationships and not `__objectid`, so the new
  table numbers its rows anew, in the order SQLite scans the old one. The rows
  of other tables and the links that refer to it are copied as they are.
  `RelationsSurvive` therefore speaks only of stores where no identifier was
  missing (`Dense`). With a gap the related objects change: take the conjunct
  `Dense(initial)` away and TLC shows it.
- The entities are root entities. Child entities share their root's table, and
  what migration makes of them is a TODO of the code (ES 1217-1223). Indexes
  and the NULL error pointer of `createTableForEntity:` are left out.
- The passphrase and the cache size are set before this transaction; what a
  wrong passphrase does to the file is `WrongKeyChangesNothing` of `Pager`.

### Pager and AtomicFile

| In the model | In the code |
|---|---|
| `db`, `jrnl` | the database file and the journal, as a process reads them through the operating system |
| `dbMaybe`, `jrnlMaybe` | what each page, and the journal, may be after the device has died |
| `eState`, `errCode` | `Pager.eState`, `Pager.errCode` |
| `cache`, `dirty` | the page cache: decrypted pages, and those that differ from the file |
| `journalHdr`, `counted` | `Pager.journalHdr` (in segments), `Pager.changeCountDone` |
| `readKey`, `writeKey` | the two cipher contexts of `codec_ctx` |
| `call`, `step` | the call in progress and the next system call of it |
| `SharedLock`, `Unlock`, `AcquirePage`, `RecyclePage`, `Begin`, `WritePage` | `sqlite3PagerSharedLock`, `pager_unlock`, `sqlite3PagerAcquire`, the reuse of a clean page, `sqlite3PagerBegin`, `pager_write` |
| `Commit`, `IncrChangeCounter`, `SyncRecords`, `SyncHeader`, `WritePagelist`, `SyncDb`, `Finalize` | `sqlite3PagerCommitPhaseOne` and `Two`: change counter, `syncJournal`, `pager_write_pagelist`, `pager_end_transaction` |
| `Spill`, `WriteSpilled` | `pagerStress` |
| `RequestRollback`, `Rollback`, `SyncHotJournal`, `Playback` | `sqlite3PagerRollback`, `pager_playback` of one's own or of a hot journal |
| `Rekey`, `RekeyRefused` | `sqlite3_rekey_v2`, which writes every page in one transaction |
| `CommitFails`, `FinalizeFails`, `SpillFails`, `WriteFails`, `RollbackFails`, `RecoveryFails` | an error of the operating system in each of these |
| `Crash` | the device dies: every page and the journal are one of what they may be |

- A page image is the key it is encrypted with and a version; `Decrypt` is the
  HMAC check of `sqlite3Codec`, and a page that fails it is served as zeros and
  sets the error the next call returns.
- The journal is a sequence of segments. A segment's header has no magic and no
  count until `SyncHeader` writes both; the count lies in one sector, which is
  assumed to be written as a whole. The checksum of a record reads one byte of
  200, so a torn record may pass it, and does in the model.
- Removing the journal is not synced (`Finalize`), so a crash may bring a hot
  journal back and with it the file before the last commit. `AtomicFile` says
  exactly that (`older`), and no more.
- A failing call inside a rekey is a constant, `RekeyFaults`, because of finding
  4: after it the pages of one file may be under two keys.  A page
  write that fails is rolled back, but its page stays referenced and the new
  key stays in the write context, so that the next transaction encrypts with a
  key the file does not have. `leaked` keeps the pager from ever unlocking
  after that, as the code's reference count does.

### FipsModule

| In the model | In the code |
|---|---|
| `code`, `embedded` | the build that linked the file; `FINGERPRINT_ascii_value` of each slice |
| `Slices`, `LeftOut` | the slices of the fat file that `load_file` lists, in the order of its list, and those it leaves out |
| `phase`, `visited` | the result of `make_fingerprint` and the slices it has been through |
| `lost` | history: slices whose `msync` failed since the link and whose fingerprint is not in the file; no guard reads it |
| `running`, `loaded`, `signature` | the slice the process runs, the build it runs, `FIPS_signature` |
| `mode`, `selftestFail` | `FIPS_mode()` and the flag behind `FIPS_selftest_failed()` |
| `openDBs`, `filled`, `status` | the plugin's table, the files that hold pages, `FIPSStatus` of the last answer to open |
| `Build`, `EmbedFingerprint`, `LoadFails`, `FingerprintSlice`, `FingerprintUnsynced`, `FingerprintFails`, `VerifyOnly` | the link; `make_fingerprint` and `fingerprint` of `incore_macho.c` |
| `Launch` | `FINGERPRINT_premain` |
| `EnterFIPSMode`, `LeaveFIPSMode`, `Refuses` | `FIPS_mode_set` and the check of the ciphers in OpenSSL's module (external, as these files use it) |
| `FIPS_turnOn`, `FIPS_flip` | `FIPS_iOS_routines.m` |
| `OpenDatabase` ... `ExecuteSql` | the commands of `SQLitePlugin.m` |

A fingerprint is the build it was computed from; a `cpu_adjustment` that is
wrong for an architecture (`Misadjusted`) gives one that matches no build.
"Fingerprint Stored" and the result 0 do not mean that every slice has one:
`load_file` (680-684) silently leaves out a slice that `load_architecture` refuses
(`LeftOut`), and `fingerprint` reports a failing `msync` (961) and counts the slice
as stored (`FingerprintUnsynced`). `ListedSlicesFingerprinted` therefore speaks of
the listed slices and excepts the lost ones. `SignatureIsOwn` has no exception:
the constructor ends a slice without a fingerprint, so whatever the tool missed, a
process that goes on has the signature of its own slice and build. `LoadFails` is
every way `make_fingerprint` ends before it comes to a slice.
`doc/FingerprintCheckDescription.txt` (15-19, 57, 125) says that the constructor
aborts when the fingerprint does not match. The code ends the process only when
there is none (the placeholder); the comparison is behind
`DEBUG_FINGERPRINT_PREMAIN` and an environment variable (`fips_premain.c`
159-168), and `Launch` does what release builds do. `FIPS_mode_set` compares, so
`ModeIsVerified` holds all the same. `FIPS_turnOn` and `FIPS_flip` are one step each:
two threads that both ask `FIPS_mode()` before either of them sets it are not modelled.

**`StoreEntities` and `StoreFetch`.** The two variables are the saved objects as contexts
know them and the rows of the two tables; saves (`Insert`, `Update`, `Delete`) change both.
Everything a fetch computes is an operator on a request and the rows, and the
invariants compare it, in every content of the tables, with what the request says
of the objects. `StoreEntities` leaves the condition of a fetch open: an answer is an
answer to any set of joined rows of the right type (`Selections`). `StoreFetch` adds the
predicates and says which rows they select; `SelectionsAreRestricted` is the link
between the two. `StoreEntities` states the hierarchy of entities without recursion
(`EntityIds` is the least set that is closed under subentities, `Root` the base entity
above); `HierarchyIsComputed` says that the recursions of the code (`rootForEntity:`,
`entityIdsForEntity:`) compute the same. It is a theorem (`Hierarchy`), and TLC evaluates
it on the model of `MCStoreFetch` as an assumption.

A predicate is a tree, and the code walks it recursively. The model does with
recursive functions over `Predicates`, the predicates of the requests with all they are
put together of; `Height` says that each is less deep than what it is part of, which
makes every tree finite (`MCStoreFetch` computes both from the requests). `Terms` is the
text of one predicate from those of its parts, by the truth of each of its terms for one
joined row, and `WhereClause` puts the restriction in front of each.

| Definition | Code |
|---|---|
| `WhereClause`, `Terms`, `EntityWhere`, `NotInFrontOf` | `recursiveWhereClauseWithFetchRequest:`: the text as the terms it joins by AND |
| `Operand`, `CompareColumn`, `CountedItems` | `parseExpression:` and the operators; NULL by IS |
| `Joins`, `JoinedRows`, `OuterJoin`, `ReturnsDistinctResults` | `getJoinClause:` and `maybeAddJoinStatementsForKey:` |
| `TypesFetched`, `IsOfType` | the restriction of `__entityType` in `recursiveWhereClauseWithFetchRequest:` |
| `Selected`, `Answer`, `CountAnswer` | `executeRequest:withContext:error:` |
| `EntityTypeWritten`, `EntityToFetch`, `ResolvedEntity` | `__entityType` when inserting and when fetching |
| `NewValues`, `OwnerEntityRead`, `NewItems` | `newValuesForObjectWithID:`, `valueForProperty:`, the one-to-many branch of `newValueForRelationship:` |

What a fetch should find is `Matches`, in which nil is a value like any other. The
translation is not right for every request, and two conditions say for which it
is: `IsExact` (nothing else is found) and `IsExhaustive` (everything is found).
Each of their conjuncts is needed, as are the exceptions of the other
properties: without any one of them TLC finds a request and tables that violate
the property. Left out are, with the code that makes the difference:

- a root entity fetched without its subentities: no restriction (ES 2815);
- NOT on an entity with a superentity: it finds nothing, because it negates the
  restriction in front of the predicate's text (ES 2740, 2827);
- `!=` and NOT on columns that are NULL: SQL's NULL is not true;
- ANY under NOT, ANY compared with nil, two ANY joined by AND: all are decided
  for one joined row at a time (ES 2388);
- `@count` of a relationship to a subentity: its own subentities are not
  counted (ES 3034);
- the entity of objects in DISTINCT answers (ES 283) and counts over joins (ES 386);
- the fault of an object without an owner, where owners have subentities: the
  INNER JOIN finds no row (ES 461).

## Runs

| Run | Instance | What it shows |
|---|---|---|
| `save_atomic` | 2 identifiers, 1 column, 2 contexts; `busy`, `statement`, `commit` (580,918 states) | types; allocated identifiers have no row; transactions end; refinement of `AtomicStore`; "saved" means durable; cached nodes follow rows; a version never names two contents |
| `saves` | 2 identifiers, all failures, weak fairness (146,594) | every save is answered |
| `relations` | 1 object against 2, all failures (108,099) | lists read back, in order, and no dangling link |
| `migration` | 2 entities transformed, one copied, one added and one removed, both kinds of relationship; 2 failing statements, 1 crash, weak fairness (939,575) | metadata and tables agree; related objects stay related; the file moves to the new model as a whole; an interrupted migration can be done again |
| `pager` | 2 pages, 2 keys, 2 transactions, 2 failing calls, 2 crashes (90,508) | refinement of `AtomicFile`; no file under two keys; coherent cache; journal before file; a wrong key writes nothing; the key in use is the key of the file |
| `fips` | 3 slices, one adjusted wrongly, and one left out, 2 builds, 2 starts, 2 databases (384,378) | a build phase that ends well has stored what it listed and did not lose; a process has the signature of its own slice; FIPS mode means verified code; the status told is true; the routines break nothing |
| `fetch` | 2 trees of 3 and 2 entities, 2 items and 2 owners, 1 value and NULL, 217 requests (2,476) | what a fetch finds is what its predicate says; whatever a condition selects is answered once each, under its own entity, and counts agree; faults read what was saved |
| `block_outside_transaction` | finds a violation | a block goes on in autocommit mode after an automatic rollback |
| `rest_deleted` | finds a violation | emptying a relationship at both ends never deletes its rows |
| `self_relation` | finds a violation | a relationship within one root entity is not stored |
| `rekey_commit` | finds a violation | a rekey whose commit fails changes the key of the connection |
| `second_open` | finds a violation | opening a second database makes the FIPS module refuse to work |

**Bounds.** *Saves*: two identifiers give two objects of one request in each pair of
handlers, a retry that meets another object's row, and a maximum that is not
the only row; two registrations an object that one context lets go while
another holds it; versions up to 2 a served node and a failed or successful
update of it. `MaxVersion` is a guard of the requests, `MaxRegistrations` of
registering. `saves` has one column value, because what a save answers does not
depend on values. Automatic rollback, failing reads and more columns are covered
for every size by the theorems below.
*Relations*: `MaxPosition` is a guard of the statements that write positions,
which otherwise grow by one with every failed read. One object against two has
what the hazards need: two saves that write rows of one list, in either order.
*Migration*: `MaxId` above the number of objects gives identifiers with gaps;
two failures give a mapping that fails, one that goes on, and a failing end.
*Pager*: two transactions show what one leaves behind for the next, and a hot
journal of the first beside a write of the second; two failures a failing
rollback of a failed commit; two crashes one during the recovery of the other.
With two pages no page can be spilled in the middle of a rekey while another one
has not been journaled. Three pages with one transaction, one failure and one
crash show that case, and pass too (set `NPages = 3` and the three bounds to 1;
94,628 states).
*Fetches*: two items of one owner are what a join multiplies and what two ANY
comparisons can be true of separately; two owners tell an owner from another
one; every comparison is against the one value and against NULL. What `StoreEntities` says is checked for every subset of the joined
rows of every entity and every set of joins. The trees have
a root, an entity with a sub- and a superentity, and one with only a
superentity, which the code treats in three ways.
*FIPS*: three slices have one before and one after the slice the tool fails on or
loses, and the fourth is never in its list;
two builds a relink after a finished and after a failed build phase.
`ValueSymmetry`, `KeySymmetry` and `ItemSymmetry` are sound because nothing tells
two values, keys or items apart by anything but identity, and none of these runs
has liveness properties. No run turns the deadlock check off: every system can be opened,
built or started again.

**Fairness.** `FairSpec` of `EncryptedStore` assumes `WF_vars(SaveStep)` and
nothing else. The code of a save has no wait in it: `executeRequest:` runs to
its end on the thread that called it. `FairSpec` of `StoreMigration` assumes
`WF_vars(LoadStep)`: `loadMetadata:` runs to its end in the same way, and the
application opens the store again when it starts again. Nothing is assumed of
the contexts. A crash is never forced and never excluded; in `migration` their
number is bounded, as is that of the failures, for without a bound every
migration could be interrupted for ever.

## Findings

1. **ES 1563**: after an error that makes SQLite roll back, the update and
   delete handlers still run, each statement durable at once
   (`block_outside_transaction`).
2. **ES 1875**: the early return for an empty list skips "delete the rest of
   the relations" (`rest_deleted`).
3. **ES 1462**: `firstOrderColumn` is assigned twice, `secondOrderColumn`
   never (`self_relation`).
4. **`sqlcipher/src/crypto.c` 455**: `sqlite3_rekey_v2` copies the new key to the read
   context whatever the commit returned, and returns `SQLITE_OK`
   (`rekey_commit`).
5. **`SQLitePlugin.m` 206**: `FIPS_mode_set(1)` is called at every open and its
   failure ignored; the second call fails and leaves the module refusing every
   cipher (`second_open`).

What else the models show, where nothing in the repository says otherwise: a
COMMIT that cannot be prepared counts as success and leaves the transaction open
(ES 2117; give `Failures` `"prepare"` in `save_atomic.cfg`), and the exceptions of
`IsExact`, `IsExhaustive`, `EntitiesAreOwn`, `CountIsNumberFetched` and
`FaultsReadBack` above.

One sentence of the documentation is wrong and has no run of its own: "For each
architecture call fingerprint() to add the fingerprint"
(`doc/FingerprintCheckDescription.txt` 70). `incore_macho.c` leaves out the slices
`load_file` skips (680-684) and ignores a failing `msync` (961). With `Archs` for
`Range(Slices)` in `ListedSlicesFingerprinted`, or without its `lost`, TLC finds a
build phase that ends well and a slice without a fingerprint (`fips.cfg`).

## Proofs

`EncryptedStore_proofs` proves, for every number of objects, columns, values,
registrations and versions:

| Theorem | Says | Assumes |
|---|---|---|
| `TypeCorrect` | `TypeOK` | - |
| `VersionsAgree` | `VersionsIdentifyValues` | - |
| `TransactionsEnd` | `TransactionEnded` | no `prepare` |
| `SavedMeansDurable` | `SavedIsDurable` | no `prepare` |
| `Atomicity` | `ImplementsAtomicStore` | neither `prepare` nor `autorollback` |
| `CacheFollowsRows` | `CacheCoherent` | no `prepare` |
| `IdentifiersAreFree` | `AllocatedIdsAreFree` | neither `prepare` nor `read` |

None of these failures can be dropped from the assumptions: with any one of
them TLC finds a counterexample to the theorem's property on two objects with
one column (give `Failures` that one kind in `save_atomic.cfg`). What leads to the
one against `Atomicity` is a run, `block_outside_transaction`. The arguments:

- `VersionsIdentifyValues` is not inductive: nothing in it relates a served
  node to the cached one. `ServedInv` does (the cached node is never behind
  one that was served, and agrees with those of its version), and an update
  that raises the version then cannot meet a served one. That a node reached
  through the save's copy is cached, and that the copy has the node of every
  object the save updates, is `CopyInv`, proved together with `TypeOK`.
- `SavedIsDurable` and `TransactionEnded` rest on `SaveInv`: a request is
  pending exactly while a save runs (`RequestInv`); a block loses its
  transaction only to a failure, and then the connection sees the committed
  rows (`TransactionInv`); and while nothing failed the connection sees the
  committed rows with the statements that ran applied to them (`BlockInv`).
  At the COMMIT no statement is pending, so `BlockInv` says what is committed.
- `Atomicity` adds that without automatic rollback the block always has its
  transaction, so that only `Commit` changes `disk`.
- `CacheCoherent` needs `NodeInv`, which speaks of the rows a running save has
  already written, `SplitInv` (a save updates no object it inserts) and
  `ViewInv` (where the connection's rows may differ from the committed ones).
- `AllocatedIdsAreFree` needs `IdsInv` (no row lies beyond the last identifier
  handed out) and, to hold when SQLite rolls back on its own, `InsertInv`: a
  block without its transaction has no insert left to run, because the handler
  whose statement failed has stopped.

`FipsModule_proofs` proves `TypeCorrect`, `ListedSlicesComplete`
(`ListedSlicesFingerprinted`), `SignatureOwn` (`SignatureIsOwn`), `ModeVerified`
(`ModeIsVerified`), `StatusTrue` (`StatusIsTrue`) and `RoutinesHarmless`
(`RoutinesKeepModuleWorking`) for every list of slices, the empty one included, any
slices left out, and every number of builds and starts, from `FipsAssumption`
alone. The invariant is `TypeOK` with `EmbeddedInv`, `VisitInv` and `ProcessInv`.
`VisitInv` is the one that is needed and not obvious: the tool stops at the
first slice it fails on, so before a slice with a fingerprint come only slices it
is done with (`Done`: they have one, or `msync` lost it), over all its runs on one
build; that is why looking at the last listed slice alone (`VerifyOnly`) is enough.
`SignatureOwn` needs `EmbeddedInv`, that a slice has no fingerprint but one of this
build.

`Pager_proofs` proves, for every number of pages, keys, transactions, failures
and crashes, `TypeCorrect` (`TypeOK`) without any assumption and `WrittenAhead`
(`WriteAhead`) if no call fails inside a rekey. A rekey whose commit
fails leaves the transaction open in the middle of a commit (finding 4), at a
point the journal invariants do not describe.

- `TypeOK` is already more than types: a page that goes into the journal or the
  file must be readable. It needs `ControlInv` (which step of which call can
  meet which state of the pager) and `PageInv` (dirty pages are readable, and
  so is page 1 while a transaction can write).
- `WriteAhead` speaks of all journals a crash may leave. `JournalInv` says what
  these have in common: the segments up to `journalHdr` are in all of them,
  with their counts filled in. `GrowthInv` says that every dirty page is journaled and
  where each call is in moving `journalHdr` over the last segment. A page is
  written only after that.

`PagerContents_proofs` proves the rest of what `Pager` states, for every number of
pages, keys, transactions, failures and crashes, if no call fails inside a rekey:
`TransactionsAreAtomic` (`ImplementsAtomicFile`), `CrashLeavesOneKey`
(`OneKeyAfterCrash`), `CacheShowsFile` (`CacheCoherent`), `WrongKeyIsHarmless`
(`WrongKeyChangesNothing`) and `KeyFollowsFile` (`KeyFollowsCommit`). The assumption
cannot be dropped: finding 4 is a rekey that fails and breaks them.

The invariants of `Pager_proofs` say which pages have their originals in the
journal; `Contents` says what these are.

- `FileInv`: the journal takes the file back to `content`, and each journal a crash may
  leave takes it back to `content` or to one `older` file, both under one key. This is
  `AtomicFile` in terms of images, and most steps keep it for one of three reasons:
  the files are the same, only pages are written that every journal puts back
  (`WrittenContent`), or every journal left takes the file back to `content` (`SettledContent`).
- `OriginalsInv`: the records of a transaction, counted or not, are pages of `content`, and
  only pages with synced records differ from it. The journal of the transaction before,
  which the directory may still show (its removal is not synced), forces the
  distinction: `older` lives until the first sync of the next journal.
- `KeyInv` and `WrittenInv`: a transaction runs only under the key of the file, and in a
  rekey, which writes the pages in order, a page of the file is under the new key
  exactly if it is journaled and was written. At the commit all of them are.
- `CacheInv`: a cached page that is not about to be written is the page of the file. In
  a rekey it holds for the key of the page, which may be either.

`StepFile` then says what each step is to `AtomicFile`: a page written, a commit
(`Finalize`), a rollback, the point from which a crash can no longer take the commit
back (the sync of the next journal), a crash, or nothing. TLC checked `Contents` with
2 pages and 2 keys, on the bounds of the run `pager`.

`StoreRelations_proofs` proves, for every number of objects at either end and
every kind of failure:

| Theorem | Says | Assumes |
|---|---|---|
| `TypeCorrect` | `TypeOK` | - |
| `LinksLeadToRows` | `NoDanglingLinks` | - |
| `ListsReadBack` | `RelatedObjectsReadBack` | two root entities |
| `OrderIsKept` | `OrderReadsBack` | two root entities |

With one root entity at both ends the code stores no link (finding 3), so that
the last two would be false; the run `self_relation` shows it. The properties
speak of the committed table only, and a save rewrites it object by object; what
carries them is `IInv`, whose parts are

- `Committed`: the committed links of an object are its saved list (`InStep`),
  in its order (`InOrder`), and no two of them have one position (`Distinct`);
- `Handling`: while a save runs and nothing has failed, the same of every object
  the save is done with, for its list in the context. This is where the two ends
  meet: `WriteList` for one object inserts rows into the lists of its partners,
  whose positions must come after those they have (`NextOrder`), and `Prune`
  removes rows from them, which must be rows the partner's list has dropped as
  well. Nothing is said of an object whose list is still to be written, for its
  rows are about to be written anew; one whose deletion was handled has no link
  left; and of those whose rows went uncounted (`misread`) the order is left out;
- `Idle`, that between saves the connection sees the committed table, and `Shape`,
  the types with what Core Data guarantees of lists (both ends agree).

TLC checked `IInv` before it was proved. `Distinct` is the clause one would not
think of: without it, a row that is inserted with `NextOrder` could be at the
position of another one.

`StoreMigration_proofs` proves, for every mapping model and every old file that
`MigrationAssumption` allows and for any number of failures and crashes,
`TypeCorrect` (`TypeOK`) and `Atomicity` (`MigrationIsAtomic`).

- `TypeOK` needs that the tables of entities hold finitely many rows (`RowFile`;
  their number is the identifier a copied row gets) and that a statement of a
  mapping has a mapping of its kind (`StepInv`).
- `MigrationIsAtomic` rests on `AtomInv`: until SQLite takes it away the block has its
  transaction, the file is the old one or the result of a migration, nothing
  is written once it is the latter, and the block succeeds only with the new
  metadata. One lemma, `StatementAtom`, serves all statements.

`StoreMigrationTables_proofs` proves `TablesMatch` (`MetadataMatchesTables`) and
`RelationsKept` (`RelationsSurvive`), also for files that SQLite's rollbacks left
half migrated, under one more assumption on the mapping model, `NoNameReused`: an
entity of the new model has the name of an old one only if it is what becomes of
that one. It cannot be dropped. If A becomes B while the old B is removed, and
renaming A's table fails with a rollback, the removal of the old B commits on its
own; the next attempt finds A's table as it was, creates the new B, and the
removal, which comes after it in the mapping model, drops that: the migration
succeeds without the objects of A (TLC finds it with these mappings in
`MCEntityMappings`). The invariant, `ContentInv`:

- `Kept` says of each mapping, whatever failed, that the objects of its old entity
  are in the old table, in the one under the `_T_` name, or in neither because the
  mapping is in between; `Done` says that the mapping has done its work.
- `MigrateInv`: `Kept` always; `Done` for the mappings passed, while nothing failed;
  and where the mapping at hand (`Altering`) and the table of links
  (`AlteringLinks`) are at each step. The links are the new ones as soon as one
  end's mapping is through.
- `DiskInv`: the committed file is empty, an old one with `Kept`, or `Migrated`;
  `BlockInv`: a block that may still succeed has its transaction.

Two facts do the work: the mappings have disjoint tables (`NamesApart`, from
`NoNameReused`), so that `Kept` and `Done` of one survive the statements of all
others, and numbering rows anew keeps the objects (`RenumberedObjects`) and, if
the identifiers had no gaps, the rows (`DenseIsKept`, by a bijection to an
interval). TLC checked `ContentInv` on three mapping models, with the two ends
in either order, in one entity, and with the table of links renamed or not.

`StoreFetch_proofs` proves, for any two trees of entities, whatever their shape and
wherever in them the relationship is, any number of objects, and any condition of
a fetch, which may be any predicate where the theorem is about `StoreFetch`:

| Theorem | Says | Needs |
|---|---|---|
| `TypeCorrect` | `TypeOK` | inductive as it stands |
| `FaultsRead` | `FaultsReadBack` | `TypeOK` |
| `EntitiesOwn` | `EntitiesAreOwn` | `TypeOK` |
| `ListedOnce` | `ObjectsAreListedOnce` | nothing of the state |
| `CountsAgree` | `CountIsNumberFetched` | nothing of the state |
| `Hierarchy` | `HierarchyIsComputed` | nothing of the state |
| `RestrictedSelections` | `SelectionsAreRestricted` | nothing of the state |
| `OnlyMatches` | `FetchesOnlyMatches` | `TypeOK` |
| `AllMatches` | `FetchesAllMatches` | `TypeOK` |

`ModelAssumption` is what Core Data guarantees of a model: it has finitely many entities,
superentities lead to one without any, and (the model's restriction) the relationship
leads from one tree to another. `FetchAssumption` is what it guarantees of a request:
its predicate is a finite tree over comparisons with properties of its entity.

- `TypeOK` says that the tables hold the objects and that no owner dangles. A deletion
  keeps it because only objects of the tree of `Source` have owners, which is a fact of
  the hierarchy (`RelatedTrees`): an entity is below one base entity only
  (`OneBaseEntity`, from the leastness of `EntityIds`).
- `EntitiesOwn` and `FaultsRead` turn on the rows that have no `__entityType`, which are
  resolved to the entity that was asked for. `TypeResolves` says that this is the
  object's own, for every entity below; for a base entity, which no condition
  restricts, all objects of its tree are below it, and for one with a superentity the
  restriction keeps the rows without a type out.
- `ListedOnce` and `CountsAgree` count joined rows: without a to-many join each row of the
  table is joined once (`JoinedOnce`), so that joined rows and objects found are one for one.
- Predicates are trees of any depth, and the library's induction theorems, which take the
  induction hypothesis as an operator, cannot be applied by the provers. Both are stated
  over sets instead, from the fact that a set of numbers has a least one (`LeastNumber`, by
  the library's `WFMin`): `TreeInduction` says that a set of predicates that has every
  predicate whose parts it has is the whole, and `TreeRecursion` that what is
  computed from the parts has a value for all (a largest solution exists, since all
  solutions agree, and it leaves nothing out). `HoldsEqual` and `ClauseEqual` take what
  `Holds` and `WhereClause` are from it.
- Every clause is the restriction followed by one term (`OneTerm`), so that of a row of the
  entity the restriction drops out under AND and OR (`AndOne`, `AndTwo`, `OrTwo`), and
  under NOT if there is none. `RestrictedSelections` is the other half: for any other row the
  whole clause starts with the restriction, which is false, and AND joins the rest to it.
- `OnlyMatches` and `AllMatches` are then structural inductions over terms. NOT turns
  one into the other, so each hypothesis speaks of both truths: a term of an exact request
  is true only where the predicate is and, if NOT occurs in a request for a root entity,
  false only where it is not (`TermIsExact`; with a restriction NOT is never true);
  `TermIsExhaustive` is the converse. The hypotheses differ in what a joined
  row stands for: of an exact request every row that is true must be right, of an
  exhaustive one some row of the object is, the one with the item that its ANY comparison
  is true of (`HasWitness`), and `WitnessIsJoined` finds that row, with NULL in
  place of an item that is not there.
- `Hierarchy` needs finitely many entities: the recursion down is only determined where it
  ends. An entity is not below its subentities (`NoCycle`), so the sets get smaller, and
  one of the smallest that the code could get wrong is computed from right ones.

**Only model-checked:** liveness (`SavesAreAnswered`, `MigrationCompletes`),
which is out of the prover's reach. Every other property of a passing run is also a
theorem.

## What is not modelled

- Errors as values: a save is answered "saved" or "failed". That line 1572
  reports the error of the ROLLBACK instead of the statement's is not visible.
- To-one relationships are columns of a row in `StoreData`; the join that reads
  them is in `StoreFetch`, their order columns are not modelled.
- Several root entities in a save: each has a table of its own, and only the
  transaction is shared. Migration does model several.
- Of fetches: many-to-many paths and paths of more than one relationship,
  `LIKE`, `IN`, ranges, `SUM`, `length`, dictionary results, sort order and
  limits. A path that ends in a relationship after another one (`owner.owner`)
  is translated to a column of the table before (ES 3063-3069), and a
  relationship to an entity of the same tree makes the columns of a fault's query
  ambiguous (ES 461); both would need paths as sequences. `T2Crypto`: no
  state outlives a call; its hazards are lengths and results of single calls.
- The pager's other modes (WAL, `PERSIST`, `TRUNCATE`, `MEMORY`), savepoints,
  statement journals, files that grow or shrink, other connections: the store
  opens one connection and changes neither the journal mode nor `synchronous`.
- The plugin's background queue: a statement that runs while another thread
  closes its handle uses freed memory, and what that does is not a behaviour a
  model can state. The hazard is listed.
- The rest of SQLCipher (parser, code generator, virtual machine, b-tree) is what
  the models take the failure kinds from, and is not modelled itself. It is
  nearly all of the repository by size: the lines that can be counted as
  implementation are C files of the vendored SQLCipher and of its generated
  copies (`sqlite3.c`, `tsrc/`), while the library itself is Objective-C. That
  is why the models map a small share of the repository's lines and most of
  `T2Crypto/EncryptedStore.m`.

## Plan

Done: `StoreData`, `AtomicStore`, `EncryptedStore` and its proofs;
`StoreRelations` and its proofs; `StoreEntities`, `StoreFetch` and their proofs;
`StoreMigration` and its proofs;
`AtomicFile`, `Pager` and its proofs; `FipsModule` and its proofs.

1. `StoreEntities` and `StoreFetch` with paths as sequences: two relationships deep, many-to-many.
2. Two connections to one file, as an extension of `EncryptedStore`.
