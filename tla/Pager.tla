-------------------------------- MODULE Pager --------------------------------
(***************************************************************************)
(* The pager and the codec under the store: SQLCipher's pager.c, crypto.c  *)
(* and crypto_impl.c, for one connection in journal_mode=DELETE and        *)
(* synchronous=FULL, the modes the store leaves in force.                  *)
(*                                                                         *)
(* A write reaches the disk at the next sync of its file and, until then,  *)
(* a crash keeps it, drops it or leaves it garbled; the creation and the   *)
(* removal of the journal reach the disk at the next sync of the journal.  *)
(* Every call to the operating system may fail.  The file keeps its size,  *)
(* and savepoints and other connections are left out.                      *)
(***************************************************************************)
EXTENDS Integers, Sequences, Functions

CONSTANTS
  NPages,          \* pages of the database file
  Keys,            \* keys that passphrases derive to
  NoKey,           \* no database is open
  NoPage,          \* the page is not in the cache
  Zeroed,          \* a page that failed its HMAC, wiped by the codec
  Torn,            \* a page whose last write a crash left incomplete
  MaxTransactions, \* bound on the write transactions begun
  MaxFaults,       \* bound on the calls to the operating system that fail
  MaxCrashes,      \* bound on the crashes
  RekeyFaults      \* whether a call may fail while the database is rekeyed

Pages == 1 .. NPages
Versions == 0 .. MaxTransactions

\* A page image: plaintext, and the key it is encrypted with.
Image == [key : Keys, val : Versions]
Stored == Image \cup {Torn}

ASSUME PagerAssumption ==
  /\ NPages \in Nat \ {0}
  /\ Keys # {}
  /\ NoKey \notin Keys
  /\ NoPage \notin Versions
  /\ Zeroed \notin Versions
  /\ Torn \notin Image
  /\ MaxTransactions \in Nat
  /\ MaxFaults \in Nat
  /\ MaxCrashes \in Nat
  /\ RekeyFaults \in BOOLEAN

\* A journal is a sequence of segments, a header and its records.  A header
\* counts no record until syncJournal fills it in, and has no magic until then.
Record == [page : Pages, image : Stored]
Segment == [nRec : Nat, records : Seq(Record)]
Journal == Seq(Segment)
NoJournal == <<>>

VARIABLES
  \* The files.
  db,           \* the pages of the database file
  dbMaybe,      \* what a crash may leave of each page
  jrnl,         \* the journal file
  jrnlMaybe,    \* what a crash may leave of the journal file
  \* The pager.
  eState,       \* PagerStates
  errCode,      \* an error is set: every call that reads or writes returns it
  cache,        \* the page cache, decrypted
  dirty,        \* cached pages that differ from the file
  journalHdr,   \* leading segments of the journal known to be synced
  counted,      \* changeCountDone
  \* The codec.
  readKey,      \* key of the read context; NoKey: no database open
  writeKey,     \* key of the write context
  \* The call in progress.
  call,         \* "none", or the Calls
  step,         \* where it is
  spilled,      \* the page being spilled; 0: none
  rekeying,     \* sqlite3_rekey_v2 is running
  leaked,       \* a page reference was never released
  \* Bounds.
  transactions, faults, crashes

fileVars == <<db, dbMaybe, jrnl, jrnlMaybe>>
pagerVars == <<eState, errCode, cache, dirty, journalHdr, counted>>
keyVars == <<readKey, writeKey>>
callVars == <<call, step, spilled, rekeying, leaked>>
boundVars == <<transactions, faults, crashes>>
vars == <<fileVars, pagerVars, keyVars, callVars, boundVars>>

PagerStates == {"OPEN", "READER", "WRITER_LOCKED", "WRITER_CACHEMOD",
                "WRITER_DBMOD", "WRITER_FINISHED", "ERROR"}
Modified == {"WRITER_CACHEMOD", "WRITER_DBMOD"}
Writing == {"WRITER_LOCKED"} \cup Modified
Calls == {"commit", "rollback", "spill", "recover"}
Steps == {"start", "sync", "header", "pages", "db", "finalize"}

TypeOK ==
  /\ db \in [Pages -> Stored]
  /\ dbMaybe \in [Pages -> SUBSET Stored]
  /\ jrnl \in Journal
  /\ jrnlMaybe \subseteq Journal
  /\ eState \in PagerStates
  /\ errCode \in BOOLEAN
  /\ cache \in [Pages -> Versions \cup {NoPage, Zeroed}]
  /\ dirty \subseteq Pages
  /\ journalHdr \in Nat
  /\ counted \in BOOLEAN
  /\ readKey \in Keys \cup {NoKey}
  /\ writeKey \in Keys \cup {NoKey}
  /\ call \in Calls \cup {"none"}
  /\ step \in Steps
  /\ spilled \in Pages \cup {0}
  /\ rekeying \in BOOLEAN
  /\ leaked \in BOOLEAN
  /\ transactions \in Nat
  /\ faults \in Nat
  /\ crashes \in Nat

-----------------------------------------------------------------------------
(* The files.                                                              *)

NewSegment == [nRec |-> 0, records |-> <<>>]

\* A journal whose first header has its magic is played back by whoever
\* finds it.
Hot(j) == j # NoJournal /\ j[1].nRec > 0

\* The records of the first n segments.
RecordsOf(j, n) == UNION {Range(j[i].records) : i \in 1 .. n}

\* What a playback by another process reads: up to the first empty header.
HotRecords(j) ==
  UNION {Range(j[i].records) :
           i \in {i \in DOMAIN j : \A h \in 1 .. i : j[h].nRec > 0}}

Journaled(j) == {r.page : r \in RecordsOf(j, Len(j))}

\* The pages whose originals such a playback puts back.
HotPages(j) == {r.page : r \in HotRecords(j)}

\* The file with the originals of a set of records put back.
Restore(file, records) ==
  [p \in Pages |-> IF \E r \in records : r.page = p
                   THEN (CHOOSE r \in records : r.page = p).image
                   ELSE file[p]]

\* The file a reader would see, hot journals being rolled back first.
Recovered(file, j) == Restore(file, HotRecords(j))

\* Writes of some pages of the database file, none of them synced.
WriteFile(pages, file) ==
  /\ db' = [p \in Pages |-> IF p \in pages THEN file[p] ELSE db[p]]
  /\ dbMaybe' = [p \in Pages |-> IF p \in pages
                                 THEN dbMaybe[p] \cup {file[p], Torn}
                                 ELSE dbMaybe[p]]

AddRecord(j, r) == [j EXCEPT ![Len(j)].records = Append(@, r)]

FillHeader(j, n) == [j EXCEPT ![Len(j)].nRec = n]

\* The journals a crash may leave that the journal's next write can reach: not
\* that of an earlier transaction, which the directory may still show.
Reached(maybe, j) == {i \in maybe : i # NoJournal /\ Len(i) = Len(j) /\ i[Len(i)].nRec = 0}

\* pager_open_journal, at the first write of a transaction.
JournalOpened == IF eState = "WRITER_LOCKED" THEN <<NewSegment>> ELSE jrnl
MaybeOpened ==
  IF eState = "WRITER_LOCKED"
  THEN {j \in jrnlMaybe : Hot(j)} \cup {NoJournal, <<NewSegment>>}
  ELSE jrnlMaybe

\* Mutant: the original is encrypted with the key of the write context.
OriginalNewKey(p) == [page |-> p, image |-> [key |-> writeKey, val |-> cache[p]]]

\* The original of a page, as the journal receives it: encrypted again, with
\* the key of the read context.
Original(p) == [page |-> p, image |-> [key |-> readKey, val |-> cache[p]]]
TornOriginal(p) == [page |-> p, image |-> Torn]

\* pager_write: the page's original is journaled once, and the page is dirty.
\* The checksum reads one byte in 200: a torn record may well pass it.
MakeWritable(p) ==
  /\ dirty' = dirty \cup {p}
  /\ eState' = IF eState = "WRITER_LOCKED" THEN "WRITER_CACHEMOD" ELSE eState
  /\ IF p \in Journaled(JournalOpened)
     THEN UNCHANGED <<jrnl, jrnlMaybe>>
     ELSE /\ jrnl' = AddRecord(JournalOpened, Original(p))
          /\ jrnlMaybe' = MaybeOpened \cup
               {AddRecord(j, r) : j \in Reached(MaybeOpened, JournalOpened),
                                  r \in {Original(p), TornOriginal(p)}}

-----------------------------------------------------------------------------
(* The codec.                                                              *)

\* Mutant: the HMAC is not compared.
DecryptUnchecked(image) == IF image # Torn THEN image.val ELSE Zeroed

\* Decrypting checks the page's HMAC: a page of another key is wiped.
Decrypt(image) ==
  IF image # Torn /\ image.key = readKey THEN image.val ELSE Zeroed

Encrypted == [p \in Pages |-> [key |-> writeKey, val |-> cache[p]]]

Unreadable(image) == Decrypt(image) = Zeroed

-----------------------------------------------------------------------------
(* Opening, reading, locking.                                              *)

Init ==
  /\ \E k \in Keys : db = [p \in Pages |-> [key |-> k, val |-> 0]]
  /\ dbMaybe = [p \in Pages |-> {db[p]}]
  /\ jrnl = NoJournal
  /\ jrnlMaybe = {NoJournal}
  /\ eState = "OPEN"
  /\ errCode = FALSE
  /\ cache = [p \in Pages |-> NoPage]
  /\ dirty = {}
  /\ journalHdr = 0
  /\ counted = FALSE
  /\ readKey = NoKey
  /\ writeKey = NoKey
  /\ call = "none"
  /\ step = "start"
  /\ spilled = 0
  /\ rekeying = FALSE
  /\ leaked = FALSE
  /\ transactions = 0
  /\ faults = 0
  /\ crashes = 0

\* A new connection: nothing cached, nothing locked.
Disconnected ==
  /\ eState' = "OPEN"
  /\ errCode' = FALSE
  /\ cache' = [p \in Pages |-> NoPage]
  /\ dirty' = {}
  /\ journalHdr' = 0
  /\ counted' = FALSE
  /\ readKey' = NoKey
  /\ writeKey' = NoKey
  /\ call' = "none"
  /\ step' = "start"
  /\ spilled' = 0
  /\ rekeying' = FALSE
  /\ leaked' = FALSE

Idle == call = "none" /\ readKey # NoKey

\* sqlite3_open and sqlite3_key, with the right passphrase or another one.
Open(k) ==
  /\ readKey = NoKey
  /\ readKey' = k
  /\ writeKey' = k
  /\ UNCHANGED <<fileVars, pagerVars, callVars, boundVars>>

\* sqlite3PagerClose, no transaction being open.
Close ==
  /\ Idle
  /\ eState \in {"OPEN", "READER", "ERROR"}
  /\ Disconnected
  /\ UNCHANGED <<fileVars, boundVars>>

\* sqlite3PagerSharedLock.
SharedLock ==
  /\ Idle
  /\ eState = "OPEN"
  /\ IF Hot(jrnl)
     THEN call' = "recover" /\ step' = "sync" /\ UNCHANGED eState
     ELSE eState' = "READER" /\ UNCHANGED <<call, step>>
  /\ UNCHANGED <<fileVars, errCode, cache, dirty, journalHdr, counted, keyVars,
                 spilled, rekeying, leaked, boundVars>>

\* pager_unlock, when the last page is released.
Unlock ==
  /\ Idle
  /\ eState \in {"READER", "ERROR"}
  /\ ~leaked
  /\ eState' = "OPEN"
  /\ errCode' = FALSE
  /\ cache' = IF errCode THEN [p \in Pages |-> NoPage] ELSE cache
  /\ dirty' = IF errCode THEN {} ELSE dirty
  /\ journalHdr' = 0
  /\ counted' = FALSE
  /\ UNCHANGED <<fileVars, keyVars, callVars, boundVars>>

\* sqlite3PagerAcquire of a page that is not cached.  A page that cannot be
\* decrypted is served as zeros, and sets the error that stops the next call.
AcquirePage(p) ==
  /\ Idle
  /\ eState \in {"READER"} \cup Writing
  /\ ~errCode
  /\ cache[p] = NoPage
  /\ rekeying => p \notin Journaled(JournalOpened)
  /\ cache' = [cache EXCEPT ![p] = Decrypt(db[p])]
  /\ errCode' = Unreadable(db[p])
  /\ UNCHANGED <<fileVars, eState, dirty, journalHdr, counted, keyVars,
                 callVars, boundVars>>

\* Mutant: a dirty page is reused as if it were clean.
RecycleAnyPage(p) ==
  /\ Idle
  /\ p # 1
  /\ cache[p] # NoPage
  /\ cache' = [cache EXCEPT ![p] = NoPage]
  /\ UNCHANGED <<fileVars, eState, errCode, dirty, journalHdr, counted,
                 keyVars, callVars, boundVars>>

\* The page cache reuses a clean page; page 1 is held while locked.
RecyclePage(p) ==
  /\ Idle
  /\ p # 1
  /\ p \notin dirty
  /\ cache[p] # NoPage
  /\ cache' = [cache EXCEPT ![p] = NoPage]
  /\ UNCHANGED <<fileVars, eState, errCode, dirty, journalHdr, counted,
                 keyVars, callVars, boundVars>>

-----------------------------------------------------------------------------
(* Write transactions.                                                     *)

\* The b-tree reads page 1 before it asks for a transaction.
MayBegin ==
  /\ Idle
  /\ eState = "READER"
  /\ ~errCode
  /\ cache[1] \in Versions
  /\ transactions < MaxTransactions

\* sqlite3PagerBegin.
Begin ==
  /\ MayBegin
  /\ eState' = "WRITER_LOCKED"
  /\ transactions' = transactions + 1
  /\ UNCHANGED <<fileVars, errCode, cache, dirty, journalHdr, counted, keyVars,
                 callVars, faults, crashes>>

\* sqlite3_rekey_v2: the write context gets the new key before the transaction
\* that encrypts every page again begins.
Rekey(k) ==
  /\ MayBegin
  /\ writeKey' = k
  /\ rekeying' = TRUE
  /\ eState' = "WRITER_LOCKED"
  /\ transactions' = transactions + 1
  /\ UNCHANGED <<fileVars, errCode, cache, dirty, journalHdr, counted, readKey,
                 call, step, spilled, leaked, faults, crashes>>

\* The same when the transaction cannot begin: the new key stays.
RekeyRefused(k) ==
  /\ Idle
  /\ eState = "READER"
  /\ errCode
  /\ writeKey' = k
  /\ UNCHANGED <<fileVars, pagerVars, readKey, callVars, boundVars>>

\* A rekey writes the pages in order, each as it is.
MayWrite(p) ==
  /\ Idle
  /\ eState \in Writing
  /\ ~errCode
  /\ cache[p] \in Versions
  /\ rekeying => Journaled(JournalOpened) = 1 .. (p - 1)

\* sqlite3PagerWrite, and the change the b-tree then makes to the page.
WritePage(p) ==
  /\ MayWrite(p)
  /\ MakeWritable(p)
  /\ cache' = IF rekeying THEN cache ELSE [cache EXCEPT ![p] = transactions]
  /\ UNCHANGED <<db, dbMaybe, errCode, journalHdr, counted, keyVars, callVars,
                 boundVars>>

-----------------------------------------------------------------------------
(* Commit, spill, rollback, recovery: one action per call to the system.   *)

Start(c, s) ==
  /\ call' = c
  /\ step' = s

\* A rekey commits when it has written every page.
Commit ==
  /\ Idle
  /\ eState \in Modified
  /\ ~errCode
  /\ rekeying => Journaled(jrnl) = Pages
  /\ Start("commit", "start")
  /\ UNCHANGED <<fileVars, pagerVars, keyVars, spilled, rekeying, leaked,
                 boundVars>>

\* A transaction that wrote nothing ends without touching a file.
EndUnmodified ==
  /\ Idle
  /\ eState = "WRITER_LOCKED"
  /\ ~rekeying
  /\ eState' = "READER"
  /\ UNCHANGED <<fileVars, errCode, cache, dirty, journalHdr, counted, keyVars,
                 callVars, boundVars>>

\* pager_incr_changecounter: page 1 changes in every transaction.
IncrChangeCounter ==
  /\ call = "commit"
  /\ step = "start"
  /\ step' = "sync"
  /\ IF counted
     THEN UNCHANGED <<jrnl, jrnlMaybe, eState, dirty, cache>>
     ELSE /\ MakeWritable(1)
          /\ cache' = [cache EXCEPT ![1] = transactions]
  /\ counted' = TRUE
  /\ UNCHANGED <<db, dbMaybe, errCode, journalHdr, keyVars, call, spilled,
                 rekeying, leaked, boundVars>>

\* pagerStress: the cache is short of memory and a dirty page has to go.  The
\* journal is synced first, unless the page's original already is.
Spill(p) ==
  /\ Idle
  /\ eState \in Modified
  /\ ~errCode
  /\ p \in dirty \ {1}
  /\ spilled' = p
  /\ Start("spill", IF /\ eState = "WRITER_DBMOD"
                       /\ p \in {r.page : r \in RecordsOf(jrnl, journalHdr)}
                    THEN "pages" ELSE "sync")
  /\ UNCHANGED <<fileVars, pagerVars, keyVars, rekeying, leaked, boundVars>>

\* Mutant: the header is filled in before the records are synced.
SyncRecordsTooLate ==
  /\ call \in {"commit", "spill"}
  /\ step = "sync"
  /\ step' = "header"
  /\ jrnl' = FillHeader(jrnl, Len(jrnl[Len(jrnl)].records))
  /\ jrnlMaybe' = jrnlMaybe \cup
       {FillHeader(j, Len(jrnl[Len(jrnl)].records)) :
          j \in Reached(jrnlMaybe, jrnl)}
  /\ UNCHANGED <<db, dbMaybe, pagerVars, keyVars, call, spilled, rekeying,
                 leaked, boundVars>>

\* syncJournal, first half: sync the records, then write the header's count.
SyncRecords ==
  /\ call \in {"commit", "spill"}
  /\ step = "sync"
  /\ step' = "header"
  /\ jrnl' = FillHeader(jrnl, Len(jrnl[Len(jrnl)].records))
  /\ jrnlMaybe' = {jrnl, jrnl'}
  /\ UNCHANGED <<db, dbMaybe, pagerVars, keyVars, call, spilled, rekeying,
                 leaked, boundVars>>

\* Mutant: the header is written, but not synced.
SyncHeaderUnsynced ==
  /\ call \in {"commit", "spill"}
  /\ step = "header"
  /\ step' = "pages"
  /\ eState' = "WRITER_DBMOD"
  /\ journalHdr' = Len(jrnl)
  /\ jrnl' = IF call = "spill" THEN Append(jrnl, NewSegment) ELSE jrnl
  /\ jrnlMaybe' = jrnlMaybe \cup {jrnl'}
  /\ UNCHANGED <<db, dbMaybe, errCode, cache, dirty, counted, keyVars, call,
                 spilled, rekeying, leaked, boundVars>>

\* syncJournal, second half: sync the header.  A spill opens a new segment.
SyncHeader ==
  /\ call \in {"commit", "spill"}
  /\ step = "header"
  /\ step' = "pages"
  /\ eState' = "WRITER_DBMOD"
  /\ journalHdr' = Len(jrnl)
  /\ jrnl' = IF call = "spill" THEN Append(jrnl, NewSegment) ELSE jrnl
  /\ jrnlMaybe' = {jrnl, jrnl'}
  /\ UNCHANGED <<db, dbMaybe, errCode, cache, dirty, counted, keyVars, call,
                 spilled, rekeying, leaked, boundVars>>

\* pager_write_pagelist, for a commit.
WritePagelist ==
  /\ call = "commit"
  /\ step = "pages"
  /\ step' = "db"
  /\ WriteFile(dirty, Encrypted)
  /\ dirty' = {}
  /\ UNCHANGED <<jrnl, jrnlMaybe, eState, errCode, cache, journalHdr, counted,
                 keyVars, call, spilled, rekeying, leaked, boundVars>>

\* pager_write_pagelist, for the one page that leaves the cache.
WriteSpilled ==
  /\ call = "spill"
  /\ step = "pages"
  /\ WriteFile({spilled}, Encrypted)
  /\ dirty' = dirty \ {spilled}
  /\ cache' = [cache EXCEPT ![spilled] = NoPage]
  /\ Start("none", "start")
  /\ spilled' = 0
  /\ UNCHANGED <<jrnl, jrnlMaybe, eState, errCode, journalHdr, counted,
                 keyVars, rekeying, leaked, boundVars>>

\* ROLLBACK, on request; or a rekey read a page it cannot decrypt, cannot
\* write it then, and keeps it.
RequestRollback ==
  /\ Idle
  /\ eState \in Writing
  /\ rekeying => errCode
  /\ Start("rollback", "start")
  /\ rekeying' = FALSE
  /\ leaked' = (leaked \/ rekeying)
  /\ UNCHANGED <<fileVars, pagerVars, keyVars, spilled, boundVars>>

\* sqlite3PagerRollback.  The journal a failed write may have created is gone
\* with the transaction.
Rollback ==
  /\ call = "rollback"
  /\ step = "start"
  /\ IF eState = "WRITER_LOCKED"
     THEN eState' = "READER" /\ Start("none", "start")
     ELSE Start("rollback", "pages") /\ UNCHANGED eState
  /\ UNCHANGED <<fileVars, errCode, cache, dirty, journalHdr, counted, keyVars,
                 spilled, rekeying, leaked, boundVars>>

\* pagerSyncHotJournal, and pager_reset.
SyncHotJournal ==
  /\ call = "recover"
  /\ step = "sync"
  /\ step' = "pages"
  /\ jrnlMaybe' = {jrnl}
  /\ journalHdr' = Len(jrnl)
  /\ cache' = [p \in Pages |-> NoPage]
  /\ dirty' = {}
  /\ UNCHANGED <<db, dbMaybe, jrnl, eState, errCode, counted, keyVars, call,
                 spilled, rekeying, leaked, boundVars>>

\* The records that go back to the database file: all of a hot journal; in a
\* rollback those that were synced, and none if the file was not modified.
RecordsForFile ==
  IF call = "recover" THEN HotRecords(jrnl)
  ELSE IF eState = "WRITER_DBMOD" THEN RecordsOf(jrnl, journalHdr)
  ELSE {}

PagesForFile == {r.page : r \in RecordsForFile}

\* Mutant: the pages in the cache are not decrypted again.
PlaybackKeepsCache ==
  /\ call \in {"rollback", "recover"}
  /\ step = "pages"
  /\ step' = IF eState = "WRITER_CACHEMOD" THEN "finalize" ELSE "db"
  /\ WriteFile(PagesForFile, Restore(db, RecordsForFile))
  /\ UNCHANGED <<jrnl, jrnlMaybe, eState, errCode, cache, dirty, journalHdr,
                 counted, keyVars, call, spilled, rekeying, leaked, boundVars>>

\* pager_playback_one_page, for every record: the file gets the bytes of the
\* journal, and a cached page is decrypted again.
Playback ==
  /\ call \in {"rollback", "recover"}
  /\ step = "pages"
  /\ step' = IF eState = "WRITER_CACHEMOD" THEN "finalize" ELSE "db"
  /\ WriteFile(PagesForFile, Restore(db, RecordsForFile))
  /\ LET restored == {p \in Journaled(jrnl) : cache[p] # NoPage}
         file == Restore(db, RecordsOf(jrnl, Len(jrnl)))
     IN /\ cache' = [p \in Pages |-> IF p \in restored THEN Decrypt(file[p])
                                     ELSE cache[p]]
        /\ errCode' = (errCode \/ \E p \in restored : Unreadable(file[p]))
        /\ dirty' = dirty \ restored
  /\ UNCHANGED <<jrnl, jrnlMaybe, eState, journalHdr, counted, keyVars, call,
                 spilled, rekeying, leaked, boundVars>>

\* sqlite3PagerSync.
SyncDb ==
  /\ step = "db"
  /\ step' = "finalize"
  /\ dbMaybe' = [p \in Pages |-> {db[p]}]
  /\ eState' = IF call = "commit" THEN "WRITER_FINISHED" ELSE eState
  /\ UNCHANGED <<db, jrnl, jrnlMaybe, errCode, cache, dirty, journalHdr,
                 counted, keyVars, call, spilled, rekeying, leaked, boundVars>>

\* Mutant: the read context keeps the old key after a rekey.
FinalizeKeepsKey ==
  /\ step = "finalize"
  /\ jrnl' = NoJournal
  /\ jrnlMaybe' = {j \in jrnlMaybe : Hot(j)} \cup {NoJournal}
  /\ eState' = "READER"
  /\ dirty' = {}
  /\ journalHdr' = 0
  /\ counted' = FALSE
  /\ rekeying' = FALSE
  /\ Start("none", "start")
  /\ UNCHANGED <<db, dbMaybe, errCode, cache, keyVars, spilled, leaked,
                 boundVars>>

\* pager_end_transaction removes the journal, and does not sync the directory.
\* After a commit a rekey copies the write context to the read context.
Finalize ==
  /\ step = "finalize"
  /\ jrnl' = NoJournal
  /\ jrnlMaybe' = {j \in jrnlMaybe : Hot(j)} \cup {NoJournal}
  /\ eState' = "READER"
  /\ dirty' = {}
  /\ journalHdr' = 0
  /\ counted' = FALSE
  /\ readKey' = IF rekeying THEN writeKey ELSE readKey
  /\ rekeying' = FALSE
  /\ Start("none", "start")
  /\ UNCHANGED <<db, dbMaybe, errCode, cache, writeKey, spilled, leaked,
                 boundVars>>

-----------------------------------------------------------------------------
(* A call to the operating system fails.                                   *)

Fault ==
  /\ faults < MaxFaults
  /\ rekeying => RekeyFaults
  /\ faults' = faults + 1
  /\ UNCHANGED <<transactions, crashes>>

\* pager_error: the cache is not trusted any more, and a journal that is still
\* there stays for the next lock to play back.
PagerError ==
  /\ eState' = "ERROR"
  /\ errCode' = TRUE

\* The first write of a transaction cannot create the journal, or a page its
\* record: SQLite rolls the transaction back.  sqlite3_rekey_v2 does too, but
\* keeps the page it could not write, and the new key.
WriteFails(p) ==
  /\ MayWrite(p)
  /\ p \notin Journaled(JournalOpened)
  /\ Fault
  /\ \/ eState = "WRITER_LOCKED" /\ UNCHANGED <<jrnl, jrnlMaybe, eState, dirty>>
     \/ /\ jrnl' = JournalOpened
        /\ jrnlMaybe' = MaybeOpened
        /\ eState' = IF eState = "WRITER_LOCKED" THEN "WRITER_CACHEMOD"
                     ELSE eState
        /\ dirty' = dirty \cup {p}
  /\ Start("rollback", "start")
  /\ rekeying' = FALSE
  /\ leaked' = (leaked \/ rekeying)
  /\ UNCHANGED <<db, dbMaybe, errCode, cache, journalHdr, counted, keyVars,
                 spilled>>

\* sqlite3PagerCommitPhaseOne fails: the statement that commits is rolled back.
\* sqlite3_rekey_v2 leaves the transaction open, and copies the key.
CommitFails ==
  /\ call = "commit"
  /\ step # "finalize"
  /\ Fault
  /\ \E pages \in SUBSET (IF step = "pages" THEN dirty ELSE {}) :
       WriteFile(pages, Encrypted)
  /\ IF rekeying THEN readKey' = writeKey /\ Start("none", "start")
     ELSE UNCHANGED readKey /\ Start("rollback", "start")
  /\ rekeying' = FALSE
  /\ UNCHANGED <<jrnl, jrnlMaybe, pagerVars, writeKey, spilled, leaked>>

\* sqlite3PagerCommitPhaseTwo fails: the pager keeps the error, the journal
\* stays hot, and sqlite3_rekey_v2 copies the key.
FinalizeFails ==
  /\ call = "commit"
  /\ step = "finalize"
  /\ Fault
  /\ PagerError
  /\ readKey' = IF rekeying THEN writeKey ELSE readKey
  /\ rekeying' = FALSE
  /\ Start("none", "start")
  /\ UNCHANGED <<fileVars, cache, dirty, journalHdr, counted, writeKey,
                 spilled, leaked>>

\* A page cannot be spilled: the statement, or the rekey, that wanted memory
\* gives up, and the transaction with it.
SpillFails ==
  /\ call = "spill"
  /\ Fault
  /\ PagerError
  /\ Start("none", "start")
  /\ spilled' = 0
  /\ rekeying' = FALSE
  /\ UNCHANGED <<fileVars, cache, dirty, journalHdr, counted, keyVars, leaked>>

\* A rollback fails half way.
RollbackFails ==
  /\ call = "rollback"
  /\ step # "start"
  /\ Fault
  /\ PagerError
  /\ \E pages \in SUBSET (IF step = "pages" THEN PagesForFile ELSE {}) :
       WriteFile(pages, Restore(db, RecordsForFile))
  /\ Start("none", "start")
  /\ UNCHANGED <<jrnl, jrnlMaybe, cache, dirty, journalHdr, counted, keyVars,
                 spilled, rekeying, leaked>>

\* The recovery fails half way: sqlite3PagerSharedLock unlocks the pager.
RecoveryFails ==
  /\ call = "recover"
  /\ Fault
  /\ \E pages \in SUBSET (IF step = "pages" THEN PagesForFile ELSE {}) :
       WriteFile(pages, Restore(db, RecordsForFile))
  /\ errCode' = FALSE
  /\ cache' = [p \in Pages |-> NoPage]
  /\ dirty' = {}
  /\ journalHdr' = 0
  /\ counted' = FALSE
  /\ Start("none", "start")
  /\ UNCHANGED <<jrnl, jrnlMaybe, eState, keyVars, spilled, rekeying, leaked>>

\* The process dies, or the device: what was synced is there, the rest may be.
\* A journal that is not hot is as good as none.
Crash ==
  /\ crashes < MaxCrashes
  /\ crashes' = crashes + 1
  /\ UNCHANGED <<transactions, faults>>
  /\ \E file \in [Pages -> UNION {dbMaybe[p] : p \in Pages}] :
       /\ \A p \in Pages : file[p] \in dbMaybe[p]
       /\ db' = file
       /\ dbMaybe' = [p \in Pages |-> {file[p]}]
  /\ \E j \in jrnlMaybe : jrnl' = IF Hot(j) THEN j ELSE NoJournal
  /\ jrnlMaybe' = {jrnl'}
  /\ Disconnected

Next ==
  \/ \E k \in Keys : Open(k) \/ Rekey(k) \/ RekeyRefused(k)
  \/ Close \/ SharedLock \/ Unlock
  \/ \E p \in Pages : \/ AcquirePage(p) \/ RecyclePage(p)
                      \/ WritePage(p) \/ WriteFails(p) \/ Spill(p)
  \/ Begin \/ EndUnmodified \/ Commit \/ IncrChangeCounter
  \/ SyncRecords \/ SyncHeader \/ WritePagelist \/ WriteSpilled
  \/ RequestRollback \/ Rollback \/ SyncHotJournal \/ Playback
  \/ SyncDb \/ Finalize
  \/ CommitFails \/ FinalizeFails \/ SpillFails \/ RollbackFails
  \/ RecoveryFails
  \/ Crash

Spec == Init /\ [][Next]_vars

-----------------------------------------------------------------------------
(* Properties.                                                             *)

\* The file as its readers see it, what a crash may turn it into, and the file
\* the transaction in progress is about to commit.
content == Recovered(db, jrnl)

older ==
  IF \E j \in jrnlMaybe : Recovered(db, j) # content
  THEN Recovered(db, CHOOSE j \in jrnlMaybe : Recovered(db, j) # content)
  ELSE content

working ==
  IF eState \in Writing \cup {"WRITER_FINISHED"}
  THEN [p \in Pages |-> IF p \in dirty THEN Encrypted[p] ELSE db[p]]
  ELSE content

TransactionalFile == INSTANCE AtomicFile WITH Contents <- Image

\* Whatever fails and whenever the process dies, a transaction takes effect as
\* a whole or not at all (pager.c: the rollback journal; crypto.c: rekey).
ImplementsAtomicFile == TransactionalFile!Spec

\* What the pages of the file may be after a crash with journal j, and the
\* recovery that follows.
AfterCrash(j) ==
  [p \in Pages |-> {Restore([q \in Pages |-> c], HotRecords(j))[p] :
                      c \in dbMaybe[p]}]

\* At every moment, what a crash would leave decrypts with one key: a rekey
\* never leaves some pages under the old key and some under the new one.
OneKeyAfterCrash ==
  \A j \in jrnlMaybe : \E k \in Keys :
    \A p \in Pages : AfterCrash(j)[p] \subseteq [key : {k}, val : Versions]

\* A clean page in the cache is the page in the file, whatever rollbacks and
\* errors came before (pager_playback_one_page, pager_unlock).
CacheCoherent ==
  (eState # "ERROR" /\ ~rekeying /\ call # "recover") =>
    \A p \in Pages \ dirty :
      cache[p] \in Versions => db[p] = [key |-> readKey, val |-> cache[p]]

\* A connection opened with another passphrase never changes the file.
WrongKeyChangesNothing ==
  [][(readKey # NoKey /\ content[1].key # readKey /\ readKey' = readKey)
       => content' = content]_vars

\* A connection that can read the file keeps the key of the file: the read
\* context changes when a rekey commits, and only then (sqlite3_rekey_v2: "if
\* commit was successful commit and copy the rekey data to current key").
KeyFollowsCommit ==
  [][(/\ readKey # NoKey /\ readKey = content[1].key
      /\ readKey' # NoKey)
       => readKey' = content'[1].key]_vars

\* A page of the file is overwritten only when every journal a crash may leave
\* is hot and has its original (syncJournal before pager_write_pagelist).
WriteAhead ==
  \A p \in Pages : dbMaybe[p] # {db[p]} =>
    \A j \in jrnlMaybe : p \in HotPages(j)

-----------------------------------------------------------------------------
(* The inductive invariants behind them, proved in Pager_proofs.           *)

\* Which call may be where, in which state of the pager.
ControlInv ==
  /\ readKey = NoKey <=> writeKey = NoKey
  /\ readKey = NoKey => call = "none" /\ eState = "OPEN"
  /\ eState = "ERROR" => errCode
  /\ call = "none" => step = "start" /\ eState # "WRITER_FINISHED"
  /\ call = "commit" =>
       /\ step = "finalize" <=> eState = "WRITER_FINISHED"
       /\ step # "finalize" => eState \in Modified
       /\ step \in {"pages", "db"} => eState = "WRITER_DBMOD"
  /\ call = "spill" =>
       /\ step \in {"sync", "header", "pages"}
       /\ eState \in Modified
       /\ step = "pages" => eState = "WRITER_DBMOD"
       /\ spilled \in dirty \ {1}
  /\ call = "rollback" =>
       /\ step \in {"start", "pages", "db", "finalize"}
       /\ eState \in Writing
       /\ eState = "WRITER_LOCKED" => step = "start"
       /\ eState = "WRITER_CACHEMOD" => step # "db"
  /\ call = "recover" =>
       /\ step \in {"sync", "pages", "db", "finalize"}
       /\ eState = "OPEN"

\* The pages in the cache that will be journaled or written are readable, and
\* what is synced of the journal is part of it.
PageInv ==
  /\ transactions \in Versions
  /\ \A p \in dirty : cache[p] \in Versions
  /\ eState \in Writing /\ call # "rollback" => cache[1] \in Versions
  /\ eState \in Modified => jrnl # NoJournal /\ journalHdr <= Len(jrnl)
  /\ eState \in {"READER", "WRITER_LOCKED", "WRITER_CACHEMOD"} => journalHdr = 0
  /\ eState = "OPEN" /\ call # "recover" => journalHdr = 0

\* The database file has no write that is not synced.
Synced == \A p \in Pages : dbMaybe[p] = {db[p]}

\* The pages whose originals are in the journal and known to be synced.
SyncedPages == {r.page : r \in RecordsOf(jrnl, journalHdr)}

\* Outside a commit, a spill and a rollback the file is synced; what is synced
\* of the journal is filled in, and in every journal a crash may leave.
JournalInv ==
  /\ jrnl \in jrnlMaybe
  /\ eState \in {"READER", "WRITER_LOCKED", "WRITER_CACHEMOD"} => Synced
  /\ step = "finalize" => Synced
  /\ eState \in {"OPEN", "READER", "WRITER_LOCKED"} => dirty = {}
  /\ eState = "WRITER_CACHEMOD" => Len(jrnl) = 1
  /\ eState = "WRITER_DBMOD" =>
       \A j \in jrnlMaybe : SyncedPages \subseteq HotPages(j)
  /\ eState \in Modified =>
       \A i \in 1 .. journalHdr : i < Len(jrnl) => jrnl[i].nRec > 0
  /\ call = "recover" /\ step # "sync" => jrnlMaybe = {jrnl}

\* The journal grows at its last segment, the only one that may not be synced,
\* and has the originals of all dirty pages.
GrowthInv ==
  /\ eState \in Modified /\ call \in {"none", "commit", "spill"} =>
       /\ dirty \subseteq Journaled(jrnl)
       /\ journalHdr = IF call = "commit" /\ step \in {"pages", "db"}
                       THEN Len(jrnl) ELSE Len(jrnl) - 1
       /\ step \in {"start", "sync"} \/ (call = "spill" /\ step = "pages") =>
            jrnl[Len(jrnl)].nRec = 0
       /\ step = "header" =>
            jrnl[Len(jrnl)].nRec = Len(jrnl[Len(jrnl)].records)
  /\ call = "spill" => (step = "pages" <=> spilled \in SyncedPages)
  /\ call = "commit" /\ step = "pages" => dirty \subseteq SyncedPages
==============================================================================
