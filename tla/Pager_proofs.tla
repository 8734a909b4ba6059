----------------------------- MODULE Pager_proofs -----------------------------
(***************************************************************************)
(* Proofs about Pager, for every number of pages, set of keys and bound.   *)
(***************************************************************************)
EXTENDS Pager, SequenceTheorems, TLAPS

(***************************************************************************)
(* The data: journals and page images.                                     *)
(***************************************************************************)

\* The original of page p is one of the records of a segment.
Holds(segment, p) == \E k \in DOMAIN segment.records : segment.records[k].page = p

\* A record is added to the last segment, and only there.
LEMMA AddRecordType ==
  ASSUME NEW j \in Journal, j # NoJournal, NEW r \in Record
  PROVE  /\ AddRecord(j, r) \in Journal
         /\ AddRecord(j, r) # NoJournal
         /\ Len(j) \in Nat \ {0}
         /\ Len(AddRecord(j, r)) = Len(j)
         /\ \A i \in 1 .. Len(j) :
              /\ AddRecord(j, r)[i].nRec = j[i].nRec
              /\ i # Len(j) => AddRecord(j, r)[i] = j[i]
              /\ \A p : Holds(j[i], p) => Holds(AddRecord(j, r)[i], p)
         /\ Holds(AddRecord(j, r)[Len(j)], r.page)
<1> DEFINE n == Len(j)
           old == j[n]
           new == [old EXCEPT !.records = Append(old.records, r)]
<1>1. n \in Nat \ {0}
  BY EmptySeq DEF Journal, NoJournal
<1>2. n \in 1 .. Len(j) /\ \A i \in 1 .. Len(j) : j[i] \in Segment
  BY <1>1, ElementOfSeq DEF Journal
<1>3. old \in Segment
  BY <1>2
<1>4. new \in Segment /\ new.nRec = old.nRec
  <2> DEFINE longer == Append(old.records, r)
  <2>1. old.records \in Seq(Record)
    BY <1>3 DEF Segment
  <2>2. longer \in Seq(Record)
    BY <2>1
  <2>3. new = [old EXCEPT !.records = longer]
    OBVIOUS
  <2> HIDE DEF longer, new, old
  <2> QED BY <1>3, <2>2, <2>3 DEF Segment
<1>5. new.records = Append(old.records, r) /\ old.records \in Seq(Record)
  BY <1>3 DEF Segment
<1>6. \A p : Holds(old, p) => Holds(new, p)
  BY <1>5 DEF Holds
<1>7. Holds(new, r.page)
  <2>1. Len(old.records) + 1 \in DOMAIN new.records
    BY <1>5
  <2>2. new.records[Len(old.records) + 1] = r
    BY <1>5
  <2> QED BY <2>1, <2>2 DEF Holds
<1>8. AddRecord(j, r) = [j EXCEPT ![n] = new]
  BY <1>2, <1>3 DEF AddRecord, Segment, Journal
<1> HIDE DEF new, old
<1>9. /\ AddRecord(j, r) \in Seq(Segment) /\ Len(AddRecord(j, r)) = Len(j)
      /\ \A i \in 1 .. Len(j) : AddRecord(j, r)[i] = IF i = n THEN new ELSE j[i]
  BY <1>2, <1>4, <1>8, ExceptSeq DEF Journal
<1>10. AddRecord(j, r) # NoJournal
  BY <1>1, <1>9, EmptySeq DEF NoJournal
<1> QED BY <1>1, <1>2, <1>4, <1>6, <1>7, <1>9, <1>10 DEF old, Journal

\* Filling in the header changes the count of the last segment only.
LEMMA FillHeaderType ==
  ASSUME NEW j \in Journal, j # NoJournal, NEW n \in Nat
  PROVE  /\ FillHeader(j, n) \in Journal
         /\ FillHeader(j, n) # NoJournal
         /\ Len(j) \in Nat \ {0}
         /\ Len(FillHeader(j, n)) = Len(j)
         /\ \A i \in 1 .. Len(j) :
              /\ FillHeader(j, n)[i].records = j[i].records
              /\ i # Len(j) => FillHeader(j, n)[i] = j[i]
         /\ FillHeader(j, n)[Len(j)].nRec = n
<1> DEFINE last == Len(j)
           new == [j[last] EXCEPT !.nRec = n]
<1>1. last \in Nat \ {0}
  BY EmptySeq DEF Journal, NoJournal
<1>2. last \in 1 .. Len(j) /\ j[last] \in Segment
  BY <1>1, ElementOfSeq DEF Journal
<1>3. new \in Segment /\ new.records = j[last].records /\ new.nRec = n
  BY <1>2 DEF Segment
<1>4. FillHeader(j, n) = [j EXCEPT ![last] = new]
  BY <1>2 DEF FillHeader, Segment, Journal
<1> HIDE DEF new
<1>5. /\ FillHeader(j, n) \in Seq(Segment) /\ Len(FillHeader(j, n)) = Len(j)
      /\ \A i \in 1 .. Len(j) : FillHeader(j, n)[i] = IF i = last THEN new ELSE j[i]
  BY <1>2, <1>3, <1>4, ExceptSeq DEF Journal
<1>6. FillHeader(j, n) # NoJournal
  BY <1>1, <1>5, EmptySeq DEF NoJournal
<1> QED BY <1>1, <1>2, <1>3, <1>5, <1>6 DEF Journal

\* A new segment.
LEMMA NewSegmentType ==
  /\ NewSegment \in Segment
  /\ <<NewSegment>> \in Journal
  /\ <<NewSegment>> # NoJournal
  /\ NoJournal \in Journal
<1>1. NewSegment \in Segment
  BY DEF NewSegment, Segment
<1> QED BY <1>1 DEF Journal, NoJournal

\* Playing back records gives a file of images.
LEMMA RestoreType ==
  ASSUME NEW file \in [Pages -> Stored], NEW records \in SUBSET Record
  PROVE  Restore(file, records) \in [Pages -> Stored]
<1> SUFFICES ASSUME NEW p \in Pages, \E r \in records : r.page = p
             PROVE  (CHOOSE r \in records : r.page = p).image \in Stored
  BY DEF Restore
<1>1. (CHOOSE r \in records : r.page = p) \in records
  OBVIOUS
<1> QED BY <1>1 DEF Record

\* What a journal holds are records.
LEMMA RecordsType ==
  ASSUME NEW j \in Journal
  PROVE  /\ HotRecords(j) \in SUBSET Record
         /\ \A n \in 0 .. Len(j) : RecordsOf(j, n) \in SUBSET Record
<1>1. \A i \in 1 .. Len(j) : j[i] \in Segment
  BY ElementOfSeq DEF Journal
<1>2. \A i \in 1 .. Len(j) : Range(j[i].records) \subseteq Record
  BY <1>1 DEF Segment, Range
<1>3. DOMAIN j = 1 .. Len(j) /\ Len(j) \in Nat
  BY LenProperties DEF Journal
<1> QED BY <1>2, <1>3 DEF HotRecords, RecordsOf

\* Decrypting gives a version, or zeros.
LEMMA DecryptType ==
  ASSUME NEW image \in Stored
  PROVE  Decrypt(image) \in Versions \cup {Zeroed}
BY DEF Decrypt, Stored, Image

-----------------------------------------------------------------------------
(***************************************************************************)
(* Control.  The type of the files needs to know that what is encrypted or *)
(* journaled is a readable page of the cache (PageInv), and this needs to  *)
(* know which call may run in which state of the pager (ControlInv).       *)
(***************************************************************************)
Base == TypeOK /\ ControlInv /\ PageInv

\* In a database that is open both contexts have keys.
LEMMA Connected ==
  ASSUME Base, call # "none" \/ eState # "OPEN" \/ readKey # NoKey
  PROVE  readKey \in Keys /\ writeKey \in Keys
BY DEF Base, TypeOK, ControlInv

\* Writing pages to the database file.
LEMMA WriteFileType ==
  ASSUME TypeOK, NEW pages, NEW file, WriteFile(pages, file),
         \A p \in Pages : p \in pages => file[p] \in Stored
  PROVE  db' \in [Pages -> Stored] /\ dbMaybe' \in [Pages -> SUBSET Stored]
<1>1. Torn \in Stored
  BY DEF Stored
<1>2. db' \in [Pages -> Stored]
  BY DEF TypeOK, WriteFile
<1>3. dbMaybe' \in [Pages -> SUBSET Stored]
  BY <1>1 DEF TypeOK, WriteFile
<1> QED BY <1>2, <1>3

\* What is written of the dirty pages.
LEMMA EncryptedType ==
  ASSUME Base, writeKey \in Keys, NEW p \in dirty
  PROVE  p \in Pages /\ Encrypted[p] \in Stored
BY DEF Base, TypeOK, PageInv, Encrypted, Stored, Image

\* What a playback puts back.
LEMMA PlaybackType ==
  ASSUME Base, call \in {"rollback", "recover"}
  PROVE  /\ RecordsForFile \in SUBSET Record
         /\ PagesForFile \subseteq Pages
         /\ Restore(db, RecordsForFile) \in [Pages -> Stored]
<1>1. jrnl \in Journal /\ db \in [Pages -> Stored] /\ journalHdr \in Nat
  BY DEF Base, TypeOK
<1>2. eState = "WRITER_DBMOD" => journalHdr \in 0 .. Len(jrnl)
  BY <1>1, LenProperties DEF Base, PageInv, Modified, Journal
<1>3. RecordsForFile \in SUBSET Record
  BY <1>1, <1>2, RecordsType DEF RecordsForFile
<1>4. PagesForFile \subseteq Pages
  BY <1>3 DEF PagesForFile, Record
<1> QED BY <1>1, <1>3, <1>4, RestoreType

\* The first write of a transaction opens the journal.
LEMMA JournalOpenedType ==
  ASSUME Base, eState \in Writing
  PROVE  /\ JournalOpened \in Journal /\ JournalOpened # NoJournal
         /\ MaybeOpened \subseteq Journal
         /\ journalHdr <= Len(JournalOpened)
<1>1. CASE eState = "WRITER_LOCKED"
  <2>1. JournalOpened = <<NewSegment>> /\ Len(JournalOpened) = 1 /\ journalHdr = 0
    BY <1>1 DEF Base, PageInv, JournalOpened
  <2> QED BY <1>1, <2>1, NewSegmentType DEF Base, TypeOK, MaybeOpened
<1>2. CASE eState # "WRITER_LOCKED"
  BY <1>2 DEF Base, TypeOK, PageInv, JournalOpened, MaybeOpened, Writing
<1> QED BY <1>1, <1>2

\* A journal that was just opened has no record.
LEMMA NothingJournaled ==
  ASSUME eState = "WRITER_LOCKED"
  PROVE  Journaled(JournalOpened) = {}
<1>1. JournalOpened = <<NewSegment>>
  BY DEF JournalOpened
<1>2. RecordsOf(<<NewSegment>>, 1) = {}
  BY DEF RecordsOf, NewSegment, Range
<1> QED BY <1>1, <1>2 DEF Journaled

\* A page that can be read is journaled and becomes dirty.
LEMMA MakeWritableType ==
  ASSUME Base, NEW p \in Pages, MakeWritable(p), eState \in Writing,
         cache[p] \in Versions, readKey \in Keys
  PROVE  /\ jrnl' \in Journal /\ jrnl' # NoJournal /\ jrnlMaybe' \subseteq Journal
         /\ journalHdr <= Len(jrnl')
         /\ dirty' = dirty \cup {p}
         /\ eState' = IF eState = "WRITER_LOCKED" THEN "WRITER_CACHEMOD" ELSE eState
<1>1. Original(p) \in Record /\ TornOriginal(p) \in Record
  BY DEF Original, TornOriginal, Record, Stored, Image
<1>2. CASE p \in Journaled(JournalOpened)
  <2>1. eState # "WRITER_LOCKED"
    BY <1>2, NothingJournaled
  <2> QED BY <1>2, <2>1 DEF MakeWritable, Base, TypeOK, PageInv, Writing
<1>3. CASE p \notin Journaled(JournalOpened)
  <2>1. /\ jrnl' = AddRecord(JournalOpened, Original(p))
        /\ jrnlMaybe' = MaybeOpened \cup
             {AddRecord(j, r) : j \in Reached(MaybeOpened, JournalOpened),
                                r \in {Original(p), TornOriginal(p)}}
    BY <1>3 DEF MakeWritable
  <2>2. Reached(MaybeOpened, JournalOpened) \subseteq Journal \ {NoJournal}
    BY JournalOpenedType DEF Reached
  <2>3. jrnlMaybe' \subseteq Journal
    BY <1>1, <2>1, <2>2, JournalOpenedType, AddRecordType
  <2>4. /\ jrnl' \in Journal /\ jrnl' # NoJournal
        /\ Len(jrnl') = Len(JournalOpened)
    BY <1>1, <2>1, JournalOpenedType, AddRecordType
  <2> QED BY <2>3, <2>4, JournalOpenedType DEF MakeWritable
<1> QED BY <1>2, <1>3

\* Opening, closing, locking and reading.
LEMMA ConnectionStep ==
  ASSUME Base,
         \/ \E k \in Keys : Open(k)
         \/ Close \/ SharedLock \/ Unlock
         \/ \E p \in Pages : AcquirePage(p) \/ RecyclePage(p)
  PROVE  Base'
<1> USE DEF Base, Writing, Modified, Idle, fileVars, pagerVars, keyVars, callVars, boundVars
<1>1. ASSUME NEW k \in Keys, Open(k) PROVE Base'
  <2>1. TypeOK'
    BY <1>1, PagerAssumption DEF Open, TypeOK, PagerStates, Calls, Steps
  <2>2. ControlInv'
    BY <1>1, PagerAssumption DEF Open, TypeOK, ControlInv
  <2>3. PageInv'
    BY <1>1 DEF Open, TypeOK, ControlInv, PageInv
  <2> QED BY <2>1, <2>2, <2>3
<1>2. CASE Close
  <2>1. TypeOK'
    BY <1>2 DEF Close, Disconnected, TypeOK, PagerStates, Calls, Steps
  <2>2. ControlInv'
    BY <1>2 DEF Close, Disconnected, TypeOK, ControlInv
  <2>3. PageInv'
    BY <1>2 DEF Close, Disconnected, TypeOK, ControlInv, PageInv
  <2> QED BY <2>1, <2>2, <2>3
<1>3. CASE SharedLock
  <2>1. TypeOK'
    BY <1>3 DEF SharedLock, TypeOK, PagerStates, Calls, Steps
  <2>2. ControlInv'
    BY <1>3 DEF SharedLock, TypeOK, ControlInv
  <2>3. PageInv'
    BY <1>3 DEF SharedLock, TypeOK, ControlInv, PageInv
  <2> QED BY <2>1, <2>2, <2>3
<1>4. CASE Unlock
  <2>1. TypeOK'
    BY <1>4 DEF Unlock, TypeOK, PagerStates, Calls, Steps
  <2>2. ControlInv'
    BY <1>4 DEF Unlock, TypeOK, ControlInv
  <2>3. PageInv'
    BY <1>4 DEF Unlock, TypeOK, ControlInv, PageInv
  <2> QED BY <2>1, <2>2, <2>3
<1>5. ASSUME NEW p \in Pages, AcquirePage(p) PROVE Base'
  <2>0. Decrypt(db[p]) \in Versions \cup {Zeroed}
    BY DecryptType DEF TypeOK
  <2>1. TypeOK'
    BY <1>5, <2>0 DEF AcquirePage, Unreadable, TypeOK, PagerStates, Calls, Steps
  <2>2. ControlInv'
    BY <1>5 DEF AcquirePage, Unreadable, TypeOK, ControlInv
  <2>3. PageInv'
    BY <1>5, <2>0, PagerAssumption DEF AcquirePage, Unreadable, TypeOK, ControlInv, PageInv
  <2> QED BY <2>1, <2>2, <2>3
<1>6. ASSUME NEW p \in Pages, RecyclePage(p) PROVE Base'
  <2>1. TypeOK'
    BY <1>6 DEF RecyclePage, TypeOK, PagerStates, Calls, Steps
  <2>2. ControlInv'
    BY <1>6 DEF RecyclePage, TypeOK, ControlInv
  <2>3. PageInv'
    BY <1>6 DEF RecyclePage, TypeOK, ControlInv, PageInv
  <2> QED BY <2>1, <2>2, <2>3
<1> QED BY <1>1, <1>2, <1>3, <1>4, <1>5, <1>6

\* What the b-tree asks for, and where each call starts.
LEMMA TransactionStep ==
  ASSUME Base,
         \/ \E k \in Keys : Rekey(k) \/ RekeyRefused(k)
         \/ \E p \in Pages : WritePage(p) \/ Spill(p)
         \/ Begin \/ EndUnmodified \/ Commit \/ IncrChangeCounter
         \/ RequestRollback \/ Rollback
  PROVE  Base'
<1> USE DEF Base, Writing, Modified, Idle, Start, fileVars, pagerVars, keyVars, callVars, boundVars
<1>1. ASSUME NEW k \in Keys, Rekey(k) PROVE Base'
  <2>1. TypeOK'
    BY <1>1, PagerAssumption DEF Rekey, MayBegin, Versions, TypeOK, PagerStates, Calls, Steps
  <2>2. ControlInv'
    BY <1>1, PagerAssumption DEF Rekey, MayBegin, Versions, TypeOK, ControlInv
  <2>3. PageInv'
    BY <1>1, PagerAssumption DEF Rekey, MayBegin, Versions, TypeOK, ControlInv, PageInv
  <2> QED BY <2>1, <2>2, <2>3
<1>2. ASSUME NEW k \in Keys, RekeyRefused(k) PROVE Base'
  <2>1. TypeOK'
    BY <1>2 DEF RekeyRefused, TypeOK, PagerStates, Calls, Steps
  <2>2. ControlInv'
    BY <1>2, PagerAssumption DEF RekeyRefused, TypeOK, ControlInv
  <2>3. PageInv'
    BY <1>2 DEF RekeyRefused, TypeOK, ControlInv, PageInv
  <2> QED BY <2>1, <2>2, <2>3
<1>3. ASSUME NEW p \in Pages, WritePage(p) PROVE Base'
  <2>0. /\ jrnl' \in Journal /\ jrnl' # NoJournal /\ jrnlMaybe' \subseteq Journal
        /\ journalHdr <= Len(jrnl')
        /\ dirty' = dirty \cup {p}
        /\ eState' = IF eState = "WRITER_LOCKED" THEN "WRITER_CACHEMOD" ELSE eState
    BY <1>3, MakeWritableType, Connected DEF WritePage, MayWrite
  <2>1. TypeOK'
    BY <1>3, <2>0 DEF WritePage, MayWrite, PageInv, TypeOK, PagerStates, Calls, Steps
  <2>2. ControlInv'
    BY <1>3, <2>0 DEF WritePage, MayWrite, PageInv, TypeOK, ControlInv
  <2>3. PageInv'
    BY <1>3, <2>0 DEF WritePage, MayWrite, TypeOK, ControlInv, PageInv
  <2> QED BY <2>1, <2>2, <2>3
<1>4. ASSUME NEW p \in Pages, Spill(p) PROVE Base'
  <2>1. TypeOK'
    BY <1>4 DEF Spill, TypeOK, PagerStates, Calls, Steps
  <2>2. ControlInv'
    BY <1>4 DEF Spill, TypeOK, ControlInv
  <2>3. PageInv'
    BY <1>4 DEF Spill, TypeOK, ControlInv, PageInv
  <2> QED BY <2>1, <2>2, <2>3
<1>5. CASE Begin
  <2>1. TypeOK'
    BY <1>5, PagerAssumption DEF Begin, MayBegin, Versions, TypeOK, PagerStates, Calls, Steps
  <2>2. ControlInv'
    BY <1>5 DEF Begin, MayBegin, Versions, TypeOK, ControlInv
  <2>3. PageInv'
    BY <1>5, PagerAssumption DEF Begin, MayBegin, Versions, TypeOK, ControlInv, PageInv
  <2> QED BY <2>1, <2>2, <2>3
<1>6. CASE EndUnmodified
  <2>1. TypeOK'
    BY <1>6 DEF EndUnmodified, TypeOK, PagerStates, Calls, Steps
  <2>2. ControlInv'
    BY <1>6 DEF EndUnmodified, TypeOK, ControlInv
  <2>3. PageInv'
    BY <1>6 DEF EndUnmodified, TypeOK, ControlInv, PageInv
  <2> QED BY <2>1, <2>2, <2>3
<1>7. CASE Commit
  <2>1. TypeOK'
    BY <1>7 DEF Commit, TypeOK, PagerStates, Calls, Steps
  <2>2. ControlInv'
    BY <1>7 DEF Commit, TypeOK, ControlInv
  <2>3. PageInv'
    BY <1>7 DEF Commit, TypeOK, ControlInv, PageInv
  <2> QED BY <2>1, <2>2, <2>3
<1>8. CASE IncrChangeCounter /\ counted
  <2>1. TypeOK'
    BY <1>8 DEF IncrChangeCounter, TypeOK, PagerStates, Calls, Steps
  <2>2. ControlInv'
    BY <1>8 DEF IncrChangeCounter, TypeOK, ControlInv
  <2>3. PageInv'
    BY <1>8 DEF IncrChangeCounter, TypeOK, ControlInv, PageInv
  <2> QED BY <2>1, <2>2, <2>3
<1>9. CASE IncrChangeCounter /\ ~counted
  <2>0. /\ jrnl' \in Journal /\ jrnl' # NoJournal /\ jrnlMaybe' \subseteq Journal
        /\ journalHdr <= Len(jrnl')
        /\ dirty' = dirty \cup {1}
        /\ eState' = eState
        /\ 1 \in Pages
    <3>1. 1 \in Pages
      BY PagerAssumption DEF Pages
    <3>2. eState \in Modified /\ cache[1] \in Versions /\ readKey \in Keys
      BY <1>9, Connected DEF IncrChangeCounter, ControlInv, PageInv
    <3>3. MakeWritable(1)
      BY <1>9 DEF IncrChangeCounter
    <3> QED BY <3>1, <3>2, <3>3, MakeWritableType
  <2>1. TypeOK'
    BY <1>9, <2>0 DEF IncrChangeCounter, PageInv, TypeOK, PagerStates, Calls, Steps
  <2>2. ControlInv'
    BY <1>9, <2>0 DEF IncrChangeCounter, PageInv, TypeOK, ControlInv
  <2>3. PageInv'
    BY <1>9, <2>0 DEF IncrChangeCounter, TypeOK, ControlInv, PageInv
  <2> QED BY <2>1, <2>2, <2>3
<1>10. CASE RequestRollback
  <2>1. TypeOK'
    BY <1>10 DEF RequestRollback, TypeOK, PagerStates, Calls, Steps
  <2>2. ControlInv'
    BY <1>10 DEF RequestRollback, TypeOK, ControlInv
  <2>3. PageInv'
    BY <1>10 DEF RequestRollback, TypeOK, ControlInv, PageInv
  <2> QED BY <2>1, <2>2, <2>3
<1>11. CASE Rollback
  <2>1. TypeOK'
    BY <1>11 DEF Rollback, TypeOK, PagerStates, Calls, Steps
  <2>2. ControlInv'
    BY <1>11 DEF Rollback, TypeOK, ControlInv
  <2>3. PageInv'
    BY <1>11 DEF Rollback, TypeOK, ControlInv, PageInv
  <2> QED BY <2>1, <2>2, <2>3
<1> QED BY <1>1, <1>2, <1>3, <1>4, <1>5, <1>6, <1>7, <1>8, <1>9, <1>10, <1>11

\* The steps of a commit, a spill, a rollback and a recovery that succeed.
LEMMA CallStep ==
  ASSUME Base,
         \/ SyncRecords \/ SyncHeader \/ WritePagelist \/ WriteSpilled
         \/ SyncHotJournal \/ Playback \/ SyncDb \/ Finalize
  PROVE  Base'
<1> USE DEF Base, Writing, Modified, Idle, Start, fileVars, pagerVars, keyVars, callVars, boundVars
<1>1. CASE SyncRecords
  <2>0. /\ jrnl' \in Journal /\ jrnl' # NoJournal /\ jrnlMaybe' \subseteq Journal
        /\ Len(jrnl') = Len(jrnl)
    <3>1. jrnl \in Journal /\ jrnl # NoJournal
      BY <1>1 DEF SyncRecords, TypeOK, ControlInv, PageInv
    <3>2. Len(jrnl) \in 1 .. Len(jrnl)
      BY <3>1, EmptySeq DEF Journal, NoJournal
    <3>3. Len(jrnl[Len(jrnl)].records) \in Nat
      <4>1. jrnl[Len(jrnl)] \in Segment
        BY <3>1, <3>2, ElementOfSeq DEF Journal
      <4> QED BY <4>1, LenProperties DEF Segment
    <3> QED BY <1>1, <3>1, <3>3, FillHeaderType DEF SyncRecords
  <2>1. TypeOK'
    BY <1>1, <2>0 DEF SyncRecords, TypeOK, PagerStates, Calls, Steps
  <2>2. ControlInv'
    BY <1>1 DEF SyncRecords, TypeOK, ControlInv
  <2>3. PageInv'
    BY <1>1, <2>0 DEF SyncRecords, TypeOK, ControlInv, PageInv
  <2> QED BY <2>1, <2>2, <2>3
<1>2. CASE SyncHeader
  <2>0. /\ jrnl' \in Journal /\ jrnl' # NoJournal /\ jrnlMaybe' \subseteq Journal
        /\ journalHdr' \in Nat /\ journalHdr' <= Len(jrnl')
    <3>1. jrnl \in Journal /\ jrnl # NoJournal
      BY <1>2 DEF SyncHeader, TypeOK, ControlInv, PageInv
    <3>2. Len(jrnl) \in Nat
      BY <3>1, LenProperties DEF Journal
    <3>3. /\ Append(jrnl, NewSegment) \in Journal
          /\ Len(Append(jrnl, NewSegment)) = Len(jrnl) + 1
          /\ Append(jrnl, NewSegment) # NoJournal
      BY <3>1, NewSegmentType, AppendProperties DEF Journal, NoJournal
    <3> QED BY <1>2, <3>1, <3>2, <3>3 DEF SyncHeader
  <2>1. TypeOK'
    BY <1>2, <2>0 DEF SyncHeader, TypeOK, PagerStates, Calls, Steps
  <2>2. ControlInv'
    BY <1>2 DEF SyncHeader, TypeOK, ControlInv
  <2>3. PageInv'
    BY <1>2, <2>0 DEF SyncHeader, TypeOK, ControlInv, PageInv
  <2> QED BY <2>1, <2>2, <2>3
<1>3. CASE WritePagelist
  <2>0. db' \in [Pages -> Stored] /\ dbMaybe' \in [Pages -> SUBSET Stored]
    <3>1. writeKey \in Keys /\ WriteFile(dirty, Encrypted)
      BY <1>3, Connected DEF WritePagelist
    <3> QED BY <3>1, EncryptedType, WriteFileType
  <2>1. TypeOK'
    BY <1>3, <2>0 DEF WritePagelist, TypeOK, PagerStates, Calls, Steps
  <2>2. ControlInv'
    BY <1>3 DEF WritePagelist, TypeOK, ControlInv
  <2>3. PageInv'
    BY <1>3 DEF WritePagelist, TypeOK, ControlInv, PageInv
  <2> QED BY <2>1, <2>2, <2>3
<1>4. CASE WriteSpilled
  <2>0. /\ db' \in [Pages -> Stored] /\ dbMaybe' \in [Pages -> SUBSET Stored]
        /\ spilled \in dirty \ {1} /\ spilled \in Pages
    <3>1. spilled \in dirty \ {1}
      BY <1>4 DEF WriteSpilled, ControlInv
    <3>2. writeKey \in Keys /\ WriteFile({spilled}, Encrypted)
      BY <1>4, Connected DEF WriteSpilled
    <3> QED BY <3>1, <3>2, EncryptedType, WriteFileType
  <2>1. TypeOK'
    BY <1>4, <2>0 DEF WriteSpilled, TypeOK, PagerStates, Calls, Steps
  <2>2. ControlInv'
    BY <1>4, <2>0 DEF WriteSpilled, TypeOK, ControlInv
  <2>3. PageInv'
    BY <1>4, <2>0, PagerAssumption DEF WriteSpilled, TypeOK, ControlInv, PageInv
  <2> QED BY <2>1, <2>2, <2>3
<1>5. CASE SyncHotJournal
  <2>0. Len(jrnl) \in Nat
    BY LenProperties DEF TypeOK, Journal
  <2>1. TypeOK'
    BY <1>5, <2>0 DEF SyncHotJournal, TypeOK, PagerStates, Calls, Steps
  <2>2. ControlInv'
    BY <1>5 DEF SyncHotJournal, TypeOK, ControlInv
  <2>3. PageInv'
    BY <1>5 DEF SyncHotJournal, TypeOK, ControlInv, PageInv
  <2> QED BY <2>1, <2>2, <2>3
<1>6. CASE Playback
  <2>0. db' \in [Pages -> Stored] /\ dbMaybe' \in [Pages -> SUBSET Stored]
    BY <1>6, PlaybackType, WriteFileType DEF Playback
  <2> DEFINE restored == {p \in Journaled(jrnl) : cache[p] # NoPage}
             file == Restore(db, RecordsOf(jrnl, Len(jrnl)))
  <2>00. /\ cache' = [p \in Pages |-> IF p \in restored THEN Decrypt(file[p]) ELSE cache[p]]
         /\ errCode' = (errCode \/ \E p \in restored : Unreadable(file[p]))
         /\ dirty' = dirty \ restored
         /\ \A p \in Pages : Decrypt(file[p]) \in Versions \cup {Zeroed}
    <3>1. RecordsOf(jrnl, Len(jrnl)) \in SUBSET Record
      BY RecordsType, LenProperties DEF TypeOK, Journal
    <3>2. file \in [Pages -> Stored]
      BY <3>1, RestoreType DEF TypeOK
    <3> QED BY <1>6, <3>2, DecryptType DEF Playback
  <2> HIDE DEF restored, file
  <2>1. TypeOK'
    BY <1>6, <2>0, <2>00 DEF Playback, TypeOK, PagerStates, Calls, Steps
  <2>2. ControlInv'
    BY <1>6 DEF Playback, TypeOK, ControlInv
  <2>3. PageInv'
    BY <1>6, <2>00 DEF Playback, TypeOK, ControlInv, PageInv
  <2> QED BY <2>1, <2>2, <2>3
<1>7. CASE SyncDb
  <2>0. dbMaybe' \in [Pages -> SUBSET Stored]
    BY <1>7 DEF SyncDb, TypeOK
  <2>1. TypeOK'
    BY <1>7, <2>0 DEF SyncDb, TypeOK, PagerStates, Calls, Steps
  <2>2. ControlInv'
    BY <1>7 DEF SyncDb, TypeOK, ControlInv
  <2>3. PageInv'
    BY <1>7 DEF SyncDb, TypeOK, ControlInv, PageInv
  <2> QED BY <2>1, <2>2, <2>3
<1>8. CASE Finalize
  <2>0. jrnl' \in Journal /\ jrnlMaybe' \subseteq Journal
    BY <1>8, NewSegmentType DEF Finalize, TypeOK
  <2>1. TypeOK'
    BY <1>8, <2>0, Connected DEF Finalize, TypeOK, PagerStates, Calls, Steps
  <2>2. ControlInv'
    BY <1>8, Connected DEF Finalize, TypeOK, ControlInv
  <2>3. PageInv'
    BY <1>8 DEF Finalize, TypeOK, ControlInv, PageInv
  <2> QED BY <2>1, <2>2, <2>3
<1> QED BY <1>1, <1>2, <1>3, <1>4, <1>5, <1>6, <1>7, <1>8

\* A call that fails, and the crash.
LEMMA FaultStep ==
  ASSUME Base,
         \/ \E p \in Pages : WriteFails(p)
         \/ CommitFails \/ FinalizeFails \/ SpillFails \/ RollbackFails
         \/ RecoveryFails \/ Crash
  PROVE  Base'
<1> USE DEF Base, Writing, Modified, Idle, Start, PagerError, fileVars, pagerVars, keyVars, callVars, boundVars
<1>0. Fault => faults' \in Nat /\ transactions' = transactions /\ crashes' = crashes
  BY DEF Fault, TypeOK
<1>1. ASSUME NEW p \in Pages, WriteFails(p) PROVE Base'
  <2>0. /\ jrnl' \in Journal /\ jrnlMaybe' \subseteq Journal
        /\ eState' \in Modified => jrnl' # NoJournal /\ journalHdr <= Len(jrnl')
        /\ eState' \in Writing
        /\ eState' = "WRITER_LOCKED" => eState = "WRITER_LOCKED"
        /\ eState' = "WRITER_CACHEMOD" => eState \in {"WRITER_LOCKED", "WRITER_CACHEMOD"}
        /\ dirty' \in {dirty, dirty \cup {p}}
    <3>1. eState \in Writing
      BY <1>1 DEF WriteFails, MayWrite
    <3>2. CASE eState = "WRITER_LOCKED" /\ UNCHANGED <<jrnl, jrnlMaybe, eState, dirty>>
      BY <3>2 DEF TypeOK, PageInv
    <3>3. CASE /\ jrnl' = JournalOpened
               /\ jrnlMaybe' = MaybeOpened
               /\ eState' = IF eState = "WRITER_LOCKED" THEN "WRITER_CACHEMOD"
                            ELSE eState
               /\ dirty' = dirty \cup {p}
      BY <3>1, <3>3, JournalOpenedType
    <3> QED BY <1>1, <3>2, <3>3 DEF WriteFails
  <2>1. TypeOK'
    BY <1>0, <1>1, <2>0 DEF WriteFails, MayWrite, TypeOK, PagerStates, Calls, Steps
  <2>2. ControlInv'
    BY <1>0, <1>1, <2>0 DEF WriteFails, MayWrite, TypeOK, ControlInv
  <2>3. PageInv'
    BY <1>0, <1>1, <2>0 DEF WriteFails, MayWrite, TypeOK, ControlInv, PageInv
  <2> QED BY <2>1, <2>2, <2>3
<1>2. CASE CommitFails
  <2>0. db' \in [Pages -> Stored] /\ dbMaybe' \in [Pages -> SUBSET Stored]
    <3>1. PICK pages \in SUBSET (IF step = "pages" THEN dirty ELSE {}) :
            WriteFile(pages, Encrypted)
      BY <1>2 DEF CommitFails
    <3>2. writeKey \in Keys /\ pages \subseteq dirty
      BY <1>2, <3>1, Connected DEF CommitFails
    <3> QED BY <3>1, <3>2, EncryptedType, WriteFileType
  <2>1. TypeOK'
    BY <1>0, <1>2, <2>0, Connected DEF CommitFails, TypeOK, PagerStates, Calls, Steps
  <2>2. ControlInv'
    BY <1>0, <1>2, Connected, PagerAssumption DEF CommitFails, TypeOK, ControlInv
  <2>3. PageInv'
    BY <1>0, <1>2 DEF CommitFails, TypeOK, ControlInv, PageInv
  <2> QED BY <2>1, <2>2, <2>3
<1>3. CASE FinalizeFails
  <2>1. TypeOK'
    BY <1>0, <1>3, Connected DEF FinalizeFails, TypeOK, PagerStates, Calls, Steps
  <2>2. ControlInv'
    BY <1>0, <1>3, Connected, PagerAssumption DEF FinalizeFails, TypeOK, ControlInv
  <2>3. PageInv'
    BY <1>0, <1>3 DEF FinalizeFails, TypeOK, ControlInv, PageInv
  <2> QED BY <2>1, <2>2, <2>3
<1>4. CASE SpillFails
  <2>1. TypeOK'
    BY <1>0, <1>4 DEF SpillFails, TypeOK, PagerStates, Calls, Steps
  <2>2. ControlInv'
    BY <1>0, <1>4 DEF SpillFails, TypeOK, ControlInv
  <2>3. PageInv'
    BY <1>0, <1>4 DEF SpillFails, TypeOK, ControlInv, PageInv
  <2> QED BY <2>1, <2>2, <2>3
<1>5. CASE RollbackFails
  <2>0. db' \in [Pages -> Stored] /\ dbMaybe' \in [Pages -> SUBSET Stored]
    BY <1>5, PlaybackType, WriteFileType DEF RollbackFails
  <2>1. TypeOK'
    BY <1>0, <1>5, <2>0 DEF RollbackFails, TypeOK, PagerStates, Calls, Steps
  <2>2. ControlInv'
    BY <1>0, <1>5 DEF RollbackFails, TypeOK, ControlInv
  <2>3. PageInv'
    BY <1>0, <1>5 DEF RollbackFails, TypeOK, ControlInv, PageInv
  <2> QED BY <2>1, <2>2, <2>3
<1>6. CASE RecoveryFails
  <2>0. db' \in [Pages -> Stored] /\ dbMaybe' \in [Pages -> SUBSET Stored]
    BY <1>6, PlaybackType, WriteFileType DEF RecoveryFails
  <2>1. TypeOK'
    BY <1>0, <1>6, <2>0 DEF RecoveryFails, TypeOK, PagerStates, Calls, Steps
  <2>2. ControlInv'
    BY <1>0, <1>6 DEF RecoveryFails, TypeOK, ControlInv
  <2>3. PageInv'
    BY <1>0, <1>6 DEF RecoveryFails, TypeOK, ControlInv, PageInv
  <2> QED BY <2>1, <2>2, <2>3
<1>7. CASE Crash
  <2>0. /\ db' \in [Pages -> Stored] /\ dbMaybe' \in [Pages -> SUBSET Stored]
        /\ jrnl' \in Journal /\ jrnlMaybe' \subseteq Journal
    <3>1. PICK file \in [Pages -> UNION {dbMaybe[p] : p \in Pages}] :
            /\ \A p \in Pages : file[p] \in dbMaybe[p]
            /\ db' = file
            /\ dbMaybe' = [p \in Pages |-> {file[p]}]
      BY <1>7 DEF Crash
    <3>2. file \in [Pages -> Stored]
      BY <3>1 DEF TypeOK
    <3>3. jrnl' \in Journal /\ jrnlMaybe' = {jrnl'}
      BY <1>7, NewSegmentType DEF Crash, TypeOK
    <3> QED BY <3>1, <3>2, <3>3
  <2>00. crashes' \in Nat /\ UNCHANGED <<transactions, faults>> /\ Disconnected
    BY <1>7 DEF Crash, TypeOK
  <2>1. TypeOK'
    BY <2>00, <2>0 DEF Disconnected, TypeOK, PagerStates, Calls, Steps
  <2>2. ControlInv'
    BY <2>00 DEF Disconnected, TypeOK, ControlInv
  <2>3. PageInv'
    BY <2>00 DEF Disconnected, TypeOK, ControlInv, PageInv
  <2> QED BY <2>1, <2>2, <2>3
<1> QED BY <1>1, <1>2, <1>3, <1>4, <1>5, <1>6, <1>7

LEMMA InitBase == Init => Base
<1> SUFFICES ASSUME Init PROVE Base
  OBVIOUS
<1> USE DEF Init
<1>1. /\ db \in [Pages -> Stored] /\ dbMaybe \in [Pages -> SUBSET Stored]
  <2>1. PICK k \in Keys : db = [p \in Pages |-> [key |-> k, val |-> 0]]
    OBVIOUS
  <2>2. [key |-> k, val |-> 0] \in Stored
    BY PagerAssumption DEF Stored, Image, Versions
  <2>3. db \in [Pages -> Stored]
    BY <2>1, <2>2
  <2> QED BY <2>3
<1>2. TypeOK
  BY <1>1, NewSegmentType DEF TypeOK, PagerStates, Calls, Steps
<1>3. ControlInv
  BY DEF ControlInv
<1>4. PageInv
  BY PagerAssumption DEF PageInv, Versions, Writing, Modified
<1> QED BY <1>2, <1>3, <1>4 DEF Base

LEMMA StepBase == Base /\ [Next]_vars => Base'
<1> SUFFICES ASSUME Base, [Next]_vars PROVE Base'
  OBVIOUS
<1>1. CASE Next
  BY <1>1, ConnectionStep, TransactionStep, CallStep, FaultStep DEF Next
<1>2. CASE UNCHANGED vars
  BY <1>2 DEF vars, fileVars, pagerVars, keyVars, callVars, boundVars, Base,
              TypeOK, ControlInv, PageInv
<1> QED BY <1>1, <1>2

LEMMA Controlled == Spec => []Base
<1> QED BY InitBase, StepBase, PTL DEF Spec

\* Every variable keeps its type, whatever fails and whenever the process dies:
\* only readable pages are ever journaled, encrypted and written.
THEOREM TypeCorrect == Spec => []TypeOK
<1>1. Base => TypeOK
  BY DEF Base
<1> QED BY <1>1, Controlled, PTL

-----------------------------------------------------------------------------
(***************************************************************************)
(* The journal is written ahead.  A page written to the database file is   *)
(* known to be in the synced segments of the journal (GrowthInv), and what *)
(* is in them is in every journal that a crash may leave (JournalInv).     *)
(* Nothing is said of a rekey during which a call fails: sqlite3_rekey_v2  *)
(* leaves the transaction open then.                                       *)
(***************************************************************************)
Inv == Base /\ JournalInv /\ GrowthInv /\ WriteAhead

\* The pages of the first n segments, and those a playback puts back.
LEMMA RecordPages ==
  ASSUME NEW j, NEW n \in Nat, NEW p
  PROVE  p \in {r.page : r \in RecordsOf(j, n)} <=> \E i \in 1 .. n : Holds(j[i], p)
BY DEF RecordsOf, Range, Holds

LEMMA HotPage ==
  ASSUME NEW j \in Journal, NEW p
  PROVE  p \in HotPages(j) <=>
           \E i \in 1 .. Len(j) : Holds(j[i], p) /\ \A h \in 1 .. i : j[h].nRec > 0
<1>1. DOMAIN j = 1 .. Len(j)
  BY LenProperties DEF Journal
<1> QED BY <1>1 DEF HotPages, HotRecords, Range, Holds

\* A journal that grows, and is hot as far as it was before, loses no page.
LEMMA Grows ==
  ASSUME NEW j \in Journal, NEW k \in Journal, Len(j) <= Len(k),
         \A i \in 1 .. Len(j) : /\ j[i].nRec > 0 => k[i].nRec > 0
                                /\ \A p : Holds(j[i], p) => Holds(k[i], p)
  PROVE  HotPages(j) \subseteq HotPages(k)
<1> SUFFICES ASSUME NEW p \in HotPages(j) PROVE p \in HotPages(k)
  OBVIOUS
<1>1. Len(j) \in Nat /\ Len(k) \in Nat
  BY LenProperties DEF Journal
<1>2. PICK i \in 1 .. Len(j) : Holds(j[i], p) /\ \A h \in 1 .. i : j[h].nRec > 0
  BY HotPage
<1>3. i \in 1 .. Len(k) /\ \A h \in 1 .. i : h \in 1 .. Len(j)
  BY <1>1
<1> QED BY <1>2, <1>3, HotPage

\* What a journal that is not hot would put back.
LEMMA ColdJournal ==
  ASSUME NEW j \in Journal, ~ Hot(j)
  PROVE  HotPages(j) = {}
<1> SUFFICES ASSUME NEW p \in HotPages(j) PROVE FALSE
  OBVIOUS
<1>1. PICK i \in 1 .. Len(j) : \A h \in 1 .. i : j[h].nRec > 0
  BY HotPage
<1>2. 1 \in 1 .. i /\ j # NoJournal
  BY EmptySeq DEF Journal, NoJournal
<1> QED BY <1>1, <1>2 DEF Hot

\* Writes to pages that every possible journal puts back.
LEMMA WriteProtected ==
  ASSUME Inv, NEW pages, NEW file, WriteFile(pages, file), UNCHANGED jrnlMaybe,
         \A p \in pages : \A j \in jrnlMaybe : p \in HotPages(j)
  PROVE  WriteAhead'
BY DEF Inv, WriteAhead, WriteFile

\* A file that is synced needs no journal.
LEMMA SyncedFile ==
  ASSUME Synced'
  PROVE  WriteAhead'
BY DEF Synced, WriteAhead

\* The journals may only grow while the file stays as it is.
LEMMA GrownJournals ==
  ASSUME Inv, UNCHANGED <<db, dbMaybe>>,
         \A k \in jrnlMaybe' : \E j \in jrnlMaybe : HotPages(j) \subseteq HotPages(k)
  PROVE  WriteAhead'
BY DEF Inv, WriteAhead

\* The journal that the next write of a transaction finds.
LEMMA OpenedJournal ==
  ASSUME Inv, eState \in Writing, call \in {"none", "commit"}, step = "start"
  PROVE  /\ JournalOpened \in MaybeOpened
         /\ JournalOpened[Len(JournalOpened)].nRec = 0
         /\ journalHdr = Len(JournalOpened) - 1
         /\ dirty \subseteq Journaled(JournalOpened)
         /\ eState # "WRITER_DBMOD" => Len(JournalOpened) = 1 /\ Synced
         /\ eState # "WRITER_LOCKED" =>
              JournalOpened = jrnl /\ MaybeOpened = jrnlMaybe
<1>1. CASE eState = "WRITER_LOCKED"
  <2>1. JournalOpened = <<NewSegment>> /\ Len(JournalOpened) = 1
    BY <1>1 DEF JournalOpened
  <2>2. journalHdr = 0 /\ dirty = {} /\ Synced
    BY <1>1 DEF Inv, Base, PageInv, JournalInv
  <2>3. JournalOpened \in MaybeOpened
    BY <1>1, <2>1 DEF MaybeOpened
  <2> QED BY <1>1, <2>1, <2>2, <2>3 DEF NewSegment
<1>2. CASE eState # "WRITER_LOCKED"
  BY <1>2 DEF Inv, JournalInv, GrowthInv, JournalOpened, MaybeOpened, Writing, Modified
<1> QED BY <1>1, <1>2

\* Journaling a page keeps what is known of the journals.
LEMMA MakeWritableJournal ==
  ASSUME Inv, Base', NEW p \in Pages, MakeWritable(p), UNCHANGED <<db, dbMaybe, journalHdr>>,
         eState \in Writing, call \in {"none", "commit"}, step = "start",
         cache[p] \in Versions
  PROVE  /\ WriteAhead'
         /\ jrnl' \in jrnlMaybe'
         /\ eState' = "WRITER_CACHEMOD" => Synced' /\ Len(jrnl') = 1
         /\ SyncedPages' = SyncedPages
         /\ eState' = "WRITER_DBMOD" =>
              \A j \in jrnlMaybe' : SyncedPages \subseteq HotPages(j)
         /\ \A i \in 1 .. journalHdr : i < Len(jrnl') => jrnl'[i].nRec > 0
         /\ dirty' \subseteq Journaled(jrnl')
         /\ journalHdr = Len(jrnl') - 1
         /\ jrnl'[Len(jrnl')].nRec = 0
         /\ eState' \in Modified
         /\ dirty' = dirty \cup {p}
<1> DEFINE open == JournalOpened
           maybe == MaybeOpened
<1>1. /\ open \in Journal /\ open # NoJournal /\ maybe \subseteq Journal
      /\ open \in maybe /\ open[Len(open)].nRec = 0
      /\ journalHdr = Len(open) - 1 /\ dirty \subseteq Journaled(open)
      /\ eState # "WRITER_DBMOD" => Len(open) = 1 /\ Synced
      /\ eState # "WRITER_LOCKED" => open = jrnl /\ maybe = jrnlMaybe
  BY OpenedJournal, JournalOpenedType DEF Inv
<1>2. /\ dirty' = dirty \cup {p}
      /\ eState' = IF eState = "WRITER_LOCKED" THEN "WRITER_CACHEMOD" ELSE eState
      /\ eState' \in Modified
  BY DEF MakeWritable, Writing, Modified
<1>3. \A i \in 1 .. journalHdr : i < Len(open) => open[i].nRec > 0
  BY <1>1 DEF Inv, JournalInv, Writing, Modified
<1>4. CASE p \in Journaled(open)
  <2>1. eState # "WRITER_LOCKED"
    BY <1>4, NothingJournaled
  <2>2. UNCHANGED <<jrnl, jrnlMaybe>> /\ jrnl = open
    BY <1>1, <1>4, <2>1 DEF MakeWritable
  <2>3. WriteAhead'
    BY <2>2, GrownJournals
  <2>4. SyncedPages' = SyncedPages /\ (Synced => Synced')
    BY <2>2 DEF SyncedPages, Synced
  <2>5. /\ jrnl \in jrnlMaybe
        /\ eState = "WRITER_DBMOD" => \A j \in jrnlMaybe : SyncedPages \subseteq HotPages(j)
    BY DEF Inv, JournalInv
  <2> HIDE DEF open, maybe
  <2> QED BY <1>1, <1>2, <1>3, <1>4, <2>1, <2>2, <2>3, <2>4, <2>5 DEF Modified
<1>5. CASE p \notin Journaled(open)
  <2>1. Original(p) \in Record /\ TornOriginal(p) \in Record
    <3>1. readKey \in Keys
      BY Connected DEF Inv, Writing, Modified
    <3> QED BY <3>1 DEF Original, TornOriginal, Record, Stored, Image
  <2>2. /\ jrnl' = AddRecord(open, Original(p))
        /\ jrnlMaybe' = maybe \cup
             {AddRecord(j, r) : j \in Reached(maybe, open),
                                r \in {Original(p), TornOriginal(p)}}
    BY <1>5 DEF MakeWritable
  <2> HIDE DEF open, maybe
  <2>3. /\ jrnl' \in Journal /\ Len(jrnl') = Len(open) /\ Len(open) \in Nat \ {0}
        /\ \A i \in 1 .. Len(open) :
             /\ jrnl'[i].nRec = open[i].nRec
             /\ i # Len(open) => jrnl'[i] = open[i]
             /\ \A q : Holds(open[i], q) => Holds(jrnl'[i], q)
        /\ Holds(jrnl'[Len(open)], p)
    <3>1. Original(p).page = p
      BY DEF Original
    <3>2. /\ AddRecord(open, Original(p)) \in Journal
          /\ Len(open) \in Nat \ {0}
          /\ Len(AddRecord(open, Original(p))) = Len(open)
          /\ \A i \in 1 .. Len(open) :
               /\ AddRecord(open, Original(p))[i].nRec = open[i].nRec
               /\ i # Len(open) => AddRecord(open, Original(p))[i] = open[i]
               /\ \A q : Holds(open[i], q) => Holds(AddRecord(open, Original(p))[i], q)
          /\ Holds(AddRecord(open, Original(p))[Len(open)], Original(p).page)
      BY <1>1, <2>1, AddRecordType, Zenon
    <3> QED BY <2>2, <3>1, <3>2
  <2>4. jrnl' \in jrnlMaybe'
    BY <1>1, <2>2 DEF Reached
  <2>5. \A k \in jrnlMaybe' : \E j \in maybe : HotPages(j) \subseteq HotPages(k)
    <3> SUFFICES ASSUME NEW j \in Reached(maybe, open),
                        NEW r \in {Original(p), TornOriginal(p)}
                 PROVE  j \in maybe /\ HotPages(j) \subseteq HotPages(AddRecord(j, r))
      BY <2>2
    <3>1. j \in maybe /\ j \in Journal /\ j # NoJournal
      BY <1>1 DEF Reached
    <3>2. /\ AddRecord(j, r) \in Journal /\ Len(AddRecord(j, r)) = Len(j) /\ Len(j) \in Nat
          /\ \A i \in 1 .. Len(j) :
               /\ AddRecord(j, r)[i].nRec = j[i].nRec
               /\ \A q : Holds(j[i], q) => Holds(AddRecord(j, r)[i], q)
      <4>1. r \in Record
        BY <2>1
      <4>2. /\ AddRecord(j, r) \in Journal
            /\ Len(j) \in Nat \ {0}
            /\ Len(AddRecord(j, r)) = Len(j)
            /\ \A i \in 1 .. Len(j) :
                 /\ AddRecord(j, r)[i].nRec = j[i].nRec
                 /\ i # Len(j) => AddRecord(j, r)[i] = j[i]
                 /\ \A q : Holds(j[i], q) => Holds(AddRecord(j, r)[i], q)
        BY <3>1, <4>1, AddRecordType, Zenon
      <4> QED BY <4>2
    <3> DEFINE k == AddRecord(j, r)
    <3>3. HotPages(j) \subseteq HotPages(k)
      <4> HIDE DEF k
      <4>1. /\ k \in Journal /\ Len(j) <= Len(k)
            /\ \A i \in 1 .. Len(j) : /\ j[i].nRec > 0 => k[i].nRec > 0
                                      /\ \A q : Holds(j[i], q) => Holds(k[i], q)
        BY <3>2 DEF k
      <4> QED BY <3>1, <4>1, Grows
    <3> QED BY <3>1, <3>3
  <2>6. Synced => Synced'
    BY DEF Synced
  <2>7. WriteAhead'
    <3>1. CASE eState = "WRITER_LOCKED"
      BY <1>1, <2>6, <3>1, SyncedFile
    <3>2. CASE eState # "WRITER_LOCKED"
      BY <1>1, <2>5, <3>2, GrownJournals
    <3> QED BY <3>1, <3>2
  <2>8. SyncedPages' = SyncedPages
    <3>1. CASE eState = "WRITER_LOCKED"
      <4>1. journalHdr = 0
        BY <3>1 DEF Inv, Base, PageInv
      <4> QED BY <4>1 DEF SyncedPages, RecordsOf
    <3>2. CASE eState # "WRITER_LOCKED"
      <4>1. \A i \in 1 .. journalHdr : jrnl'[i] = jrnl[i]
        BY <1>1, <2>3, <3>2
      <4>2. RecordsOf(jrnl', journalHdr) = RecordsOf(jrnl, journalHdr)
        BY <4>1 DEF RecordsOf
      <4> QED BY <4>2 DEF SyncedPages
    <3> QED BY <3>1, <3>2
  <2>9. eState' = "WRITER_DBMOD" => \A j \in jrnlMaybe' : SyncedPages \subseteq HotPages(j)
    BY <1>1, <1>2, <2>5 DEF Inv, JournalInv
  <2>10. dirty' \subseteq Journaled(jrnl')
    <3> SUFFICES ASSUME NEW q \in dirty' PROVE q \in Journaled(jrnl')
      OBVIOUS
    <3>1. q \in Journaled(open) => \E i \in 1 .. Len(open) : Holds(open[i], q)
      BY <2>3, RecordPages DEF Journaled
    <3>2. \E i \in 1 .. Len(open) : Holds(jrnl'[i], q)
      BY <1>1, <1>2, <2>3, <3>1
    <3> QED BY <2>3, <3>2, RecordPages DEF Journaled
  <2>11. /\ \A i \in 1 .. journalHdr : i < Len(jrnl') => jrnl'[i].nRec > 0
         /\ journalHdr = Len(jrnl') - 1
         /\ jrnl'[Len(jrnl')].nRec = 0
    BY <1>1, <1>3, <2>3
  <2> QED BY <1>1, <1>2, <2>3, <2>4, <2>6, <2>7, <2>8, <2>9, <2>10, <2>11
<1> QED BY <1>4, <1>5

\* Steps that leave the files alone.
LEMMA FileFrame ==
  ASSUME Inv, UNCHANGED fileVars
  PROVE  /\ WriteAhead' /\ jrnl' \in jrnlMaybe'
         /\ jrnl' = jrnl /\ jrnlMaybe' = jrnlMaybe
         /\ Synced => Synced'
         /\ journalHdr' = journalHdr => SyncedPages' = SyncedPages
BY DEF Inv, JournalInv, WriteAhead, Synced, SyncedPages, fileVars

\* Opening, closing, locking and reading.
LEMMA ConnectionJournal ==
  ASSUME Inv, Base',
         \/ \E k \in Keys : Open(k)
         \/ Close \/ SharedLock \/ Unlock
         \/ \E p \in Pages : AcquirePage(p) \/ RecyclePage(p)
  PROVE  Inv'
<1> USE DEF Writing, Modified, Idle, pagerVars, keyVars, callVars, boundVars
<1>1. ASSUME NEW k \in Keys, Open(k) PROVE Inv'
  <2>1. UNCHANGED fileVars
    BY <1>1 DEF Open, fileVars
  <2>2. WriteAhead'
    BY <2>1, FileFrame
  <2>3. JournalInv'
    BY <1>1, <2>1, FileFrame DEF Open, Inv, JournalInv
  <2>4. GrowthInv'
    BY <1>1, <2>1, FileFrame DEF Open, Inv, JournalInv, GrowthInv
  <2> QED BY <2>2, <2>3, <2>4 DEF Inv
<1>2. CASE Close
  <2>1. UNCHANGED fileVars
    BY <1>2 DEF Close, fileVars
  <2>2. WriteAhead'
    BY <2>1, FileFrame
  <2>3. JournalInv'
    BY <1>2, <2>1, FileFrame DEF Close, Disconnected, Inv, JournalInv
  <2>4. GrowthInv'
    BY <1>2, <2>1, FileFrame DEF Close, Disconnected, Inv, JournalInv, GrowthInv
  <2> QED BY <2>2, <2>3, <2>4 DEF Inv
<1>3. CASE SharedLock
  <2>0. ~ Hot(jrnl) => Synced
    <3>1. ~ Hot(jrnl) => HotPages(jrnl) = {}
      BY ColdJournal DEF Inv, Base, TypeOK
    <3> QED BY <3>1 DEF Inv, JournalInv, WriteAhead, Synced
  <2>1. UNCHANGED fileVars
    BY <1>3 DEF SharedLock, fileVars
  <2>2. WriteAhead'
    BY <2>1, FileFrame
  <2>3. JournalInv'
    BY <1>3, <2>1, <2>0, FileFrame DEF SharedLock, Base, PageInv, Inv, JournalInv
  <2>4. GrowthInv'
    BY <1>3, <2>1, <2>0, FileFrame DEF SharedLock, Base, PageInv, Inv, JournalInv, GrowthInv
  <2> QED BY <2>2, <2>3, <2>4 DEF Inv
<1>4. CASE Unlock
  <2>1. UNCHANGED fileVars
    BY <1>4 DEF Unlock, fileVars
  <2>2. WriteAhead'
    BY <2>1, FileFrame
  <2>3. JournalInv'
    BY <1>4, <2>1, FileFrame DEF Unlock, Base, ControlInv, Inv, JournalInv
  <2>4. GrowthInv'
    BY <1>4, <2>1, FileFrame DEF Unlock, Base, ControlInv, Inv, JournalInv, GrowthInv
  <2> QED BY <2>2, <2>3, <2>4 DEF Inv
<1>5. ASSUME NEW p \in Pages, AcquirePage(p) PROVE Inv'
  <2>1. UNCHANGED fileVars
    BY <1>5 DEF AcquirePage, fileVars
  <2>2. WriteAhead'
    BY <2>1, FileFrame
  <2>3. JournalInv'
    BY <1>5, <2>1, FileFrame DEF AcquirePage, Inv, JournalInv
  <2>4. GrowthInv'
    BY <1>5, <2>1, FileFrame DEF AcquirePage, Inv, JournalInv, GrowthInv
  <2> QED BY <2>2, <2>3, <2>4 DEF Inv
<1>6. ASSUME NEW p \in Pages, RecyclePage(p) PROVE Inv'
  <2>1. UNCHANGED fileVars
    BY <1>6 DEF RecyclePage, fileVars
  <2>2. WriteAhead'
    BY <2>1, FileFrame
  <2>3. JournalInv'
    BY <1>6, <2>1, FileFrame DEF RecyclePage, Inv, JournalInv
  <2>4. GrowthInv'
    BY <1>6, <2>1, FileFrame DEF RecyclePage, Inv, JournalInv, GrowthInv
  <2> QED BY <2>2, <2>3, <2>4 DEF Inv
<1> QED BY <1>1, <1>2, <1>3, <1>4, <1>5, <1>6

\* What the b-tree asks for, and where each call starts.
LEMMA TransactionJournal ==
  ASSUME Inv, Base',
         \/ \E k \in Keys : Rekey(k) \/ RekeyRefused(k)
         \/ \E p \in Pages : WritePage(p) \/ Spill(p)
         \/ Begin \/ EndUnmodified \/ Commit \/ IncrChangeCounter
         \/ RequestRollback \/ Rollback
  PROVE  Inv'
<1> USE DEF Writing, Modified, Idle, Start, pagerVars, keyVars, callVars, boundVars
<1>1. ASSUME NEW k \in Keys, Rekey(k) PROVE Inv'
  <2>1. UNCHANGED fileVars
    BY <1>1 DEF Rekey, fileVars
  <2>2. WriteAhead'
    BY <2>1, FileFrame
  <2>3. JournalInv'
    BY <1>1, <2>1, FileFrame DEF Rekey, MayBegin, Inv, JournalInv
  <2>4. GrowthInv'
    BY <1>1, <2>1, FileFrame DEF Rekey, MayBegin, Inv, JournalInv, GrowthInv
  <2> QED BY <2>2, <2>3, <2>4 DEF Inv
<1>2. ASSUME NEW k \in Keys, RekeyRefused(k) PROVE Inv'
  <2>1. UNCHANGED fileVars
    BY <1>2 DEF RekeyRefused, fileVars
  <2>2. WriteAhead'
    BY <2>1, FileFrame
  <2>3. JournalInv'
    BY <1>2, <2>1, FileFrame DEF RekeyRefused, Inv, JournalInv
  <2>4. GrowthInv'
    BY <1>2, <2>1, FileFrame DEF RekeyRefused, Inv, JournalInv, GrowthInv
  <2> QED BY <2>2, <2>3, <2>4 DEF Inv
<1>3. ASSUME NEW p \in Pages, WritePage(p) PROVE Inv'
  <2>0. MakeWritable(p) /\ cache[p] \in Versions /\ call = "none" /\ step = "start" /\ eState \in Writing
    BY <1>3 DEF WritePage, MayWrite, Inv, Base, ControlInv
  <2>00. UNCHANGED <<db, dbMaybe, journalHdr, callVars>>
    BY <1>3 DEF WritePage
  <2>1. WriteAhead'
    BY <2>0, <2>00, MakeWritableJournal
  <2>2. JournalInv'
    BY <2>0, <2>00, MakeWritableJournal DEF JournalInv
  <2>3. GrowthInv'
    BY <2>0, <2>00, MakeWritableJournal DEF GrowthInv
  <2> QED BY <2>1, <2>2, <2>3 DEF Inv
<1>4. ASSUME NEW p \in Pages, Spill(p) PROVE Inv'
  <2>0. SyncedPages = {r.page : r \in RecordsOf(jrnl, journalHdr)}
    BY DEF SyncedPages
  <2>00. eState = "WRITER_CACHEMOD" => SyncedPages = {}
    BY DEF Inv, Base, PageInv, SyncedPages, RecordsOf
  <2>1. UNCHANGED fileVars
    BY <1>4 DEF Spill, fileVars
  <2>2. WriteAhead'
    BY <2>1, FileFrame
  <2>3. JournalInv'
    BY <1>4, <2>1, FileFrame DEF Spill, Base, ControlInv, Inv, JournalInv
  <2>4. GrowthInv'
    BY <1>4, <2>1, <2>0, <2>00, FileFrame DEF Spill, Base, ControlInv, Inv, JournalInv, GrowthInv
  <2> QED BY <2>2, <2>3, <2>4 DEF Inv
<1>5. CASE Begin
  <2>1. UNCHANGED fileVars
    BY <1>5 DEF Begin, fileVars
  <2>2. WriteAhead'
    BY <2>1, FileFrame
  <2>3. JournalInv'
    BY <1>5, <2>1, FileFrame DEF Begin, MayBegin, Inv, JournalInv
  <2>4. GrowthInv'
    BY <1>5, <2>1, FileFrame DEF Begin, MayBegin, Inv, JournalInv, GrowthInv
  <2> QED BY <2>2, <2>3, <2>4 DEF Inv
<1>6. CASE EndUnmodified
  <2>1. UNCHANGED fileVars
    BY <1>6 DEF EndUnmodified, fileVars
  <2>2. WriteAhead'
    BY <2>1, FileFrame
  <2>3. JournalInv'
    BY <1>6, <2>1, FileFrame DEF EndUnmodified, Inv, JournalInv
  <2>4. GrowthInv'
    BY <1>6, <2>1, FileFrame DEF EndUnmodified, Inv, JournalInv, GrowthInv
  <2> QED BY <2>2, <2>3, <2>4 DEF Inv
<1>7. CASE Commit
  <2>1. UNCHANGED fileVars
    BY <1>7 DEF Commit, fileVars
  <2>2. WriteAhead'
    BY <2>1, FileFrame
  <2>3. JournalInv'
    BY <1>7, <2>1, FileFrame DEF Commit, Base, ControlInv, Inv, JournalInv
  <2>4. GrowthInv'
    BY <1>7, <2>1, FileFrame DEF Commit, Base, ControlInv, Inv, JournalInv, GrowthInv
  <2> QED BY <2>2, <2>3, <2>4 DEF Inv
<1>8. CASE IncrChangeCounter /\ counted
  <2>0. UNCHANGED fileVars
    BY <1>8 DEF IncrChangeCounter, fileVars
  <2>1. UNCHANGED fileVars
    BY <2>0, <1>8 DEF IncrChangeCounter, fileVars
  <2>2. WriteAhead'
    BY <2>1, FileFrame
  <2>3. JournalInv'
    BY <2>0, <1>8, <2>1, FileFrame DEF IncrChangeCounter, Base, ControlInv, Inv, JournalInv
  <2>4. GrowthInv'
    BY <2>0, <1>8, <2>1, FileFrame DEF IncrChangeCounter, Base, ControlInv, Inv, JournalInv, GrowthInv
  <2> QED BY <2>2, <2>3, <2>4 DEF Inv
<1>9. CASE IncrChangeCounter /\ ~counted
  <2>0. /\ MakeWritable(1) /\ cache[1] \in Versions /\ call = "commit" /\ step = "start"
        /\ eState \in Writing /\ 1 \in Pages
    BY <1>9, PagerAssumption DEF IncrChangeCounter, Inv, Base, ControlInv, PageInv, Pages
  <2>00. UNCHANGED <<db, dbMaybe, journalHdr, call>> /\ step' = "sync"
    BY <1>9 DEF IncrChangeCounter
  <2>1. WriteAhead'
    BY <2>0, <2>00, MakeWritableJournal
  <2>2. JournalInv'
    BY <2>0, <2>00, MakeWritableJournal DEF JournalInv
  <2>3. GrowthInv'
    BY <2>0, <2>00, MakeWritableJournal DEF GrowthInv
  <2> QED BY <2>1, <2>2, <2>3 DEF Inv
<1>10. CASE RequestRollback
  <2>1. UNCHANGED fileVars
    BY <1>10 DEF RequestRollback, fileVars
  <2>2. WriteAhead'
    BY <2>1, FileFrame
  <2>3. JournalInv'
    BY <1>10, <2>1, FileFrame DEF RequestRollback, Inv, JournalInv
  <2>4. GrowthInv'
    BY <1>10, <2>1, FileFrame DEF RequestRollback, Inv, JournalInv, GrowthInv
  <2> QED BY <2>2, <2>3, <2>4 DEF Inv
<1>11. CASE Rollback
  <2>1. UNCHANGED fileVars
    BY <1>11 DEF Rollback, fileVars
  <2>2. WriteAhead'
    BY <2>1, FileFrame
  <2>3. JournalInv'
    BY <1>11, <2>1, FileFrame DEF Rollback, Base, ControlInv, PageInv, Inv, JournalInv
  <2>4. GrowthInv'
    BY <1>11, <2>1, FileFrame DEF Rollback, Base, ControlInv, PageInv, Inv, JournalInv, GrowthInv
  <2> QED BY <2>2, <2>3, <2>4 DEF Inv
<1> QED BY <1>1, <1>2, <1>3, <1>4, <1>5, <1>6, <1>7, <1>8, <1>9, <1>10, <1>11

\* The records a rollback or a recovery puts back are in every journal that a
\* crash may leave.
LEMMA PlaybackProtected ==
  ASSUME Inv, call \in {"rollback", "recover"}, step = "pages"
  PROVE  \A p \in PagesForFile : \A j \in jrnlMaybe : p \in HotPages(j)
<1>1. CASE call = "recover"
  BY <1>1 DEF Inv, JournalInv, PagesForFile, RecordsForFile, HotPages
<1>2. CASE call = "rollback"
  <2>1. CASE eState = "WRITER_DBMOD"
    BY <1>2, <2>1 DEF Inv, JournalInv, PagesForFile, RecordsForFile, SyncedPages
  <2>2. CASE eState # "WRITER_DBMOD"
    BY <1>2, <2>2 DEF PagesForFile, RecordsForFile
  <2> QED BY <2>1, <2>2
<1> QED BY <1>1, <1>2

\* The steps of a commit, a spill, a rollback and a recovery that succeed.
LEMMA CallJournal ==
  ASSUME Inv, Base',
         \/ SyncRecords \/ SyncHeader \/ WritePagelist \/ WriteSpilled
         \/ SyncHotJournal \/ Playback \/ SyncDb \/ Finalize
  PROVE  Inv'
<1> USE DEF Writing, Modified, Idle, Start, pagerVars, keyVars, callVars, boundVars
<1>1. CASE SyncRecords
  <2> DEFINE last == Len(jrnl)
             n == Len(jrnl[last].records)
  <2>1. /\ jrnl \in Journal /\ jrnl # NoJournal /\ jrnl' \in Journal
        /\ jrnl' = FillHeader(jrnl, n) /\ jrnlMaybe' = {jrnl, jrnl'}
        /\ UNCHANGED <<db, dbMaybe, pagerVars, call, spilled>>
        /\ step = "sync" /\ step' = "header" /\ call \in {"commit", "spill"}
        /\ eState \in Modified
    BY <1>1 DEF SyncRecords, Inv, Base, TypeOK, ControlInv, PageInv
  <2>2. last \in 1 .. Len(jrnl) /\ last \in Nat
    BY <2>1, EmptySeq DEF Journal, NoJournal
  <2>3. n \in Nat
    <3>1. jrnl[last] \in Segment
      BY <2>1, <2>2, ElementOfSeq DEF Journal
    <3> QED BY <3>1, LenProperties DEF Segment
  <2>4. /\ Len(jrnl') = last /\ jrnl'[last].nRec = n
        /\ \A i \in 1 .. last : /\ jrnl'[i].records = jrnl[i].records
                                /\ i # last => jrnl'[i] = jrnl[i]
    BY <2>1, <2>3, FillHeaderType
  <2>5. journalHdr = last - 1 /\ jrnl[last].nRec = 0 /\ dirty \subseteq Journaled(jrnl)
    BY <2>1 DEF Inv, GrowthInv
  <2>6. HotPages(jrnl) \subseteq HotPages(jrnl')
    <3>1. \A i \in 1 .. Len(jrnl) : /\ jrnl[i].nRec > 0 => jrnl'[i].nRec > 0
                                    /\ \A p : Holds(jrnl[i], p) => Holds(jrnl'[i], p)
      BY <2>4, <2>5 DEF Holds
    <3>2. Len(jrnl) <= Len(jrnl')
      BY <2>2, <2>4
    <3>3. jrnl \in Journal /\ jrnl' \in Journal
      BY <2>1
    <3> HIDE DEF last, n
    <3> QED BY <3>1, <3>2, <3>3, Grows
  <2>7. SyncedPages' = SyncedPages
    <3>1. RecordsOf(jrnl', journalHdr) = RecordsOf(jrnl, journalHdr)
      BY <2>2, <2>4, <2>5 DEF RecordsOf
    <3> QED BY <2>1, <3>1 DEF SyncedPages
  <2>8. Journaled(jrnl') = Journaled(jrnl)
    <3>1. RecordsOf(jrnl', last) = RecordsOf(jrnl, last)
      BY <2>2, <2>4 DEF RecordsOf
    <3> QED BY <2>4, <3>1 DEF Journaled
  <2>9. WriteAhead'
    <3>1. \A k \in jrnlMaybe' : HotPages(jrnl) \subseteq HotPages(k) /\ jrnl \in jrnlMaybe
      BY <2>1, <2>6 DEF Inv, JournalInv
    <3> QED BY <2>1, <3>1, GrownJournals
  <2>10. JournalInv'
    <3>1. Synced => Synced'
      BY <2>1 DEF Synced
    <3>2. eState = "WRITER_DBMOD" => \A j \in jrnlMaybe' : SyncedPages \subseteq HotPages(j)
      BY <2>1, <2>6 DEF Inv, JournalInv
    <3>3. \A i \in 1 .. journalHdr : i < last => jrnl'[i].nRec > 0
      BY <2>1, <2>2, <2>4, <2>5 DEF Inv, JournalInv
    <3> HIDE DEF n
    <3> QED BY <2>1, <2>4, <2>7, <3>1, <3>2, <3>3 DEF Inv, JournalInv
  <2>11. GrowthInv'
    <3>1. jrnl'[Len(jrnl')].nRec = Len(jrnl'[Len(jrnl')].records)
      BY <2>2, <2>4
    <3> HIDE DEF n
    <3> QED BY <2>1, <2>4, <2>5, <2>7, <2>8, <3>1 DEF Inv, GrowthInv
  <2> QED BY <2>9, <2>10, <2>11 DEF Inv
<1>2. CASE SyncHeader
  <2> DEFINE last == Len(jrnl)
  <2>1. /\ jrnl \in Journal /\ jrnl # NoJournal /\ jrnl' \in Journal
        /\ jrnl' = IF call = "spill" THEN Append(jrnl, NewSegment) ELSE jrnl
        /\ jrnlMaybe' = {jrnl, jrnl'} /\ journalHdr' = last
        /\ UNCHANGED <<db, dbMaybe, dirty, call, spilled>>
        /\ step = "header" /\ step' = "pages" /\ call \in {"commit", "spill"}
        /\ eState \in Modified /\ eState' = "WRITER_DBMOD"
        /\ call = "spill" => spilled \in dirty
    BY <1>2 DEF SyncHeader, Inv, Base, TypeOK, ControlInv, PageInv
  <2>2. last \in Nat \ {0}
    BY <2>1, EmptySeq DEF Journal, NoJournal
  <2>3. /\ Len(jrnl') = IF call = "spill" THEN last + 1 ELSE last
        /\ \A i \in 1 .. last : jrnl'[i] = jrnl[i]
        /\ call = "spill" => jrnl'[last + 1].nRec = 0
    <3>1. call = "spill" =>
            /\ Len(Append(jrnl, NewSegment)) = last + 1
            /\ \A i \in 1 .. last : Append(jrnl, NewSegment)[i] = jrnl[i]
            /\ Append(jrnl, NewSegment)[last + 1] = NewSegment
      BY <2>1, NewSegmentType, AppendProperties DEF Journal
    <3> QED BY <2>1, <3>1 DEF NewSegment
  <2>4. /\ journalHdr = last - 1 /\ dirty \subseteq Journaled(jrnl)
        /\ jrnl[last].nRec = Len(jrnl[last].records)
        /\ \A i \in 1 .. journalHdr : i < last => jrnl[i].nRec > 0
        /\ call = "spill" => spilled \notin SyncedPages
    BY <2>1 DEF Inv, JournalInv, GrowthInv
  <2>5. \A p : Holds(jrnl[last], p) => jrnl[last].nRec > 0
    <3>1. jrnl[last] \in Segment
      BY <2>1, <2>2, ElementOfSeq DEF Journal
    <3>2. /\ DOMAIN jrnl[last].records = 1 .. Len(jrnl[last].records)
          /\ Len(jrnl[last].records) \in Nat
      BY <3>1, LenProperties DEF Segment
    <3> QED BY <2>4, <3>2 DEF Holds
  <2>6. SyncedPages' = Journaled(jrnl)
    <3>1. RecordsOf(jrnl', last) = RecordsOf(jrnl, last)
      BY <2>2, <2>3 DEF RecordsOf
    <3> QED BY <2>1, <3>1 DEF Journaled, SyncedPages
  <2>7. Journaled(jrnl) \subseteq HotPages(jrnl)
    <3> SUFFICES ASSUME NEW p \in Journaled(jrnl) PROVE p \in HotPages(jrnl)
      OBVIOUS
    <3>1. PICK i \in 1 .. last : Holds(jrnl[i], p)
      BY <2>2, RecordPages DEF Journaled
    <3>2. \A h \in 1 .. i : jrnl[h].nRec > 0
      <4> SUFFICES ASSUME NEW h \in 1 .. i PROVE jrnl[h].nRec > 0
        OBVIOUS
      <4>1. CASE h = last
        BY <2>2, <2>5, <3>1, <4>1
      <4>2. CASE h # last
        BY <2>2, <2>4, <4>2
      <4> QED BY <4>1, <4>2
    <3> QED BY <2>1, <3>1, <3>2, HotPage
  <2>8. HotPages(jrnl) \subseteq HotPages(jrnl')
    <3>1. Len(jrnl) <= Len(jrnl')
      BY <2>2, <2>3
    <3> QED BY <2>1, <2>3, <3>1, Grows
  <2>9. call = "spill" => jrnl[last].nRec > 0
    <3> SUFFICES ASSUME call = "spill" PROVE jrnl[last].nRec > 0
      OBVIOUS
    <3>1. PICK i \in 1 .. last : Holds(jrnl[i], spilled)
      BY <2>1, <2>2, <2>4, RecordPages DEF Journaled
    <3>2. ~ \E h \in 1 .. last - 1 : Holds(jrnl[h], spilled)
      <4>1. last - 1 \in Nat /\ journalHdr = last - 1 /\ spilled \notin SyncedPages
        BY <2>2, <2>4
      <4> HIDE DEF last
      <4>2. spilled \notin {r.page : r \in RecordsOf(jrnl, last - 1)}
        BY <4>1 DEF SyncedPages
      <4> QED BY <4>1, <4>2, RecordPages
    <3>3. i = last
      BY <2>2, <3>1, <3>2
    <3> QED BY <2>5, <3>1, <3>3
  <2>10. WriteAhead'
    <3>1. \A k \in jrnlMaybe' : HotPages(jrnl) \subseteq HotPages(k) /\ jrnl \in jrnlMaybe
      BY <2>1, <2>8 DEF Inv, JournalInv
    <3> QED BY <2>1, <3>1, GrownJournals
  <2>11. JournalInv'
    <3>1. \A j \in jrnlMaybe' : SyncedPages' \subseteq HotPages(j)
      BY <2>1, <2>6, <2>7, <2>8
    <3>2. \A i \in 1 .. last : i < Len(jrnl') => jrnl'[i].nRec > 0
      BY <2>1, <2>2, <2>3, <2>4, <2>9
    <3> QED BY <2>1, <3>1, <3>2 DEF JournalInv
  <2>12. GrowthInv'
    <3>1. Journaled(jrnl) \subseteq Journaled(jrnl')
      <4> SUFFICES ASSUME NEW p \in Journaled(jrnl) PROVE p \in Journaled(jrnl')
        OBVIOUS
      <4>1. PICK i \in 1 .. last : Holds(jrnl[i], p)
        BY <2>2, RecordPages DEF Journaled
      <4>2. i \in 1 .. Len(jrnl') /\ Holds(jrnl'[i], p) /\ Len(jrnl') \in Nat
        BY <2>2, <2>3, <4>1
      <4> QED BY <4>2, RecordPages DEF Journaled
    <3>2. journalHdr' = IF call = "commit" THEN Len(jrnl') ELSE Len(jrnl') - 1
      BY <2>1, <2>2, <2>3
    <3>3. call = "spill" => jrnl'[Len(jrnl')].nRec = 0
      BY <2>3
    <3> HIDE DEF last
    <3> QED BY <2>1, <2>4, <2>6, <3>1, <3>2, <3>3 DEF GrowthInv
  <2> QED BY <2>10, <2>11, <2>12 DEF Inv
<1>3. CASE WritePagelist
  <2>1. /\ \A p \in dirty : \A j \in jrnlMaybe : p \in HotPages(j)
        /\ eState = "WRITER_DBMOD" /\ dirty' = {} /\ step' = "db"
        /\ UNCHANGED <<jrnl, jrnlMaybe, eState, journalHdr, call, spilled>>
    BY <1>3 DEF WritePagelist, Inv, Base, ControlInv, JournalInv, GrowthInv
  <2>2. WriteAhead'
    BY <1>3, <2>1, WriteProtected DEF WritePagelist
  <2>3. JournalInv'
    BY <1>3, <2>1 DEF WritePagelist, Inv, JournalInv, SyncedPages
  <2>4. GrowthInv'
    BY <1>3, <2>1 DEF WritePagelist, Inv, GrowthInv
  <2> QED BY <2>2, <2>3, <2>4 DEF Inv
<1>4. CASE WriteSpilled
  <2>1. /\ \A p \in {spilled} : \A j \in jrnlMaybe : p \in HotPages(j)
        /\ eState = "WRITER_DBMOD" /\ dirty' = dirty \ {spilled}
        /\ call' = "none" /\ step' = "start"
        /\ UNCHANGED <<jrnl, jrnlMaybe, eState, journalHdr>>
    BY <1>4 DEF WriteSpilled, Inv, Base, ControlInv, JournalInv, GrowthInv
  <2>2. WriteAhead'
    BY <1>4, <2>1, WriteProtected DEF WriteSpilled
  <2>3. JournalInv'
    BY <1>4, <2>1 DEF Inv, JournalInv, SyncedPages
  <2>4. GrowthInv'
    BY <1>4, <2>1 DEF WriteSpilled, Inv, GrowthInv
  <2> QED BY <2>2, <2>3, <2>4 DEF Inv
<1>5. CASE SyncHotJournal
  <2>1. WriteAhead'
    <3>1. \A k \in jrnlMaybe' : HotPages(k) \subseteq HotPages(k) /\ k \in jrnlMaybe
      BY <1>5 DEF SyncHotJournal, Inv, JournalInv
    <3> QED BY <1>5, <3>1, GrownJournals DEF SyncHotJournal
  <2>2. JournalInv'
    BY <1>5 DEF SyncHotJournal, Inv, Base, ControlInv, JournalInv
  <2>3. GrowthInv'
    BY <1>5 DEF SyncHotJournal, Inv, Base, ControlInv, GrowthInv
  <2> QED BY <2>1, <2>2, <2>3 DEF Inv
<1>6. CASE Playback
  <2>1. /\ WriteFile(PagesForFile, Restore(db, RecordsForFile))
        /\ call \in {"rollback", "recover"} /\ step = "pages"
        /\ step' = IF eState = "WRITER_CACHEMOD" THEN "finalize" ELSE "db"
        /\ UNCHANGED <<jrnl, jrnlMaybe, eState, journalHdr, call, spilled>>
        /\ dirty' \subseteq dirty
    BY <1>6 DEF Playback
  <2>2. WriteAhead'
    BY <2>1, PlaybackProtected, WriteProtected
  <2>3. eState = "WRITER_CACHEMOD" => Synced'
    <3> SUFFICES ASSUME eState = "WRITER_CACHEMOD" PROVE Synced'
      OBVIOUS
    <3>1. PagesForFile = {} /\ Synced
      BY <2>1 DEF PagesForFile, RecordsForFile, Inv, Base, ControlInv, JournalInv
    <3> QED BY <2>1, <3>1 DEF WriteFile, Synced
  <2>4. JournalInv'
    BY <2>1, <2>3 DEF Inv, Base, ControlInv, JournalInv, SyncedPages
  <2>5. GrowthInv'
    BY <2>1 DEF Inv, GrowthInv
  <2> QED BY <2>2, <2>4, <2>5 DEF Inv
<1>7. CASE SyncDb
  <2>1. /\ Synced' /\ step = "db" /\ step' = "finalize"
        /\ eState' = IF call = "commit" THEN "WRITER_FINISHED" ELSE eState
        /\ UNCHANGED <<jrnl, jrnlMaybe, journalHdr, dirty, call, spilled>>
    BY <1>7 DEF SyncDb, Synced
  <2>2. WriteAhead'
    BY <2>1, SyncedFile
  <2>3. JournalInv'
    BY <2>1 DEF Inv, Base, ControlInv, JournalInv, SyncedPages
  <2>4. GrowthInv'
    BY <2>1 DEF Inv, Base, ControlInv, GrowthInv
  <2> QED BY <2>2, <2>3, <2>4 DEF Inv
<1>8. CASE Finalize
  <2>1. /\ jrnl' \in jrnlMaybe' /\ dirty' = {} /\ eState' = "READER"
        /\ call' = "none" /\ step' = "start" /\ Synced'
    BY <1>8 DEF Finalize, Inv, JournalInv, Synced
  <2>2. WriteAhead'
    BY <2>1, SyncedFile
  <2>3. JournalInv' /\ GrowthInv'
    BY <2>1 DEF JournalInv, GrowthInv
  <2> QED BY <2>2, <2>3 DEF Inv
<1> QED BY <1>1, <1>2, <1>3, <1>4, <1>5, <1>6, <1>7, <1>8

\* A call that fails, outside a rekey, and the crash.
LEMMA FaultJournal ==
  ASSUME Inv, Base', ~ RekeyFaults,
         \/ \E p \in Pages : WriteFails(p)
         \/ CommitFails \/ FinalizeFails \/ SpillFails \/ RollbackFails
         \/ RecoveryFails \/ Crash
  PROVE  Inv'
<1> USE DEF Writing, Modified, Idle, Start, PagerError, pagerVars, keyVars, callVars, boundVars
<1>1. ASSUME NEW p \in Pages, WriteFails(p) PROVE Inv'
  <2>1. /\ UNCHANGED <<db, dbMaybe, journalHdr>> /\ call' = "rollback" /\ step' = "start"
        /\ call = "none" /\ step = "start" /\ eState \in Writing
    BY <1>1 DEF WriteFails, MayWrite, Inv, Base, ControlInv
  <2>2. Synced => Synced'
    BY <2>1 DEF Synced
  <2>3. CASE eState = "WRITER_LOCKED" /\ UNCHANGED <<jrnl, jrnlMaybe, eState, dirty>>
    <3>1. WriteAhead'
      BY <2>1, <2>2, <2>3, SyncedFile DEF Inv, JournalInv
    <3>2. JournalInv' /\ GrowthInv'
      BY <2>1, <2>2, <2>3 DEF Inv, JournalInv, GrowthInv
    <3> QED BY <3>1, <3>2 DEF Inv
  <2>4. CASE /\ jrnl' = JournalOpened
             /\ jrnlMaybe' = MaybeOpened
             /\ eState' = IF eState = "WRITER_LOCKED" THEN "WRITER_CACHEMOD"
                          ELSE eState
             /\ dirty' = dirty \cup {p}
    <3>1. /\ jrnl' \in jrnlMaybe' /\ journalHdr = Len(jrnl') - 1
          /\ eState # "WRITER_DBMOD" => Len(jrnl') = 1 /\ Synced
          /\ eState # "WRITER_LOCKED" => UNCHANGED <<jrnl, jrnlMaybe>>
      BY <2>1, <2>4, OpenedJournal
    <3>2. WriteAhead'
      <4>1. CASE eState = "WRITER_LOCKED"
        BY <2>2, <3>1, <4>1, SyncedFile
      <4>2. CASE eState # "WRITER_LOCKED"
        BY <2>1, <3>1, <4>2, GrownJournals
      <4> QED BY <4>1, <4>2
    <3>3. JournalInv'
      BY <2>1, <2>2, <2>4, <3>1 DEF Inv, JournalInv, SyncedPages
    <3>4. GrowthInv'
      BY <2>1 DEF GrowthInv
    <3> QED BY <3>2, <3>3, <3>4 DEF Inv
  <2> QED BY <1>1, <2>3, <2>4 DEF WriteFails
<1>2. CASE CommitFails
  <2>1. /\ UNCHANGED <<jrnl, jrnlMaybe, eState, journalHdr, dirty>>
        /\ call' = "rollback" /\ step' = "start" /\ eState \in Modified
        /\ step = "pages" => eState = "WRITER_DBMOD" /\ dirty \subseteq SyncedPages
    BY <1>2 DEF CommitFails, Fault, Inv, Base, ControlInv, GrowthInv
  <2>2. PICK pages \in SUBSET (IF step = "pages" THEN dirty ELSE {}) :
          WriteFile(pages, Encrypted)
    BY <1>2 DEF CommitFails
  <2>3. \A p \in pages : \A j \in jrnlMaybe : p \in HotPages(j)
    BY <2>1, <2>2 DEF Inv, JournalInv
  <2>4. WriteAhead'
    BY <2>1, <2>2, <2>3, WriteProtected
  <2>5. eState = "WRITER_CACHEMOD" => Synced'
    <3> SUFFICES ASSUME eState = "WRITER_CACHEMOD" PROVE Synced'
      OBVIOUS
    <3>1. pages = {} /\ Synced
      BY <2>1, <2>2 DEF Inv, JournalInv
    <3> QED BY <2>2, <3>1 DEF WriteFile, Synced
  <2>6. JournalInv' /\ GrowthInv'
    BY <2>1, <2>5 DEF Inv, JournalInv, GrowthInv, SyncedPages
  <2> QED BY <2>4, <2>6 DEF Inv
<1>3. CASE FinalizeFails
  <2>1. UNCHANGED fileVars
    BY <1>3 DEF FinalizeFails, fileVars
  <2>2. WriteAhead'
    BY <2>1, FileFrame
  <2>3. JournalInv'
    BY <1>3, <2>1, FileFrame DEF FinalizeFails, Inv, JournalInv
  <2>4. GrowthInv'
    BY <1>3, <2>1, FileFrame DEF FinalizeFails, Inv, JournalInv, GrowthInv
  <2> QED BY <2>2, <2>3, <2>4 DEF Inv
<1>4. CASE SpillFails
  <2>1. UNCHANGED fileVars
    BY <1>4 DEF SpillFails, fileVars
  <2>2. WriteAhead'
    BY <2>1, FileFrame
  <2>3. JournalInv'
    BY <1>4, <2>1, FileFrame DEF SpillFails, Inv, JournalInv
  <2>4. GrowthInv'
    BY <1>4, <2>1, FileFrame DEF SpillFails, Inv, JournalInv, GrowthInv
  <2> QED BY <2>2, <2>3, <2>4 DEF Inv
<1>5. CASE RollbackFails \/ RecoveryFails
  <2>1. /\ UNCHANGED <<jrnl, jrnlMaybe>> /\ call' = "none" /\ step' = "start"
        /\ call \in {"rollback", "recover"}
        /\ \/ eState' = "ERROR"
           \/ eState' = "OPEN" /\ dirty' = {}
    BY <1>5 DEF RollbackFails, RecoveryFails, Inv, Base, ControlInv
  <2>2. PICK pages \in SUBSET (IF step = "pages" THEN PagesForFile ELSE {}) :
          WriteFile(pages, Restore(db, RecordsForFile))
    BY <1>5 DEF RollbackFails, RecoveryFails
  <2>3. \A p \in pages : \A j \in jrnlMaybe : p \in HotPages(j)
    BY <2>1, <2>2, PlaybackProtected
  <2>4. WriteAhead'
    BY <2>1, <2>2, <2>3, WriteProtected
  <2>5. JournalInv' /\ GrowthInv'
    BY <2>1 DEF Inv, JournalInv, GrowthInv
  <2> QED BY <2>4, <2>5 DEF Inv
<1>6. CASE Crash
  <2>1. /\ Synced' /\ jrnl' \in jrnlMaybe' /\ eState' = "OPEN" /\ dirty' = {}
        /\ call' = "none" /\ step' = "start"
    <3>1. PICK file \in [Pages -> UNION {dbMaybe[p] : p \in Pages}] :
            db' = file /\ dbMaybe' = [p \in Pages |-> {file[p]}]
      BY <1>6 DEF Crash
    <3>2. Synced'
      BY <3>1 DEF Synced
    <3> QED BY <1>6, <3>2 DEF Crash, Disconnected
  <2>2. WriteAhead'
    BY <2>1, SyncedFile
  <2>3. JournalInv' /\ GrowthInv'
    BY <2>1 DEF JournalInv, GrowthInv
  <2> QED BY <2>2, <2>3 DEF Inv
<1> QED BY <1>1, <1>2, <1>3, <1>4, <1>5, <1>6

LEMMA InitInv == Init => Inv
<1> SUFFICES ASSUME Init PROVE Inv
  OBVIOUS
<1>1. Synced /\ WriteAhead
  BY DEF Init, Synced, WriteAhead
<1>2. JournalInv /\ GrowthInv
  BY <1>1 DEF Init, JournalInv, GrowthInv, Modified
<1> QED BY <1>1, <1>2, InitBase DEF Inv

LEMMA StepInv == ~ RekeyFaults /\ Inv /\ [Next]_vars => Inv'
<1> SUFFICES ASSUME ~ RekeyFaults, Inv, [Next]_vars PROVE Inv'
  OBVIOUS
<1>1. Base'
  BY StepBase DEF Inv
<1>2. CASE Next
  BY <1>1, <1>2, ConnectionJournal, TransactionJournal, CallJournal, FaultJournal
     DEF Next
<1>3. CASE UNCHANGED vars
  <2>1. WriteAhead' /\ JournalInv' /\ GrowthInv'
    BY <1>3, FileFrame
       DEF vars, fileVars, pagerVars, callVars, Inv, JournalInv, GrowthInv
  <2> QED BY <1>1, <2>1 DEF Inv
<1> QED BY <1>2, <1>3

\* No page of the database file is overwritten before its original is safe in
\* the journal, in every journal that a crash may leave (syncJournal, before
\* pager_write_pagelist), unless a call fails during a rekey.
THEOREM WrittenAhead ==
  ASSUME ~ RekeyFaults
  PROVE  Spec => []WriteAhead
<1>1. Inv /\ [Next]_vars => Inv'
  BY StepInv
<1>2. Inv => WriteAhead
  BY DEF Inv
<1> QED BY <1>1, <1>2, InitInv, PTL DEF Spec
==============================================================================
