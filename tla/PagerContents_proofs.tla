------------------------- MODULE PagerContents_proofs -------------------------
(***************************************************************************)
(* What the pages of the file hold, for every number of pages, set of keys *)
(* and bound: that a transaction takes effect as a whole or not at all,    *)
(* under one key, and that the cache shows the file.                       *)
(*                                                                         *)
(* The invariants of Pager_proofs say which pages have their originals in  *)
(* the journal.  Those of this module say what these originals are.        *)
(***************************************************************************)
EXTENDS Pager_proofs

(***************************************************************************)
(* The invariants.  content is the file its readers see, and older the one *)
(* a crash may return to while the removal of the last journal is not      *)
(* synced.  The files and the journals are parameters of the definitions   *)
(* that speak of both this state and the next.                             *)
(***************************************************************************)

\* The file is encrypted with one key.
OneKey(f) == f \in [Pages -> Image] /\ \A p \in Pages : f[p].key = f[1].key

\* Journal j takes the database file back to f.
TakesBackTo(file, j, f) ==
  /\ \A r \in HotRecords(j) : r.image = f[r.page]
  /\ \A p \in Pages \ HotPages(j) : file[p] = f[p]

\* The journal takes the file back to c, and each journal that a crash may
\* leave takes it back to c or to o.
Keeps(file, j, maybe, c, o) ==
  /\ OneKey(c)
  /\ OneKey(o)
  /\ TakesBackTo(file, j, c)
  /\ \A i \in maybe : TakesBackTo(file, i, c) \/ TakesBackTo(file, i, o)

InTransaction == eState \in Writing \cup {"WRITER_FINISHED"}

FileInv ==
  /\ Keeps(db, jrnl, jrnlMaybe, content, older)
  /\ eState \in {"READER", "WRITER_LOCKED"} => ~ Hot(jrnl)

\* A transaction runs under the key of the file, an error in one that reads
\* tells a wrong key, and a rekey ends with its commit.
KeyInv ==
  /\ readKey = content[1].key => rekeying \/ writeKey = readKey
  /\ InTransaction => readKey = content[1].key
  /\ errCode => \/ eState = "ERROR"
                \/ eState = "READER" /\ readKey # content[1].key
  /\ rekeying => InTransaction /\ call \in {"none", "commit", "spill"}
  /\ rekeying /\ call = "commit" => Journaled(jrnl) = Pages

\* In a transaction that has written, the journal holds the pages as they
\* were, and only pages whose originals are synced differ from them.
OriginalsInv ==
  /\ eState \in Modified =>
       /\ \A r \in RecordsOf(jrnl, Len(jrnl)) : r.image = content[r.page]
       /\ \A p \in Pages \ SyncedPages : db[p] = content[p]
  /\ eState \in {"WRITER_DBMOD", "WRITER_FINISHED"} =>
       \A j \in jrnlMaybe : TakesBackTo(db, j, content)
  /\ call \in {"rollback", "recover"} /\ step \in {"db", "finalize"} =>
       db = content /\ dirty \cap Journaled(jrnl) = {}

\* Its pages in the file are under the key in use or, in a rekey that wrote
\* them, under the new one.
WrittenInv ==
  /\ eState \in Modified \cup {"WRITER_FINISHED"} =>
       \A p \in Pages :
         /\ db[p] \in Image
         /\ ~ rekeying => db[p].key = readKey
         /\ rekeying /\ p \notin dirty =>
              db[p].key = IF p \in Journaled(jrnl) THEN writeKey ELSE readKey
  /\ call = "commit" /\ step \in {"db", "finalize"} => dirty = {}

\* The key that the file holds page p under, when the page is not changed.
KeyOf(p) ==
  IF rekeying /\ p \in Journaled(JournalOpened) THEN writeKey ELSE readKey

CacheInv ==
  /\ readKey = NoKey => \A p \in Pages : cache[p] = NoPage
  /\ eState # "ERROR" /\ call # "recover" =>
       \A p \in Pages \ (dirty \cap Journaled(JournalOpened)) :
         cache[p] \in Versions => db[p] = [key |-> KeyOf(p), val |-> cache[p]]
  /\ call = "recover" /\ step # "sync" => \A p \in Pages : cache[p] = NoPage

Contents == FileInv /\ KeyInv /\ OriginalsInv /\ WrittenInv /\ CacheInv

-----------------------------------------------------------------------------
(***************************************************************************)
(* Journals and files.                                                     *)
(***************************************************************************)

\* A playback puts back a record of each page that has one.
LEMMA RestoredPage ==
  ASSUME NEW file, NEW records, NEW p \in Pages
  PROVE  \/ \E r \in records : r.page = p /\ Restore(file, records)[p] = r.image
         \/ /\ ~ \E r \in records : r.page = p
            /\ Restore(file, records)[p] = file[p]
<1>1. CASE \E r \in records : r.page = p
  <2> DEFINE one == CHOOSE r \in records : r.page = p
  <2>1. one \in records /\ one.page = p
    BY <1>1
  <2>2. Restore(file, records)[p] = one.image
    BY <1>1 DEF Restore
  <2> HIDE DEF one
  <2> QED BY <2>1, <2>2
<1>2. CASE ~ \E r \in records : r.page = p
  BY <1>2 DEF Restore
<1> QED BY <1>1, <1>2

\* A journal that takes the file back to f gives f to its readers.
LEMMA RecoveredPage ==
  ASSUME NEW file, NEW j, NEW f, TakesBackTo(file, j, f), NEW p \in Pages
  PROVE  Recovered(file, j)[p] = f[p]
<1> DEFINE records == HotRecords(j)
<1>1. \A r \in records : r.image = f[r.page]
  BY DEF TakesBackTo
<1>2. (\E r \in records : r.page = p) <=> p \in HotPages(j)
  BY DEF HotPages
<1>3. p \notin HotPages(j) => file[p] = f[p]
  BY DEF TakesBackTo
<1>4. Recovered(file, j) = Restore(file, records)
  BY DEF Recovered
<1> HIDE DEF records
<1>5. \/ \E r \in records : r.page = p /\ Restore(file, records)[p] = r.image
      \/ /\ ~ \E r \in records : r.page = p
         /\ Restore(file, records)[p] = file[p]
  BY RestoredPage
<1> QED BY <1>1, <1>2, <1>3, <1>4, <1>5

\* The file that a journal takes back to f is f when it is recovered.
LEMMA RecoveredFile ==
  ASSUME NEW file, NEW j, NEW f, f = [p \in Pages |-> f[p]], TakesBackTo(file, j, f)
  PROVE  Recovered(file, j) = f
<1>1. Recovered(file, j) = [p \in Pages |-> Recovered(file, j)[p]]
  BY DEF Recovered, Restore
<1>2. \A p \in Pages : Recovered(file, j)[p] = f[p]
  BY RecoveredPage
<1> QED BY <1>1, <1>2

\* The same, of a file of one key.
LEMMA OneKeyFile ==
  ASSUME NEW f, OneKey(f)
  PROVE  /\ DOMAIN f = Pages
         /\ f = [p \in Pages |-> f[p]]
         /\ 1 \in Pages
         /\ f[1].key \in Keys /\ f[1].key # NoKey
         /\ \A p \in Pages : f[p] \in Image /\ f[p].key = f[1].key /\ f[p] # Torn
<1>1. 1 \in Pages
  BY PagerAssumption DEF Pages
<1>2. f \in [Pages -> Image]
  BY DEF OneKey
<1>3. f[1] \in Image
  BY <1>1, <1>2
<1>4. f[1].key \in Keys
  BY <1>3 DEF Image
<1> QED BY <1>1, <1>2, <1>4, PagerAssumption DEF OneKey

\* Definition older, of any file and journals.
OlderOf(file, j, maybe) ==
  IF \E i \in maybe : Recovered(file, i) # Recovered(file, j)
  THEN Recovered(file, CHOOSE i \in maybe : Recovered(file, i) # Recovered(file, j))
  ELSE Recovered(file, j)

\* What the files and the journals determine.
LEMMA KeptFiles ==
  ASSUME NEW file, NEW j, NEW maybe, NEW c, NEW o, Keeps(file, j, maybe, c, o)
  PROVE  /\ Recovered(file, j) = c
         /\ OlderOf(file, j, maybe) \in {c, o}
         /\ Keeps(file, j, maybe, c, OlderOf(file, j, maybe))
         /\ (\E i \in maybe : TakesBackTo(file, i, o)) => OlderOf(file, j, maybe) = o
         /\ OlderOf(file, j, maybe) # c =>
              \E i \in maybe : TakesBackTo(file, i, OlderOf(file, j, maybe))
<1> DEFINE other(i) == Recovered(file, i) # Recovered(file, j)
           one == CHOOSE i \in maybe : other(i)
<1>1. Recovered(file, j) = c
  BY RecoveredFile, OneKeyFile DEF Keeps
<1>2. \A i \in maybe : \/ TakesBackTo(file, i, c) /\ Recovered(file, i) = c
                       \/ TakesBackTo(file, i, o) /\ Recovered(file, i) = o
  BY RecoveredFile, OneKeyFile DEF Keeps
<1>3. CASE \E i \in maybe : other(i)
  <2>1. one \in maybe /\ other(one)
    BY <1>3
  <2>2. OlderOf(file, j, maybe) = Recovered(file, one)
    BY <1>3 DEF OlderOf
  <2> HIDE DEF one
  <2>3. OlderOf(file, j, maybe) = o /\ TakesBackTo(file, one, o)
    BY <1>1, <1>2, <2>1, <2>2
  <2> QED BY <1>1, <2>1, <2>3
<1>4. CASE ~ \E i \in maybe : other(i)
  <2>1. OlderOf(file, j, maybe) = c
    BY <1>1, <1>4 DEF OlderOf
  <2>2. \A i \in maybe : TakesBackTo(file, i, o) => o = c
    BY <1>1, <1>4, RecoveredFile, OneKeyFile DEF Keeps
  <2>3. \A i \in maybe : TakesBackTo(file, i, c)
    BY <2>2 DEF Keeps
  <2> QED BY <1>1, <2>1, <2>2, <2>3 DEF Keeps
<1> QED BY <1>3, <1>4

\* The same, of the next state.
LEMMA NextFiles ==
  ASSUME NEW c, NEW o, Keeps(db', jrnl', jrnlMaybe', c, o)
  PROVE  /\ content' = c
         /\ older' \in {c, o}
         /\ Keeps(db', jrnl', jrnlMaybe', content', older')
         /\ (\E i \in jrnlMaybe' : TakesBackTo(db', i, o)) => older' = o
<1>1. older' = OlderOf(db', jrnl', jrnlMaybe')
  BY DEF older, content, OlderOf
<1>2. content' = Recovered(db', jrnl')
  BY DEF content
<1> QED BY <1>1, <1>2, KeptFiles

\* The older file is the content, or some journal takes the file back to it.
LEMMA OlderJournal ==
  ASSUME FileInv, older # content
  PROVE  \E i \in jrnlMaybe : TakesBackTo(db, i, older)
<1>1. older = OlderOf(db, jrnl, jrnlMaybe)
  BY DEF older, content, OlderOf
<1> QED BY <1>1, KeptFiles DEF FileInv

\* What a playback puts back is in the journal; nothing of a cold one is.
LEMMA HotRecordsOf ==
  ASSUME NEW j \in Journal
  PROVE  /\ HotRecords(j) \subseteq RecordsOf(j, Len(j))
         /\ ~ Hot(j) => HotRecords(j) = {} /\ HotPages(j) = {}
<1>1. DOMAIN j = 1 .. Len(j) /\ Len(j) \in Nat
  BY LenProperties DEF Journal
<1>2. HotRecords(j) \subseteq RecordsOf(j, Len(j))
  BY <1>1 DEF HotRecords, RecordsOf
<1>3. ~ Hot(j) => HotPages(j) = {}
  BY ColdJournal
<1>4. HotPages(j) = {} => HotRecords(j) = {}
  BY DEF HotPages
<1> QED BY <1>2, <1>3, <1>4

\* What is added behind a header that counts no record is not put back.
LEMMA SameHotRecords ==
  ASSUME NEW j \in Journal, NEW k \in Journal, Len(j) <= Len(k),
         \A i \in 1 .. Len(j) : /\ k[i].nRec = j[i].nRec
                                /\ j[i].nRec > 0 => k[i].records = j[i].records,
         \A i \in Len(j) + 1 .. Len(k) : k[i].nRec = 0
  PROVE  HotRecords(k) = HotRecords(j) /\ HotPages(k) = HotPages(j)
<1>1. /\ DOMAIN j = 1 .. Len(j) /\ Len(j) \in Nat
      /\ DOMAIN k = 1 .. Len(k) /\ Len(k) \in Nat
  BY LenProperties DEF Journal
<1> DEFINE hot(s) == {i \in DOMAIN s : \A h \in 1 .. i : s[h].nRec > 0}
<1>2. \A i \in hot(k) : i \in 1 .. Len(j)
  <2> SUFFICES ASSUME NEW i \in hot(k), i \notin 1 .. Len(j) PROVE FALSE
    OBVIOUS
  <2>1. i \in Len(j) + 1 .. Len(k) /\ i \in 1 .. i
    BY <1>1
  <2>2. k[i].nRec > 0
    BY <2>1
  <2> QED BY <2>1, <2>2
<1>3. hot(k) = hot(j)
  <2>1. \A i \in 1 .. Len(j) : \A h \in 1 .. i : h \in 1 .. Len(j)
    BY <1>1
  <2>2. \A i \in 1 .. Len(j) : i \in 1 .. Len(k)
    BY <1>1
  <2>3. \A i \in 1 .. Len(j) : i \in hot(k) <=> i \in hot(j)
    BY <1>1, <2>1, <2>2
  <2> QED BY <1>1, <1>2, <2>3
<1>4. \A i \in hot(j) : k[i].records = j[i].records
  BY <1>1
<1>5. HotRecords(k) = HotRecords(j)
  BY <1>3, <1>4 DEF HotRecords
<1> QED BY <1>5 DEF HotPages

\* Where a record goes: into the last segment, after all others.
LEMMA AddedRecord ==
  ASSUME NEW j \in Journal, j # NoJournal, NEW r \in Record
  PROVE  /\ RecordsOf(AddRecord(j, r), Len(AddRecord(j, r))) = RecordsOf(j, Len(j)) \cup {r}
         /\ j[Len(j)].nRec = 0 =>
              /\ HotRecords(AddRecord(j, r)) = HotRecords(j)
              /\ HotPages(AddRecord(j, r)) = HotPages(j)
<1> DEFINE n == Len(j)
           k == AddRecord(j, r)
<1>1. /\ k \in Journal /\ n \in Nat \ {0} /\ Len(k) = n
      /\ \A i \in 1 .. n : /\ k[i].nRec = j[i].nRec
                           /\ i # n => k[i] = j[i]
  BY AddRecordType
<1>2. Range(k[n].records) = Range(j[n].records) \cup {r}
  <2> DEFINE records == j[n].records
  <2>1. n \in 1 .. Len(j) /\ j[n] \in Segment
    BY <1>1, ElementOfSeq DEF Journal
  <2>2. k[n].records = Append(records, r)
    BY <2>1 DEF AddRecord, Segment, Journal
  <2>3. records \in Seq(Record)
    BY <2>1 DEF Segment
  <2> HIDE DEF records, k, n
  <2>4. /\ DOMAIN Append(records, r) = 1 .. Len(records) + 1
        /\ DOMAIN records = 1 .. Len(records) /\ Len(records) \in Nat
        /\ \A i \in 1 .. Len(records) : Append(records, r)[i] = records[i]
        /\ Append(records, r)[Len(records) + 1] = r
    BY <2>3
  <2>5. \A x : x \in Range(Append(records, r)) <=> x \in Range(records) \cup {r}
    <3>1. \A i \in DOMAIN Append(records, r) :
            i \in DOMAIN records \/ i = Len(records) + 1
      BY <2>4
    <3>2. /\ \A i \in DOMAIN records : i \in DOMAIN Append(records, r)
          /\ Len(records) + 1 \in DOMAIN Append(records, r)
      BY <2>4
    <3> QED BY <2>4, <3>1, <3>2 DEF Range
  <2> QED BY <2>2, <2>5 DEF records
<1> HIDE DEF k
<1>3. RecordsOf(k, Len(k)) = RecordsOf(j, n) \cup {r}
  <2>1. \A i \in 1 .. n : Range(k[i].records) =
          IF i = n THEN Range(j[n].records) \cup {r} ELSE Range(j[i].records)
    BY <1>1, <1>2
  <2>2. n \in 1 .. n
    BY <1>1
  <2> HIDE DEF n
  <2>3. \A x : x \in RecordsOf(k, n) <=> x \in RecordsOf(j, n) \cup {r}
    BY <2>1, <2>2 DEF RecordsOf
  <2> QED BY <1>1, <2>3
<1>4. ASSUME j[n].nRec = 0
      PROVE  HotRecords(k) = HotRecords(j) /\ HotPages(k) = HotPages(j)
  <2>1. \A i \in 1 .. n : j[i].nRec > 0 => k[i].records = j[i].records
    BY <1>1, <1>4
  <2>2. \A i \in n + 1 .. Len(k) : k[i].nRec = 0
    BY <1>1
  <2> QED BY <1>1, <2>1, <2>2, SameHotRecords
<1> QED BY <1>3, <1>4 DEF k

\* Filling in a header moves no record.
LEMMA FilledHeader ==
  ASSUME NEW j \in Journal, j # NoJournal, NEW n \in Nat
  PROVE  /\ RecordsOf(FillHeader(j, n), Len(FillHeader(j, n))) = RecordsOf(j, Len(j))
         /\ \A i \in 1 .. Len(j) : RecordsOf(FillHeader(j, n), i) = RecordsOf(j, i)
<1> DEFINE k == FillHeader(j, n)
<1>1. /\ Len(j) \in Nat \ {0} /\ Len(k) = Len(j)
      /\ \A i \in 1 .. Len(j) : k[i].records = j[i].records
  BY FillHeaderType
<1> HIDE DEF k
<1>2. \A i \in 1 .. Len(j) : RecordsOf(k, i) = RecordsOf(j, i)
  <2> SUFFICES ASSUME NEW i \in 1 .. Len(j) PROVE RecordsOf(k, i) = RecordsOf(j, i)
    OBVIOUS
  <2>1. \A h \in 1 .. i : k[h].records = j[h].records
    BY <1>1
  <2> QED BY <2>1 DEF RecordsOf
<1>3. RecordsOf(k, Len(k)) = RecordsOf(j, Len(j))
  <2>1. Len(j) \in 1 .. Len(j)
    BY <1>1
  <2> QED BY <1>1, <1>2, <2>1
<1> QED BY <1>2, <1>3 DEF k

\* A new segment is empty.
LEMMA AddedSegment ==
  ASSUME NEW j \in Journal, j # NoJournal
  PROVE  /\ Append(j, NewSegment) \in Journal
         /\ HotRecords(Append(j, NewSegment)) = HotRecords(j)
         /\ HotPages(Append(j, NewSegment)) = HotPages(j)
         /\ Len(Append(j, NewSegment)) = Len(j) + 1
         /\ RecordsOf(Append(j, NewSegment), Len(j)) = RecordsOf(j, Len(j))
         /\ RecordsOf(Append(j, NewSegment), Len(j) + 1) = RecordsOf(j, Len(j))
<1> DEFINE k == Append(j, NewSegment)
           n == Len(j)
<1>1. /\ k \in Journal /\ n \in Nat /\ Len(k) = n + 1
      /\ \A i \in 1 .. n : k[i] = j[i]
      /\ k[n + 1] = NewSegment
  BY NewSegmentType, AppendProperties DEF Journal
<1>2. NewSegment.nRec = 0 /\ Range(NewSegment.records) = {}
  BY DEF NewSegment, Range
<1> HIDE DEF k
<1>3. HotRecords(k) = HotRecords(j) /\ HotPages(k) = HotPages(j)
  <2>1. \A i \in n + 1 .. Len(k) : k[i].nRec = 0
    BY <1>1, <1>2
  <2>2. /\ \A i \in 1 .. n : k[i].nRec = j[i].nRec /\ (j[i].nRec > 0 => k[i].records = j[i].records)
        /\ n <= Len(k)
    BY <1>1
  <2> QED BY <1>1, <2>1, <2>2, SameHotRecords
<1>4. RecordsOf(k, n) = RecordsOf(j, n)
  BY <1>1 DEF RecordsOf
<1>5. RecordsOf(k, n + 1) = RecordsOf(k, n)
  <2>1. 1 .. n + 1 = (1 .. n) \cup {n + 1}
    BY <1>1
  <2>2. Range(k[n + 1].records) = {}
    BY <1>1, <1>2
  <2> HIDE DEF n
  <2> QED BY <2>1, <2>2 DEF RecordsOf
<1> QED BY <1>1, <1>3, <1>4, <1>5 DEF k

\* A file that needs no journal, and one that has a cold journal.
LEMMA ColdFile ==
  ASSUME NEW file \in [Pages -> Stored], NEW j \in Journal, ~ Hot(j), NEW f, OneKey(f)
  PROVE  TakesBackTo(file, j, f) <=> file = f
<1>1. HotRecords(j) = {} /\ HotPages(j) = {}
  BY HotRecordsOf
<1>2. f \in [Pages -> Image]
  BY DEF OneKey
<1>3. TakesBackTo(file, j, f) <=> \A p \in Pages : file[p] = f[p]
  BY <1>1 DEF TakesBackTo
<1> QED BY <1>2, <1>3

\* Only what is put back counts.
LEMMA SameTakesBack ==
  ASSUME NEW file, NEW j, NEW k, NEW f, TakesBackTo(file, j, f),
         HotRecords(k) = HotRecords(j), HotPages(k) = HotPages(j)
  PROVE  TakesBackTo(file, k, f)
BY DEF TakesBackTo

-----------------------------------------------------------------------------
(***************************************************************************)
(* What each kind of step does to content and older.                       *)
(***************************************************************************)
SameContent ==
  /\ content' = content
  /\ older' = older
  /\ Keeps(db', jrnl', jrnlMaybe', content', older')

\* The types of the files, and the journals that are never hot.
LEMMA JournalTypes ==
  ASSUME Inv
  PROVE  /\ db \in [Pages -> Stored]
         /\ jrnl \in Journal /\ jrnlMaybe \subseteq Journal /\ jrnl \in jrnlMaybe
         /\ journalHdr \in Nat /\ dirty \subseteq Pages
         /\ ~ Hot(NoJournal) /\ ~ Hot(<<NewSegment>>)
<1>1. ~ Hot(NoJournal) /\ ~ Hot(<<NewSegment>>)
  BY DEF Hot, NewSegment
<1> QED BY <1>1 DEF Inv, Base, TypeOK, JournalInv

\* With the same files, their readers see the same.
LEMMA SameFiles ==
  ASSUME FileInv, UNCHANGED <<db, jrnl, jrnlMaybe>>
  PROVE  SameContent
<1>1. Keeps(db', jrnl', jrnlMaybe', content, older)
  BY DEF FileInv
<1>2. content' = content
  BY DEF content
<1>3. older' = older
  BY <1>2 DEF older
<1> QED BY <1>1, <1>2, <1>3 DEF SameContent

\* The journals that take the file back to the older file are still there.
LEMMA StillOlder ==
  ASSUME FileInv, Keeps(db', jrnl', jrnlMaybe', content, older),
         older # content =>
           \A i \in jrnlMaybe : TakesBackTo(db, i, older) =>
             i \in jrnlMaybe' /\ TakesBackTo(db', i, older)
  PROVE  SameContent
<1>1. /\ content' = content /\ older' \in {content, older}
      /\ Keeps(db', jrnl', jrnlMaybe', content', older')
      /\ (\E i \in jrnlMaybe' : TakesBackTo(db', i, older)) => older' = older
  BY NextFiles
<1>2. older # content => \E i \in jrnlMaybe' : TakesBackTo(db', i, older)
  BY OlderJournal
<1> QED BY <1>1, <1>2 DEF SameContent

\* Writes to the file, of pages that every journal puts back.
LEMMA WrittenContent ==
  ASSUME FileInv, NEW pages, NEW file, WriteFile(pages, file),
         UNCHANGED <<jrnl, jrnlMaybe>>, jrnl \in jrnlMaybe,
         \A p \in pages : \A j \in jrnlMaybe : p \in HotPages(j)
  PROVE  /\ SameContent
         /\ \A j \in jrnlMaybe : \A f : TakesBackTo(db, j, f) => TakesBackTo(db', j, f)
<1>1. \A p \in Pages \ pages : db'[p] = db[p]
  BY DEF WriteFile
<1>2. \A j \in jrnlMaybe : \A p \in Pages \ HotPages(j) : db'[p] = db[p]
  BY <1>1
<1>3. \A j \in jrnlMaybe : \A f : TakesBackTo(db, j, f) => TakesBackTo(db', j, f)
  BY <1>2 DEF TakesBackTo
<1>4. Keeps(db', jrnl', jrnlMaybe', content, older)
  BY <1>3 DEF FileInv, Keeps
<1> QED BY <1>3, <1>4, StillOlder

\* All journals take the file back to its content.
LEMMA SettledContent ==
  ASSUME FileInv, \A j \in jrnlMaybe' : TakesBackTo(db', j, content),
         TakesBackTo(db', jrnl', content)
  PROVE  /\ content' = content /\ older' = content
         /\ Keeps(db', jrnl', jrnlMaybe', content', older')
<1>1. Keeps(db', jrnl', jrnlMaybe', content, content)
  BY DEF FileInv, Keeps
<1> QED BY <1>1, NextFiles

\* A transaction that has not written yet sees the file as it is.
LEMMA LockedFile ==
  ASSUME Inv, FileInv, eState \in {"READER", "WRITER_LOCKED"}
  PROVE  db = content
BY JournalTypes, ColdFile DEF FileInv, Keeps

\* The journal is opened; journals of an earlier transaction are still hot.
LEMMA OpenedContent ==
  ASSUME Inv, FileInv, OriginalsInv, eState \in Writing, call \in {"none", "commit"},
         step = "start"
  PROVE  /\ Keeps(db, JournalOpened, MaybeOpened, content, older)
         /\ older # content =>
              \A i \in jrnlMaybe : TakesBackTo(db, i, older) => i \in MaybeOpened
         /\ \A r \in RecordsOf(JournalOpened, Len(JournalOpened)) : r.image = content[r.page]
         /\ \A p \in Pages \ Journaled(JournalOpened) : db[p] = content[p]
         /\ eState = "WRITER_DBMOD" =>
              \A j \in MaybeOpened : TakesBackTo(db, j, content)
<1>1. CASE eState = "WRITER_LOCKED"
  <2>1. /\ JournalOpened = <<NewSegment>>
        /\ MaybeOpened = {j \in jrnlMaybe : Hot(j)} \cup {NoJournal, <<NewSegment>>}
    BY <1>1 DEF JournalOpened, MaybeOpened
  <2>2. db = content
    BY <1>1, LockedFile
  <2>3. TakesBackTo(db, NoJournal, content) /\ TakesBackTo(db, <<NewSegment>>, content)
    BY <2>2, JournalTypes, NewSegmentType, ColdFile DEF FileInv, Keeps
  <2>4. Keeps(db, JournalOpened, MaybeOpened, content, older)
    BY <2>1, <2>3 DEF FileInv, Keeps
  <2>5. ASSUME older # content, NEW i \in jrnlMaybe, TakesBackTo(db, i, older)
        PROVE  Hot(i)
    BY <2>2, <2>5, JournalTypes, ColdFile DEF FileInv, Keeps
  <2>6. RecordsOf(JournalOpened, Len(JournalOpened)) = {}
    BY <2>1 DEF RecordsOf, NewSegment, Range
  <2> QED BY <1>1, <2>1, <2>2, <2>4, <2>5, <2>6
<1>2. CASE eState # "WRITER_LOCKED"
  <2>1. JournalOpened = jrnl /\ MaybeOpened = jrnlMaybe /\ eState \in Modified
    BY <1>2 DEF JournalOpened, MaybeOpened, Writing
  <2>2. SyncedPages \subseteq Journaled(jrnl)
    <3>1. journalHdr <= Len(jrnl) /\ journalHdr \in Nat /\ Len(jrnl) \in Nat
      BY <2>1, JournalTypes, LenProperties DEF Inv, Base, PageInv, Journal
    <3>2. RecordsOf(jrnl, journalHdr) \subseteq RecordsOf(jrnl, Len(jrnl))
      BY <3>1 DEF RecordsOf
    <3> QED BY <3>2 DEF SyncedPages, Journaled
  <2> QED BY <2>1, <2>2 DEF FileInv, OriginalsInv
<1> QED BY <1>1, <1>2

\* The original that is journaled is the page of the file.
LEMMA JournaledContent ==
  ASSUME Inv, Base', Contents, NEW p \in Pages, MakeWritable(p), UNCHANGED <<db>>,
         eState \in Writing, call \in {"none", "commit"}, step = "start",
         cache[p] \in Versions
  PROVE  /\ SameContent
         /\ \A r \in RecordsOf(jrnl', Len(jrnl')) : r.image = content[r.page]
         /\ Journaled(jrnl') = Journaled(JournalOpened) \cup {p}
         /\ eState = "WRITER_DBMOD" =>
              \A j \in jrnlMaybe' : TakesBackTo(db', j, content)
<1> DEFINE open == JournalOpened
           maybe == MaybeOpened
<1>1. /\ Keeps(db, open, maybe, content, older)
      /\ older # content => \A i \in jrnlMaybe : TakesBackTo(db, i, older) => i \in maybe
      /\ \A r \in RecordsOf(open, Len(open)) : r.image = content[r.page]
      /\ \A q \in Pages \ Journaled(open) : db[q] = content[q]
      /\ eState = "WRITER_DBMOD" => \A j \in maybe : TakesBackTo(db, j, content)
  BY OpenedContent DEF Contents
<1>2. /\ open \in Journal /\ open # NoJournal /\ maybe \subseteq Journal
      /\ open \in maybe /\ open[Len(open)].nRec = 0
      /\ eState # "WRITER_LOCKED" => open = jrnl /\ maybe = jrnlMaybe
  BY OpenedJournal, JournalOpenedType DEF Inv
<1>3. CASE p \in Journaled(open)
  <2>1. UNCHANGED <<jrnl, jrnlMaybe>> /\ jrnl = open /\ maybe = jrnlMaybe
    BY <1>2, <1>3, NothingJournaled DEF MakeWritable
  <2>2. SameContent
    BY <2>1, SameFiles DEF Contents
  <2>3. jrnl' = open /\ jrnlMaybe' = maybe
    BY <2>1
  <2>4. open = JournalOpened /\ db' = db
    OBVIOUS
  <2> HIDE DEF open, maybe
  <2>5. Journaled(jrnl') = Journaled(open) \cup {p}
    BY <1>3, <2>3
  <2>6. \A r \in RecordsOf(jrnl', Len(jrnl')) : r.image = content[r.page]
    BY <1>1, <2>3
  <2>7. eState = "WRITER_DBMOD" => \A j \in jrnlMaybe' : TakesBackTo(db', j, content)
    BY <1>1, <2>3, <2>4
  <2> QED BY <2>2, <2>4, <2>5, <2>6, <2>7
<1>4. CASE p \notin Journaled(open)
  <2>1. /\ jrnl' = AddRecord(open, Original(p))
        /\ jrnlMaybe' = maybe \cup
             {AddRecord(j, r) : j \in Reached(maybe, open),
                                r \in {Original(p), TornOriginal(p)}}
    BY <1>4 DEF MakeWritable
  <2>2. Original(p) \in Record /\ TornOriginal(p) \in Record
    <3>1. readKey \in Keys
      BY Connected DEF Inv, Writing, Modified
    <3> QED BY <3>1 DEF Original, TornOriginal, Record, Stored, Image
  <2>3. Original(p).image = content[p] /\ Original(p).page = p
    <3>1. eState # "ERROR" /\ call # "recover"
      BY DEF Writing, Modified
    <3>2. db[p] = [key |-> readKey, val |-> cache[p]]
      BY <1>4, <3>1 DEF Contents, CacheInv, KeyOf
    <3>3. db[p] = content[p]
      BY <1>1, <1>4
    <3> QED BY <3>2, <3>3 DEF Original
  <2> HIDE DEF open, maybe
  <2>4. RecordsOf(jrnl', Len(jrnl')) = RecordsOf(open, Len(open)) \cup {Original(p)}
    BY <1>2, <2>1, <2>2, AddedRecord
  <2>5. \A j \in Reached(maybe, open) : \A r \in Record : \A f :
          TakesBackTo(db, j, f) => TakesBackTo(db, AddRecord(j, r), f)
    <3> SUFFICES ASSUME NEW j \in Reached(maybe, open), NEW r \in Record, NEW f,
                        TakesBackTo(db, j, f)
                 PROVE  TakesBackTo(db, AddRecord(j, r), f)
      OBVIOUS
    <3>1. j \in Journal /\ j # NoJournal /\ j[Len(j)].nRec = 0
      BY <1>2 DEF Reached
    <3>2. /\ HotRecords(AddRecord(j, r)) = HotRecords(j)
          /\ HotPages(AddRecord(j, r)) = HotPages(j)
      BY <3>1, AddedRecord
    <3> QED BY <3>2, SameTakesBack
  <2>6. open \in Reached(maybe, open)
    BY <1>2 DEF Reached
  <2>7. Reached(maybe, open) \subseteq maybe
    BY DEF Reached
  <2>8. TakesBackTo(db, jrnl', content)
    BY <1>1, <2>1, <2>2, <2>5, <2>6 DEF Keeps
  <2>9. \A k \in jrnlMaybe' : \E j \in maybe : \A f : TakesBackTo(db, j, f) => TakesBackTo(db, k, f)
    BY <2>1, <2>2, <2>5, <2>7
  <2>10. Keeps(db', jrnl', jrnlMaybe', content, older)
    BY <1>1, <2>8, <2>9 DEF Keeps
  <2>11. SameContent
    BY <1>1, <2>1, <2>10, StillOlder DEF Contents
  <2>12. eState = "WRITER_DBMOD" => \A j \in jrnlMaybe' : TakesBackTo(db', j, content)
    BY <1>1, <2>9
  <2>13. Journaled(jrnl') = Journaled(open) \cup {p}
    BY <2>3, <2>4 DEF Journaled
  <2>14. \A r \in RecordsOf(jrnl', Len(jrnl')) : r.image = content[r.page]
    BY <1>1, <2>3, <2>4
  <2> QED BY <2>11, <2>12, <2>13, <2>14 DEF open
<1> QED BY <1>3, <1>4

\* Filling in the header of a journal whose records are the pages as they were.
LEMMA SyncedRecordsContent ==
  ASSUME Inv, Contents, SyncRecords
  PROVE  /\ content' = content /\ older' = content
         /\ Keeps(db', jrnl', jrnlMaybe', content', older')
         /\ \A j \in jrnlMaybe' : TakesBackTo(db', j, content)
         /\ RecordsOf(jrnl', Len(jrnl')) = RecordsOf(jrnl, Len(jrnl))
         /\ SyncedPages' = SyncedPages
<1> DEFINE last == Len(jrnl)
           n == Len(jrnl[last].records)
<1>1. /\ jrnl' = FillHeader(jrnl, n) /\ jrnlMaybe' = {jrnl, jrnl'}
      /\ db' = db /\ journalHdr' = journalHdr
      /\ step = "sync" /\ call \in {"commit", "spill"} /\ eState \in Modified
      /\ jrnl # NoJournal /\ jrnl \in Journal
  BY JournalTypes DEF SyncRecords, pagerVars, Inv, Base, ControlInv, PageInv
<1>2. n \in Nat /\ last \in Nat \ {0} /\ jrnl[last].nRec = 0 /\ journalHdr = last - 1
  <2>1. last \in Nat \ {0}
    BY <1>1, EmptySeq DEF Journal, NoJournal
  <2>2. jrnl[last] \in Segment
    BY <1>1, <2>1, ElementOfSeq DEF Journal
  <2> QED BY <1>1, <2>1, <2>2, LenProperties DEF Segment, Inv, GrowthInv, Modified
<1> HIDE DEF n
<1>3. /\ jrnl' \in Journal /\ Len(jrnl') = last
      /\ \A i \in 1 .. last : /\ jrnl'[i].records = jrnl[i].records
                              /\ i # last => jrnl'[i] = jrnl[i]
  BY <1>1, <1>2, FillHeaderType
<1>4. /\ RecordsOf(jrnl', Len(jrnl')) = RecordsOf(jrnl, last)
      /\ \A i \in 1 .. last : RecordsOf(jrnl', i) = RecordsOf(jrnl, i)
  BY <1>1, <1>2, FilledHeader
<1>5. SyncedPages' = SyncedPages
  <2>1. CASE journalHdr = 0
    BY <1>1, <2>1 DEF SyncedPages, RecordsOf
  <2>2. CASE journalHdr # 0
    <3>1. journalHdr \in 1 .. last
      <4> HIDE DEF last
      <4> QED BY <1>2, <2>2
    <3> QED BY <1>1, <1>4, <3>1 DEF SyncedPages
  <2> QED BY <2>1, <2>2
<1>6. HotPages(jrnl) \subseteq HotPages(jrnl')
  <2>1. \A i \in 1 .. last : /\ jrnl[i].nRec > 0 => jrnl'[i].nRec > 0
                             /\ \A p : Holds(jrnl[i], p) => Holds(jrnl'[i], p)
    BY <1>2, <1>3 DEF Holds
  <2>2. last <= Len(jrnl')
    BY <1>2, <1>3
  <2> QED BY <1>1, <1>3, <2>1, <2>2, Grows
<1>7. TakesBackTo(db', jrnl, content)
  BY <1>1 DEF Contents, FileInv, Keeps
<1>8. TakesBackTo(db', jrnl', content)
  <2>1. HotRecords(jrnl') \subseteq RecordsOf(jrnl, last)
    BY <1>3, <1>4, HotRecordsOf
  <2>2. \A r \in RecordsOf(jrnl, last) : r.image = content[r.page]
    BY <1>1 DEF Contents, OriginalsInv
  <2> QED BY <1>6, <1>7, <2>1, <2>2 DEF TakesBackTo
<1>9. \A j \in jrnlMaybe' : TakesBackTo(db', j, content)
  BY <1>1, <1>7, <1>8
<1> QED BY <1>4, <1>5, <1>8, <1>9, SettledContent DEF Contents

\* The header is safe, and a spill opens a new segment.
LEMMA SyncedHeaderContent ==
  ASSUME Inv, Contents, SyncHeader
  PROVE  /\ content' = content /\ older' = content
         /\ Keeps(db', jrnl', jrnlMaybe', content', older')
         /\ \A j \in jrnlMaybe' : TakesBackTo(db', j, content)
         /\ RecordsOf(jrnl', Len(jrnl')) = RecordsOf(jrnl, Len(jrnl))
         /\ SyncedPages \subseteq SyncedPages'
<1>1. /\ jrnl' = IF call = "spill" THEN Append(jrnl, NewSegment) ELSE jrnl
      /\ jrnlMaybe' = {jrnl, jrnl'} /\ db' = db /\ journalHdr' = Len(jrnl)
      /\ step = "header" /\ call \in {"commit", "spill"} /\ eState \in Modified
      /\ jrnl # NoJournal /\ jrnl \in Journal
      /\ journalHdr <= Len(jrnl) /\ journalHdr \in Nat /\ Len(jrnl) \in Nat
  BY JournalTypes, LenProperties DEF SyncHeader, Inv, Base, ControlInv, PageInv, Journal
<1>2. /\ HotRecords(jrnl') = HotRecords(jrnl) /\ HotPages(jrnl') = HotPages(jrnl)
      /\ RecordsOf(jrnl', Len(jrnl')) = RecordsOf(jrnl, Len(jrnl))
      /\ RecordsOf(jrnl', Len(jrnl)) = RecordsOf(jrnl, Len(jrnl))
  BY <1>1, AddedSegment
<1>3. SyncedPages \subseteq SyncedPages'
  <2>1. RecordsOf(jrnl, journalHdr) \subseteq RecordsOf(jrnl, Len(jrnl))
    BY <1>1 DEF RecordsOf
  <2> QED BY <1>1, <1>2, <2>1 DEF SyncedPages
<1>4. TakesBackTo(db', jrnl, content)
  BY <1>1 DEF Contents, FileInv, Keeps
<1>5. TakesBackTo(db', jrnl', content)
  BY <1>2, <1>4, SameTakesBack
<1>6. \A j \in jrnlMaybe' : TakesBackTo(db', j, content)
  BY <1>1, <1>4, <1>5
<1> QED BY <1>2, <1>3, <1>5, <1>6, SettledContent DEF Contents

\* The hot journal is all that is left of the journals.
LEMMA HotJournalContent ==
  ASSUME Contents, SyncHotJournal
  PROVE  /\ content' = content /\ older' = content
         /\ Keeps(db', jrnl', jrnlMaybe', content', older')
<1>1. TakesBackTo(db, jrnl, content) /\ jrnlMaybe' = {jrnl} /\ jrnl' = jrnl /\ db' = db
  BY DEF Contents, FileInv, Keeps, SyncHotJournal
<1> QED BY <1>1, SettledContent DEF Contents

\* The file of a transaction whose pages have all been written has one key.
LEMMA CommittedFile ==
  ASSUME Inv, Contents, eState = "WRITER_FINISHED"
  PROVE  /\ call = "commit" /\ step = "finalize" /\ dirty = {} /\ OneKey(db)
         /\ db[1].key = IF rekeying THEN writeKey ELSE readKey
<1>1. call = "commit" /\ step = "finalize"
  BY DEF Inv, Base, TypeOK, ControlInv, Calls, Writing, Modified
<1>2. dirty = {}
  BY <1>1 DEF Contents, WrittenInv
<1>3. rekeying => Journaled(jrnl) = Pages
  BY <1>1 DEF Contents, KeyInv
<1>4. \A p \in Pages : db[p] \in Image /\ db[p].key = IF rekeying THEN writeKey ELSE readKey
  BY <1>2, <1>3 DEF Contents, WrittenInv
<1>5. 1 \in Pages
  BY PagerAssumption DEF Pages
<1>6. db \in [Pages -> Image]
  BY <1>4, JournalTypes
<1> QED BY <1>1, <1>2, <1>4, <1>5, <1>6 DEF OneKey

\* The journal is removed: a commit makes the file the content.
LEMMA FinalizedContent ==
  ASSUME Inv, Contents, Finalize
  PROVE  /\ content' = db /\ db' = db
         /\ Keeps(db', jrnl', jrnlMaybe', content', older')
         /\ eState = "WRITER_FINISHED" => older' = content
         /\ eState # "WRITER_FINISHED" => content = db /\ older' \in {content, older}
<1>1. /\ jrnl' = NoJournal /\ db' = db /\ step = "finalize"
      /\ jrnlMaybe' = {j \in jrnlMaybe : Hot(j)} \cup {NoJournal}
  BY DEF Finalize
<1>2. CASE eState = "WRITER_FINISHED"
  <2>1. \A j \in jrnlMaybe : TakesBackTo(db, j, content)
    BY <1>2 DEF Contents, OriginalsInv
  <2>2. OneKey(db) /\ OneKey(content)
    BY <1>2, CommittedFile DEF Contents, FileInv, Keeps
  <2>3. TakesBackTo(db, NoJournal, db)
    BY <2>2, JournalTypes, NewSegmentType, ColdFile
  <2>4. Keeps(db', jrnl', jrnlMaybe', db, content)
    BY <1>1, <2>1, <2>2, <2>3 DEF Keeps
  <2>5. db # content => \E j \in jrnlMaybe' : TakesBackTo(db', j, content)
    <3> SUFFICES ASSUME db # content PROVE jrnl \in jrnlMaybe' /\ TakesBackTo(db', jrnl, content)
      OBVIOUS
    <3>1. jrnl \in jrnlMaybe /\ jrnl \in Journal /\ db \in [Pages -> Stored]
      BY JournalTypes
    <3>2. Hot(jrnl)
      BY <2>1, <2>2, <3>1, ColdFile
    <3> QED BY <1>1, <2>1, <3>1, <3>2
  <2>6. /\ content' = db /\ older' \in {db, content}
        /\ Keeps(db', jrnl', jrnlMaybe', content', older')
        /\ (\E i \in jrnlMaybe' : TakesBackTo(db', i, content)) => older' = content
    BY <2>4, NextFiles
  <2> QED BY <1>1, <1>2, <2>5, <2>6
<1>3. CASE eState # "WRITER_FINISHED"
  <2>1. call \in {"rollback", "recover"}
    BY <1>1, <1>3 DEF Inv, Base, TypeOK, ControlInv, Calls
  <2>2. db = content
    BY <1>1, <2>1 DEF Contents, OriginalsInv
  <2>3. TakesBackTo(db, NoJournal, content)
    BY <2>2, JournalTypes, NewSegmentType, ColdFile DEF Contents, FileInv, Keeps
  <2>4. Keeps(db', jrnl', jrnlMaybe', content, older)
    BY <1>1, <2>3 DEF Contents, FileInv, Keeps
  <2>5. /\ content' = content /\ older' \in {content, older}
        /\ Keeps(db', jrnl', jrnlMaybe', content', older')
    BY <2>4, NextFiles
  <2> QED BY <1>1, <1>3, <2>2, <2>5
<1> QED BY <1>2, <1>3

\* A crash leaves the content or the older file.
LEMMA CrashedContent ==
  ASSUME Inv, Contents, Crash
  PROVE  /\ content' \in {content, older} /\ older' = content'
         /\ Keeps(db', jrnl', jrnlMaybe', content', older')
<1>1. PICK file \in [Pages -> UNION {dbMaybe[p] : p \in Pages}] :
        /\ \A p \in Pages : file[p] \in dbMaybe[p]
        /\ db' = file
  BY DEF Crash
<1>2. PICK j \in jrnlMaybe : jrnl' = IF Hot(j) THEN j ELSE NoJournal
  BY DEF Crash
<1>3. PICK f \in {content, older} : TakesBackTo(db, j, f) /\ OneKey(f)
  BY DEF Contents, FileInv, Keeps
<1>4. \A p \in Pages \ HotPages(j) : db'[p] = db[p]
  <2> SUFFICES ASSUME NEW p \in Pages \ HotPages(j) PROVE db'[p] = db[p]
    OBVIOUS
  <2>1. dbMaybe[p] = {db[p]}
    BY DEF Inv, WriteAhead
  <2> QED BY <1>1, <2>1
<1>5. TakesBackTo(db', j, f)
  BY <1>3, <1>4 DEF TakesBackTo
<1>6. TakesBackTo(db', jrnl', f)
  <2>1. CASE Hot(j)
    BY <1>2, <1>5, <2>1
  <2>2. CASE ~ Hot(j)
    <3>1. /\ HotRecords(j) = {} /\ HotPages(j) = {}
          /\ HotRecords(NoJournal) = {} /\ HotPages(NoJournal) = {}
      BY <2>2, JournalTypes, NewSegmentType, HotRecordsOf
    <3> QED BY <1>2, <1>5, <2>2, <3>1, SameTakesBack
  <2> QED BY <2>1, <2>2
<1>7. jrnlMaybe' = {jrnl'}
  BY DEF Crash
<1>8. Keeps(db', jrnl', jrnlMaybe', f, f)
  BY <1>3, <1>6, <1>7 DEF Keeps
<1>9. /\ content' = f /\ older' \in {f, f}
      /\ Keeps(db', jrnl', jrnlMaybe', content', older')
  BY <1>8, NextFiles
<1> QED BY <1>9

-----------------------------------------------------------------------------
(***************************************************************************)
(* The invariants are kept.  First by the steps that leave the files and   *)
(* the journals alone.                                                     *)
(***************************************************************************)
\* The file has a key, and no page of it is torn.
LEMMA ContentKey ==
  ASSUME Contents
  PROVE  /\ 1 \in Pages
         /\ content[1].key \in Keys /\ content[1].key # NoKey
         /\ \A p \in Pages : content[p] \in Image /\ content[p].key = content[1].key
                             /\ content[p] # Torn
BY OneKeyFile DEF Contents, FileInv, Keeps

\* The pages that the journal of the transaction has.
LEMMA OpenedPages ==
  /\ Journaled(JournalOpened) = IF eState = "WRITER_LOCKED" THEN {} ELSE Journaled(jrnl)
  /\ Journaled(JournalOpened)' = IF eState' = "WRITER_LOCKED" THEN {} ELSE Journaled(jrnl')
<1>1. Journaled(<<NewSegment>>) = {}
  <2>1. RecordsOf(<<NewSegment>>, 1) = {}
    BY DEF RecordsOf, NewSegment, Range
  <2> QED BY <2>1 DEF Journaled
<1>2. /\ JournalOpened = IF eState = "WRITER_LOCKED" THEN <<NewSegment>> ELSE jrnl
      /\ JournalOpened' = IF eState' = "WRITER_LOCKED" THEN <<NewSegment>> ELSE jrnl'
  BY DEF JournalOpened
<1>3. Journaled(JournalOpened)' = Journaled(JournalOpened')
  BY DEF Journaled
<1> QED BY <1>1, <1>2, <1>3

\* Neither a commit nor a playback has written the file.
Unwritten ==
  ~ (call \in {"commit", "rollback", "recover"} /\ step \in {"db", "finalize"})

\* A step that writes no file keeps what is said of the files, as long as a
\* transaction goes on as it was.
LEMMA UntouchedFiles ==
  ASSUME Inv, Contents, UNCHANGED <<db, jrnl, jrnlMaybe>>, Unwritten',
         eState' # "WRITER_FINISHED",
         eState' \in {"READER", "WRITER_LOCKED"} =>
           eState \in {"READER", "WRITER_LOCKED"} \/ ~ Hot(jrnl),
         eState' \in Modified =>
           UNCHANGED <<eState, journalHdr, dirty, readKey, writeKey, rekeying>>
  PROVE  content' = content /\ FileInv' /\ OriginalsInv' /\ WrittenInv'
<1>1. SameContent
  BY SameFiles DEF Contents
<1>2. content' = content
  BY <1>1 DEF SameContent
<1>3. FileInv'
  BY <1>1 DEF SameContent, FileInv, Contents
<1>4. OriginalsInv'
  <2>1. /\ call' \in {"rollback", "recover"} /\ step' \in {"db", "finalize"} => FALSE
    BY DEF Unwritten
  <2>2. ASSUME eState' \in Modified
        PROVE  /\ \A r \in RecordsOf(jrnl', Len(jrnl')) : r.image = content'[r.page]
               /\ \A p \in Pages \ SyncedPages' : db'[p] = content'[p]
    <3>1. SyncedPages' = SyncedPages /\ eState \in Modified
      BY <2>2 DEF SyncedPages
    <3> QED BY <1>2, <3>1 DEF Contents, OriginalsInv
  <2>3. eState' = "WRITER_DBMOD" => \A j \in jrnlMaybe' : TakesBackTo(db', j, content')
    BY <1>2 DEF Contents, OriginalsInv, Modified
  <2> QED BY <2>1, <2>2, <2>3 DEF OriginalsInv
<1>5. WrittenInv'
  <2>1. call' = "commit" /\ step' \in {"db", "finalize"} => FALSE
    BY DEF Unwritten
  <2> QED BY <2>1 DEF Contents, WrittenInv
<1> QED BY <1>2, <1>3, <1>4, <1>5

\* A page that cannot be read tells that the key is not that of the file.
LEMMA ReadContent ==
  ASSUME Inv, Contents, NEW p \in Pages, AcquirePage(p)
  PROVE  /\ errCode' => eState = "READER" /\ readKey # content[1].key
         /\ Decrypt(db[p]) \in Versions =>
              db[p] = [key |-> readKey, val |-> Decrypt(db[p])]
<1>1. /\ eState \in {"READER", "WRITER_LOCKED", "WRITER_CACHEMOD", "WRITER_DBMOD"}
      /\ rekeying => p \notin Journaled(JournalOpened)
      /\ errCode' = Unreadable(db[p]) /\ cache[p] = NoPage
  BY DEF AcquirePage, Writing, Modified
<1>2. db[p] \in Stored
  BY JournalTypes
<1>3. Decrypt(db[p]) \in Versions =>
        db[p] = [key |-> readKey, val |-> Decrypt(db[p])]
  BY <1>2, PagerAssumption DEF Decrypt, Stored, Image
<1>4. db[p] \in Image /\ db[p].key = readKey => ~ Unreadable(db[p])
  BY PagerAssumption DEF Unreadable, Decrypt, Image
<1>5. eState \in {"READER", "WRITER_LOCKED"} /\ readKey = content[1].key =>
        db[p] \in Image /\ db[p].key = readKey
  BY LockedFile, ContentKey DEF Contents
<1>6. eState = "WRITER_LOCKED" => readKey = content[1].key
  BY DEF Contents, KeyInv, InTransaction, Writing
<1>7. eState \in Modified => db[p] \in Image /\ db[p].key = readKey
  <2> SUFFICES ASSUME eState \in Modified PROVE db[p] \in Image /\ db[p].key = readKey
    OBVIOUS
  <2>1. cache[p] \notin Versions
    BY <1>1, PagerAssumption
  <2>2. p \notin dirty
    BY <2>1 DEF Inv, Base, PageInv
  <2>3. rekeying => p \notin Journaled(jrnl)
    BY <1>1, OpenedPages DEF Modified
  <2> QED BY <2>2, <2>3 DEF Contents, WrittenInv
<1> QED BY <1>1, <1>3, <1>4, <1>5, <1>6, <1>7 DEF Modified

\* Opening, closing, locking and reading.
LEMMA ConnectionContents ==
  ASSUME Inv, Contents,
         \/ \E k \in Keys : Open(k)
         \/ Close \/ SharedLock \/ Unlock
         \/ \E p \in Pages : AcquirePage(p) \/ RecyclePage(p)
  PROVE  Contents'
<1> USE DEF Contents, Idle, fileVars, pagerVars, keyVars, callVars, boundVars, Writing, Modified
<1>1. ASSUME NEW k \in Keys, Open(k) PROVE Contents'
  <2>0. /\ UNCHANGED <<db, jrnl, jrnlMaybe, eState, errCode, cache, dirty, call, step, rekeying>>
        /\ eState = "OPEN" /\ call = "none" /\ step = "start" /\ readKey = NoKey
        /\ readKey' = k /\ writeKey' = k
    BY <1>1 DEF Open, Inv, Base, ControlInv
  <2>1. content' = content /\ FileInv' /\ OriginalsInv' /\ WrittenInv'
    BY <2>0, UntouchedFiles DEF Unwritten
  <2>2. KeyInv'
    BY <2>0, <2>1 DEF KeyInv, InTransaction
  <2>3. CacheInv'
    <3>1. k # NoKey /\ \A p \in Pages : cache[p] \notin Versions
      BY <2>0, PagerAssumption DEF CacheInv
    <3> QED BY <2>0, <3>1 DEF CacheInv
  <2> QED BY <2>1, <2>2, <2>3
<1>2. CASE Close
  <2>0. /\ UNCHANGED <<db, jrnl, jrnlMaybe>> /\ eState' = "OPEN" /\ call' = "none"
        /\ errCode' = FALSE /\ rekeying' = FALSE /\ readKey' = NoKey
        /\ cache' = [p \in Pages |-> NoPage]
    BY <1>2 DEF Close, Disconnected
  <2>1. content' = content /\ FileInv' /\ OriginalsInv' /\ WrittenInv'
    BY <2>0, UntouchedFiles DEF Unwritten
  <2>2. KeyInv'
    BY <2>0, <2>1, ContentKey DEF KeyInv, InTransaction
  <2>3. CacheInv'
    BY <2>0, PagerAssumption DEF CacheInv
  <2> QED BY <2>1, <2>2, <2>3
<1>3. CASE SharedLock
  <2>0. /\ UNCHANGED <<db, jrnl, jrnlMaybe, errCode, cache, dirty, readKey, writeKey, rekeying>>
        /\ eState = "OPEN" /\ call = "none" /\ step = "start"
        /\ readKey # NoKey
        /\ \/ Hot(jrnl) /\ call' = "recover" /\ step' = "sync" /\ eState' = eState
           \/ ~ Hot(jrnl) /\ eState' = "READER" /\ UNCHANGED <<call, step>>
    BY <1>3 DEF SharedLock, Inv, Base, ControlInv
  <2>1. content' = content /\ FileInv' /\ OriginalsInv' /\ WrittenInv'
    BY <2>0, UntouchedFiles DEF Unwritten
  <2>2. KeyInv'
    BY <2>0, <2>1 DEF KeyInv, InTransaction
  <2>3. CacheInv'
    BY <2>0, OpenedPages DEF CacheInv, KeyOf
  <2> QED BY <2>1, <2>2, <2>3
<1>4. CASE Unlock
  <2>0. /\ UNCHANGED <<db, jrnl, jrnlMaybe, call, step, readKey, writeKey, rekeying>>
        /\ eState \in {"READER", "ERROR"} /\ call = "none" /\ step = "start"
        /\ eState' = "OPEN" /\ errCode' = FALSE
        /\ eState = "ERROR" => errCode
        /\ readKey # NoKey
        /\ errCode => cache' = [p \in Pages |-> NoPage]
        /\ ~ errCode => UNCHANGED <<cache, dirty>>
    BY <1>4 DEF Unlock, Inv, Base, ControlInv
  <2>1. content' = content /\ FileInv' /\ OriginalsInv' /\ WrittenInv'
    BY <2>0, UntouchedFiles DEF Unwritten
  <2>2. KeyInv'
    BY <2>0, <2>1 DEF KeyInv, InTransaction
  <2>3. CacheInv'
    BY <2>0, OpenedPages, PagerAssumption DEF CacheInv, KeyOf
  <2> QED BY <2>1, <2>2, <2>3
<1>5. ASSUME NEW p \in Pages, AcquirePage(p) PROVE Contents'
  <2>0. /\ UNCHANGED <<db, jrnl, jrnlMaybe, eState, journalHdr, dirty, call, step,
                       readKey, writeKey, rekeying>>
        /\ eState \in {"READER"} \cup Writing /\ call = "none" /\ step = "start"
        /\ cache' = [cache EXCEPT ![p] = Decrypt(db[p])]
        /\ rekeying => p \notin Journaled(JournalOpened)
        /\ readKey # NoKey /\ cache \in [Pages -> Versions \cup {NoPage, Zeroed}]
    BY <1>5 DEF AcquirePage, Inv, Base, ControlInv, TypeOK
  <2>1. content' = content /\ FileInv' /\ OriginalsInv' /\ WrittenInv'
    BY <2>0, UntouchedFiles DEF Unwritten
  <2>2. KeyInv'
    BY <1>5, <2>0, <2>1, ReadContent DEF KeyInv, InTransaction
  <2>3. CacheInv'
    <3>1. Decrypt(db[p]) \in Versions => db[p] = [key |-> readKey, val |-> Decrypt(db[p])]
      BY <1>5, ReadContent
    <3> QED BY <2>0, <3>1, OpenedPages DEF CacheInv, KeyOf
  <2> QED BY <2>1, <2>2, <2>3
<1>6. ASSUME NEW p \in Pages, RecyclePage(p) PROVE Contents'
  <2>0. /\ UNCHANGED <<db, jrnl, jrnlMaybe, eState, errCode, journalHdr, dirty, call, step,
                       readKey, writeKey, rekeying>>
        /\ call = "none" /\ step = "start" /\ eState # "WRITER_FINISHED"
        /\ cache' = [cache EXCEPT ![p] = NoPage]
        /\ readKey # NoKey /\ cache \in [Pages -> Versions \cup {NoPage, Zeroed}]
    BY <1>6 DEF RecyclePage, Inv, Base, ControlInv, TypeOK
  <2>1. content' = content /\ FileInv' /\ OriginalsInv' /\ WrittenInv'
    BY <2>0, UntouchedFiles DEF Unwritten
  <2>2. KeyInv'
    BY <2>0, <2>1 DEF KeyInv, InTransaction
  <2>3. CacheInv'
    BY <2>0, OpenedPages, PagerAssumption DEF CacheInv, KeyOf
  <2> QED BY <2>1, <2>2, <2>3
<1> QED BY <1>1, <1>2, <1>3, <1>4, <1>5, <1>6

\* The b-tree begins a transaction when it could read page 1: with the key of
\* the file.
LEMMA BeginContent ==
  ASSUME Inv, Contents, MayBegin
  PROVE  readKey = content[1].key /\ readKey # NoKey /\ ~ rekeying /\ writeKey = readKey
<1>1. eState = "READER" /\ call = "none" /\ ~ errCode /\ cache[1] \in Versions /\ dirty = {}
  BY DEF MayBegin, Idle, Inv, JournalInv
<1>2. ~ rekeying
  BY <1>1 DEF Contents, KeyInv, InTransaction, Writing, Modified
<1>3. db[1] = [key |-> readKey, val |-> cache[1]]
  BY <1>1, <1>2, ContentKey DEF Contents, CacheInv, KeyOf
<1>4. readKey = content[1].key
  BY <1>1, <1>3, LockedFile DEF Contents
<1> QED BY <1>2, <1>4, ContentKey DEF Contents, KeyInv

\* The steps of a transaction that leave the files and the cache alone.
LEMMA LogicalContents ==
  ASSUME Inv, Contents,
         \/ \E k \in Keys : Rekey(k) \/ RekeyRefused(k)
         \/ \E p \in Pages : Spill(p)
         \/ Begin \/ EndUnmodified \/ Commit \/ RequestRollback \/ Rollback
  PROVE  Contents'
<1> USE DEF Contents, Idle, Start, fileVars, pagerVars, keyVars, callVars, boundVars,
            Writing, Modified
<1>1. CASE Begin \/ \E k \in Keys : Rekey(k)
  <2>0. /\ UNCHANGED <<db, jrnl, jrnlMaybe, errCode, cache, dirty, call, step, readKey>>
        /\ eState = "READER" /\ eState' = "WRITER_LOCKED" /\ dirty = {}
        /\ call = "none" /\ step = "start" /\ ~ errCode
        /\ \/ UNCHANGED <<writeKey, rekeying>>
           \/ rekeying' = TRUE
        /\ MayBegin
    BY <1>1 DEF Begin, Rekey, MayBegin, Inv, Base, ControlInv, JournalInv
  <2>1. content' = content /\ FileInv' /\ OriginalsInv' /\ WrittenInv'
    BY <2>0, UntouchedFiles DEF Unwritten
  <2>2. KeyInv'
    BY <2>0, <2>1, BeginContent DEF KeyInv, InTransaction
  <2>3. CacheInv'
    BY <2>0, BeginContent, OpenedPages DEF CacheInv, KeyOf
  <2> QED BY <2>1, <2>2, <2>3
<1>2. ASSUME NEW k \in Keys, RekeyRefused(k) PROVE Contents'
  <2>0. /\ UNCHANGED <<db, jrnl, jrnlMaybe, eState, errCode, cache, dirty, call, step,
                       readKey, rekeying>>
        /\ eState = "READER" /\ call = "none" /\ step = "start" /\ errCode
    BY <1>2 DEF RekeyRefused, Inv, Base, ControlInv
  <2>1. content' = content /\ FileInv' /\ OriginalsInv' /\ WrittenInv'
    BY <2>0, UntouchedFiles DEF Unwritten
  <2>2. KeyInv'
    BY <2>0, <2>1 DEF KeyInv, InTransaction
  <2>3. CacheInv'
    BY <2>0, <2>2, OpenedPages DEF CacheInv, KeyOf, KeyInv, InTransaction
  <2> QED BY <2>1, <2>2, <2>3
<1>3. CASE Commit \/ \E p \in Pages : Spill(p)
  <2>0. /\ UNCHANGED <<db, jrnl, jrnlMaybe, eState, errCode, journalHdr, cache, dirty,
                       readKey, writeKey, rekeying>>
        /\ eState \in Modified /\ call = "none" /\ ~ errCode
        /\ \/ call' = "spill" /\ step' \in {"pages", "sync"}
           \/ call' = "commit" /\ step' = "start" /\ (rekeying => Journaled(jrnl) = Pages)
    BY <1>3 DEF Spill, Commit
  <2>1. content' = content /\ FileInv' /\ OriginalsInv' /\ WrittenInv'
    BY <2>0, UntouchedFiles DEF Unwritten
  <2>2. KeyInv'
    <3>1. Journaled(jrnl') = Journaled(jrnl)
      BY <2>0
    <3> QED BY <2>0, <2>1, <3>1 DEF KeyInv, InTransaction
  <2>3. CacheInv'
    BY <2>0, OpenedPages DEF CacheInv, KeyOf
  <2> QED BY <2>1, <2>2, <2>3
<1>4. CASE EndUnmodified \/ (Rollback /\ eState = "WRITER_LOCKED")
  <2>0. /\ UNCHANGED <<db, jrnl, jrnlMaybe, errCode, cache, dirty, readKey, writeKey, rekeying>>
        /\ eState = "WRITER_LOCKED" /\ eState' = "READER" /\ dirty = {}
        /\ call \in {"none", "rollback"} /\ ~ rekeying
        /\ call' = "none" /\ step' = "start" /\ readKey # NoKey
    BY <1>4 DEF EndUnmodified, Rollback, Inv, Base, ControlInv, JournalInv, KeyInv
  <2>1. content' = content /\ FileInv' /\ OriginalsInv' /\ WrittenInv'
    BY <2>0, UntouchedFiles DEF Unwritten
  <2>2. KeyInv'
    BY <2>0, <2>1 DEF KeyInv, InTransaction
  <2>3. CacheInv'
    BY <2>0, OpenedPages DEF CacheInv, KeyOf
  <2> QED BY <2>1, <2>2, <2>3
<1>5. CASE RequestRollback \/ (Rollback /\ eState # "WRITER_LOCKED")
  <2>0. /\ UNCHANGED <<db, jrnl, jrnlMaybe, eState, errCode, journalHdr, cache, dirty,
                       readKey, writeKey>>
        /\ eState \in Writing /\ call \in {"none", "rollback"}
        /\ rekeying = FALSE /\ rekeying' = FALSE
        /\ call' = "rollback" /\ step' \in {"start", "pages"} /\ readKey # NoKey
    BY <1>5 DEF RequestRollback, Rollback, Inv, Base, TypeOK, ControlInv, KeyInv
  <2>1. content' = content /\ FileInv' /\ OriginalsInv' /\ WrittenInv'
    BY <2>0, UntouchedFiles DEF Unwritten
  <2>2. KeyInv'
    BY <2>0, <2>1 DEF KeyInv, InTransaction
  <2>3. CacheInv'
    BY <2>0, OpenedPages DEF CacheInv, KeyOf
  <2> QED BY <2>1, <2>2, <2>3
<1> QED BY <1>1, <1>2, <1>3, <1>4, <1>5

\* A page is made writable, and gets its new value, if any.
LEMMA WritableContents ==
  ASSUME Inv, Base', Contents, NEW p \in Pages, MakeWritable(p),
         UNCHANGED <<db, errCode, journalHdr, readKey, writeKey, call, rekeying>>,
         eState \in Writing, call \in {"none", "commit"}, step = "start",
         cache[p] \in Versions, call' \in {"none", "commit"}, step' \in {"start", "sync"},
         \A q \in Pages \ {p} : cache'[q] = cache[q],
         UNCHANGED <<dbMaybe>>
  PROVE  Contents' /\ content' = content /\ older' = older
<1> USE DEF Writing, Modified
<1>1. /\ SameContent
      /\ \A r \in RecordsOf(jrnl', Len(jrnl')) : r.image = content[r.page]
      /\ Journaled(jrnl') = Journaled(JournalOpened) \cup {p}
      /\ eState = "WRITER_DBMOD" => \A j \in jrnlMaybe' : TakesBackTo(db', j, content)
  BY JournaledContent
<1>2. /\ dirty' = dirty \cup {p} /\ SyncedPages' = SyncedPages
      /\ eState' = IF eState = "WRITER_LOCKED" THEN "WRITER_CACHEMOD" ELSE eState
  BY MakeWritableJournal DEF MakeWritable
<1>3. content' = content /\ older' = older
  BY <1>1 DEF SameContent
<1>4. FileInv'
  BY <1>1, <1>2 DEF FileInv, SameContent
<1>5. eState = "WRITER_LOCKED" => db = content /\ dirty = {}
  BY LockedFile DEF Inv, JournalInv, Contents
<1>6. readKey = content[1].key /\ ~ errCode
  BY DEF Contents, KeyInv, InTransaction
<1>7. KeyInv'
  <2>1. rekeying /\ call = "commit" => Journaled(jrnl) = Pages /\ eState \in Modified
    BY DEF Contents, KeyInv, Inv, Base, ControlInv
  <2>2. rekeying' /\ call' = "commit" => Journaled(jrnl)' = Pages
    BY <1>1, <2>1, OpenedPages DEF Journaled
  <2> QED BY <1>2, <1>3, <1>6, <2>2 DEF Contents, KeyInv, InTransaction
<1>8. OriginalsInv'
  <2>1. \A q \in Pages \ SyncedPages : db[q] = content[q]
    BY <1>5 DEF Contents, OriginalsInv
  <2>2. eState' \in Modified =>
          /\ \A r \in RecordsOf(jrnl', Len(jrnl')) : r.image = content'[r.page]
          /\ \A q \in Pages \ SyncedPages' : db'[q] = content'[q]
    BY <1>1, <1>2, <1>3, <2>1
  <2>3. eState' \in {"WRITER_DBMOD", "WRITER_FINISHED"} =>
          \A j \in jrnlMaybe' : TakesBackTo(db', j, content')
    BY <1>1, <1>2, <1>3
  <2>4. ~ (call' \in {"rollback", "recover"} /\ step' \in {"db", "finalize"})
    OBVIOUS
  <2> QED BY <2>2, <2>3, <2>4 DEF OriginalsInv
<1>9. WrittenInv'
  <2>1. \A q \in Pages : /\ db[q] \in Image
                         /\ ~ rekeying => db[q].key = readKey
                         /\ rekeying /\ q \notin dirty =>
                              db[q].key = IF q \in Journaled(JournalOpened) THEN writeKey
                                          ELSE readKey
    BY <1>5, <1>6, OpenedPages, ContentKey DEF Contents, WrittenInv
  <2> QED BY <1>1, <1>2, <2>1 DEF WrittenInv
<1>10. CacheInv'
  <2>1. \A q \in Pages : q \notin dirty' \cap Journaled(jrnl') =>
          /\ q # p /\ q \notin dirty \cap Journaled(JournalOpened)
          /\ cache'[q] = cache[q]
          /\ q \in Journaled(jrnl') <=> q \in Journaled(JournalOpened)
    BY <1>1, <1>2
  <2>2. Journaled(JournalOpened)' = Journaled(jrnl')
    BY <1>2, OpenedPages
  <2>3. readKey' # NoKey
    BY <1>6, ContentKey
  <2> QED BY <2>1, <2>2, <2>3 DEF Contents, CacheInv, KeyOf
<1> QED BY <1>3, <1>4, <1>7, <1>8, <1>9, <1>10 DEF Contents

-----------------------------------------------------------------------------
(***************************************************************************)
(* Then by the steps of a commit, a spill, a rollback and a recovery.      *)
(***************************************************************************)

\* WritePage, and the first step of a commit.
LEMMA WritingContents ==
  ASSUME Inv, Base', Contents, IncrChangeCounter \/ \E p \in Pages : WritePage(p)
  PROVE  Contents'
<1> USE DEF Writing, Modified, Idle, keyVars, callVars, boundVars
<1>1. ASSUME NEW p \in Pages, WritePage(p) PROVE Contents'
  <2>1. /\ MakeWritable(p) /\ cache[p] \in Versions /\ eState \in Writing
        /\ UNCHANGED <<db, errCode, journalHdr, readKey, writeKey, call, step, rekeying>>
        /\ call = "none" /\ step = "start" /\ UNCHANGED <<dbMaybe>>
    BY <1>1 DEF WritePage, MayWrite, Inv, Base, ControlInv
  <2>2. \A q \in Pages \ {p} : cache'[q] = cache[q]
    BY <1>1 DEF WritePage, Inv, Base, TypeOK
  <2> QED BY <2>1, <2>2, WritableContents
<1>2. CASE IncrChangeCounter /\ ~ counted
  <2>1. /\ MakeWritable(1) /\ eState \in Modified
        /\ UNCHANGED <<db, errCode, journalHdr, readKey, writeKey, call, rekeying>>
        /\ call = "commit" /\ step = "start" /\ step' = "sync" /\ UNCHANGED <<dbMaybe>>
    BY <1>2 DEF IncrChangeCounter, Inv, Base, ControlInv
  <2>2. 1 \in Pages /\ cache[1] \in Versions
    BY <2>1, ContentKey DEF Inv, Base, PageInv
  <2>3. \A q \in Pages \ {1} : cache'[q] = cache[q]
    BY <1>2 DEF IncrChangeCounter, Inv, Base, TypeOK
  <2> QED BY <2>1, <2>2, <2>3, WritableContents
<1>3. CASE IncrChangeCounter /\ counted
  <2>0. /\ UNCHANGED <<db, jrnl, jrnlMaybe, eState, errCode, journalHdr, cache, dirty,
                       readKey, writeKey, rekeying, call>>
        /\ eState \in Modified /\ call = "commit" /\ step' = "sync"
    BY <1>3 DEF IncrChangeCounter, Inv, Base, ControlInv
  <2>1. content' = content /\ FileInv' /\ OriginalsInv' /\ WrittenInv'
    BY <2>0, UntouchedFiles DEF Unwritten
  <2>2. KeyInv'
    <3>1. Journaled(jrnl)' = Journaled(jrnl)
      BY <2>0 DEF Journaled
    <3> QED BY <2>0, <2>1, <3>1 DEF Contents, KeyInv, InTransaction
  <2>3. CacheInv'
    BY <2>0, OpenedPages DEF Contents, CacheInv, KeyOf
  <2> QED BY <2>1, <2>2, <2>3 DEF Contents
<1> QED BY <1>1, <1>2, <1>3

\* The journal is synced.
LEMMA SyncContents ==
  ASSUME Inv, Contents, SyncRecords \/ SyncHeader
  PROVE  Contents'
<1> USE DEF Writing, Modified, pagerVars, keyVars
<1>1. /\ content' = content
      /\ Keeps(db', jrnl', jrnlMaybe', content', older')
      /\ \A j \in jrnlMaybe' : TakesBackTo(db', j, content)
      /\ RecordsOf(jrnl', Len(jrnl')) = RecordsOf(jrnl, Len(jrnl))
      /\ SyncedPages \subseteq SyncedPages'
  BY SyncedRecordsContent, SyncedHeaderContent
<1>2. /\ UNCHANGED <<db, errCode, cache, dirty, readKey, writeKey, call, rekeying>>
      /\ eState \in Modified /\ eState' \in Modified
      /\ call \in {"commit", "spill"} /\ step' \in {"header", "pages"}
  BY DEF SyncRecords, SyncHeader, Inv, Base, ControlInv
<1>3. Journaled(jrnl)' = Journaled(jrnl)
  BY <1>1 DEF Journaled
<1>4. FileInv'
  BY <1>1, <1>2 DEF FileInv
<1>5. KeyInv'
  BY <1>1, <1>2, <1>3 DEF Contents, KeyInv, InTransaction
<1>6. OriginalsInv'
  <2>1. /\ \A r \in RecordsOf(jrnl', Len(jrnl')) : r.image = content'[r.page]
        /\ \A p \in Pages \ SyncedPages' : db'[p] = content'[p]
    BY <1>1, <1>2 DEF Contents, OriginalsInv
  <2> QED BY <1>1, <1>2, <2>1 DEF OriginalsInv
<1>7. WrittenInv'
  BY <1>2, <1>3 DEF Contents, WrittenInv
<1>8. CacheInv'
  BY <1>2, <1>3, OpenedPages DEF Contents, CacheInv, KeyOf
<1> QED BY <1>4, <1>5, <1>6, <1>7, <1>8 DEF Contents

\* A transaction that is not a rekey writes with the key of the file.
LEMMA TransactionKey ==
  ASSUME Contents, InTransaction
  PROVE  /\ readKey = content[1].key /\ readKey # NoKey /\ ~ errCode
         /\ ~ rekeying => writeKey = readKey
BY ContentKey DEF Contents, KeyInv, InTransaction, Writing, Modified

\* Dirty pages go to the file.
LEMMA PagesContents ==
  ASSUME Inv, Contents, WritePagelist \/ WriteSpilled
  PROVE  Contents' /\ SameContent
<1> USE DEF Writing, Modified, pagerVars, keyVars, Start
<1> DEFINE pages == IF call = "commit" THEN dirty ELSE {spilled}
<1>1. /\ WriteFile(pages, Encrypted) /\ dirty' = dirty \ pages /\ pages \subseteq dirty
      /\ UNCHANGED <<jrnl, jrnlMaybe, eState, errCode, journalHdr, readKey, writeKey, rekeying>>
      /\ eState = "WRITER_DBMOD" /\ call \in {"commit", "spill"}
      /\ \A p \in Pages : cache'[p] = IF call = "spill" /\ p \in pages THEN NoPage ELSE cache[p]
      /\ call = "commit" => step' = "db" /\ call' = call
      /\ call = "spill" => step' = "start" /\ call' = "none"
  <2>1. CASE WritePagelist
    BY <2>1 DEF WritePagelist, Inv, Base, ControlInv
  <2>2. CASE WriteSpilled
    BY <2>2 DEF WriteSpilled, Inv, Base, TypeOK, ControlInv
  <2> QED BY <2>1, <2>2
<1>2. pages \subseteq SyncedPages /\ dirty \subseteq Journaled(jrnl) /\ dirty \subseteq Pages
  BY DEF WritePagelist, WriteSpilled, Inv, Base, TypeOK, ControlInv, GrowthInv
<1> HIDE DEF pages
<1>3. \A p \in pages : \A j \in jrnlMaybe : p \in HotPages(j)
  BY <1>1, <1>2 DEF Inv, JournalInv
<1>4. /\ SameContent
      /\ \A j \in jrnlMaybe : \A f : TakesBackTo(db, j, f) => TakesBackTo(db', j, f)
  BY <1>1, <1>3, JournalTypes, WrittenContent DEF Contents
<1>5. /\ content' = content /\ Keeps(db', jrnl', jrnlMaybe', content', older')
  BY <1>4 DEF SameContent
<1>6. /\ readKey = content[1].key /\ readKey # NoKey /\ ~ errCode
      /\ ~ rekeying => writeKey = readKey
  BY <1>1, TransactionKey DEF InTransaction
<1>7. \A p \in Pages : db'[p] = IF p \in pages THEN [key |-> writeKey, val |-> cache[p]]
                                ELSE db[p]
  BY <1>1 DEF WriteFile, Encrypted
<1>8. \A p \in pages : /\ p \in Pages /\ cache[p] \in Versions
                       /\ [key |-> writeKey, val |-> cache[p]] \in Image
  <2>1. writeKey \in Keys
    BY <1>1, Connected DEF Inv
  <2> QED BY <1>1, <1>2, <2>1 DEF Inv, Base, PageInv, Image
<1>9. Journaled(jrnl)' = Journaled(jrnl) /\ SyncedPages' = SyncedPages
  BY <1>1 DEF Journaled, SyncedPages
<1>10. FileInv'
  BY <1>1, <1>5 DEF FileInv
<1>11. KeyInv'
  BY <1>1, <1>5, <1>9 DEF Contents, KeyInv, InTransaction
<1>12. OriginalsInv'
  <2>1. /\ \A r \in RecordsOf(jrnl', Len(jrnl')) : r.image = content'[r.page]
        /\ \A j \in jrnlMaybe' : TakesBackTo(db', j, content')
    BY <1>1, <1>4, <1>5 DEF Contents, OriginalsInv
  <2>2. \A p \in Pages \ SyncedPages' : db'[p] = content'[p]
    BY <1>1, <1>2, <1>5, <1>7, <1>9 DEF Contents, OriginalsInv
  <2> QED BY <1>1, <2>1, <2>2 DEF OriginalsInv
<1>13. WrittenInv'
  <2>1. ASSUME NEW p \in Pages
        PROVE  /\ db'[p] \in Image
               /\ ~ rekeying => db'[p].key = readKey
               /\ rekeying /\ p \notin dirty' =>
                    db'[p].key = IF p \in Journaled(jrnl) THEN writeKey ELSE readKey
    <3>1. CASE p \in pages
      <4>1. db'[p] = [key |-> writeKey, val |-> cache[p]] /\ db'[p] \in Image
        BY <1>7, <1>8, <3>1
      <4>2. db'[p].key = writeKey
        BY <4>1
      <4>3. p \in Journaled(jrnl)
        BY <1>1, <1>2, <3>1
      <4> QED BY <1>6, <4>1, <4>2, <4>3
    <3>2. CASE p \notin pages
      BY <1>1, <1>7, <3>2 DEF Contents, WrittenInv
    <3> QED BY <3>1, <3>2
  <2>2. call' = "commit" => dirty' = {}
    BY <1>1 DEF pages
  <2> QED BY <1>1, <1>9, <2>1, <2>2 DEF WrittenInv
<1>14. CacheInv'
  <2>1. /\ Journaled(JournalOpened) = Journaled(jrnl)
        /\ Journaled(JournalOpened)' = Journaled(jrnl)
    BY <1>1, <1>9, OpenedPages DEF Journaled
  <2>2. ASSUME NEW p \in Pages, p \notin dirty' \cap Journaled(jrnl), cache'[p] \in Versions
        PROVE  db'[p] = [key |-> IF rekeying /\ p \in Journaled(jrnl) THEN writeKey ELSE readKey,
                         val |-> cache'[p]]
    <3>1. cache'[p] = cache[p]
      BY <1>1, <2>2, PagerAssumption
    <3>2. CASE p \in pages
      BY <1>1, <1>2, <1>6, <1>7, <3>1, <3>2
    <3>3. CASE p \notin pages
      <4>1. p \notin dirty \cap Journaled(jrnl)
        BY <1>1, <2>2, <3>3
      <4> QED BY <1>1, <1>7, <2>1, <2>2, <3>1, <3>3, <4>1 DEF Contents, CacheInv, KeyOf
    <3> QED BY <3>2, <3>3
  <2> QED BY <1>1, <1>6, <2>1, <2>2 DEF CacheInv, KeyOf
<1> QED BY <1>4, <1>10, <1>11, <1>12, <1>13, <1>14 DEF Contents

\* What a playback puts back are pages as they were; in a rollback nothing else
\* differs from them.
LEMMA PlayedBackFile ==
  ASSUME Inv, Contents, call \in {"rollback", "recover"}, step = "pages"
  PROVE  /\ \A p \in PagesForFile \cap Pages : Restore(db, RecordsForFile)[p] = content[p]
         /\ \A p \in Pages \ PagesForFile : db[p] = content[p]
         /\ call = "rollback" =>
              /\ eState \in Modified
              /\ \A p \in Pages \cap Journaled(jrnl) :
                   Restore(db, RecordsOf(jrnl, Len(jrnl)))[p] = content[p]
<1> USE DEF Writing, Modified
<1>1. CASE call = "recover"
  <2>1. RecordsForFile = HotRecords(jrnl) /\ PagesForFile = HotPages(jrnl)
    BY <1>1 DEF RecordsForFile, PagesForFile, HotPages
  <2>2. TakesBackTo(db, jrnl, content) /\ content = Recovered(db, jrnl)
    BY DEF Contents, FileInv, Keeps, content
  <2>3. Restore(db, RecordsForFile) = content
    BY <2>1, <2>2 DEF Recovered
  <2> QED BY <1>1, <2>1, <2>2, <2>3 DEF TakesBackTo
<1>2. CASE call = "rollback"
  <2>1. eState \in Modified
    BY <1>2 DEF Inv, Base, ControlInv
  <2> DEFINE all == RecordsOf(jrnl, Len(jrnl))
             synced == RecordsOf(jrnl, journalHdr)
  <2>2. \A r \in all : r.image = content[r.page]
    BY <2>1 DEF Contents, OriginalsInv
  <2>3. synced \subseteq all
    <3>1. journalHdr <= Len(jrnl) /\ journalHdr \in Nat /\ Len(jrnl) \in Nat
      BY <2>1, JournalTypes, LenProperties DEF Inv, Base, PageInv, Journal
    <3> QED BY <3>1 DEF RecordsOf
  <2>4. RecordsForFile \subseteq all
    BY <1>2, <2>3 DEF RecordsForFile
  <2>5. \A p \in Pages \ PagesForFile : db[p] = content[p]
    <3>1. CASE eState = "WRITER_DBMOD"
      <4>1. PagesForFile = SyncedPages
        BY <1>2, <3>1 DEF PagesForFile, RecordsForFile, SyncedPages
      <4> QED BY <2>1, <4>1 DEF Contents, OriginalsInv
    <3>2. CASE eState = "WRITER_CACHEMOD"
      <4>1. journalHdr = 0
        BY <3>2 DEF Inv, Base, PageInv
      <4>2. SyncedPages = {}
        BY <4>1 DEF SyncedPages, RecordsOf
      <4> QED BY <2>1, <4>2 DEF Contents, OriginalsInv
    <3> QED BY <2>1, <3>1, <3>2
  <2> HIDE DEF all, synced
  <2>6. \A p \in PagesForFile \cap Pages : Restore(db, RecordsForFile)[p] = content[p]
    <3> SUFFICES ASSUME NEW p \in PagesForFile \cap Pages
                 PROVE  Restore(db, RecordsForFile)[p] = content[p]
      OBVIOUS
    <3>1. \/ \E r \in RecordsForFile : r.page = p /\ Restore(db, RecordsForFile)[p] = r.image
          \/ ~ \E r \in RecordsForFile : r.page = p
      BY RestoredPage
    <3>2. \E r \in RecordsForFile : r.page = p
      BY DEF PagesForFile
    <3> QED BY <2>2, <2>4, <3>1, <3>2
  <2>7. \A p \in Pages \cap Journaled(jrnl) : Restore(db, all)[p] = content[p]
    <3> SUFFICES ASSUME NEW p \in Pages \cap Journaled(jrnl)
                 PROVE  Restore(db, all)[p] = content[p]
      OBVIOUS
    <3>1. \/ \E r \in all : r.page = p /\ Restore(db, all)[p] = r.image
          \/ ~ \E r \in all : r.page = p
      BY RestoredPage
    <3>2. \E r \in all : r.page = p
      BY DEF Journaled, all
    <3> QED BY <2>2, <3>1, <3>2
  <2> QED BY <1>2, <2>1, <2>5, <2>6, <2>7 DEF all
<1> QED BY <1>1, <1>2

\* The records go back to the file and to the cache.
LEMMA PlaybackContents ==
  ASSUME Inv, Contents, Playback
  PROVE  Contents' /\ SameContent
<1> USE DEF Writing, Modified, keyVars
<1> DEFINE restored == {p \in Journaled(jrnl) : cache[p] # NoPage}
           file == Restore(db, RecordsOf(jrnl, Len(jrnl)))
<1>1. /\ WriteFile(PagesForFile, Restore(db, RecordsForFile))
      /\ call \in {"rollback", "recover"} /\ step = "pages"
      /\ step' \in {"db", "finalize"}
      /\ UNCHANGED <<jrnl, jrnlMaybe, eState, journalHdr, call, readKey, writeKey, rekeying>>
      /\ \A p \in Pages : cache'[p] = IF p \in restored THEN Decrypt(file[p]) ELSE cache[p]
      /\ errCode' = (errCode \/ \E p \in restored : Unreadable(file[p]))
      /\ dirty' = dirty \ restored
  BY DEF Playback
<1>2. /\ \A p \in PagesForFile \cap Pages : Restore(db, RecordsForFile)[p] = content[p]
      /\ \A p \in Pages \ PagesForFile : db[p] = content[p]
      /\ call = "rollback" =>
           /\ eState \in Modified
           /\ \A p \in Pages \cap Journaled(jrnl) : file[p] = content[p]
  BY <1>1, PlayedBackFile
<1> HIDE DEF file
<1>3. \A p \in PagesForFile : \A j \in jrnlMaybe : p \in HotPages(j)
  BY <1>1, PlaybackProtected
<1>4. /\ SameContent
      /\ \A j \in jrnlMaybe : \A f : TakesBackTo(db, j, f) => TakesBackTo(db', j, f)
  BY <1>1, <1>3, JournalTypes, WrittenContent DEF Contents
<1>5. content' = content /\ Keeps(db', jrnl', jrnlMaybe', content', older')
  BY <1>4 DEF SameContent
<1>6. db' = content
  <2>1. \A p \in Pages : db'[p] = content[p]
    BY <1>1, <1>2 DEF WriteFile
  <2>2. db' = [p \in Pages |-> db'[p]]
    BY <1>1 DEF WriteFile
  <2>3. content = [p \in Pages |-> content[p]]
    BY OneKeyFile DEF Contents, FileInv, Keeps
  <2> QED BY <2>1, <2>2, <2>3
<1>7. Journaled(jrnl) \subseteq Pages
  <2>1. jrnl \in Journal /\ Len(jrnl) \in 0 .. Len(jrnl)
    BY JournalTypes, LenProperties DEF Journal
  <2>2. RecordsOf(jrnl, Len(jrnl)) \subseteq Record
    BY <2>1, RecordsType
  <2> QED BY <2>2 DEF Journaled, Record
<1>8. Journaled(jrnl)' = Journaled(jrnl) /\ SyncedPages' = SyncedPages
  BY <1>1 DEF Journaled, SyncedPages
<1>9. call = "recover" =>
        /\ restored = {} /\ eState = "OPEN" /\ dirty = {}
        /\ \A p \in Pages : cache[p] = NoPage
  <2> SUFFICES ASSUME call = "recover"
               PROVE  /\ restored = {} /\ eState = "OPEN" /\ dirty = {}
                      /\ \A p \in Pages : cache[p] = NoPage
    OBVIOUS
  <2>1. \A p \in Pages : cache[p] = NoPage
    BY <1>1 DEF Contents, CacheInv
  <2> QED BY <1>7, <2>1 DEF Inv, Base, ControlInv, JournalInv
<1>10. call = "rollback" =>
         /\ ~ rekeying /\ ~ errCode /\ readKey = content[1].key /\ readKey # NoKey
         /\ \A p \in restored : /\ Decrypt(file[p]) \in Versions
                                /\ content[p] = [key |-> readKey, val |-> Decrypt(file[p])]
                                /\ ~ Unreadable(file[p])
  <2> SUFFICES ASSUME call = "rollback"
               PROVE  /\ ~ rekeying /\ ~ errCode /\ readKey = content[1].key /\ readKey # NoKey
                      /\ \A p \in restored :
                           /\ Decrypt(file[p]) \in Versions
                           /\ content[p] = [key |-> readKey, val |-> Decrypt(file[p])]
                           /\ ~ Unreadable(file[p])
    OBVIOUS
  <2>1. ~ rekeying /\ ~ errCode /\ readKey = content[1].key /\ readKey # NoKey
    BY <1>2, TransactionKey DEF InTransaction, Contents, KeyInv
  <2>2. ASSUME NEW p \in restored
        PROVE  /\ Decrypt(file[p]) \in Versions
               /\ content[p] = [key |-> readKey, val |-> Decrypt(file[p])]
               /\ ~ Unreadable(file[p])
    <3>1. p \in Pages /\ file[p] = content[p]
      BY <1>2, <1>7
    <3>2. content[p] \in Image /\ content[p].key = readKey /\ content[p] # Torn
      BY <2>1, <3>1, ContentKey
    <3> QED BY <3>1, <3>2, PagerAssumption DEF Unreadable, Decrypt, Image
  <2> QED BY <2>1, <2>2
<1>11. FileInv'
  BY <1>1, <1>5 DEF FileInv, Contents
<1>12. KeyInv'
  BY <1>1, <1>5, <1>8, <1>9, <1>10 DEF Contents, KeyInv, InTransaction
<1>13. dirty' \cap Journaled(jrnl) = {}
  <2>1. \A p \in dirty : cache[p] # NoPage
    BY PagerAssumption DEF Inv, Base, PageInv
  <2> QED BY <1>1, <2>1
<1>14. OriginalsInv'
  <2>1. eState' \in Modified =>
          /\ \A r \in RecordsOf(jrnl', Len(jrnl')) : r.image = content'[r.page]
          /\ \A p \in Pages \ SyncedPages' : db'[p] = content'[p]
    BY <1>1, <1>5, <1>6 DEF Contents, OriginalsInv
  <2>2. eState' \in {"WRITER_DBMOD", "WRITER_FINISHED"} =>
          \A j \in jrnlMaybe' : TakesBackTo(db', j, content')
    BY <1>1, <1>4, <1>5 DEF Contents, OriginalsInv
  <2>3. db' = content' /\ dirty' \cap Journaled(jrnl)' = {}
    BY <1>5, <1>6, <1>8, <1>13
  <2> QED BY <2>1, <2>2, <2>3 DEF OriginalsInv
<1>15. WrittenInv'
  <2>1. eState' \in Modified \cup {"WRITER_FINISHED"} => call = "rollback"
    BY <1>1, <1>9
  <2> QED BY <1>1, <1>6, <1>10, <2>1, ContentKey DEF WrittenInv
<1>16. CacheInv'
  <2>1. CASE call = "recover"
    BY <1>1, <1>9, <2>1 DEF CacheInv, Contents
  <2>2. CASE call = "rollback"
    <3>1. /\ Journaled(JournalOpened) = Journaled(jrnl)
          /\ Journaled(JournalOpened)' = Journaled(jrnl)
      BY <1>1, <1>2, <1>8, <2>2, OpenedPages DEF Journaled
    <3>2. ASSUME NEW p \in Pages, cache'[p] \in Versions
          PROVE  db'[p] = [key |-> readKey, val |-> cache'[p]]
      <4>1. CASE p \in restored
        <5>1. content[p] = [key |-> readKey, val |-> Decrypt(file[p])]
          BY <1>10, <2>2, <4>1
        <5>2. cache'[p] = Decrypt(file[p])
          BY <1>1, <4>1
        <5> QED BY <1>6, <5>1, <5>2
      <4>2. CASE p \notin restored
        <5>1. cache'[p] = cache[p] /\ cache[p] # NoPage
          BY <1>1, <3>2, <4>2, PagerAssumption
        <5>2. p \notin Journaled(jrnl)
          BY <4>2, <5>1
        <5>3. SyncedPages \subseteq Journaled(jrnl)
          <6>1. journalHdr <= Len(jrnl) /\ journalHdr \in Nat /\ Len(jrnl) \in Nat
            BY <1>2, <2>2, JournalTypes, LenProperties DEF Inv, Base, PageInv, Journal
          <6>2. RecordsOf(jrnl, journalHdr) \subseteq RecordsOf(jrnl, Len(jrnl))
            BY <6>1 DEF RecordsOf
          <6> QED BY <6>2 DEF SyncedPages, Journaled
        <5>4. db[p] = content[p]
          BY <1>2, <2>2, <5>2, <5>3 DEF Contents, OriginalsInv
        <5>5. db[p] = [key |-> readKey, val |-> cache[p]]
          BY <1>2, <1>10, <2>2, <3>1, <3>2, <5>1, <5>2 DEF Contents, CacheInv, KeyOf
        <5> QED BY <1>6, <5>1, <5>4, <5>5
      <4> QED BY <4>1, <4>2
    <3>3. KeyOf(1)' = readKey /\ \A p : KeyOf(p)' = readKey
      BY <1>1, <1>10, <2>2 DEF KeyOf
    <3> QED BY <1>1, <1>10, <2>2, <3>2, <3>3 DEF CacheInv
  <2> QED BY <1>1, <2>1, <2>2
<1> QED BY <1>4, <1>11, <1>12, <1>14, <1>15, <1>16 DEF Contents

\* The hot journal is synced before it is played back.
LEMMA HotContents ==
  ASSUME Inv, Contents, SyncHotJournal
  PROVE  Contents'
<1> USE DEF Writing, Modified, keyVars
<1>1. /\ UNCHANGED <<db, jrnl, eState, errCode, readKey, writeKey, rekeying, call>>
      /\ call = "recover" /\ step' = "pages" /\ eState = "OPEN"
      /\ cache' = [p \in Pages |-> NoPage]
  BY DEF SyncHotJournal, Inv, Base, ControlInv
<1>2. content' = content /\ Keeps(db', jrnl', jrnlMaybe', content', older')
  BY HotJournalContent
<1>3. FileInv' /\ KeyInv'
  BY <1>1, <1>2 DEF Contents, FileInv, KeyInv, InTransaction
<1>4. OriginalsInv' /\ WrittenInv'
  BY <1>1 DEF OriginalsInv, WrittenInv
<1>5. CacheInv'
  BY <1>1 DEF CacheInv
<1> QED BY <1>3, <1>4, <1>5 DEF Contents

\* The file is synced.
LEMMA SyncDbContents ==
  ASSUME Inv, Contents, SyncDb
  PROVE  Contents' /\ SameContent
<1> USE DEF Writing, Modified, keyVars
<1>1. /\ UNCHANGED <<db, jrnl, jrnlMaybe, errCode, cache, dirty, journalHdr, call,
                     readKey, writeKey, rekeying>>
      /\ step = "db" /\ step' = "finalize" /\ call \in {"commit", "rollback", "recover"}
      /\ call = "commit" => eState = "WRITER_DBMOD" /\ eState' = "WRITER_FINISHED"
      /\ call = "rollback" => eState = "WRITER_DBMOD" /\ eState' = eState
      /\ call = "recover" => eState = "OPEN" /\ eState' = eState
  BY DEF SyncDb, Inv, Base, TypeOK, ControlInv, Calls
<1>2. SameContent
  BY <1>1, SameFiles DEF Contents
<1>3. content' = content
  BY <1>2 DEF SameContent
<1>4. Journaled(jrnl)' = Journaled(jrnl) /\ SyncedPages' = SyncedPages
  BY <1>1 DEF Journaled, SyncedPages
<1>5. FileInv'
  BY <1>1, <1>2 DEF FileInv, SameContent
<1>6. KeyInv'
  BY <1>1, <1>3, <1>4 DEF Contents, KeyInv, InTransaction
<1>7. OriginalsInv'
  <2>1. eState' \in Modified =>
          /\ \A r \in RecordsOf(jrnl', Len(jrnl')) : r.image = content'[r.page]
          /\ \A p \in Pages \ SyncedPages' : db'[p] = content'[p]
    BY <1>1, <1>3, <1>4 DEF Contents, OriginalsInv
  <2>2. eState' \in {"WRITER_DBMOD", "WRITER_FINISHED"} =>
          \A j \in jrnlMaybe' : TakesBackTo(db', j, content')
    BY <1>1, <1>3 DEF Contents, OriginalsInv
  <2>3. call' \in {"rollback", "recover"} => db' = content' /\ dirty' \cap Journaled(jrnl)' = {}
    BY <1>1, <1>3, <1>4 DEF Contents, OriginalsInv
  <2> QED BY <2>1, <2>2, <2>3 DEF OriginalsInv
<1>8. WrittenInv'
  BY <1>1, <1>4 DEF Contents, WrittenInv
<1>9. CacheInv'
  BY <1>1, <1>4, OpenedPages DEF Contents, CacheInv, KeyOf
<1> QED BY <1>2, <1>5, <1>6, <1>7, <1>8, <1>9 DEF Contents

\* The transaction ends.
LEMMA FinalizeContents ==
  ASSUME Inv, Contents, Finalize
  PROVE  Contents'
<1> USE DEF Writing, Modified, Start
<1>1. /\ jrnl' = NoJournal /\ db' = db /\ step = "finalize" /\ eState' = "READER"
      /\ call' = "none" /\ step' = "start" /\ rekeying' = FALSE /\ dirty' = {}
      /\ UNCHANGED <<errCode, cache, writeKey>>
      /\ readKey' = IF rekeying THEN writeKey ELSE readKey
  BY DEF Finalize
<1>2. /\ content' = db
      /\ Keeps(db', jrnl', jrnlMaybe', content', older')
      /\ eState # "WRITER_FINISHED" => content = db
  BY FinalizedContent
<1>3. ~ Hot(jrnl')
  BY <1>1, JournalTypes
<1>4. FileInv'
  BY <1>2, <1>3 DEF FileInv
<1>5. OriginalsInv' /\ WrittenInv'
  BY <1>1 DEF OriginalsInv, WrittenInv
<1>6. CASE eState = "WRITER_FINISHED"
  <2>1. /\ call = "commit" /\ dirty = {}
        /\ db[1].key = IF rekeying THEN writeKey ELSE readKey
    BY <1>6, CommittedFile
  <2>2. readKey # NoKey /\ ~ errCode /\ (~ rekeying => writeKey = readKey)
    BY <1>6, TransactionKey DEF InTransaction
  <2>3. KeyInv'
    BY <1>1, <1>2, <2>1, <2>2 DEF KeyInv, InTransaction
  <2>4. readKey' # NoKey
    <3>1. writeKey # NoKey
      BY <2>2 DEF Inv, Base, ControlInv
    <3> QED BY <1>1, <2>2, <3>1
  <2>5. rekeying => Journaled(jrnl) = Pages
    BY <2>1 DEF Contents, KeyInv
  <2>6. \A p \in Pages : cache[p] \in Versions => db[p] = [key |-> readKey', val |-> cache[p]]
    BY <1>1, <1>6, <2>1, <2>5, OpenedPages DEF Contents, CacheInv, KeyOf
  <2>7. CacheInv'
    BY <1>1, <2>4, <2>6 DEF CacheInv, KeyOf
  <2> QED BY <1>4, <1>5, <2>3, <2>7 DEF Contents
<1>7. CASE eState # "WRITER_FINISHED"
  <2>1. call \in {"rollback", "recover"} /\ ~ rekeying /\ readKey' = readKey
    BY <1>1, <1>7 DEF Inv, Base, TypeOK, ControlInv, Calls, Contents, KeyInv
  <2>2. content' = content /\ ~ errCode
    BY <1>2, <1>7, <2>1 DEF Inv, Base, ControlInv, Contents, KeyInv
  <2>3. KeyInv'
    BY <1>1, <2>1, <2>2 DEF Contents, KeyInv, InTransaction
  <2>4. dirty \cap Journaled(jrnl) = {}
    BY <1>1, <2>1 DEF Contents, OriginalsInv
  <2>5. CacheInv'
    <3>1. CASE call = "recover"
      <4>1. \A p \in Pages : cache[p] = NoPage
        BY <1>1, <3>1 DEF Contents, CacheInv
      <4> QED BY <1>1, <4>1, PagerAssumption DEF CacheInv
    <3>2. CASE call = "rollback"
      <4>1. eState \in Modified
        BY <1>1, <3>2 DEF Inv, Base, ControlInv
      <4>2. \A p \in Pages : cache[p] \in Versions => db[p] = [key |-> readKey, val |-> cache[p]]
        BY <2>1, <2>4, <3>2, <4>1, OpenedPages DEF Contents, CacheInv, KeyOf
      <4>3. readKey # NoKey
        BY <3>2 DEF Inv, Base, ControlInv
      <4> QED BY <1>1, <2>1, <4>2, <4>3 DEF CacheInv, KeyOf
    <3> QED BY <2>1, <3>1, <3>2
  <2> QED BY <1>4, <1>5, <2>3, <2>5 DEF Contents
<1> QED BY <1>6, <1>7

-----------------------------------------------------------------------------
(***************************************************************************)
(* Last by the calls that fail, outside a rekey, and by a crash.           *)
(***************************************************************************)

\* The journal or a record cannot be written.
LEMMA WriteFailsContents ==
  ASSUME Inv, Contents, ~ RekeyFaults, NEW p \in Pages, WriteFails(p)
  PROVE  Contents' /\ SameContent
<1> USE DEF Writing, Modified, keyVars, Start, Idle
<1>1. /\ UNCHANGED <<db, errCode, cache, journalHdr, readKey, writeKey>>
      /\ call = "none" /\ step = "start" /\ call' = "rollback" /\ step' = "start"
      /\ rekeying = FALSE /\ rekeying' = FALSE /\ eState \in Writing
      /\ p \notin Journaled(JournalOpened)
  BY DEF WriteFails, Fault, MayWrite, Inv, Base, TypeOK, ControlInv
<1>2. CASE eState = "WRITER_LOCKED" /\ UNCHANGED <<jrnl, jrnlMaybe, eState, dirty>>
  <2>1. content' = content /\ FileInv' /\ OriginalsInv' /\ WrittenInv'
    BY <1>1, <1>2, UntouchedFiles DEF Unwritten
  <2>2. KeyInv'
    BY <1>1, <1>2, <2>1 DEF Contents, KeyInv, InTransaction
  <2>3. CacheInv'
    BY <1>1, <1>2, OpenedPages DEF Contents, CacheInv, KeyOf
  <2>4. SameContent
    BY <1>1, <1>2, SameFiles DEF Contents
  <2> QED BY <2>1, <2>2, <2>3, <2>4 DEF Contents
<1>3. CASE /\ jrnl' = JournalOpened
           /\ jrnlMaybe' = MaybeOpened
           /\ eState' = IF eState = "WRITER_LOCKED" THEN "WRITER_CACHEMOD" ELSE eState
           /\ dirty' = dirty \cup {p}
  <2>1. /\ Keeps(db, JournalOpened, MaybeOpened, content, older)
        /\ older # content => \A i \in jrnlMaybe : TakesBackTo(db, i, older) => i \in MaybeOpened
        /\ \A r \in RecordsOf(JournalOpened, Len(JournalOpened)) : r.image = content[r.page]
        /\ \A q \in Pages \ Journaled(JournalOpened) : db[q] = content[q]
        /\ eState = "WRITER_DBMOD" => \A j \in MaybeOpened : TakesBackTo(db, j, content)
    BY <1>1, OpenedContent DEF Contents
  <2>2. SameContent
    BY <1>1, <1>3, <2>1, StillOlder DEF Contents
  <2>3. content' = content /\ Keeps(db', jrnl', jrnlMaybe', content', older')
    BY <2>2 DEF SameContent
  <2>4. /\ readKey = content[1].key /\ readKey # NoKey /\ ~ errCode /\ writeKey = readKey
    BY <1>1, TransactionKey DEF InTransaction
  <2>5. eState = "WRITER_LOCKED" => db = content /\ SyncedPages' = {}
    <3>1. ASSUME eState = "WRITER_LOCKED" PROVE SyncedPages' = {}
      <4>1. journalHdr' = 0
        BY <1>1, <3>1 DEF Inv, Base, PageInv
      <4> QED BY <4>1 DEF SyncedPages, RecordsOf
    <3> QED BY <3>1, LockedFile DEF Contents
  <2>6. eState # "WRITER_LOCKED" => jrnl' = jrnl /\ SyncedPages' = SyncedPages
    BY <1>1, <1>3 DEF SyncedPages, JournalOpened
  <2>7. /\ Journaled(JournalOpened)' = Journaled(JournalOpened)
        /\ Journaled(jrnl)' = Journaled(JournalOpened)
    BY <1>3, OpenedPages DEF Journaled
  <2>8. FileInv'
    BY <1>1, <1>3, <2>3 DEF FileInv
  <2>9. KeyInv'
    BY <1>1, <1>3, <2>3 DEF Contents, KeyInv, InTransaction
  <2>10. OriginalsInv'
    <3>1. \A r \in RecordsOf(jrnl', Len(jrnl')) : r.image = content'[r.page]
      BY <1>3, <2>1, <2>3
    <3>2. \A q \in Pages \ SyncedPages' : db'[q] = content'[q]
      BY <1>1, <2>3, <2>5, <2>6 DEF Contents, OriginalsInv
    <3>3. eState' \in {"WRITER_DBMOD", "WRITER_FINISHED"} =>
            \A j \in jrnlMaybe' : TakesBackTo(db', j, content')
      BY <1>1, <1>3, <2>1, <2>3
    <3> QED BY <1>1, <3>1, <3>2, <3>3 DEF OriginalsInv
  <2>11. WrittenInv'
    BY <1>1, <2>4, <2>5, ContentKey DEF Contents, WrittenInv
  <2>12. CacheInv'
    BY <1>1, <1>3, <2>4, <2>7 DEF Contents, CacheInv, KeyOf
  <2> QED BY <2>2, <2>8, <2>9, <2>10, <2>11, <2>12 DEF Contents
<1> QED BY <1>2, <1>3 DEF WriteFails

\* Some of the dirty pages may have been written.
LEMMA CommitFailsContents ==
  ASSUME Inv, Contents, ~ RekeyFaults, CommitFails
  PROVE  Contents' /\ SameContent
<1> USE DEF Writing, Modified, pagerVars, Start
<1>1. /\ UNCHANGED <<jrnl, jrnlMaybe, eState, errCode, cache, dirty, journalHdr,
                     readKey, writeKey>>
      /\ call = "commit" /\ call' = "rollback" /\ step' = "start" /\ eState \in Modified
      /\ rekeying = FALSE /\ rekeying' = FALSE
  BY DEF CommitFails, Fault, Inv, Base, TypeOK, ControlInv
<1>2. PICK pages \in SUBSET (IF step = "pages" THEN dirty ELSE {}) : WriteFile(pages, Encrypted)
  BY DEF CommitFails
<1>3. /\ pages \subseteq dirty /\ pages \subseteq SyncedPages
      /\ pages # {} => eState = "WRITER_DBMOD"
      /\ dirty \subseteq Journaled(jrnl)
  BY <1>1, <1>2 DEF Inv, Base, ControlInv, GrowthInv
<1>4. \A p \in pages : \A j \in jrnlMaybe : p \in HotPages(j)
  BY <1>3 DEF Inv, JournalInv
<1>5. /\ SameContent
      /\ \A j \in jrnlMaybe : \A f : TakesBackTo(db, j, f) => TakesBackTo(db', j, f)
  BY <1>1, <1>2, <1>4, JournalTypes, WrittenContent DEF Contents
<1>6. content' = content /\ Keeps(db', jrnl', jrnlMaybe', content', older')
  BY <1>5 DEF SameContent
<1>7. readKey = content[1].key /\ readKey # NoKey /\ ~ errCode /\ writeKey = readKey
  BY <1>1, TransactionKey DEF InTransaction
<1>8. \A p \in Pages : db'[p] = IF p \in pages THEN [key |-> readKey, val |-> cache[p]]
                                ELSE db[p]
  BY <1>2, <1>7 DEF WriteFile, Encrypted
<1>9. \A p \in pages : [key |-> readKey, val |-> cache[p]] \in Image
  BY <1>3, <1>7, ContentKey DEF Inv, Base, PageInv, Image
<1>10. Journaled(jrnl)' = Journaled(jrnl) /\ SyncedPages' = SyncedPages
  BY <1>1 DEF Journaled, SyncedPages
<1>11. FileInv'
  BY <1>1, <1>6 DEF FileInv
<1>12. KeyInv'
  BY <1>1, <1>6 DEF Contents, KeyInv, InTransaction
<1>13. OriginalsInv'
  <2>1. \A r \in RecordsOf(jrnl', Len(jrnl')) : r.image = content'[r.page]
    BY <1>1, <1>6 DEF Contents, OriginalsInv
  <2>2. \A p \in Pages \ SyncedPages' : db'[p] = content'[p]
    BY <1>1, <1>3, <1>6, <1>8, <1>10 DEF Contents, OriginalsInv
  <2>3. eState' \in {"WRITER_DBMOD", "WRITER_FINISHED"} =>
          \A j \in jrnlMaybe' : TakesBackTo(db', j, content')
    BY <1>1, <1>5, <1>6 DEF Contents, OriginalsInv
  <2> QED BY <1>1, <2>1, <2>2, <2>3 DEF OriginalsInv
<1>14. WrittenInv'
  <2>1. \A p \in Pages : db'[p] \in Image /\ db'[p].key = readKey
    <3> SUFFICES ASSUME NEW p \in Pages PROVE db'[p] \in Image /\ db'[p].key = readKey
      OBVIOUS
    <3>1. CASE p \in pages
      <4>1. db'[p] = [key |-> readKey, val |-> cache[p]] /\ db'[p] \in Image
        BY <1>8, <1>9, <3>1
      <4>2. db'[p].key = readKey
        BY <4>1
      <4> QED BY <4>1, <4>2
    <3>2. CASE p \notin pages
      BY <1>1, <1>8, <3>2 DEF Contents, WrittenInv
    <3> QED BY <3>1, <3>2
  <2> QED BY <1>1, <2>1 DEF WrittenInv
<1>15. CacheInv'
  <2>1. /\ Journaled(JournalOpened) = Journaled(jrnl)
        /\ Journaled(JournalOpened)' = Journaled(jrnl)
    BY <1>1, <1>10, OpenedPages DEF Journaled
  <2>2. \A p \in Pages \ (dirty \cap Journaled(jrnl)) : db'[p] = db[p]
    BY <1>3, <1>8
  <2> QED BY <1>1, <1>7, <2>1, <2>2 DEF Contents, CacheInv, KeyOf
<1> QED BY <1>5, <1>11, <1>12, <1>13, <1>14, <1>15 DEF Contents

\* The pager keeps the error, and trusts nothing but the files.
LEMMA PagerErrorContents ==
  ASSUME Inv, Contents, ~ RekeyFaults, FinalizeFails \/ SpillFails
  PROVE  Contents'
<1> USE DEF Writing, Modified, keyVars, fileVars, Start, PagerError
<1>1. /\ UNCHANGED <<db, jrnl, jrnlMaybe, cache, readKey, writeKey>>
      /\ call \in {"commit", "spill"} /\ call' = "none" /\ step' = "start"
      /\ rekeying = FALSE /\ rekeying' = FALSE
      /\ eState' = "ERROR" /\ errCode' = TRUE /\ readKey # NoKey
  BY DEF FinalizeFails, SpillFails, Fault, Inv, Base, TypeOK, ControlInv
<1>2. content' = content /\ FileInv' /\ OriginalsInv' /\ WrittenInv'
  BY <1>1, UntouchedFiles DEF Unwritten
<1>3. KeyInv'
  BY <1>1, <1>2 DEF Contents, KeyInv, InTransaction
<1>4. CacheInv'
  BY <1>1 DEF CacheInv
<1> QED BY <1>2, <1>3, <1>4 DEF Contents

\* Some of the records may have been put back.
LEMMA PlaybackFailsContents ==
  ASSUME Inv, Contents, RollbackFails \/ RecoveryFails
  PROVE  Contents' /\ SameContent
<1> USE DEF Writing, Modified, keyVars, Start, PagerError
<1>1. /\ UNCHANGED <<jrnl, jrnlMaybe, readKey, writeKey, rekeying>>
      /\ call \in {"rollback", "recover"} /\ call' = "none" /\ step' = "start"
      /\ readKey # NoKey
      /\ \/ eState' = "ERROR"
         \/ /\ eState = "OPEN" /\ eState' = "OPEN" /\ errCode' = FALSE
            /\ cache' = [p \in Pages |-> NoPage]
  BY DEF RollbackFails, RecoveryFails, Inv, Base, ControlInv
<1>2. PICK pages \in SUBSET (IF step = "pages" THEN PagesForFile ELSE {}) :
        WriteFile(pages, Restore(db, RecordsForFile))
  BY DEF RollbackFails, RecoveryFails
<1>3. \A p \in pages : \A j \in jrnlMaybe : p \in HotPages(j)
  BY <1>1, <1>2, PlaybackProtected
<1>4. SameContent
  BY <1>1, <1>2, <1>3, JournalTypes, WrittenContent DEF Contents
<1>5. content' = content /\ Keeps(db', jrnl', jrnlMaybe', content', older')
  BY <1>4 DEF SameContent
<1>6. FileInv' /\ OriginalsInv' /\ WrittenInv'
  BY <1>1, <1>5 DEF FileInv, OriginalsInv, WrittenInv
<1>7. KeyInv'
  BY <1>1, <1>5 DEF Contents, KeyInv, InTransaction
<1>8. CacheInv'
  BY <1>1, PagerAssumption DEF CacheInv
<1> QED BY <1>4, <1>6, <1>7, <1>8 DEF Contents

\* Nothing is open any more.
LEMMA CrashContents ==
  ASSUME Inv, Contents, Crash
  PROVE  Contents'
<1> USE DEF Writing, Modified
<1>1. /\ eState' = "OPEN" /\ call' = "none" /\ step' = "start" /\ errCode' = FALSE
      /\ rekeying' = FALSE /\ readKey' = NoKey /\ cache' = [p \in Pages |-> NoPage]
  BY DEF Crash, Disconnected
<1>2. Keeps(db', jrnl', jrnlMaybe', content', older')
  BY CrashedContent
<1>3. content'[1].key # NoKey
  BY <1>2, OneKeyFile DEF Keeps
<1>4. FileInv' /\ KeyInv' /\ OriginalsInv' /\ WrittenInv'
  BY <1>1, <1>2, <1>3 DEF FileInv, KeyInv, InTransaction, OriginalsInv, WrittenInv
<1>5. CacheInv'
  BY <1>1, PagerAssumption DEF CacheInv
<1> QED BY <1>4, <1>5 DEF Contents

\* A new file has one key and no journal.
LEMMA InitContents == Init => Contents
<1> SUFFICES ASSUME Init PROVE Contents
  OBVIOUS
<1>1. PICK k \in Keys : db = [p \in Pages |-> [key |-> k, val |-> 0]]
  BY DEF Init
<1>2. OneKey(db)
  <2>1. 1 \in Pages /\ [key |-> k, val |-> 0] \in Image
    BY PagerAssumption DEF Pages, Image, Versions
  <2> QED BY <1>1, <2>1 DEF OneKey
<1>3. ~ Hot(NoJournal) /\ db \in [Pages -> Stored]
  BY InitInv, JournalTypes
<1>4. TakesBackTo(db, NoJournal, db)
  BY <1>2, <1>3, NewSegmentType, ColdFile
<1>5. Keeps(db, jrnl, jrnlMaybe, db, db)
  BY <1>2, <1>4 DEF Init, Keeps
<1>6. content = db /\ older = db
  <2>1. older = OlderOf(db, jrnl, jrnlMaybe) /\ content = Recovered(db, jrnl)
    BY DEF older, content, OlderOf
  <2> QED BY <1>5, <2>1, KeptFiles
<1>7. FileInv
  BY <1>3, <1>5, <1>6 DEF Init, FileInv
<1>8. content[1].key # NoKey
  BY <1>2, <1>6, OneKeyFile
<1>9. KeyInv /\ OriginalsInv /\ WrittenInv
  BY <1>8 DEF Init, KeyInv, InTransaction, OriginalsInv, WrittenInv, Writing, Modified
<1>10. CacheInv
  BY PagerAssumption DEF Init, CacheInv
<1> QED BY <1>7, <1>9, <1>10 DEF Contents

\* Every step keeps the invariant.
LEMMA StepContents ==
  ASSUME ~ RekeyFaults, Inv, Inv', Contents, [Next]_vars
  PROVE  Contents'
<1>1. CASE Next
  <2>1. Base'
    BY DEF Inv
  <2> QED
    BY <1>1, <2>1, ConnectionContents, LogicalContents, WritingContents, SyncContents,
       PagesContents, PlaybackContents, HotContents, SyncDbContents, FinalizeContents,
       WriteFailsContents, CommitFailsContents, PagerErrorContents,
       PlaybackFailsContents, CrashContents
       DEF Next
<1>2. CASE UNCHANGED vars
  <2>1. /\ UNCHANGED <<db, jrnl, jrnlMaybe, eState, errCode, cache, dirty, journalHdr,
                       readKey, writeKey, call, step, rekeying>>
    BY <1>2 DEF vars, fileVars, pagerVars, keyVars, callVars
  <2>2. SameContent
    BY <2>1, SameFiles DEF Contents
  <2>3. content' = content
    BY <2>2 DEF SameContent
  <2>4. Journaled(jrnl)' = Journaled(jrnl) /\ SyncedPages' = SyncedPages
    BY <2>1 DEF Journaled, SyncedPages
  <2>5. FileInv' /\ KeyInv'
    BY <2>1, <2>2, <2>3, <2>4
       DEF SameContent, Contents, FileInv, KeyInv, InTransaction
  <2>6. OriginalsInv'
    BY <2>1, <2>3, <2>4 DEF Contents, OriginalsInv
  <2>7. WrittenInv' /\ CacheInv'
    BY <2>1, <2>4, OpenedPages DEF Contents, WrittenInv, CacheInv, KeyOf
  <2> QED BY <2>5, <2>6, <2>7 DEF Contents
<1> QED BY <1>1, <1>2

\* The invariants of both modules.
LEMMA FileInvariant ==
  ASSUME ~ RekeyFaults
  PROVE  Spec => [](Inv /\ Contents)
<1>1. Init => Inv /\ Contents
  BY InitInv, InitContents
<1>2. Inv /\ Contents /\ [Next]_vars => (Inv /\ Contents)'
  BY StepInv, StepContents
<1> QED BY <1>1, <1>2, PTL DEF Spec

-----------------------------------------------------------------------------
(***************************************************************************)
(* What a crash leaves, and what the cache shows.                          *)
(***************************************************************************)

\* Whenever the process dies outside a rekey that fails, a finished rekey
\* included, what the files and the recovery may turn out to hold decrypts with
\* one key (sqlite3_rekey_v2: every page is encrypted again in one transaction).
THEOREM CrashLeavesOneKey ==
  ASSUME ~ RekeyFaults
  PROVE  Spec => []OneKeyAfterCrash
<1>1. Inv /\ Contents => OneKeyAfterCrash
  <2> SUFFICES ASSUME Inv, Contents, NEW j \in jrnlMaybe
               PROVE  \E k \in Keys : \A p \in Pages :
                        AfterCrash(j)[p] \subseteq [key : {k}, val : Versions]
    BY DEF OneKeyAfterCrash
  <2>1. PICK f : OneKey(f) /\ TakesBackTo(db, j, f)
    BY DEF Contents, FileInv, Keeps
  <2>2. f[1].key \in Keys
    BY <2>1, OneKeyFile
  <2>3. ASSUME NEW p \in Pages
        PROVE  AfterCrash(j)[p] \subseteq [key : {f[1].key}, val : Versions]
    <3>1. f[p] \in [key : {f[1].key}, val : Versions]
      BY <2>1, OneKeyFile DEF Image
    <3>2. ASSUME NEW c \in dbMaybe[p]
          PROVE  Restore([q \in Pages |-> c], HotRecords(j))[p] = f[p]
      <4>1. CASE \E r \in HotRecords(j) : r.page = p
        BY <2>1, <4>1, RestoredPage DEF TakesBackTo
      <4>2. CASE p \notin HotPages(j)
        <5>1. dbMaybe[p] = {db[p]}
          BY <4>2 DEF Inv, WriteAhead
        <5>2. c = f[p]
          BY <2>1, <4>2, <5>1 DEF TakesBackTo
        <5>3. Restore([q \in Pages |-> c], HotRecords(j))[p] = [q \in Pages |-> c][p]
          BY <4>2, RestoredPage DEF HotPages
        <5> QED BY <5>2, <5>3
      <4> QED BY <4>1, <4>2 DEF HotPages
    <3> QED BY <3>1, <3>2 DEF AfterCrash
  <2> QED BY <2>2, <2>3
<1> QED BY <1>1, FileInvariant, PTL

\* The cache never shows what is not in the file: a page that was written and
\* rolled back is decrypted again, and after an error nothing cached is used
\* (pager_playback_one_page, pager_unlock).
THEOREM CacheShowsFile ==
  ASSUME ~ RekeyFaults
  PROVE  Spec => []CacheCoherent
<1>1. Contents => CacheCoherent
  BY DEF Contents, CacheInv, CacheCoherent, KeyOf
<1> QED BY <1>1, FileInvariant, PTL

-----------------------------------------------------------------------------
(***************************************************************************)
(* What each kind of step is to a reader of the whole file: a step of      *)
(* AtomicFile, or none.                                                    *)
(***************************************************************************)

\* A page of the transaction in progress.
WorkingPage(p) ==
  IF p \in dirty THEN [key |-> writeKey, val |-> cache[p]] ELSE db[p]

Stutters == UNCHANGED <<content, older, working>>
Settles == content' = content /\ older' = content /\ working' = working
RollsBack == content' = content /\ older' = older /\ working' = content

\* What a transaction sees, page by page, and what everyone else does.
LEMMA WorkingFile ==
  /\ InTransaction => working = [p \in Pages |-> WorkingPage(p)]
  /\ ~ InTransaction => working = content
  /\ InTransaction' => working' = [p \in Pages |-> WorkingPage(p)']
  /\ ~ InTransaction' => working' = content'
<1>1. \A p \in Pages : Encrypted[p] = [key |-> writeKey, val |-> cache[p]]
  BY DEF Encrypted
<1>2. \A p \in Pages : Encrypted'[p] = [key |-> writeKey', val |-> cache'[p]]
  BY DEF Encrypted
<1> QED BY <1>1, <1>2 DEF working, InTransaction, WorkingPage

\* The transaction goes on, and its pages are what they were.
LEMMA SameWorking ==
  ASSUME InTransaction, InTransaction',
         \A p \in Pages : WorkingPage(p)' = WorkingPage(p)
  PROVE  working' = working
BY WorkingFile

\* A transaction that has not written sees the file.
LEMMA LockedWorking ==
  ASSUME Inv, Contents, eState \in {"READER", "WRITER_LOCKED"}
  PROVE  /\ dirty = {} /\ db = [p \in Pages |-> db[p]] /\ db = content
         /\ working = content
<1>1. dirty = {} /\ db = [p \in Pages |-> db[p]] /\ db = content
  BY JournalTypes, LockedFile DEF Inv, JournalInv, Contents
<1>2. \A p \in Pages : WorkingPage(p) = db[p]
  BY <1>1 DEF WorkingPage
<1>3. [p \in Pages |-> WorkingPage(p)] = content
  BY <1>1, <1>2
<1> QED BY <1>1, <1>3, WorkingFile

\* Opening, reading, locking, beginning, and asking: no file is written.
LEMMA LogicalFile ==
  ASSUME Inv, Contents,
         \/ \E k \in Keys : Open(k) \/ Rekey(k) \/ RekeyRefused(k)
         \/ Close \/ SharedLock \/ Unlock
         \/ \E p \in Pages : AcquirePage(p) \/ RecyclePage(p) \/ Spill(p)
         \/ Begin \/ EndUnmodified \/ Commit \/ RequestRollback \/ Rollback
  PROVE  Stutters
<1> USE DEF Idle, Start, fileVars, pagerVars, keyVars, callVars, boundVars,
            InTransaction, Writing, Modified
<1>1. SameContent
  BY SameFiles
     DEF Contents, Open, Rekey, RekeyRefused, MayBegin, Close, Disconnected, SharedLock,
         Unlock, AcquirePage, RecyclePage, Spill, Begin, EndUnmodified, Commit,
         RequestRollback, Rollback
<1>2. content' = content /\ older' = older
  BY <1>1 DEF SameContent
<1>3. CASE \/ \E k \in Keys : Open(k) \/ RekeyRefused(k)
           \/ Close \/ SharedLock \/ Unlock
           \/ EndUnmodified \/ (Rollback /\ eState = "WRITER_LOCKED")
  <2>1. /\ eState = "WRITER_LOCKED" \/ ~ InTransaction
        /\ ~ InTransaction'
    BY <1>3 DEF Inv, Base, ControlInv, Open, RekeyRefused, Close, Disconnected,
                SharedLock, Unlock, EndUnmodified, Rollback
  <2> QED BY <1>2, <2>1, WorkingFile, LockedWorking DEF Stutters
<1>4. CASE Begin \/ \E k \in Keys : Rekey(k)
  <2>1. eState = "READER" /\ eState' = "WRITER_LOCKED" /\ dirty' = dirty /\ db' = db
    BY <1>4 DEF Begin, Rekey, MayBegin
  <2>2. dirty = {} /\ db = [p \in Pages |-> db[p]] /\ db = content /\ working = content
    BY <2>1, LockedWorking
  <2>3. \A p \in Pages : WorkingPage(p)' = db[p]
    BY <2>1, <2>2 DEF WorkingPage
  <2>4. working' = [p \in Pages |-> WorkingPage(p)']
    BY <2>1, WorkingFile
  <2> QED BY <1>2, <2>2, <2>3, <2>4 DEF Stutters
<1>5. CASE \/ \E p \in Pages : AcquirePage(p) \/ RecyclePage(p) \/ Spill(p)
           \/ Commit \/ RequestRollback \/ (Rollback /\ eState # "WRITER_LOCKED")
  <2>1. UNCHANGED <<db, eState, dirty, writeKey>>
    BY <1>5 DEF AcquirePage, RecyclePage, Spill, Commit, RequestRollback, Rollback
  <2>2. \A p \in dirty : cache'[p] = cache[p]
    <3>1. ASSUME NEW p \in Pages, AcquirePage(p) \/ RecyclePage(p)
          PROVE  \A q \in dirty : cache'[q] = cache[q]
      <4>1. p \notin dirty
        BY <3>1, PagerAssumption DEF AcquirePage, RecyclePage, Inv, Base, PageInv
      <4> QED BY <3>1, <4>1, JournalTypes DEF AcquirePage, RecyclePage, Inv, Base, TypeOK
    <3> QED BY <1>5, <3>1 DEF Spill, Commit, RequestRollback, Rollback
  <2>3. \A p \in Pages : WorkingPage(p)' = WorkingPage(p)
    BY <2>1, <2>2 DEF WorkingPage
  <2>4. working' = working
    BY <1>2, <2>1, <2>3, WorkingFile, SameWorking
  <2> QED BY <1>2, <2>4 DEF Stutters
<1> QED BY <1>3, <1>4, <1>5

\* A page is written under the key of the write context.
LEMMA WritingFile ==
  ASSUME Inv, Base', Contents, IncrChangeCounter \/ \E p \in Pages : WritePage(p)
  PROVE  Stutters \/ \E p \in Pages, c \in Image : TransactionalFile!Write(p, c)
<1> USE DEF Idle, keyVars, callVars, InTransaction, Writing, Modified
<1>1. ASSUME NEW p \in Pages, MakeWritable(p),
             UNCHANGED <<db, dbMaybe, errCode, journalHdr, readKey, writeKey, call, rekeying>>,
             eState \in Writing, call \in {"none", "commit"}, step = "start",
             cache[p] \in Versions, cache'[p] \in Versions,
             call' \in {"none", "commit"}, step' \in {"start", "sync"},
             \A q \in Pages \ {p} : cache'[q] = cache[q]
      PROVE  TransactionalFile!Write(p, [key |-> writeKey, val |-> cache'[p]])
             /\ [key |-> writeKey, val |-> cache'[p]] \in Image
  <2>1. content' = content /\ older' = older
    BY <1>1, WritableContents
  <2>2. eState' \in Writing /\ dirty' = dirty \cup {p}
    BY <1>1 DEF MakeWritable
  <2>3. writeKey \in Keys
    BY <1>1, TransactionKey DEF Inv, Base, TypeOK, ControlInv
  <2>4. [key |-> writeKey, val |-> cache'[p]] \in Image
    BY <1>1, <2>3 DEF Image
  <2>5. \A q \in Pages : WorkingPage(q)' =
          IF q = p THEN [key |-> writeKey, val |-> cache'[p]] ELSE WorkingPage(q)
    BY <1>1, <2>2 DEF WorkingPage
  <2>6. working = [q \in Pages |-> WorkingPage(q)] /\ working' = [q \in Pages |-> WorkingPage(q)']
    BY <1>1, <2>2, WorkingFile
  <2>7. working' = [working EXCEPT ![p] = [key |-> writeKey, val |-> cache'[p]]]
    BY <2>5, <2>6
  <2> QED BY <2>1, <2>4, <2>7 DEF TransactionalFile!Write
<1>2. transactions \in Versions /\ DOMAIN cache = Pages
  BY DEF Inv, Base, PageInv, TypeOK
<1>3. ASSUME NEW p \in Pages, WritePage(p)
      PROVE  \E c \in Image : TransactionalFile!Write(p, c)
  <2>1. /\ MakeWritable(p)
        /\ UNCHANGED <<db, dbMaybe, errCode, journalHdr, readKey, writeKey, call, rekeying>>
        /\ eState \in Writing /\ call = "none" /\ call' = "none" /\ step = "start"
        /\ step' = "start" /\ cache[p] \in Versions
    BY <1>3 DEF WritePage, MayWrite, Inv, Base, ControlInv
  <2>2. cache'[p] \in Versions /\ \A q \in Pages \ {p} : cache'[q] = cache[q]
    BY <1>2, <1>3, <2>1 DEF WritePage
  <2> QED BY <1>1, <2>1, <2>2
<1>4. CASE IncrChangeCounter /\ ~ counted
  <2>1. /\ MakeWritable(1) /\ 1 \in Pages
        /\ UNCHANGED <<db, dbMaybe, errCode, journalHdr, readKey, writeKey, call, rekeying>>
        /\ eState \in Writing /\ call = "commit" /\ call' = "commit" /\ step = "start"
        /\ step' = "sync" /\ cache[1] \in Versions
    BY <1>4, ContentKey DEF IncrChangeCounter, Inv, Base, ControlInv, PageInv
  <2>2. cache'[1] \in Versions /\ \A q \in Pages \ {1} : cache'[q] = cache[q]
    BY <1>2, <1>4, <2>1 DEF IncrChangeCounter
  <2> QED BY <1>1, <2>1, <2>2
<1>5. CASE IncrChangeCounter /\ counted
  <2>1. /\ UNCHANGED <<db, jrnl, jrnlMaybe, eState, dirty, cache, writeKey>>
        /\ eState \in Writing
    BY <1>5 DEF IncrChangeCounter, Inv, Base, ControlInv
  <2>2. content' = content /\ older' = older
    BY <2>1, SameFiles DEF SameContent, Contents
  <2>3. \A p \in Pages : WorkingPage(p)' = WorkingPage(p)
    BY <2>1 DEF WorkingPage
  <2>4. working' = working
    BY <2>1, <2>3, SameWorking
  <2> QED BY <2>2, <2>4 DEF Stutters
<1> QED BY <1>3, <1>4, <1>5

\* With the journal synced, the last commit can no longer be taken back.
LEMMA SyncFile ==
  ASSUME Inv, Contents, SyncRecords \/ SyncHeader \/ SyncHotJournal
  PROVE  Settles
<1> USE DEF pagerVars, keyVars, InTransaction, Writing, Modified
<1>1. content' = content /\ older' = content
  BY SyncedRecordsContent, SyncedHeaderContent, HotJournalContent
<1>2. CASE SyncRecords \/ SyncHeader
  <2>1. /\ UNCHANGED <<db, dirty, cache, writeKey>>
        /\ eState \in Modified /\ eState' \in Modified
    BY <1>2 DEF SyncRecords, SyncHeader, Inv, Base, ControlInv
  <2>2. \A p \in Pages : WorkingPage(p)' = WorkingPage(p)
    BY <2>1 DEF WorkingPage
  <2> QED BY <1>1, <2>1, <2>2, SameWorking DEF Settles
<1>3. CASE SyncHotJournal
  <2>1. ~ InTransaction /\ ~ InTransaction'
    BY <1>3 DEF SyncHotJournal, Inv, Base, ControlInv
  <2> QED BY <1>1, <2>1, WorkingFile DEF Settles
<1> QED BY <1>2, <1>3

\* Writing a dirty page to the file, and syncing the file, changes for the
\* readers nothing.
LEMMA PagesFile ==
  ASSUME Inv, Contents, WritePagelist \/ WriteSpilled \/ (SyncDb /\ call = "commit")
  PROVE  Stutters
<1> USE DEF Start, keyVars, InTransaction, Writing, Modified
<1>1. SameContent
  BY PagesContents, SyncDbContents
<1>2. eState \in Modified /\ eState' \in Modified \cup {"WRITER_FINISHED"} /\ writeKey' = writeKey
  BY DEF WritePagelist, WriteSpilled, SyncDb, Inv, Base, ControlInv
<1>3. ASSUME NEW p \in Pages PROVE WorkingPage(p)' = WorkingPage(p)
  <2>1. CASE WritePagelist
    BY <2>1 DEF WritePagelist, WriteFile, Encrypted, WorkingPage
  <2>2. CASE WriteSpilled
    <3>1. /\ spilled \in dirty /\ dirty' = dirty \ {spilled}
          /\ \A q \in Pages \ {spilled} : cache'[q] = cache[q]
      BY <2>2, JournalTypes DEF WriteSpilled, Inv, Base, ControlInv, TypeOK
    <3>2. db'[p] = IF p = spilled THEN [key |-> writeKey, val |-> cache[p]] ELSE db[p]
      BY <2>2 DEF WriteSpilled, WriteFile, Encrypted
    <3> QED BY <1>2, <3>1, <3>2 DEF WorkingPage
  <2>3. CASE SyncDb
    BY <2>3 DEF SyncDb, WorkingPage
  <2> QED BY <2>1, <2>2, <2>3
<1>4. working' = working
  BY <1>2, <1>3, SameWorking
<1> QED BY <1>1, <1>4 DEF SameContent, Stutters

\* A rollback has put every page of the cache back that it will.
LEMMA RolledBack ==
  Inv /\ Contents /\ call = "rollback" /\ step \in {"db", "finalize"} => working = content
<1> SUFFICES ASSUME Inv, Contents, call = "rollback", step \in {"db", "finalize"}
             PROVE  working = content
  OBVIOUS
<1> USE DEF InTransaction, Writing, Modified
<1>1. eState \in Modified /\ ~ rekeying /\ writeKey = readKey
  BY TransactionKey DEF Inv, Base, ControlInv, Contents, KeyInv
<1>2. db = content /\ dirty \cap Journaled(jrnl) = {} /\ content = [p \in Pages |-> content[p]]
  BY OneKeyFile DEF Contents, OriginalsInv, FileInv, Keeps
<1>3. ASSUME NEW p \in Pages PROVE WorkingPage(p) = content[p]
  <2>1. CASE p \in dirty
    <3>1. cache[p] \in Versions
      BY <2>1 DEF Inv, Base, PageInv
    <3>2. p \notin dirty \cap Journaled(JournalOpened)
      BY <1>1, <1>2, <2>1, OpenedPages
    <3>3. db[p] = [key |-> KeyOf(p), val |-> cache[p]]
      BY <1>1, <3>1, <3>2 DEF Contents, CacheInv
    <3> QED BY <1>1, <1>2, <2>1, <3>3 DEF WorkingPage, KeyOf
  <2>2. CASE p \notin dirty
    BY <1>2, <2>2 DEF WorkingPage
  <2> QED BY <2>1, <2>2
<1> QED BY <1>1, <1>2, <1>3, WorkingFile

\* The same after the step.
LEMMA RolledBackNext ==
  (Inv /\ Contents /\ call = "rollback" /\ step \in {"db", "finalize"} => working = content)'
BY RolledBack, PTL

\* The originals go back: the end of a transaction, or the recovery of one that
\* a crash or an error ended.
LEMMA PlaybackFile ==
  ASSUME Inv, Inv', Contents, Playback
  PROVE  Stutters \/ RollsBack
<1> USE DEF keyVars, InTransaction, Writing, Modified
<1>1. Contents' /\ SameContent
  BY PlaybackContents
<1>2. CASE call = "recover"
  <2>1. ~ InTransaction /\ ~ InTransaction'
    BY <1>2 DEF Playback, Inv, Base, ControlInv
  <2> QED BY <1>1, <2>1, WorkingFile DEF SameContent, Stutters
<1>3. CASE call = "rollback"
  <2>1. call' = "rollback" /\ step' \in {"db", "finalize"}
    BY <1>3 DEF Playback
  <2>2. working' = content'
    BY <1>1, <2>1, RolledBackNext
  <2> QED BY <1>1, <2>2 DEF SameContent, RollsBack
<1> QED BY <1>2, <1>3 DEF Playback

\* Syncing the pages that were put back changes nothing for the readers.
LEMMA SyncedBackFile ==
  ASSUME Inv, Inv', Contents, SyncDb, call # "commit"
  PROVE  Stutters
<1> USE DEF keyVars, InTransaction, Writing, Modified
<1>1. Contents' /\ SameContent
  BY SyncDbContents
<1>2. call \in {"rollback", "recover"} /\ call' = call /\ eState' = eState /\ step' = "finalize"
  BY DEF SyncDb, Inv, Base, TypeOK, ControlInv, Calls
<1>3. CASE call = "recover"
  <2>1. ~ InTransaction /\ ~ InTransaction'
    BY <1>2, <1>3 DEF Inv, Base, ControlInv
  <2> QED BY <1>1, <2>1, WorkingFile DEF SameContent, Stutters
<1>4. CASE call = "rollback"
  <2>1. working = content /\ working' = content'
    BY <1>1, <1>2, <1>4, RolledBack, RolledBackNext DEF SyncDb
  <2> QED BY <1>1, <2>1 DEF SameContent, Stutters
<1> QED BY <1>2, <1>3, <1>4

\* Removing the journal is the commit, or the end of a rollback.
LEMMA FinalizeFile ==
  ASSUME Inv, Contents, Finalize
  PROVE  TransactionalFile!Commit \/ Settles \/ Stutters
<1> USE DEF InTransaction, Writing, Modified
<1>1. /\ content' = db
      /\ eState = "WRITER_FINISHED" => older' = content
      /\ eState # "WRITER_FINISHED" => content = db /\ older' \in {content, older}
  BY FinalizedContent
<1>2. working' = content'
  BY WorkingFile DEF Finalize
<1>3. CASE eState = "WRITER_FINISHED"
  <2>1. dirty = {} /\ db = [p \in Pages |-> db[p]]
    BY <1>3, CommittedFile, OneKeyFile
  <2>2. \A p \in Pages : WorkingPage(p) = db[p]
    BY <2>1 DEF WorkingPage
  <2>3. working = [p \in Pages |-> WorkingPage(p)]
    BY <1>3, WorkingFile
  <2>4. working = db
    BY <2>1, <2>2, <2>3
  <2> QED BY <1>1, <1>2, <1>3, <2>4 DEF TransactionalFile!Commit
<1>4. CASE eState # "WRITER_FINISHED"
  <2>1. call \in {"rollback", "recover"} /\ step = "finalize"
    BY <1>4 DEF Finalize, Inv, Base, TypeOK, ControlInv, Calls
  <2>2. working = content
    <3>1. CASE call = "rollback"
      BY <2>1, <3>1, RolledBack
    <3>2. CASE call = "recover"
      BY <3>2, WorkingFile DEF Inv, Base, ControlInv
    <3> QED BY <2>1, <3>1, <3>2
  <2> QED BY <1>1, <1>2, <1>4, <2>2 DEF Settles, Stutters
<1> QED BY <1>3, <1>4

\* A call that fails takes nothing of the file, and a crash all of the
\* transaction.
LEMMA FailedFile ==
  ASSUME Inv, Contents, ~ RekeyFaults,
         \/ \E p \in Pages : WriteFails(p)
         \/ CommitFails \/ FinalizeFails \/ SpillFails \/ RollbackFails \/ RecoveryFails
  PROVE  Stutters \/ RollsBack
<1> USE DEF Idle, Start, PagerError, fileVars, pagerVars, keyVars, InTransaction, Writing,
            Modified
<1>1. ASSUME NEW p \in Pages, WriteFails(p) PROVE Stutters
  <2>1. SameContent
    BY <1>1, WriteFailsContents
  <2>2. /\ UNCHANGED <<db, cache, writeKey>> /\ ~ errCode
        /\ eState \in Writing /\ eState' \in Writing /\ rekeying = FALSE
        /\ call = "none" /\ cache[p] \in Versions /\ p \notin Journaled(JournalOpened)
        /\ dirty' \in {dirty, dirty \cup {p}}
    BY <1>1 DEF WriteFails, MayWrite, Fault, Inv, Base, TypeOK
  <2>3. writeKey = readKey
    BY <2>2, TransactionKey
  <2>4. db[p] = [key |-> writeKey, val |-> cache[p]]
    BY <2>2, <2>3 DEF Contents, CacheInv, KeyOf
  <2>5. \A q \in Pages : WorkingPage(q)' = WorkingPage(q)
    BY <2>2, <2>4 DEF WorkingPage
  <2> QED BY <2>1, <2>2, <2>5, SameWorking DEF SameContent, Stutters
<1>2. CASE CommitFails
  <2>1. SameContent
    BY <1>2, CommitFailsContents
  <2>2. /\ UNCHANGED <<eState, dirty, cache, writeKey>> /\ eState \in Modified
    BY <1>2 DEF CommitFails, Inv, Base, ControlInv
  <2>3. PICK pages \in SUBSET dirty : WriteFile(pages, Encrypted)
    BY <1>2 DEF CommitFails
  <2>4. \A p \in Pages \ dirty : db'[p] = db[p]
    BY <2>3 DEF WriteFile
  <2>5. \A p \in Pages : WorkingPage(p)' = WorkingPage(p)
    BY <2>2, <2>4 DEF WorkingPage
  <2> QED BY <2>1, <2>2, <2>5, SameWorking DEF SameContent, Stutters
<1>3. CASE FinalizeFails \/ SpillFails \/ RollbackFails
  <2>1. SameContent
    BY <1>3, SameFiles, PlaybackFailsContents DEF FinalizeFails, SpillFails, Contents
  <2>2. ~ InTransaction'
    BY <1>3 DEF FinalizeFails, SpillFails, RollbackFails
  <2> QED BY <2>1, <2>2, WorkingFile DEF SameContent, RollsBack
<1>4. CASE RecoveryFails
  <2>1. SameContent
    BY <1>4, PlaybackFailsContents
  <2>2. ~ InTransaction /\ ~ InTransaction'
    BY <1>4 DEF RecoveryFails, Inv, Base, ControlInv
  <2> QED BY <2>1, <2>2, WorkingFile DEF SameContent, Stutters
<1> QED BY <1>1, <1>2, <1>3, <1>4

\* A crash is a crash of AtomicFile: the last commit may go, as a whole.
LEMMA CrashFile ==
  ASSUME Inv, Contents, Crash
  PROVE  TransactionalFile!Crash
<1>1. content' \in {content, older} /\ older' = content'
  BY CrashedContent
<1>2. ~ InTransaction'
  BY DEF Crash, Disconnected, InTransaction, Writing, Modified
<1> QED BY <1>1, <1>2, WorkingFile DEF TransactionalFile!Crash

\* What each step of the pager is to AtomicFile.
LEMMA StepFile ==
  ASSUME ~ RekeyFaults, Inv, Inv', Contents, [Next]_vars
  PROVE  \/ Stutters
         \/ \E p \in Pages, c \in Image : TransactionalFile!Write(p, c)
         \/ RollsBack \/ Settles
         \/ Finalize /\ TransactionalFile!Commit
         \/ Crash /\ TransactionalFile!Crash
<1>1. CASE Next
  <2>1. Base'
    BY DEF Inv
  <2> QED
    BY <1>1, <2>1, LogicalFile, WritingFile, SyncFile, PagesFile, PlaybackFile,
       SyncedBackFile, FinalizeFile, FailedFile, CrashFile
       DEF Next
<1>2. CASE UNCHANGED vars
  <2>1. UNCHANGED <<db, jrnl, jrnlMaybe, eState, cache, dirty, writeKey>>
    BY <1>2 DEF vars, fileVars, pagerVars, keyVars
  <2>2. content' = content /\ older' = older
    BY <2>1, SameFiles DEF Contents, SameContent
  <2>3. \A p \in Pages : WorkingPage(p)' = WorkingPage(p)
    BY <2>1 DEF WorkingPage
  <2>4. working' = working
    BY <2>1, <2>2, <2>3, WorkingFile DEF InTransaction
  <2> QED BY <2>2, <2>4 DEF Stutters
<1> QED BY <1>1, <1>2

-----------------------------------------------------------------------------
(***************************************************************************)
(* The theorems about the whole file.                                      *)
(***************************************************************************)

\* As long as no call fails during a rekey, a transaction takes effect as a
\* whole or not at all, whatever else fails and whenever the process dies: the
\* pager implements AtomicFile (pager.c: the rollback journal).
THEOREM TransactionsAreAtomic ==
  ASSUME ~ RekeyFaults
  PROVE  Spec => ImplementsAtomicFile
<1>1. Init => TransactionalFile!Init
  <2> SUFFICES ASSUME Init PROVE TransactionalFile!Init
    OBVIOUS
  <2>1. OneKey(content) /\ working = content
    BY InitContents, WorkingFile
       DEF Init, Contents, FileInv, Keeps, InTransaction, Writing, Modified
  <2>2. TakesBackTo(db, jrnl, content) /\ jrnlMaybe = {jrnl}
    BY InitContents DEF Init, Contents, FileInv, Keeps
  <2>3. older = content
    BY <2>2 DEF older, content
  <2> QED BY <2>1, <2>3 DEF TransactionalFile!Init, TransactionalFile!File, OneKey
<1>2. Inv /\ Contents /\ Inv' /\ [Next]_vars => [TransactionalFile!Next]_(TransactionalFile!vars)
  <2> SUFFICES ASSUME Inv, Contents, Inv', [Next]_vars
               PROVE  TransactionalFile!Next \/ UNCHANGED <<content, older, working>>
    BY DEF TransactionalFile!vars
  <2> QED
    BY StepFile
       DEF Stutters, Settles, RollsBack, TransactionalFile!Next,
           TransactionalFile!Rollback, TransactionalFile!Settle
<1> QED
  BY <1>1, <1>2, FileInvariant, PTL
     DEF Spec, ImplementsAtomicFile, TransactionalFile!Spec

\* A connection that was opened with another passphrase never changes the file,
\* not by an error and not by the recovery of a hot journal (sqlcipher_codec:
\* a page whose HMAC does not match cannot be read, and so none is written).
THEOREM WrongKeyIsHarmless ==
  ASSUME ~ RekeyFaults
  PROVE  Spec => WrongKeyChangesNothing
<1>1. Inv /\ Contents /\ Inv' /\ [Next]_vars =>
        (readKey # NoKey /\ content[1].key # readKey /\ readKey' = readKey
           => content' = content)
  <2> SUFFICES ASSUME Inv, Contents, Inv', [Next]_vars, content[1].key # readKey,
                      readKey # NoKey, readKey' = readKey
               PROVE  content' = content
    OBVIOUS
  <2>1. ~ Crash
    BY DEF Crash, Disconnected
  <2>2. CASE Finalize
    <3>1. eState # "WRITER_FINISHED"
      BY DEF Contents, KeyInv, InTransaction
    <3> QED BY <2>2, <3>1, FinalizedContent
  <2>3. CASE ~ Finalize
    BY <2>1, <2>3, StepFile
       DEF Stutters, Settles, RollsBack, TransactionalFile!Write
  <2> QED BY <2>2, <2>3
<1> QED
  BY <1>1, FileInvariant, PTL DEF Spec, WrongKeyChangesNothing

\* The key of the read context is the key of the file: it changes when a rekey
\* commits, with the file, and at no other step of a connection that can read.
THEOREM KeyFollowsFile ==
  ASSUME ~ RekeyFaults
  PROVE  Spec => KeyFollowsCommit
<1>1. Inv /\ Contents /\ Inv' /\ [Next]_vars =>
        (readKey # NoKey /\ readKey = content[1].key /\ readKey' # NoKey
           => readKey' = content'[1].key)
  <2> SUFFICES ASSUME Inv, Contents, Inv', [Next]_vars, readKey = content[1].key,
                      readKey # NoKey, readKey' # NoKey
               PROVE  readKey' = content'[1].key
    OBVIOUS
  <2>1. ~ Crash
    BY DEF Crash, Disconnected
  <2>2. CASE Finalize
    <3>1. content' = db /\ (eState # "WRITER_FINISHED" => content = db)
      BY <2>2, FinalizedContent
    <3>2. readKey' = IF rekeying THEN writeKey ELSE readKey
      BY <2>2 DEF Finalize
    <3>3. eState # "WRITER_FINISHED" => ~ rekeying
      BY <2>2 DEF Finalize, Contents, KeyInv, Inv, Base, ControlInv
    <3> QED BY <3>1, <3>2, <3>3, CommittedFile
  <2>3. CASE ~ Finalize
    <3>1. content' = content
      BY <2>1, <2>3, StepFile
         DEF Stutters, Settles, RollsBack, TransactionalFile!Write
    <3>2. readKey' = readKey
      BY <2>1, <2>3
         DEF Next, vars, pagerVars, keyVars, Open, Rekey, RekeyRefused, Close,
             Disconnected, SharedLock, Unlock, AcquirePage, RecyclePage, WritePage,
             WriteFails, Spill, Begin, EndUnmodified, Commit, IncrChangeCounter,
             SyncRecords, SyncHeader, WritePagelist, WriteSpilled, RequestRollback,
             Rollback, SyncHotJournal, Playback, SyncDb, CommitFails, FinalizeFails,
             SpillFails, RollbackFails, RecoveryFails, Fault
    <3> QED BY <3>1, <3>2
  <2> QED BY <2>2, <2>3
<1> QED
  BY <1>1, FileInvariant, PTL DEF Spec, KeyFollowsCommit
==============================================================================
