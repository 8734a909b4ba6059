----------------------------- MODULE FipsModule -----------------------------
(***************************************************************************)
(* The life of the FIPS object module in an application: the build phase   *)
(* that embeds the fingerprints (incore_macho.c), the start of the process *)
(* (fips_premain.c), the routines that switch FIPS mode                    *)
(* (FIPS_iOS_routines.m) and the databases SQLitePlugin.m opens.           *)
(*                                                                         *)
(* A fingerprint is the build it was computed from: the HMAC of one build  *)
(* is not the HMAC of another.  The object module itself is OpenSSL's      *)
(* fips.c, modelled as these files use it.                                 *)
(***************************************************************************)
EXTENDS Integers, Sequences, Functions

CONSTANTS
  Slices,       \* the slices load_file lists, as incore_macho visits them
  LeftOut,      \* the slices load_file leaves out, for load_architecture refuses them
  Misadjusted,  \* architectures whose cpu_adjustment entry is wrong
  Databases,    \* database names
  MaxBuilds,    \* bound on the builds
  MaxLaunches   \* bound on the starts of the process

\* The architectures of the fat file.  The tool says nothing of those it leaves
\* out, and ends well without them.
Archs == Range(Slices) \cup LeftOut

ASSUME FipsAssumption ==
  /\ Slices \in Seq(Range(Slices))
  /\ \A i, j \in DOMAIN Slices : Slices[i] = Slices[j] => i = j
  /\ Range(Slices) \cap LeftOut = {}
  /\ "none" \notin Archs
  /\ Misadjusted \subseteq Archs
  /\ MaxBuilds \in Nat
  /\ MaxLaunches \in Nat

Builds == 1 .. MaxBuilds

\* A fingerprint or the signature made from it: the HMAC of a build, the HMAC
\* of the wrong bytes (0), the "?" of HMAC_SHA1_SIG (-1), all zeros (-2).
Wrong == 0
Placeholder == -1
Zeros == -2
Embedded == Builds \cup {Wrong, Placeholder}
Signatures == Builds \cup {Wrong, Zeros}

VARIABLES
  \* The file of the application.
  code,         \* the build that linked it; 0: none yet
  embedded,     \* FINGERPRINT_ascii_value of each slice
  phase,        \* the build phase: "none", "running", "stored", "failed"
  visited,      \* slices incore_macho has been through
  lost,         \* history: slices of this build whose stored fingerprint
                \*          never reached the file
  \* The process.
  running,      \* the slice that runs, or "none"
  loaded,       \* the build it runs
  signature,    \* FIPS_signature
  mode,         \* FIPS_mode()
  selftestFail, \* fips_selftest_fail
  \* The databases.
  openDBs,      \* databases the plugin holds open
  filled,       \* database files that hold pages
  status,       \* FIPSStatus in the last answer to open; "none": it has none
  launches      \* starts of the process so far

fileVars == <<code, embedded, phase, visited, lost>>
moduleVars == <<signature, mode, selftestFail>>
processVars == <<running, loaded, launches>>
databaseVars == <<openDBs, filled, status>>
vars == <<fileVars, moduleVars, processVars, databaseVars>>

TypeOK ==
  /\ code \in Builds \cup {0}
  /\ embedded \in [Archs -> Embedded]
  /\ phase \in {"none", "running", "stored", "failed"}
  /\ visited \in 0 .. Len(Slices)
  /\ lost \subseteq Archs
  /\ running \in Archs \cup {"none"}
  /\ loaded \in Builds \cup {0}
  /\ signature \in Signatures
  /\ mode \in BOOLEAN
  /\ selftestFail \in BOOLEAN
  /\ openDBs \subseteq Databases
  /\ filled \subseteq Databases
  /\ status \in {"none", "off", "on"}
  /\ launches \in Nat

Init ==
  /\ code = 0
  /\ embedded = [a \in Archs |-> Placeholder]
  /\ phase = "none"
  /\ visited = 0
  /\ lost = {}
  /\ running = "none"
  /\ loaded = 0
  /\ signature = Zeros
  /\ mode = FALSE
  /\ selftestFail = FALSE
  /\ openDBs = {}
  /\ filled = {}
  /\ status = "none"
  /\ launches = 0

-----------------------------------------------------------------------------
(* The build.                                                              *)

\* Mutant: the link leaves the fingerprint of the last build where it was.
BuildKeepsFingerprint ==
  /\ code < MaxBuilds
  /\ phase # "running"
  /\ code' = code + 1
  /\ phase' = "none"
  /\ lost' = {}
  /\ UNCHANGED <<embedded, visited, processVars, moduleVars, databaseVars>>

\* A link puts the placeholder back into every slice.
Build ==
  /\ code < MaxBuilds
  /\ phase # "running"
  /\ code' = code + 1
  /\ embedded' = [a \in Archs |-> Placeholder]
  /\ phase' = "none"
  /\ lost' = {}
  /\ UNCHANGED <<visited, processVars, moduleVars, databaseVars>>

\* make_fingerprint, on a file that can be written.
EmbedFingerprint ==
  /\ code # 0
  /\ phase # "running"
  /\ Slices # <<>>
  /\ phase' = "running"
  /\ visited' = 0
  /\ UNCHANGED <<code, embedded, lost, processVars, moduleVars, databaseVars>>

\* make_fingerprint never comes to a slice: the file cannot be opened or mapped,
\* or load_file has no memory or lists no slice.
LoadFails ==
  /\ code # 0
  /\ phase # "running"
  /\ phase' = "failed"
  /\ UNCHANGED <<code, embedded, visited, lost, processVars, moduleVars, databaseVars>>

\* What fingerprint() computes: the HMAC of the text section, as the entry of
\* cpu_adjustment moves it.
Computed(a) == IF a \in Misadjusted THEN Wrong ELSE code

Visit ==
  /\ phase = "running"
  /\ visited' = visited + 1

\* fingerprint() returns 0; the result of the last slice is that of the tool.
Stored ==
  /\ Visit
  /\ phase' = IF visited' = Len(Slices) THEN "stored" ELSE phase
  /\ UNCHANGED <<code, processVars, moduleVars, databaseVars>>

\* It has written the fingerprint.
FingerprintSlice ==
  /\ Stored
  /\ LET a == Slices[visited']
     IN /\ embedded' = [embedded EXCEPT ![a] = Computed(a)]
        /\ lost' = lost \ {a}

\* msync has failed, which is only reported, and the file stays as it was.
FingerprintUnsynced ==
  /\ Stored
  /\ lost' = lost \cup {Slices[visited']}
  /\ UNCHANGED embedded

\* Mutant: the loop goes on, and the next slice decides the result.
FingerprintFailsAndGoesOn ==
  /\ Visit
  /\ phase' = IF visited' = Len(Slices) THEN "failed" ELSE phase
  /\ UNCHANGED <<code, embedded, lost, processVars, moduleVars, databaseVars>>

\* fingerprint() returns something else, for an unknown cpu or a page that
\* cannot be written: the loop stops, and the other slices keep what they have.
FingerprintFails ==
  /\ Visit
  /\ phase' = "failed"
  /\ UNCHANGED <<code, embedded, lost, processVars, moduleVars, databaseVars>>

\* make_fingerprint, on a file that cannot be written: it compares every slice
\* it lists, and returns what the last one gave.
VerifyOnly ==
  /\ code # 0
  /\ phase # "running"
  /\ Slices # <<>>
  /\ LET last == Slices[Len(Slices)]
     IN phase' = IF embedded[last] = Computed(last) THEN "stored" ELSE "failed"
  /\ UNCHANGED <<code, embedded, visited, lost, processVars, moduleVars, databaseVars>>

-----------------------------------------------------------------------------
(* The process.                                                            *)

\* Mutant: a slice without a fingerprint starts too.
LaunchUnchecked(a) ==
  /\ running = "none"
  /\ code # 0
  /\ phase # "running"
  /\ launches < MaxLaunches
  /\ launches' = launches + 1
  /\ running' = a
  /\ loaded' = code
  /\ signature' = embedded[a]
  /\ UNCHANGED <<fileVars, mode, selftestFail, databaseVars>>

\* The process starts in one of the slices.  FINGERPRINT_premain ends it when
\* the slice has no fingerprint; else it fills FIPS_signature, and compares
\* nothing.
Launch(a) ==
  /\ running = "none"
  /\ code # 0
  /\ phase # "running"
  /\ launches < MaxLaunches
  /\ launches' = launches + 1
  /\ embedded[a] # Placeholder
  /\ running' = a
  /\ loaded' = code
  /\ signature' = embedded[a]
  /\ UNCHANGED <<fileVars, mode, selftestFail, databaseVars>>

\* The process ends; the files of the databases stay.
Exit ==
  /\ running # "none"
  /\ running' = "none"
  /\ loaded' = 0
  /\ signature' = Zeros
  /\ mode' = FALSE
  /\ selftestFail' = FALSE
  /\ openDBs' = {}
  /\ status' = "none"
  /\ UNCHANGED <<fileVars, launches, filled>>

\* FIPS_selftest compares FIPS_signature with the code that runs.
SelfTest == signature = loaded

\* Mutant: the self tests do not run.
EnteredUntested == ~mode

\* FIPS_mode_set(1) succeeds.
Entered == ~mode /\ SelfTest

\* FIPS_mode_set(1).  In FIPS mode it refuses, and leaves the module failed.
EnterFIPSMode ==
  /\ mode' = (mode \/ Entered)
  /\ selftestFail' = ~Entered

\* FIPS_mode_set(0).
LeaveFIPSMode ==
  /\ mode' = FALSE
  /\ selftestFail' = FALSE

\* Mutant: FIPS_mode() is not asked first.
TurnOnUnasked ==
  /\ running # "none"
  /\ EnterFIPSMode
  /\ UNCHANGED <<fileVars, processVars, signature, databaseVars>>

FIPS_turnOn ==
  /\ running # "none"
  /\ IF mode THEN UNCHANGED <<mode, selftestFail>> ELSE EnterFIPSMode
  /\ UNCHANGED <<fileVars, processVars, signature, databaseVars>>

FIPS_flip ==
  /\ running # "none"
  /\ IF mode THEN LeaveFIPSMode ELSE EnterFIPSMode
  /\ UNCHANGED <<fileVars, processVars, signature, databaseVars>>

-----------------------------------------------------------------------------
(* The databases.                                                          *)

\* In FIPS mode a failed module refuses to encrypt and decrypt; outside FIPS
\* mode OpenSSL's own code does, whatever the self tests said.
Refuses == mode /\ selftestFail

\* Mutant: the answer tells the mode, not the result of FIPS_mode_set.
StatusOfMode == IF mode THEN "on" ELSE "off"

\* FIPSStatus in the answer to open: the result of FIPS_mode_set.
Status == IF Entered THEN "on" ELSE "off"

\* SQLitePlugin open, of a file or of a new database, with a password that
\* fits.  FIPS_mode_set(1) comes first, and nothing depends on its result.
OpenDatabase(d) ==
  /\ running # "none"
  /\ d \notin openDBs
  /\ EnterFIPSMode
  /\ d \in filled => ~Refuses'
  /\ openDBs' = openDBs \cup {d}
  /\ status' = Status
  /\ UNCHANGED <<fileVars, processVars, signature, filled>>

\* The same when the database is open already, cannot be opened or cannot be
\* read: the answer has no FIPSStatus.
OpenWithoutStatus(d) ==
  /\ running # "none"
  /\ EnterFIPSMode
  /\ status' = "none"
  /\ UNCHANGED <<fileVars, processVars, signature, openDBs, filled>>

\* SQLitePlugin close.
CloseDatabase(d) ==
  /\ d \in openDBs
  /\ openDBs' = openDBs \ {d}
  /\ UNCHANGED <<fileVars, processVars, moduleVars, filled, status>>

\* SQLitePlugin delete.
DeleteDatabase(d) ==
  /\ running # "none"
  /\ openDBs' = openDBs \ {d}
  /\ filled' = filled \ {d}
  /\ UNCHANGED <<fileVars, processVars, moduleVars, status>>

\* SQLitePlugin executeSqlBatch, of a statement that writes the file.
ExecuteSql(d) ==
  /\ d \in openDBs
  /\ ~Refuses
  /\ filled' = filled \cup {d}
  /\ UNCHANGED <<fileVars, processVars, moduleVars, openDBs, status>>

Next ==
  \/ Build \/ EmbedFingerprint \/ LoadFails \/ VerifyOnly
  \/ FingerprintSlice \/ FingerprintUnsynced \/ FingerprintFails
  \/ \E a \in Archs : Launch(a)
  \/ Exit \/ FIPS_turnOn \/ FIPS_flip
  \/ \E d \in Databases : \/ OpenDatabase(d) \/ OpenWithoutStatus(d)
                           \/ CloseDatabase(d) \/ DeleteDatabase(d)
                           \/ ExecuteSql(d)

Spec == Init /\ [][Next]_vars

-----------------------------------------------------------------------------
(* Properties.                                                             *)

\* A build phase that ends well has fingerprinted every slice load_file listed,
\* whichever slices failed in earlier runs of the tool, but for those whose msync
\* failed (make_fingerprint).  Of the slices left out it says nothing.
ListedSlicesFingerprinted ==
  phase = "stored" =>
    \A a \in Range(Slices) : embedded[a] = Computed(a) \/ a \in lost

\* Whatever the tool left out, lost or failed on: a process that gets past the
\* constructor has the signature computed from its own slice and its own build
\* (fips_premain.c, incore_macho.c).
SignatureIsOwn ==
  running # "none" =>
    signature = IF running \in Misadjusted THEN Wrong ELSE loaded

\* FIPS mode is on only in a process whose code is the code fingerprinted by
\* the tool, with the right adjustment (fips_premain.c, incore_macho.c).
ModeIsVerified ==
  mode => loaded # 0 /\ signature = loaded /\ running \notin Misadjusted

\* FIPSStatus 1 is told when the module has just been verified and works, and
\* only then, whatever was told before (SQLitePlugin open).
StatusIsTrue ==
  [][\A d \in Databases :
       OpenDatabase(d) => (status' = "on" <=> mode' /\ ~selftestFail')]_vars

\* The routines of FIPS_iOS_routines.m can be called at any time: they never
\* turn a module that works into one that refuses.
RoutinesKeepModuleWorking ==
  [][(FIPS_turnOn \/ FIPS_flip) /\ Refuses' => Refuses]_vars

\* A database is opened and used with the module in FIPS mode and in order:
\* the output of FIPS_mode_set "is checked for an integer value of 1".
OutputIsChecked ==
  signature = loaded /\ openDBs # {} => ~Refuses

-----------------------------------------------------------------------------
(* The inductive invariants behind them, proved in FipsModule_proofs.      *)

\* A slice has no fingerprint, or the one computed from this build.
EmbeddedInv ==
  \A a \in Archs : embedded[a] \in {Placeholder, Computed(a)}

\* The tool has been through a with success, in some run on this build.
Done(a) == embedded[a] # Placeholder \/ a \in lost

\* The slices it is done with come first in the order of the tool, and as long
\* as it runs it has left none of them out.
VisitInv ==
  /\ \A h, i \in DOMAIN Slices :
       h < i /\ embedded[Slices[i]] # Placeholder => Done(Slices[h])
  /\ phase = "running" =>
       /\ visited < Len(Slices)
       /\ \A i \in 1 .. visited : Done(Slices[i])
  /\ phase = "stored" => \A i \in DOMAIN Slices : Done(Slices[i])

\* The process runs a build, with the signature of its own slice.
ProcessInv ==
  /\ running = "none" => ~mode
  /\ running # "none" => loaded # 0
  /\ SignatureIsOwn
  /\ mode => signature = loaded
=============================================================================
