-------------------------- MODULE FipsModule_proofs --------------------------
(***************************************************************************)
(* Proofs about FipsModule, for every fat file and every bound.            *)
(***************************************************************************)
EXTENDS FipsModule, TLAPS

\* incore_macho visits architectures of the file, not always all of them.
LEMMA SlicesType ==
  /\ Len(Slices) \in Nat
  /\ DOMAIN Slices = 1 .. Len(Slices)
  /\ \A i \in 1 .. Len(Slices) : Slices[i] \in Archs
  /\ \A a \in Range(Slices) : \E i \in DOMAIN Slices : a = Slices[i]
BY FipsAssumption DEF Archs, Range

\* A fingerprint that was computed is never the placeholder.
LEMMA ComputedType ==
  ASSUME TypeOK, NEW a \in Archs
  PROVE  Computed(a) \in Embedded \ {Placeholder}
<1>1. code \in Nat /\ code \in Builds \cup {0}
  BY FipsAssumption DEF TypeOK, Builds
<1> QED
  BY <1>1 DEF Computed, Embedded, Wrong, Placeholder

-----------------------------------------------------------------------------
(***************************************************************************)
(* The inductive invariant.  The type of visited needs VisitInv, VisitInv  *)
(* needs EmbeddedInv to know that a slice that matches has a fingerprint,  *)
(* and ProcessInv needs it to know whose code the signature is of.         *)
(***************************************************************************)
Inv == TypeOK /\ EmbeddedInv /\ VisitInv /\ ProcessInv

LEMMA InitInv == Init => Inv
<1> SUFFICES ASSUME Init PROVE Inv
  OBVIOUS
<1>1. /\ code \in Builds \cup {0} /\ loaded \in Builds \cup {0}
      /\ visited \in 0 .. Len(Slices) /\ launches \in Nat
      /\ lost \subseteq Archs
  BY SlicesType DEF Init
<1>2. embedded \in [Archs -> Embedded] /\ signature \in Signatures
  BY DEF Init, Embedded, Signatures
<1>3. TypeOK
  BY <1>1, <1>2 DEF Init, TypeOK
<1>4. EmbeddedInv /\ ProcessInv
  BY DEF Init, EmbeddedInv, ProcessInv, SignatureIsOwn
<1>5. VisitInv
  BY SlicesType DEF Init, VisitInv
<1> QED BY <1>3, <1>4, <1>5 DEF Inv

\* What the build phase does to the file leaves the process alone.
LEMMA FileFrame ==
  ASSUME Inv, UNCHANGED <<processVars, moduleVars, databaseVars>>,
         code' \in Builds \cup {0},
         embedded' \in [Archs -> Embedded],
         phase' \in {"none", "running", "stored", "failed"},
         visited' \in 0 .. Len(Slices),
         lost' \subseteq Archs
  PROVE  TypeOK' /\ ProcessInv'
BY DEF Inv, TypeOK, ProcessInv, SignatureIsOwn, processVars, moduleVars, databaseVars

\* What the process does leaves the file alone.
LEMMA ProcessFrame ==
  ASSUME Inv, UNCHANGED fileVars
  PROVE  EmbeddedInv' /\ VisitInv'
BY DEF Inv, EmbeddedInv, VisitInv, Done, Computed, fileVars

\* FIPS_mode_set keeps the module typed, and FIPS mode is on only with a
\* signature that matches.
LEMMA ModeSet ==
  ASSUME Inv, EnterFIPSMode \/ LeaveFIPSMode \/ UNCHANGED <<mode, selftestFail>>
  PROVE  /\ mode' \in BOOLEAN /\ selftestFail' \in BOOLEAN
         /\ mode' => signature = loaded
<1>1. mode \in BOOLEAN /\ selftestFail \in BOOLEAN /\ (mode => signature = loaded)
  BY DEF Inv, TypeOK, ProcessInv
<1>2. CASE EnterFIPSMode
  BY <1>1, <1>2 DEF EnterFIPSMode, Entered, SelfTest
<1>3. CASE LeaveFIPSMode
  BY <1>3 DEF LeaveFIPSMode
<1>4. CASE UNCHANGED <<mode, selftestFail>>
  BY <1>1, <1>4
<1> QED BY <1>2, <1>3, <1>4

\* The tool is done with one slice more, stored or lost; what it was done with
\* before it is done with still.
LEMMA VisitStep ==
  ASSUME Inv, Stored,
         NEW n \in 1 .. Len(Slices), n = visited + 1,
         \A a \in Archs : Done(a) => Done(a)',
         Done(Slices[n])',
         \A a \in Archs : a # Slices[n] => embedded'[a] = embedded[a]
  PROVE  VisitInv'
<1>1. \A i \in 1 .. n : Done(Slices[i])'
  <2>1. \A i \in 1 .. visited : Done(Slices[i])
    BY DEF Stored, Visit, Inv, VisitInv
  <2>2. \A i \in 1 .. n : i = n \/ i \in 1 .. visited
    BY DEF Inv, TypeOK
  <2> QED BY <2>1, <2>2, SlicesType
<1>2. ASSUME NEW h \in DOMAIN Slices, NEW i \in DOMAIN Slices,
             h < i, embedded'[Slices[i]] # Placeholder
      PROVE  Done(Slices[h])'
  <2>0. h \in 1 .. Len(Slices) /\ i \in 1 .. Len(Slices)
    BY SlicesType
  <2>1. CASE h \in 1 .. n
    BY <1>1, <2>1
  <2>2. CASE h \notin 1 .. n
    <3>1. n # i
      BY <1>2, <2>0, <2>2
    <3>2. Slices[i] # Slices[n]
      BY <2>0, <3>1, SlicesType, FipsAssumption
    <3>3. embedded[Slices[i]] # Placeholder
      BY <1>2, <2>0, <3>2, SlicesType
    <3>4. Done(Slices[h])
      BY <1>2, <3>3 DEF Inv, VisitInv
    <3> QED BY <2>0, <3>4, SlicesType
  <2> QED BY <2>1, <2>2
<1>3. phase' = "running" =>
        /\ visited' < Len(Slices)
        /\ \A i \in 1 .. visited' : Done(Slices[i])'
  <2>1. visited' = n /\ (phase' = "running" => n # Len(Slices))
    BY DEF Stored, Visit
  <2>2. n # Len(Slices) => n < Len(Slices)
    BY SlicesType
  <2> QED BY <1>1, <2>1, <2>2
<1>4. phase' = "stored" => \A i \in DOMAIN Slices : Done(Slices[i])'
  <2>1. phase' = "stored" => n = Len(Slices)
    BY DEF Stored, Visit
  <2> QED BY <1>1, <2>1, SlicesType
<1>5. \A h, i \in DOMAIN Slices :
        h < i /\ embedded'[Slices[i]] # Placeholder => Done(Slices[h])'
  BY <1>2
<1> QED BY <1>3, <1>4, <1>5 DEF VisitInv

\* fingerprint() returns 0, whether the fingerprint reaches the file or not.
LEMMA StoredInv ==
  ASSUME Inv, FingerprintSlice \/ FingerprintUnsynced
  PROVE  Inv'
<1>a. PICK n \in Int : n = visited + 1
  BY DEF Inv, TypeOK
<1> DEFINE s == Slices[n]
<1>0. Stored
  BY DEF FingerprintSlice, FingerprintUnsynced
<1>1. /\ phase = "running" /\ visited' = n /\ code' = code
      /\ phase' = IF n = Len(Slices) THEN "stored" ELSE phase
      /\ UNCHANGED <<processVars, moduleVars, databaseVars>>
  BY <1>0, <1>a DEF Stored, Visit
<1>2. n \in 1 .. Len(Slices) /\ s \in Archs
  <2>1. visited < Len(Slices)
    BY <1>1 DEF Inv, VisitInv
  <2>2. visited \in 0 .. Len(Slices)
    BY DEF Inv, TypeOK
  <2>3. n \in 1 .. Len(Slices)
    BY <1>a, <2>1, <2>2, SlicesType
  <2> QED BY <2>3, SlicesType
<1>3. Computed(s) \in Embedded \ {Placeholder}
  BY <1>2, ComputedType DEF Inv
<1>4. /\ embedded' \in [Archs -> Embedded]
      /\ lost' \subseteq Archs
      /\ \A a \in Archs : a # s => embedded'[a] = embedded[a]
      /\ embedded'[s] \in {embedded[s], Computed(s)}
      /\ Done(s)'
      /\ \A a \in Archs : Done(a) => Done(a)'
  <2>1. CASE FingerprintSlice
    <3>1. /\ embedded' = [embedded EXCEPT ![s] = Computed(s)]
          /\ lost' = lost \ {s}
      BY <1>1, <2>1 DEF FingerprintSlice
    <3>2. \A a \in Archs :
            embedded'[a] = IF a = s THEN Computed(s) ELSE embedded[a]
      BY <3>1 DEF Inv, TypeOK
    <3>3. embedded' \in [Archs -> Embedded] /\ lost' \subseteq Archs
      BY <1>2, <1>3, <3>1 DEF Inv, TypeOK
    <3>4. embedded'[s] = Computed(s) /\ Done(s)'
      BY <1>2, <1>3, <3>2 DEF Done
    <3>5. \A a \in Archs : Done(a) => Done(a)'
      BY <3>1, <3>2, <3>4 DEF Done
    <3> QED BY <1>2, <3>2, <3>3, <3>4, <3>5
  <2>2. CASE FingerprintUnsynced
    <3>1. embedded' = embedded /\ lost' = lost \cup {s}
      BY <1>1, <2>2 DEF FingerprintUnsynced
    <3>2. embedded \in [Archs -> Embedded] /\ lost \subseteq Archs
      BY DEF Inv, TypeOK
    <3> QED BY <1>2, <3>1, <3>2 DEF Done
  <2> QED BY <2>1, <2>2
<1>5. TypeOK' /\ ProcessInv'
  <2>1. code' \in Builds \cup {0} /\ visited' \in 0 .. Len(Slices)
    BY <1>1, <1>2 DEF Inv, TypeOK
  <2>2. phase' \in {"none", "running", "stored", "failed"}
    BY <1>1
  <2> QED BY <1>1, <1>4, <2>1, <2>2, FileFrame
<1>6. EmbeddedInv'
  BY <1>1, <1>2, <1>4 DEF Inv, EmbeddedInv, Computed
<1>7. VisitInv'
  BY <1>a, <1>0, <1>2, <1>4, VisitStep
<1> QED BY <1>5, <1>6, <1>7 DEF Inv

\* The build phase.
LEMMA FileInv ==
  ASSUME Inv,
         Build \/ EmbedFingerprint \/ LoadFails \/ FingerprintFails \/ VerifyOnly
  PROVE  Inv'
<1>1. CASE Build
  <2>1. /\ code' \in Builds \cup {0} /\ visited' = visited /\ lost' = {}
        /\ embedded' = [a \in Archs |-> Placeholder] /\ phase' = "none"
    BY <1>1, FipsAssumption DEF Build, Inv, TypeOK, Builds
  <2>2. TypeOK' /\ ProcessInv'
    BY <1>1, <2>1, FileFrame DEF Build, Inv, TypeOK, Embedded
  <2>3. EmbeddedInv' /\ VisitInv'
    BY <2>1, SlicesType DEF EmbeddedInv, VisitInv
  <2> QED BY <2>2, <2>3 DEF Inv
<1>2. CASE EmbedFingerprint
  <2>0. Len(Slices) # 0
    BY <1>2, FipsAssumption DEF EmbedFingerprint
  <2>1. TypeOK' /\ ProcessInv'
    BY <1>2, SlicesType, FileFrame DEF EmbedFingerprint, Inv, TypeOK
  <2>2. EmbeddedInv'
    BY <1>2 DEF EmbedFingerprint, Inv, EmbeddedInv, Computed
  <2>3. VisitInv'
    BY <1>2, <2>0, SlicesType DEF EmbedFingerprint, Inv, VisitInv, Done
  <2> QED BY <2>1, <2>2, <2>3 DEF Inv
<1>3. CASE LoadFails
  <2>1. TypeOK' /\ ProcessInv'
    BY <1>3, FileFrame DEF LoadFails, Inv, TypeOK
  <2>2. EmbeddedInv' /\ VisitInv'
    BY <1>3 DEF LoadFails, Inv, EmbeddedInv, VisitInv, Done, Computed
  <2> QED BY <2>1, <2>2 DEF Inv
<1>4. CASE FingerprintFails
  <2>1. visited' \in 0 .. Len(Slices)
    BY <1>4, SlicesType DEF FingerprintFails, Visit, Inv, TypeOK, VisitInv
  <2>2. TypeOK' /\ ProcessInv'
    BY <1>4, <2>1, FileFrame DEF FingerprintFails, Inv, TypeOK
  <2>3. EmbeddedInv' /\ VisitInv'
    BY <1>4 DEF FingerprintFails, Inv, EmbeddedInv, VisitInv, Done, Computed
  <2> QED BY <2>2, <2>3 DEF Inv
<1>5. CASE VerifyOnly
  <2>1. TypeOK' /\ ProcessInv'
    BY <1>5, FileFrame DEF VerifyOnly, Inv, TypeOK
  <2>2. EmbeddedInv'
    BY <1>5 DEF VerifyOnly, Inv, EmbeddedInv, Computed
  <2>3. phase' = "stored" => \A i \in DOMAIN Slices : Done(Slices[i])
    <3> SUFFICES ASSUME phase' = "stored", NEW i \in DOMAIN Slices
                 PROVE  Done(Slices[i])
      OBVIOUS
    <3> DEFINE last == Slices[Len(Slices)]
    <3>1. Len(Slices) \in DOMAIN Slices /\ last \in Archs
      BY SlicesType
    <3>2. embedded[last] # Placeholder
      BY <1>5, <3>1, ComputedType DEF VerifyOnly, Inv
    <3>3. i = Len(Slices) \/ i < Len(Slices)
      BY SlicesType
    <3> QED BY <3>1, <3>2, <3>3 DEF Inv, VisitInv, Done
  <2>4. VisitInv'
    BY <1>5, <2>3 DEF VerifyOnly, Inv, VisitInv, Done
  <2> QED BY <2>1, <2>2, <2>4 DEF Inv
<1> QED BY <1>1, <1>2, <1>3, <1>4, <1>5

\* The process starts with the signature of the slice it runs.
LEMMA LaunchInv ==
  ASSUME Inv, NEW a \in Archs, Launch(a)
  PROVE  Inv'
<1> USE DEF Launch
<1>1. EmbeddedInv' /\ VisitInv'
  BY ProcessFrame
<1>2. embedded[a] = Computed(a) /\ code \in Nat \ {0} /\ code \in Builds
  BY FipsAssumption DEF Inv, EmbeddedInv, TypeOK, Builds
<1>3. signature' = IF a \in Misadjusted THEN Wrong ELSE code
  BY <1>2 DEF Computed
<1>4. TypeOK'
  BY <1>2, <1>3, FipsAssumption
     DEF Inv, TypeOK, fileVars, databaseVars, Signatures
<1>5. ProcessInv'
  BY <1>2, <1>3, FipsAssumption DEF Inv, ProcessInv, SignatureIsOwn
<1> QED BY <1>1, <1>4, <1>5 DEF Inv

\* The routines, the plugin and the end of the process.
LEMMA ProcessStepInv ==
  ASSUME Inv,
         \/ Exit \/ FIPS_turnOn \/ FIPS_flip
         \/ \E d \in Databases : \/ OpenDatabase(d) \/ OpenWithoutStatus(d)
                                 \/ CloseDatabase(d) \/ DeleteDatabase(d)
                                 \/ ExecuteSql(d)
  PROVE  Inv'
<1>1. CASE Exit
  <2>1. EmbeddedInv' /\ VisitInv'
    BY <1>1, ProcessFrame DEF Exit
  <2>2. TypeOK' /\ ProcessInv'
    BY <1>1 DEF Exit, Inv, TypeOK, ProcessInv, SignatureIsOwn, fileVars, Signatures
  <2> QED BY <2>1, <2>2 DEF Inv
<1>2. CASE FIPS_turnOn \/ FIPS_flip
  <2>1. /\ running # "none" /\ UNCHANGED <<fileVars, processVars, signature, databaseVars>>
        /\ EnterFIPSMode \/ LeaveFIPSMode \/ UNCHANGED <<mode, selftestFail>>
    BY <1>2 DEF FIPS_turnOn, FIPS_flip
  <2>2. EmbeddedInv' /\ VisitInv'
    BY <2>1, ProcessFrame
  <2>3. TypeOK' /\ ProcessInv'
    BY <2>1, ModeSet
       DEF Inv, TypeOK, ProcessInv, SignatureIsOwn, fileVars, processVars,
           databaseVars
  <2> QED BY <2>2, <2>3 DEF Inv
<1>3. ASSUME NEW d \in Databases, OpenDatabase(d) \/ OpenWithoutStatus(d)
      PROVE  Inv'
  <2>1. /\ running # "none" /\ EnterFIPSMode
        /\ UNCHANGED <<fileVars, processVars, signature, filled>>
        /\ openDBs' \subseteq Databases /\ status' \in {"none", "off", "on"}
    BY <1>3 DEF OpenDatabase, OpenWithoutStatus, Status, Inv, TypeOK
  <2>2. EmbeddedInv' /\ VisitInv'
    BY <2>1, ProcessFrame
  <2>3. TypeOK' /\ ProcessInv'
    BY <2>1, ModeSet
       DEF Inv, TypeOK, ProcessInv, SignatureIsOwn, fileVars, processVars
  <2> QED BY <2>2, <2>3 DEF Inv
<1>4. ASSUME NEW d \in Databases,
             CloseDatabase(d) \/ DeleteDatabase(d) \/ ExecuteSql(d)
      PROVE  Inv'
  <2>1. /\ UNCHANGED <<fileVars, processVars, moduleVars, status>>
        /\ openDBs' \subseteq Databases /\ filled' \subseteq Databases
    BY <1>4 DEF CloseDatabase, DeleteDatabase, ExecuteSql, Inv, TypeOK
  <2>2. EmbeddedInv' /\ VisitInv'
    BY <2>1, ProcessFrame
  <2>3. TypeOK' /\ ProcessInv'
    BY <2>1 DEF Inv, TypeOK, ProcessInv, SignatureIsOwn, fileVars, processVars,
                moduleVars
  <2> QED BY <2>2, <2>3 DEF Inv
<1> QED BY <1>1, <1>2, <1>3, <1>4

LEMMA StepInv == Inv /\ [Next]_vars => Inv'
<1> SUFFICES ASSUME Inv, [Next]_vars PROVE Inv'
  OBVIOUS
<1>1. CASE Build \/ EmbedFingerprint \/ LoadFails \/ FingerprintFails \/ VerifyOnly
  BY <1>1, FileInv
<1>2. CASE FingerprintSlice \/ FingerprintUnsynced
  BY <1>2, StoredInv
<1>3. CASE \E a \in Archs : Launch(a)
  BY <1>3, LaunchInv
<1>4. CASE \/ Exit \/ FIPS_turnOn \/ FIPS_flip
           \/ \E d \in Databases : \/ OpenDatabase(d) \/ OpenWithoutStatus(d)
                                   \/ CloseDatabase(d) \/ DeleteDatabase(d)
                                   \/ ExecuteSql(d)
  BY <1>4, ProcessStepInv
<1>5. CASE UNCHANGED vars
  <2>1. EmbeddedInv' /\ VisitInv'
    BY <1>5, ProcessFrame DEF vars
  <2>2. TypeOK' /\ ProcessInv'
    BY <1>5 DEF vars, fileVars, processVars, moduleVars, databaseVars, Inv,
                TypeOK, ProcessInv, SignatureIsOwn
  <2> QED BY <2>1, <2>2 DEF Inv
<1> QED BY <1>1, <1>2, <1>3, <1>4, <1>5 DEF Next

LEMMA Invariance == Spec => []Inv
<1> QED BY InitInv, StepInv, PTL DEF Spec

-----------------------------------------------------------------------------
(***************************************************************************)
(* The theorems.                                                           *)
(***************************************************************************)

\* Every variable keeps its type: incore_macho never goes past the last slice.
THEOREM TypeCorrect == Spec => []TypeOK
<1>1. Inv => TypeOK
  BY DEF Inv
<1> QED BY <1>1, Invariance, PTL

\* Whatever number of slices and of runs of the tool that failed before: when
\* make_fingerprint ends well, every slice load_file listed has the fingerprint of
\* this build, but for those whose msync failed.
THEOREM ListedSlicesComplete == Spec => []ListedSlicesFingerprinted
<1>1. Inv => ListedSlicesFingerprinted
  <2> SUFFICES ASSUME Inv, phase = "stored", NEW a \in Range(Slices)
               PROVE  embedded[a] = Computed(a) \/ a \in lost
    BY DEF ListedSlicesFingerprinted
  <2>1. PICK i \in DOMAIN Slices : a = Slices[i]
    BY SlicesType
  <2>2. Done(a)
    BY <2>1 DEF Inv, VisitInv
  <2> QED BY <2>2 DEF Archs, Inv, EmbeddedInv, Done
<1> QED BY <1>1, Invariance, PTL

\* Whatever load_file left out, msync lost or the tool failed on: a process that
\* gets past the constructor has the signature of its own slice and build.
THEOREM SignatureOwn == Spec => []SignatureIsOwn
<1>1. Inv => SignatureIsOwn
  BY DEF Inv, ProcessInv
<1> QED BY <1>1, Invariance, PTL

\* FIPS mode is on only in a process that runs a build with the signature of
\* its slice, in an architecture that cpu_adjustment has right.
THEOREM ModeVerified == Spec => []ModeIsVerified
<1>1. Inv => ModeIsVerified
  BY FipsAssumption DEF Inv, TypeOK, ProcessInv, SignatureIsOwn, ModeIsVerified,
                         Wrong, Builds
<1> QED BY <1>1, Invariance, PTL

\* FIPSStatus 1 is told of a module that was verified just now and works, and of
\* no other.
THEOREM StatusTrue == Spec => StatusIsTrue
<1> DEFINE Told == \A d \in Databases :
             OpenDatabase(d) => (status' = "on" <=> mode' /\ ~selftestFail')
<1>1. Inv /\ [Next]_vars => [Told]_vars
  <2> SUFFICES ASSUME NEW d \in Databases, OpenDatabase(d), Inv
               PROVE  status' = "on" <=> mode' /\ ~selftestFail'
    OBVIOUS
  <2>1. status' = "on" <=> Entered
    BY DEF OpenDatabase, Status
  <2>2. Entered <=> ~selftestFail'
    BY DEF OpenDatabase, EnterFIPSMode, Entered
  <2>3. Entered => mode'
    BY DEF OpenDatabase, EnterFIPSMode
  <2> QED BY <2>1, <2>2, <2>3
<1> QED BY <1>1, Invariance, PTL DEF Spec, StatusIsTrue

\* FIPS_turnOn and FIPS_flip, called in any state, never make the module refuse.
THEOREM RoutinesHarmless == Spec => RoutinesKeepModuleWorking
<1> DEFINE Harmless == (FIPS_turnOn \/ FIPS_flip) /\ Refuses' => Refuses
<1>1. Inv /\ [Next]_vars => [Harmless]_vars
  <2> SUFFICES ASSUME Inv, FIPS_turnOn \/ FIPS_flip, Refuses'
               PROVE  Refuses
    OBVIOUS
  <2>1. ~ EnterFIPSMode \/ mode
    BY DEF EnterFIPSMode, Refuses, Inv, TypeOK
  <2>2. ~ LeaveFIPSMode
    BY DEF LeaveFIPSMode, Refuses
  <2> QED BY <2>1, <2>2 DEF FIPS_turnOn, FIPS_flip, Refuses
<1> QED BY <1>1, Invariance, PTL DEF Spec, RoutinesKeepModuleWorking
==============================================================================
