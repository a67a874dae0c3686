------------------------ MODULE DataDirectoryProofs ------------------------
(***************************************************************************)
(* The keys of the data directory, for every number of helpers, keys and   *)
(* faults: one correlation key until a purge, and one data key that        *)
(* everything stored can be read with.                                     *)
(***************************************************************************)
EXTENDS DataDirectory, TLAPS

USE DirectoryAssumption

-----------------------------------------------------------------------------
(* What the conjuncts of the invariant depend on *)

\* The data keys are untouched by whoever only looks for the correlation key.
LEMMA DataKeysRest ==
  ASSUME IInv, NEW p \in Procs, NEW step, step \notin {"serving", "mint"},
         Goes(p, step), UNCHANGED <<cipher, keyring, sealed, erased>>
  PROVE  ServingHasKey' /\ OneDataKey'
<1>1. \A q \in {App, Cli} : at'[q] \in {"serving", "mint"} => at'[q] = at[q]
  BY DEF IInv, TypeOK, Goes, Procs
<1>2. ServingHasKey'
  BY <1>1 DEF IInv, ServingHasKey
<1>3. OneDataKey'
  BY <1>1 DEF IInv, OneDataKey
<1>4. QED
  BY <1>2, <1>3

\* The correlation key is untouched by whoever is after the data key.
LEMMA CorrelationKeyRests ==
  ASSUME IInv, UNCHANGED <<held, keyFile, refs, swept>>
  PROVE  OneCorrelationKey'
  BY DEF IInv, OneCorrelationKey

-----------------------------------------------------------------------------
(* Starts, and the correlation key *)

LEMMA HelperStartsKeeps ==
  ASSUME IInv, NEW h \in Helpers, HelperStarts(h)
  PROVE  IInv'
<1>1. TypeOK' /\ SweepIsKnown'
  BY DEF IInv, TypeOK, SweepIsKnown, HelperStarts, Goes, Procs
<1>2. ServingHasKey' /\ OneDataKey'
  BY DataKeysRest DEF HelperStarts, Procs
<1>3. OneCorrelationKey'
  BY CorrelationKeyRests DEF HelperStarts
<1>4. QED
  BY <1>1, <1>2, <1>3 DEF IInv

LEMMA StartsKeeps ==
  ASSUME IInv, NEW p \in {App, Cli}, Starts(p) \/ OpenDatabase(p)
  PROVE  IInv'
<1>1. TypeOK' /\ SweepIsKnown'
  BY DEF IInv, TypeOK, SweepIsKnown, Starts, OpenDatabase, MakesDirectory, Migrates, Goes, Procs
<1>2. ServingHasKey' /\ OneDataKey'
  BY DataKeysRest DEF Starts, OpenDatabase, Procs
<1>3. OneCorrelationKey'
  BY CorrelationKeyRests DEF Starts, OpenDatabase
<1>4. QED
  BY <1>1, <1>2, <1>3 DEF IInv

\* Where a process goes on after the correlation key, it neither serves nor makes
\* a data key yet.
LEMMA AfterKey ==
  ASSUME NEW p
  PROVE  WithKey(p) \in {"load", "file"} /\ WithoutKey(p) \in {"off", "file"}
  BY DEF WithKey, WithoutKey

LEMMA ReadKeyKeeps ==
  ASSUME IInv, NEW p \in Helpers \cup {App}, ReadKey(p)
  PROVE  IInv'
<1>1. PICK step \in {"harden", "link", "off", "file"} : Goes(p, step)
  BY AfterKey DEF ReadKey
<1>2. p \in Procs /\ KeyRead \in Keys \cup {NoKey} /\ held' = [held EXCEPT ![p] = KeyRead]
  BY DEF Procs, KeyRead, ReadKey
<1>3. TypeOK' /\ SweepIsKnown'
  BY <1>1, <1>2 DEF IInv, TypeOK, SweepIsKnown, ReadKey, MakesDirectory, Goes
<1>4. ServingHasKey' /\ OneDataKey'
  BY <1>1, <1>2, DataKeysRest DEF ReadKey
<1>5. OneCorrelationKey'
  BY <1>2 DEF IInv, TypeOK, OneCorrelationKey, ReadKey, KeyRead
<1>6. QED
  BY <1>3, <1>4, <1>5 DEF IInv

\* Opening a file that is gone makes an empty one: by then the purge has begun, or
\* nobody holds a key and no reference is stored.
LEMMA HardenKeeps ==
  ASSUME IInv, NEW p \in Helpers \cup {App}, Harden(p)
  PROVE  IInv'
<1>1. PICK step \in {"load", "off", "file"} : Goes(p, step)
  BY AfterKey DEF Harden
<1>2. p \in Procs
  BY DEF Procs
<1>3. TypeOK' /\ SweepIsKnown'
  BY <1>1, <1>2 DEF IInv, TypeOK, SweepIsKnown, Harden, OpenedKeyFile, Goes
<1>4. ServingHasKey' /\ OneDataKey'
  BY <1>1, <1>2, DataKeysRest DEF Harden
<1>5. OneCorrelationKey'
  BY <1>2 DEF IInv, TypeOK, OneCorrelationKey, Harden, OpenedKeyFile
<1>6. QED
  BY <1>3, <1>4, <1>5 DEF IInv

\* The name is taken only while it is free: nobody holds another key then.
LEMMA LinkKeeps ==
  ASSUME IInv, NEW p \in Helpers \cup {App}, Link(p)
  PROVE  IInv'
<1>1. PICK step \in {"load", "again", "file"} : Goes(p, step)
  BY AfterKey DEF Link
<1>2. p \in Procs
  BY DEF Procs
<1>3. TypeOK' /\ SweepIsKnown'
  BY <1>1, <1>2 DEF IInv, TypeOK, SweepIsKnown, Link, Goes
<1>4. ServingHasKey' /\ OneDataKey'
  BY <1>1, <1>2, DataKeysRest DEF Link
<1>5. OneCorrelationKey'
  BY <1>2 DEF IInv, TypeOK, OneCorrelationKey, Link
<1>6. QED
  BY <1>3, <1>4, <1>5 DEF IInv

LEMMA ReadAgainKeeps ==
  ASSUME IInv, NEW p \in Helpers \cup {App}, ReadAgain(p)
  PROVE  IInv'
<1>1. PICK step \in {"load", "off", "file"} : Goes(p, step)
  BY AfterKey DEF ReadAgain
<1>2. p \in Procs /\ KeyRead \in Keys \cup {NoKey} /\ held' = [held EXCEPT ![p] = KeyRead]
  BY DEF Procs, KeyRead, ReadAgain
<1>3. TypeOK' /\ SweepIsKnown'
  BY <1>1, <1>2 DEF IInv, TypeOK, SweepIsKnown, ReadAgain, Goes
<1>4. ServingHasKey' /\ OneDataKey'
  BY <1>1, <1>2, DataKeysRest DEF ReadAgain
<1>5. OneCorrelationKey'
  BY <1>2 DEF IInv, TypeOK, OneCorrelationKey, ReadAgain, KeyRead
<1>6. QED
  BY <1>3, <1>4, <1>5 DEF IInv

LEMMA KeyFailsKeeps ==
  ASSUME IInv, NEW p \in Helpers \cup {App}, KeyFails(p)
  PROVE  IInv'
<1>1. PICK step \in {"again", "off", "file"} : Goes(p, step)
  BY AfterKey DEF KeyFails
<1>2. p \in Procs
  BY DEF Procs
<1>3. TypeOK' /\ SweepIsKnown'
  BY <1>1, <1>2 DEF IInv, TypeOK, SweepIsKnown, KeyFails, Goes
<1>4. ServingHasKey' /\ OneDataKey'
  BY <1>1, <1>2, DataKeysRest DEF KeyFails
<1>5. OneCorrelationKey'
  BY <1>2 DEF IInv, TypeOK, OneCorrelationKey, KeyFails
<1>6. QED
  BY <1>3, <1>4, <1>5 DEF IInv

LEMMA HelperFilesKeeps ==
  ASSUME IInv, NEW h \in Helpers, HelperFiles(h)
  PROVE  IInv'
<1>1. h \in Procs /\ Goes(h, "off")
  BY DEF Procs, HelperFiles
<1>2. TypeOK' /\ SweepIsKnown'
  BY <1>1 DEF IInv, TypeOK, SweepIsKnown, HelperFiles, MakesDirectory, Goes
<1>3. ServingHasKey' /\ OneDataKey'
  BY <1>1, DataKeysRest DEF HelperFiles
<1>4. OneCorrelationKey'
  BY <1>1 DEF IInv, TypeOK, OneCorrelationKey, HelperFiles
<1>5. QED
  BY <1>2, <1>3, <1>4 DEF IInv

-----------------------------------------------------------------------------
(* The data key *)

LEMMA LoadDataKeyKeeps ==
  ASSUME IInv, NEW p \in {App, Cli}, LoadDataKey(p)
  PROVE  IInv'
<1>1. p \in Procs
  BY DEF Procs
<1>2. TypeOK' /\ SweepIsKnown'
  BY <1>1 DEF IInv, TypeOK, SweepIsKnown, LoadDataKey, Loaded, Goes
<1>3. ServingHasKey'
  BY <1>1 DEF IInv, TypeOK, ServingHasKey, LoadDataKey, Loaded, Goes, Procs
<1>4. OneDataKey'
  BY <1>1 DEF IInv, TypeOK, OneDataKey, LoadDataKey, Loaded, Goes, Procs
<1>5. OneCorrelationKey'
  BY CorrelationKeyRests DEF LoadDataKey
<1>6. QED
  BY <1>2, <1>3, <1>4, <1>5 DEF IInv

LEMMA DataKeyFailsKeeps ==
  ASSUME IInv, NEW p \in {App, Cli}, DataKeyFails(p)
  PROVE  IInv'
<1>1. PICK step \in {"mute", "off"} : Goes(p, step)
  BY DEF DataKeyFails
<1>2. p \in Procs
  BY DEF Procs
<1>3. TypeOK' /\ SweepIsKnown'
  BY <1>1, <1>2 DEF IInv, TypeOK, SweepIsKnown, DataKeyFails, Goes
<1>4. ServingHasKey' /\ OneDataKey'
  BY <1>1, <1>2, DataKeysRest DEF DataKeyFails
<1>5. OneCorrelationKey'
  BY CorrelationKeyRests DEF DataKeyFails
<1>6. QED
  BY <1>3, <1>4, <1>5 DEF IInv

\* Whoever makes the data key found none in the keyring, so nothing is encrypted
\* with another and nobody has one, unless two make one each.
LEMMA StoreDataKeyKeeps ==
  ASSUME IInv, NEW p \in {App, Cli}, StoreDataKey(p)
  PROVE  IInv'
<1>1. PICK k \in Keys \ minted :
        minted' = minted \cup {k} /\ keyring' = k /\ Loaded(p, k)
  BY DEF StoreDataKey
<1>2. p \in Procs /\ at[p] = "mint"
  BY DEF Procs, StoreDataKey
<1>3. TypeOK' /\ SweepIsKnown'
  BY <1>1, <1>2 DEF IInv, TypeOK, SweepIsKnown, StoreDataKey, Loaded, Goes
<1>4. ServingHasKey'
  BY <1>1, <1>2 DEF IInv, TypeOK, ServingHasKey, Loaded, Goes, Procs
<1>5. OneDataKey'
  <2>1. SUFFICES ASSUME ~erased'
                 PROVE  OneDataKey'
    BY DEF OneDataKey
  <2>2. ~erased /\ \A q \in {App, Cli} \ {p} : at[q] # "mint"
    BY <2>1 DEF StoreDataKey
  <2>3. keyring = NoKey
    BY <1>2, <2>2 DEF IInv, OneDataKey
  <2>4. sealed' = {}
    BY <2>2, <2>3 DEF IInv, TypeOK, OneDataKey, StoreDataKey
  <2>5. \A q \in Procs : cipher'[q] \in {NoKey, keyring'}
    BY <1>1, <1>2, <2>2, <2>3 DEF IInv, TypeOK, OneDataKey, Loaded
  <2>6. \A q \in {App, Cli} : at'[q] # "mint"
    BY <1>1, <1>2, <2>2 DEF IInv, TypeOK, Loaded, Goes, Procs
  <2>7. QED
    BY <2>4, <2>5, <2>6 DEF OneDataKey
<1>6. OneCorrelationKey'
  BY CorrelationKeyRests DEF StoreDataKey
<1>7. QED
  BY <1>3, <1>4, <1>5, <1>6 DEF IInv

LEMMA StoreKeeps ==
  ASSUME IInv, NEW p \in {App, Cli}, Store(p)
  PROVE  IInv'
<1>1. p \in Procs /\ cipher[p] \in Keys
  BY DEF IInv, TypeOK, ServingHasKey, Store, Procs
<1>2. TypeOK' /\ SweepIsKnown'
  BY <1>1 DEF IInv, TypeOK, SweepIsKnown, Store, Seals, Goes
<1>3. ServingHasKey'
  BY <1>1 DEF IInv, TypeOK, ServingHasKey, Store, Goes, Procs
<1>4. OneDataKey'
  BY <1>1 DEF IInv, TypeOK, OneDataKey, Store, Seals, Goes, Procs
<1>5. OneCorrelationKey'
  BY <1>1 DEF IInv, TypeOK, OneCorrelationKey, Store
<1>6. QED
  BY <1>2, <1>3, <1>4, <1>5 DEF IInv

LEMMA EraseKeyringKeeps ==
  ASSUME IInv, EraseKeyring
  PROVE  IInv'
  BY CorrelationKeyRests
     DEF IInv, TypeOK, ServingHasKey, SweepIsKnown, OneDataKey, EraseKeyring

-----------------------------------------------------------------------------
(* The ends, and the purge *)

LEMMA StopsKeeps ==
  ASSUME IInv, RequestPurge \/ Quit
  PROVE  IInv'
<1>1. App \in Procs /\ Goes(App, "draining")
  BY DEF Procs, RequestPurge, Quit
<1>2. TypeOK' /\ SweepIsKnown'
  BY <1>1 DEF IInv, TypeOK, SweepIsKnown, RequestPurge, Quit, Goes
<1>3. ServingHasKey' /\ OneDataKey'
  BY <1>1, DataKeysRest DEF RequestPurge, Quit
<1>4. OneCorrelationKey'
  BY CorrelationKeyRests DEF RequestPurge, Quit
<1>5. QED
  BY <1>2, <1>3, <1>4 DEF IInv

\* A process that is over holds no key.
LEMMA EndedKeeps ==
  ASSUME IInv, NEW p \in Procs, Exits(p) \/ Killed(p)
  PROVE  IInv'
<1>1. /\ at' = [at EXCEPT ![p] = "off"]
      /\ held' = [held EXCEPT ![p] = NoKey] /\ cipher' = [cipher EXCEPT ![p] = NoKey]
  BY DEF Exits, Killed, Ended, Goes
<1>2. UNCHANGED <<there, keyFile, schema, refs, keyring, sealed, minted, purge, swept, erased>>
  BY DEF Exits, Killed
<1>3. TypeOK' /\ SweepIsKnown'
  BY <1>1, <1>2 DEF IInv, TypeOK, SweepIsKnown
<1>4. ServingHasKey'
  BY <1>1 DEF IInv, TypeOK, ServingHasKey, Procs
<1>5. OneDataKey'
  BY <1>1, <1>2 DEF IInv, TypeOK, OneDataKey, Procs
<1>6. OneCorrelationKey'
  BY <1>1, <1>2 DEF IInv, TypeOK, OneCorrelationKey
<1>7. QED
  BY <1>3, <1>4, <1>5, <1>6 DEF IInv

LEMMA SweepKeeps ==
  ASSUME IInv, SweepBegins \/ SweepKey \/ SweepData \/ SweepEnds
  PROVE  IInv'
<1>1. swept'
  BY DEF IInv, SweepIsKnown, SweepBegins, SweepKey, SweepData, SweepEnds
<1>2. TypeOK'
  BY DEF IInv, TypeOK, SweepBegins, SweepKey, SweepData, SweepEnds
<1>3. ServingHasKey'
  BY DEF IInv, ServingHasKey, SweepBegins, SweepKey, SweepData, SweepEnds
<1>4. OneDataKey'
  BY DEF IInv, OneDataKey, SweepBegins, SweepKey, SweepData, SweepEnds
<1>5. QED
  BY <1>1, <1>2, <1>3, <1>4 DEF IInv, SweepIsKnown, OneCorrelationKey

-----------------------------------------------------------------------------
(* The theorems *)

\* Every step of a helper, the application, the command line, the user or the
\* deletion keeps the keys as the invariant says.
THEOREM DirectoryInvariant == Spec => []IInv
<1>1. Init => IInv
  BY DEF Init, IInv, TypeOK, ServingHasKey, SweepIsKnown, OneDataKey, OneCorrelationKey, Procs
<1>2. IInv /\ [Next]_vars => IInv'
  <2>1. SUFFICES ASSUME IInv, [Next]_vars
                 PROVE  IInv'
    OBVIOUS
  <2>2. CASE \E h \in Helpers : HelperStarts(h) \/ HelperFiles(h)
    BY <2>1, <2>2, HelperStartsKeeps, HelperFilesKeeps
  <2>3. CASE \E p \in {App, Cli} : Starts(p) \/ OpenDatabase(p)
    BY <2>1, <2>3, StartsKeeps
  <2>4. CASE \E p \in {App, Cli} : LoadDataKey(p) \/ DataKeyFails(p) \/ StoreDataKey(p) \/ Store(p)
    BY <2>1, <2>4, LoadDataKeyKeeps, DataKeyFailsKeeps, StoreDataKeyKeeps, StoreKeeps
  <2>5. CASE \E p \in {App, Cli} : Exits(p)
    BY <2>1, <2>5, EndedKeeps DEF Procs
  <2>6. CASE \E p \in Helpers \cup {App} : ReadKey(p) \/ Harden(p) \/ Link(p) \/ ReadAgain(p) \/ KeyFails(p)
    BY <2>1, <2>6, ReadKeyKeeps, HardenKeeps, LinkKeeps, ReadAgainKeeps, KeyFailsKeeps
  <2>7. CASE \E p \in Procs : Killed(p)
    BY <2>1, <2>7, EndedKeeps
  <2>8. CASE EraseKeyring
    BY <2>1, <2>8, EraseKeyringKeeps
  <2>9. CASE RequestPurge \/ Quit
    BY <2>1, <2>9, StopsKeeps
  <2>10. CASE SweepBegins \/ SweepKey \/ SweepData \/ SweepEnds
    BY <2>1, <2>10, SweepKeeps
  <2>11. CASE UNCHANGED vars
    BY <2>1, <2>11
       DEF IInv, TypeOK, ServingHasKey, SweepIsKnown, OneDataKey, OneCorrelationKey, vars
  <2>12. QED
    BY <2>1, <2>2, <2>3, <2>4, <2>5, <2>6, <2>7, <2>8, <2>9, <2>10, <2>11 DEF Next
<1>3. QED
  BY <1>1, <1>2, PTL DEF Spec

\* Every variable has its type.
THEOREM TypeCorrect == Spec => []TypeOK
<1>1. IInv => TypeOK
  BY DEF IInv
<1>2. QED
  BY <1>1, DirectoryInvariant, PTL

\* Until the directory is purged every process has the one correlation key of the
\* file, and every reference stored was made with it (crypto.rs,
\* CorrelationKey::load_or_create), whoever comes first and whoever fails.
THEOREM ReferencesAgree == Spec => []OneCorrelationKey
<1>1. IInv => OneCorrelationKey
  BY DEF IInv
<1>2. QED
  BY <1>1, DirectoryInvariant, PTL

\* What is stored encrypted was encrypted with the keyring's key (crypto.rs,
\* FieldCipher::load_or_create), unless the user removed the entry or two
\* processes made one each.
THEOREM SealedIsReadable == Spec => []SealedStaysReadable
<1>1. IInv => SealedStaysReadable
  BY DEF IInv, OneDataKey, SealedStaysReadable
<1>2. QED
  BY <1>1, DirectoryInvariant, PTL
=============================================================================
