--------------------------- MODULE TlsSeedProofs ---------------------------
(***************************************************************************)
(* The rotating seed, for every number of starts, resets and card faults:  *)
(* a seed that has backed a TLS session never seeds the generator again,   *)
(* and on a working card no interruption destroys the last complete seed.  *)
(* SeedInv says, for each point of prepare(), which file holds which seed. *)
(***************************************************************************)
EXTENDS TlsSeed, TLAPS

\* Every step of prepare() keeps the types (a session draws from a seeded generator).
LEMMA NextTypes == ASSUME TypeOK, SeedInv, [Next]_vars PROVE TypeOK'
<1>1. CASE Enter
  BY <1>1, BoundAssumption DEF TypeOK, Files, Seeds, States, Absent, Torn, Enter, card, At
<1>2. CASE ReadSeed
  BY <1>2, BoundAssumption DEF TypeOK, Files, Seeds, States, Absent, Torn, ReadSeed, card, Fail
<1>3. CASE ReadSeedFails
  BY <1>3, BoundAssumption DEF TypeOK, Files, Seeds, States, Absent, Torn, ReadSeedFails,
     card, Fail, Fault
<1>4. CASE DrawNext
  BY <1>4, BoundAssumption DEF TypeOK, Files, Seeds, States, Absent, Torn, DrawNext, card, At
<1>5. CASE DrawFails
  BY <1>5, BoundAssumption DEF TypeOK, Files, Seeds, States, Absent, Torn, DrawFails, card, Fail
<1>6. CASE CleanTemp
  BY <1>6, BoundAssumption DEF TypeOK, Files, Seeds, States, Absent, Torn, CleanTemp, card, At
<1>7. CASE CreateTemp
  BY <1>7, BoundAssumption DEF TypeOK, Files, Seeds, States, Absent, Torn, CreateTemp, card, At
<1>8. CASE CreateTempFails
  BY <1>8, BoundAssumption DEF TypeOK, Files, Seeds, States, Absent, Torn, CreateTempFails,
     card, At, Fault
<1>9. CASE WriteTemp
  BY <1>9, BoundAssumption DEF TypeOK, Files, Seeds, States, Absent, Torn, WriteTemp, card, At
<1>10. CASE WriteTempFails
  BY <1>10, BoundAssumption DEF TypeOK, Files, Seeds, States, Absent, Torn, WriteTempFails,
     card, At, Fault
<1>11. CASE DiscardTemp
  BY <1>11, BoundAssumption DEF TypeOK, Files, Seeds, States, Absent, Torn, DiscardTemp, card,
     Fail
<1>12. CASE RemoveOld
  BY <1>12, BoundAssumption DEF TypeOK, Files, Seeds, States, Absent, Torn, RemoveOld, card, At
<1>13. CASE RemoveOldFails
  BY <1>13, BoundAssumption DEF TypeOK, Files, Seeds, States, Absent, Torn, RemoveOldFails,
     card, At, Fault
<1>14. CASE Rename
  BY <1>14, BoundAssumption DEF TypeOK, Files, Seeds, States, Absent, Torn, Rename, card, At
<1>15. CASE RenameFails
  BY <1>15, BoundAssumption DEF TypeOK, Files, Seeds, States, Absent, Torn, RenameFails, card,
     At, Fault
<1>16. CASE Recreate
  BY <1>16, BoundAssumption DEF TypeOK, Files, Seeds, States, Absent, Torn, Recreate, card, At
<1>17. CASE Rewrite
  BY <1>17, BoundAssumption DEF TypeOK, Files, Seeds, States, Absent, Torn, Rewrite, card, At
<1>18. CASE FallbackFails
  BY <1>18, BoundAssumption DEF TypeOK, Files, Seeds, States, Absent, Torn, FallbackFails,
     card, Fail, Fault
<1>19. CASE CleanupTemp
  BY <1>19, BoundAssumption DEF TypeOK, Files, Seeds, States, Absent, Torn, CleanupTemp, card,
     At
<1>20. CASE LoadBundle
  BY <1>20, BoundAssumption DEF TypeOK, Files, Seeds, States, Absent, Torn, LoadBundle, card, At
<1>21. CASE LoadBundleFails
  BY <1>21, BoundAssumption DEF TypeOK, Files, Seeds, States, Absent, Torn, LoadBundleFails,
     card, Fail
<1>22. CASE Session
  BY <1>22, BoundAssumption DEF TypeOK, Files, Seeds, States, Absent, Torn, SeedInv, Progress,
     Session, card, ram
<1>23. CASE Reset
  BY <1>23, BoundAssumption DEF TypeOK, Files, Seeds, States, Absent, Torn, Reset, card
<1>24. CASE UNCHANGED vars
  BY <1>24 DEF TypeOK, Files, Seeds, States, Absent, Torn, vars, card, ram
<1>25. QED
  BY <1>1, <1>2, <1>3, <1>4, <1>5, <1>6, <1>7, <1>8, <1>9, <1>10, <1>11, <1>12, <1>13, <1>14,
     <1>15, <1>16, <1>17, <1>18, <1>19, <1>20, <1>21, <1>22, <1>23, <1>24 DEF Next

\* Every step keeps used seeds off the card and moves the two files as its place in
\* prepare() says.
LEMMA NextSeedInv == ASSUME TypeOK, SeedInv, [Next]_vars PROVE SeedInv'
<1>1. CASE Enter
  BY <1>1, BoundAssumption DEF TypeOK, SeedInv, FilesFresh, Progress, SeedNeverLost, Files,
     Seeds, Absent, Torn, Enter, card, At
<1>2. CASE ReadSeed
  BY <1>2, BoundAssumption DEF TypeOK, SeedInv, FilesFresh, Progress, SeedNeverLost, Files,
     Seeds, Absent, Torn, ReadSeed, card, Fail
<1>3. CASE ReadSeedFails
  BY <1>3, BoundAssumption DEF TypeOK, SeedInv, FilesFresh, Progress, SeedNeverLost, Files,
     Seeds, Absent, Torn, ReadSeedFails, card, Fail, Fault
<1>4. CASE DrawNext
  BY <1>4, BoundAssumption DEF TypeOK, SeedInv, FilesFresh, Progress, SeedNeverLost, Files,
     Seeds, Absent, Torn, DrawNext, card, At
<1>5. CASE DrawFails
  BY <1>5, BoundAssumption DEF TypeOK, SeedInv, FilesFresh, Progress, SeedNeverLost, Files,
     Seeds, Absent, Torn, DrawFails, card, Fail
<1>6. CASE CleanTemp
  BY <1>6, BoundAssumption DEF TypeOK, SeedInv, FilesFresh, Progress, SeedNeverLost, Files,
     Seeds, Absent, Torn, CleanTemp, card, At
<1>7. CASE CreateTemp
  BY <1>7, BoundAssumption DEF TypeOK, SeedInv, FilesFresh, Progress, SeedNeverLost, Files,
     Seeds, Absent, Torn, CreateTemp, card, At
<1>8. CASE CreateTempFails
  BY <1>8, BoundAssumption DEF TypeOK, SeedInv, FilesFresh, Progress, SeedNeverLost, Files,
     Seeds, Absent, Torn, CreateTempFails, card, At, Fault
<1>9. CASE WriteTemp
  BY <1>9, BoundAssumption DEF TypeOK, SeedInv, FilesFresh, Progress, SeedNeverLost, Files,
     Seeds, Absent, Torn, WriteTemp, card, At
<1>10. CASE WriteTempFails
  BY <1>10, BoundAssumption DEF TypeOK, SeedInv, FilesFresh, Progress, SeedNeverLost, Files,
     Seeds, Absent, Torn, WriteTempFails, card, At, Fault
<1>11. CASE DiscardTemp
  BY <1>11, BoundAssumption DEF TypeOK, SeedInv, FilesFresh, Progress, SeedNeverLost, Files,
     Seeds, Absent, Torn, DiscardTemp, card, Fail
<1>12. CASE RemoveOld
  BY <1>12, BoundAssumption DEF TypeOK, SeedInv, FilesFresh, Progress, SeedNeverLost, Files,
     Seeds, Absent, Torn, RemoveOld, card, At
<1>13. CASE RemoveOldFails
  BY <1>13, BoundAssumption DEF TypeOK, SeedInv, FilesFresh, Progress, SeedNeverLost, Files,
     Seeds, Absent, Torn, RemoveOldFails, card, At, Fault
<1>14. CASE Rename
  BY <1>14, BoundAssumption DEF TypeOK, SeedInv, FilesFresh, Progress, SeedNeverLost, Files,
     Seeds, Absent, Torn, Rename, card, At
<1>15. CASE RenameFails
  BY <1>15, BoundAssumption DEF TypeOK, SeedInv, FilesFresh, Progress, SeedNeverLost, Files,
     Seeds, Absent, Torn, RenameFails, card, At, Fault
<1>16. CASE Recreate
  BY <1>16, BoundAssumption DEF TypeOK, SeedInv, FilesFresh, Progress, SeedNeverLost, Files,
     Seeds, Absent, Torn, Recreate, card, At
<1>17. CASE Rewrite
  BY <1>17, BoundAssumption DEF TypeOK, SeedInv, FilesFresh, Progress, SeedNeverLost, Files,
     Seeds, Absent, Torn, Rewrite, card, At
<1>18. CASE FallbackFails
  BY <1>18, BoundAssumption DEF TypeOK, SeedInv, FilesFresh, Progress, SeedNeverLost, Files,
     Seeds, Absent, Torn, FallbackFails, card, Fail, Fault
<1>19. CASE CleanupTemp
  BY <1>19, BoundAssumption DEF TypeOK, SeedInv, FilesFresh, Progress, SeedNeverLost, Files,
     Seeds, Absent, Torn, CleanupTemp, card, At
<1>20. CASE LoadBundle
  BY <1>20, BoundAssumption DEF TypeOK, SeedInv, FilesFresh, Progress, SeedNeverLost, Files,
     Seeds, Absent, Torn, LoadBundle, card, At
<1>21. CASE LoadBundleFails
  BY <1>21, BoundAssumption DEF TypeOK, SeedInv, FilesFresh, Progress, SeedNeverLost, Files,
     Seeds, Absent, Torn, LoadBundleFails, card, Fail
<1>22. CASE Session
  BY <1>22, BoundAssumption DEF TypeOK, SeedInv, FilesFresh, Progress, SeedNeverLost, Files,
     Seeds, Absent, Torn, Session, card, ram
<1>23. CASE Reset
  BY <1>23, BoundAssumption DEF TypeOK, SeedInv, FilesFresh, Progress, SeedNeverLost, Files,
     Seeds, Absent, Torn, Reset, card
<1>24. CASE UNCHANGED vars
  BY <1>24 DEF SeedInv, FilesFresh, Progress, SeedNeverLost, Files, Seeds, Absent, Torn, vars,
     card, ram
<1>25. QED
  BY <1>1, <1>2, <1>3, <1>4, <1>5, <1>6, <1>7, <1>8, <1>9, <1>10, <1>11, <1>12, <1>13, <1>14,
     <1>15, <1>16, <1>17, <1>18, <1>19, <1>20, <1>21, <1>22, <1>23, <1>24 DEF Next

\* The files and locals keep their types, and the seed invariant holds always.
THEOREM SeedInvariance == Spec => [](TypeOK /\ SeedInv)
<1>1. Init => TypeOK /\ SeedInv
  BY BoundAssumption DEF Init, TypeOK, SeedInv, FilesFresh, Progress, SeedNeverLost, Files, Seeds,
     States, Absent, Torn
<1>2. TypeOK /\ SeedInv /\ [Next]_vars => (TypeOK /\ SeedInv)'
  BY NextTypes, NextSeedInv
<1>3. QED
  BY <1>1, <1>2, PTL DEF Spec

\* prepare() leaves every file and local of a known form, torn files included.
THEOREM SeedTypes == Spec => []TypeOK
  BY SeedInvariance, PTL

\* On a working card a complete seed exists at every moment.
THEOREM SeedKept == Spec => []SeedNeverLost
<1>1. SeedInv => SeedNeverLost
  BY DEF SeedInv
<1>2. QED
  BY <1>1, SeedInvariance, PTL

\* No seed that has backed a session seeds the generator again.
THEOREM SeedFresh == Spec => SeedNeverReused
<1>1. TypeOK /\ SeedInv /\ [Next]_vars => [rng' # rng => rng' \notin served]_vars
  <2> SUFFICES ASSUME TypeOK, SeedInv, [Next]_vars, rng' # rng PROVE rng' \notin served
    OBVIOUS
  <2>1. rng' = 0 \/ (seedFile \in Seeds /\ rng' = seedFile)
    BY DEF Next, Enter, ReadSeed, ReadSeedFails, DrawNext, DrawFails, CleanTemp, CreateTemp,
       CreateTempFails, WriteTemp, WriteTempFails, DiscardTemp, RemoveOld, RemoveOldFails, Rename,
       RenameFails, Recreate, Rewrite, FallbackFails, CleanupTemp, LoadBundle, LoadBundleFails,
       Session, Reset, Fail, vars, ram
  <2>2. QED
    BY <2>1 DEF TypeOK, SeedInv, FilesFresh, Seeds
<1>2. QED
  BY <1>1, SeedInvariance, PTL DEF Spec, SeedNeverReused
=============================================================================
