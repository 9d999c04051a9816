------------------------------ MODULE TlsSeed ------------------------------
(***************************************************************************)
(* The rotating TLS seed of source/utils/gc_tls.c: prepare() reads         *)
(* tls-seed.bin, seeds the random generator from it and replaces the file  *)
(* with the next seed before the first TLS session may use the generator.  *)
(* The console can be reset between any two card operations.               *)
(*                                                                         *)
(* prepare() runs under tls_lock from its first line to its last, so one   *)
(* program counter stands for whichever thread is inside it.               *)
(***************************************************************************)
EXTENDS Naturals

CONSTANTS
  MaxSeeds,   \* bound on the seeds generated in a behaviour
  MaxResets,  \* bound on resets
  MaxFaults   \* bound on failing card operations

ASSUME BoundAssumption == MaxSeeds \in Nat /\ MaxResets \in Nat /\ MaxFaults \in Nat

VARIABLES
  seedFile,  \* tls-seed.bin
  tempFile,  \* tls-seed.tmp
  pc,        \* where prepare() is
  rng,       \* the seed the random generator was seeded with, 0 before that
  next,      \* next_seed, 0 before it is drawn
  ready,     \* the generator and the CA bundle may be used
  drawn,     \* seeds drawn so far: they are distinct (external: CTR_DRBG)
  served,    \* seeds that have backed a TLS session
  resets, faults

card == <<seedFile, tempFile>>
ram  == <<pc, rng, next, ready>>
vars == <<card, ram, drawn, served, resets, faults>>

Absent == 0     \* no such file
Torn   == 1     \* truncated, or only partly written
Seeds  == 2 .. MaxSeeds + 2
Files  == 0 .. MaxSeeds + 2

States == {"idle", "read", "draw", "clean", "create", "write", "discard", "remove", "rename",
           "recreate", "rewrite", "cleanup", "bundle"}

\* tools/prepare-sd.ps1 has put the first seed on the card.
Init ==
  /\ seedFile = 2 /\ tempFile = Absent
  /\ pc = "idle" /\ rng = 0 /\ next = 0 /\ ready = 0
  /\ drawn = 2 /\ served = {}
  /\ resets = 0 /\ faults = 0

At(here, there) == pc = here /\ pc' = there

\* A card operation fails.
Fault == faults < MaxFaults /\ faults' = faults + 1

\* prepare() gives up: the generator is freed, the lock released.
Fail == pc' = "idle" /\ rng' = 0 /\ next' = 0 /\ UNCHANGED ready

\* gc_tls_open calls prepare(); once the generator is ready nothing is done.
Enter ==
  /\ At("idle", "read")
  /\ ready = 0
  /\ UNCHANGED <<card, rng, next, ready, drawn, served, resets, faults>>

\* The old seed is read; "Missing TLS seed" if it is not there in full.
ReadSeed ==
  /\ pc = "read"
  /\ IF seedFile \in Seeds
       THEN pc' = "draw" /\ rng' = seedFile /\ UNCHANGED <<next, ready>>
       ELSE Fail
  /\ UNCHANGED <<card, drawn, served, resets, faults>>

ReadSeedFails ==
  /\ pc = "read"
  /\ Fault
  /\ Fail
  /\ UNCHANGED <<card, drawn, served, resets>>

\* The generator is seeded and the next seed drawn from it.
DrawNext ==
  /\ At("draw", "clean")
  /\ drawn < MaxSeeds + 2
  /\ next' = drawn + 1
  /\ drawn' = drawn + 1
  /\ UNCHANGED <<card, rng, ready, served, resets, faults>>

\* mbedTLS cannot seed the generator.
DrawFails ==
  /\ pc = "draw"
  /\ Fail
  /\ UNCHANGED <<card, drawn, served, resets, faults>>

CleanTemp ==
  /\ At("clean", "create")
  /\ tempFile' = Absent
  /\ UNCHANGED <<seedFile, rng, next, ready, drawn, served, resets, faults>>

\* fopen(temp, "wb") creates it empty ...
CreateTemp ==
  /\ At("create", "write")
  /\ tempFile' = Torn
  /\ UNCHANGED <<seedFile, rng, next, ready, drawn, served, resets, faults>>

CreateTempFails ==
  /\ At("create", "discard")
  /\ Fault
  /\ UNCHANGED <<card, rng, next, ready, drawn, served, resets>>

\* ... and it is complete only after fwrite, fflush and fclose.
WriteTemp ==
  /\ At("write", "remove")
  /\ tempFile' = next
  /\ UNCHANGED <<seedFile, rng, next, ready, drawn, served, resets, faults>>

WriteTempFails ==
  /\ At("write", "discard")
  /\ Fault
  /\ UNCHANGED <<card, rng, next, ready, drawn, served, resets>>

\* "Cannot update TLS seed on SD card"
DiscardTemp ==
  /\ pc = "discard"
  /\ tempFile' = Absent
  /\ Fail
  /\ UNCHANGED <<seedFile, drawn, served, resets, faults>>

\* mutant: the seed is rewritten in place, as it was before the temporary file.
RemoveOldInPlace ==
  /\ At("remove", "recreate")
  /\ tempFile' = Absent
  /\ UNCHANGED <<seedFile, rng, next, ready, drawn, served, resets, faults>>

\* FAT cannot rename onto an existing name: remove(path) comes first.
RemoveOld ==
  /\ At("remove", "rename")
  /\ seedFile' = Absent
  /\ UNCHANGED <<tempFile, rng, next, ready, drawn, served, resets, faults>>

\* mutant: a failing remove is ignored and the old seed stays.
RemoveOldIgnored ==
  /\ At("remove", "bundle")
  /\ Fault
  /\ UNCHANGED <<card, rng, next, ready, drawn, served, resets>>

RemoveOldFails ==
  /\ At("remove", "recreate")
  /\ Fault
  /\ UNCHANGED <<card, rng, next, ready, drawn, served, resets>>

\* The commit point.
Rename ==
  /\ At("rename", "bundle")
  /\ seedFile' = tempFile
  /\ tempFile' = Absent
  /\ UNCHANGED <<rng, next, ready, drawn, served, resets, faults>>

RenameFails ==
  /\ At("rename", "recreate")
  /\ Fault
  /\ UNCHANGED <<card, rng, next, ready, drawn, served, resets>>

\* The fallback copies the new seed into place.
Recreate ==
  /\ At("recreate", "rewrite")
  /\ seedFile' = Torn
  /\ UNCHANGED <<tempFile, rng, next, ready, drawn, served, resets, faults>>

Rewrite ==
  /\ At("rewrite", "cleanup")
  /\ seedFile' = next
  /\ UNCHANGED <<tempFile, rng, next, ready, drawn, served, resets, faults>>

\* fopen or fwrite fails: the temporary file is removed all the same.
FallbackFails ==
  /\ pc \in {"recreate", "rewrite"}
  /\ Fault
  /\ tempFile' = Absent
  /\ Fail
  /\ UNCHANGED <<seedFile, drawn, served, resets>>

CleanupTemp ==
  /\ At("cleanup", "bundle")
  /\ tempFile' = Absent
  /\ UNCHANGED <<seedFile, rng, next, ready, drawn, served, resets, faults>>

\* The CA bundle is loaded, the generator is published and next_seed wiped.
LoadBundle ==
  /\ At("bundle", "idle")
  /\ ready' = 1
  /\ next' = 0
  /\ UNCHANGED <<card, rng, drawn, served, resets, faults>>

\* "Missing apps/wiimc/ca.pem", "Invalid CA bundle", ...
LoadBundleFails ==
  /\ pc = "bundle"
  /\ Fail
  /\ UNCHANGED <<card, drawn, served, resets, faults>>

\* A session draws its keys from the generator (random_bytes).
Session ==
  /\ pc = "idle" /\ ready = 1
  /\ served' = served \cup {rng}
  /\ UNCHANGED <<card, ram, drawn, resets, faults>>

\* The console is switched off or reset, and started again.
Reset ==
  /\ resets < MaxResets
  /\ resets' = resets + 1
  /\ pc' = "idle" /\ rng' = 0 /\ next' = 0 /\ ready' = 0
  /\ UNCHANGED <<card, drawn, served, faults>>

Next ==
  \/ Enter \/ ReadSeed \/ ReadSeedFails \/ DrawNext \/ DrawFails \/ CleanTemp
  \/ CreateTemp \/ CreateTempFails \/ WriteTemp \/ WriteTempFails \/ DiscardTemp
  \/ RemoveOld \/ RemoveOldFails \/ Rename \/ RenameFails
  \/ Recreate \/ Rewrite \/ FallbackFails \/ CleanupTemp
  \/ LoadBundle \/ LoadBundleFails \/ Session \/ Reset

Spec == Init /\ [][Next]_vars

-----------------------------------------------------------------------------
(* Properties.                                                             *)

\* Types of the files and of prepare()'s locals.
TypeOK ==
  /\ seedFile \in Files /\ tempFile \in Files
  /\ pc \in States /\ rng \in Files \ {Torn} /\ next \in Files \ {Torn}
  /\ ready \in {0, 1} /\ drawn \in Seeds /\ served \subseteq Seeds
  /\ resets \in Nat /\ faults \in Nat

\* "it is replaced before opening TLS, so consecutive boots do not reuse it"
\* (the header of gc_tls.c): a seed that has backed a session is never used
\* to seed the generator again, whatever failed or was interrupted between.
SeedNeverReused == [][rng' # rng => rng' \notin served]_vars

\* As long as the card works, the card holds a complete seed at every moment,
\* under one of the two names: an interrupted replacement destroys none.  (The
\* next start reads only tls-seed.bin; what it finds there is SeedAtomic.)
SeedNeverLost == faults = 0 => seedFile \in Seeds \/ tempFile \in Seeds

\* "The seed is now replaced atomically" (CHANGELOG.md): on a working card a
\* restarted console finds a seed under the name that it reads.
SeedAtomic == faults = 0 /\ pc = "read" => seedFile \in Seeds

-----------------------------------------------------------------------------
(* The inductive invariant.                                                *)

\* No file holds a seed that has backed a session; the next seed is newer than
\* everything in use.
FilesFresh ==
  /\ seedFile \in Seeds => seedFile \notin served /\ seedFile <= drawn
  /\ tempFile \in Seeds => tempFile \notin served /\ tempFile <= drawn
  /\ \A s \in served : s <= drawn
  /\ rng <= drawn

\* What is on the card at each point of prepare().
Progress ==
  /\ pc \in {"draw", "clean", "create", "write", "discard", "remove"} =>
       rng \in Seeds /\ seedFile = rng
  /\ pc \in {"clean", "create", "write", "discard", "remove", "rename", "recreate", "rewrite",
             "cleanup", "bundle"} => next = drawn /\ next \notin served /\ rng \in Seeds /\ rng < next
  /\ pc \in {"create", "write", "discard"} => tempFile \in {Absent, Torn}
  /\ pc \in {"remove", "rename"} => tempFile = next
  /\ pc \in {"recreate", "rewrite", "cleanup"} => tempFile = next /\ faults > 0
  /\ pc \in {"cleanup", "bundle"} => seedFile = next
  /\ pc = "bundle" => tempFile = Absent
  /\ pc \in {"idle", "read"} /\ ready = 0 => rng = 0
  /\ ready = 1 => /\ pc = "idle" /\ rng \in Seeds /\ rng < drawn
                  /\ seedFile \in Seeds => rng < seedFile
                  /\ tempFile = Absent

SeedInv == FilesFresh /\ Progress /\ SeedNeverLost
=============================================================================
