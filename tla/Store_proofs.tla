----------------------------- MODULE Store_proofs -----------------------------
(***************************************************************************)
(* The files of a cache root.                                              *)
(*                                                                         *)
(* For any number of routers that crash whenever they like, rotting disks  *)
(* included: rows follow manifests and manifests follow blobs.  Neither is *)
(* inductive.  A router holds a copy of the registry, and a manifest, in   *)
(* memory while others write; StoreInv says that what it may still write   *)
(* is backed by files too.  It needs two facts that hold of every step:    *)
(* manifests are never deleted, and neither are blobs.                     *)
(*                                                                         *)
(* For the maintenance tool with the routers down, ToolInv: what it has    *)
(* read is still so when it writes.  And for one router, SoleInv: what it  *)
(* loaded of the registry is still so when it saves, so that nothing that  *)
(* was published, quarantined or deleted is undone.                        *)
(***************************************************************************)
EXTENDS StoreMaintenance, TLAPS

\* Stages in which a job has a manifest in memory.
Carrying == Stages \ {"down", "idle", "rebuilt", "upload"}

\* Stages in which the manifest of the job's key has been written.
Written == {"prepared", "load", "refiled", "save", "commit"}

CopiesHaveManifests ==
  \A r \in Routers, k \in Keys : copy[r][k] # None => manifest[k] # None

JobsHaveRows ==
  \A r \in Routers : stage[r] \in Carrying =>
    job[r].row \in Rows /\ blob[job[r].row.blob] # "absent"

JobsHaveManifests ==
  \A r \in Routers : stage[r] \in Written => manifest[job[r].key] # None

StoreInv ==
  /\ TypeOK
  /\ RowsHaveManifests
  /\ ManifestsHaveBlobs
  /\ CopiesHaveManifests
  /\ JobsHaveRows
  /\ JobsHaveManifests

LEMMA NoneIsNoRow == None \notin Rows
  BY DEF None, Rows

LEMMA RowsAreNotNone == \A row \in Rows : row # None /\ row.blob \in Blobs
  BY NoneIsNoRow DEF Rows

LEMMA QuarantinedRow ==
  ASSUME NEW row \in Rows
  PROVE  Quarantined(row) \in Rows /\ Quarantined(row).blob = row.blob
  BY DEF Rows, Quarantined

LEMMA RebuiltTyped ==
  ASSUME TypeOK
  PROVE  Rebuilt \in Tables /\ \A k \in Keys : Rebuilt[k] # None => manifest[k] # None
  BY DEF TypeOK, Tables, Rebuilt

LEMMA NoJobTyped == NoJob \in [kind : Kinds, key : Keys, old : Keys, row : Rows \union {None}]
<1>1. SomeKey \in Keys
  BY StoreAssumption DEF SomeKey
<1>2. QED
  BY <1>1 DEF NoJob, Kinds

LEMMA EmptyTyped == EmptyTable \in Tables /\ \A k \in Keys : EmptyTable[k] = None
  BY DEF EmptyTable, Tables

\* What a job may save: rows it loaded, and the row of the manifest it has written.
LEMMA EditedTyped ==
  ASSUME StoreInv, NEW r \in Routers, stage[r] = "save"
  PROVE  Edited(r) \in Tables /\ \A k \in Keys : Edited(r)[k] # None => manifest[k] # None
<1>1. /\ copy[r] \in Tables
      /\ \A k \in Keys : copy[r][k] # None => manifest[k] # None
      /\ job[r].key \in Keys /\ job[r].old \in Keys
      /\ job[r].row \in Rows
      /\ manifest[job[r].key] # None
  BY DEF StoreInv, TypeOK, CopiesHaveManifests, JobsHaveRows, JobsHaveManifests,
         Carrying, Written, Stages
<1>2. CASE job[r].kind = "build"
  <2>1. Edited(r) = [copy[r] EXCEPT ![job[r].old] = None, ![job[r].key] = job[r].row]
    BY <1>2 DEF Edited
  <2>2. QED
    BY <1>1, <2>1 DEF Tables
<1>3. CASE job[r].kind = "touch"
  BY <1>1, <1>3 DEF Edited
<1>4. CASE job[r].kind \notin {"build", "touch"}
  <2> DEFINE old == copy[r][job[r].key]
             new == IF old = None THEN None ELSE [old EXCEPT !.status = "quarantined"]
  <2>1. Edited(r) = [copy[r] EXCEPT ![job[r].key] = new]
    BY <1>4 DEF Edited
  <2>2. old \in Rows \union {None}
    BY <1>1 DEF Tables
  <2>3. new \in Rows \union {None}
    BY <2>2 DEF Rows
  <2>4. QED
    BY <1>1, <2>1, <2>3 DEF Tables
<1>5. QED
  BY <1>2, <1>3, <1>4

-----------------------------------------------------------------------------
(* What no step takes away *)

LEMMA BlobsStay ==
  ASSUME TypeOK, [Next]_vars, NEW b \in Blobs, blob[b] # "absent"
  PROVE  blob'[b] # "absent"
<1>1. ASSUME NEW r \in Routers, Upload(r) \/ UploadMismatch(r) PROVE blob'[b] # "absent"
  BY <1>1 DEF TypeOK, Upload, UploadMismatch
<1>2. CASE Rot
  BY <1>2 DEF TypeOK, Rot
<1>3. CASE UNCHANGED blob
  BY <1>3
<1>4. ASSUME NEW r \in Routers, Start(r) \/ Crash(r) \/ RebuildLost(r) \/ LogRebuild(r) PROVE UNCHANGED blob
  BY <1>4 DEF Start, Crash, RebuildLost, LogRebuild, files
<1>5. ASSUME NEW r \in Routers, BeginBuild(r) \/ BuildFails(r) \/ Use(r) PROVE UNCHANGED blob
  BY <1>5 DEF BeginBuild, BuildFails, Use, Find, LeaseForUse, GiveUp, Attempt, FindCorrupt,
              FindMismatch, files
<1>6. ASSUME NEW r \in Routers, Write(r) PROVE UNCHANGED blob
  BY <1>6 DEF Write, Prepare, WriteManifest, Prepared, LoadRegistry, SaveRegistry, Commit, files
<1>7. CASE UNCHANGED vars
  BY <1>3, <1>7 DEF vars, files
<1>8. QED
  BY <1>1, <1>2, <1>3, <1>4, <1>5, <1>6, <1>7 DEF Next, Build

\* WriteManifest is the only writer of manifests.
LEMMA OtherStepsKeepManifests ==
  ASSUME [Next]_vars, \A r \in Routers : ~WriteManifest(r)
  PROVE  UNCHANGED manifest
<1>1. ASSUME NEW r \in Routers, Start(r) \/ Crash(r) \/ RebuildLost(r) \/ LogRebuild(r) PROVE UNCHANGED manifest
  BY <1>1 DEF Start, Crash, RebuildLost, LogRebuild, files
<1>2. ASSUME NEW r \in Routers, Build(r) PROVE UNCHANGED manifest
  BY <1>2 DEF Build, BeginBuild, Upload, UploadMismatch, BuildFails, files
<1>3. ASSUME NEW r \in Routers, Use(r) PROVE UNCHANGED manifest
  BY <1>3 DEF Use, Find, LeaseForUse, GiveUp, Attempt, FindCorrupt, FindMismatch, files
<1>4. ASSUME NEW r \in Routers, Write(r) PROVE UNCHANGED manifest
  BY <1>4 DEF Write, Prepare, Prepared, LoadRegistry, SaveRegistry, Commit, files
<1>5. CASE Rot \/ UNCHANGED vars
  BY <1>5 DEF Rot, vars, files
<1>6. QED
  BY <1>1, <1>2, <1>3, <1>4, <1>5 DEF Next

LEMMA ManifestsStay ==
  ASSUME StoreInv, [Next]_vars, NEW k \in Keys, manifest[k] # None
  PROVE  manifest'[k] # None
<1>1. ASSUME NEW r \in Routers, WriteManifest(r) PROVE manifest'[k] # None
  <2>1. job[r].row # None
    BY <1>1, NoneIsNoRow DEF StoreInv, JobsHaveRows, WriteManifest, Carrying, Stages
  <2>2. QED
    BY <1>1, <2>1 DEF StoreInv, TypeOK, Tables, WriteManifest
<1>2. QED
  BY <1>1, OtherStepsKeepManifests

-----------------------------------------------------------------------------
(* One step, action by action *)

LEMMA TypeStep ==
  ASSUME StoreInv, [Next]_vars
  PROVE  TypeOK'
<1> USE DEF Stages
<1>1. ASSUME NEW r \in Routers, Start(r) \/ RebuildLost(r) \/ LogRebuild(r) PROVE TypeOK'
  BY <1>1, RebuiltTyped DEF StoreInv, TypeOK, Start, RebuildLost, LogRebuild, Rebuild, Goto
<1>2. ASSUME NEW r \in Routers, NEW s \in Stages, Finish(r, s), UNCHANGED registry, UNCHANGED manifest,
             blob' \in [Blobs -> {"absent", "good", "damaged"}], pending' \subseteq Keys
      PROVE  TypeOK'
  BY <1>2, NoJobTyped, EmptyTyped DEF StoreInv, TypeOK, Finish, Goto
<1>3. ASSUME NEW r \in Routers, Crash(r) \/ BuildFails(r) \/ GiveUp(r) PROVE TypeOK'
  BY <1>3, <1>2 DEF StoreInv, TypeOK, Crash, BuildFails, GiveUp, files
<1>4. ASSUME NEW r \in Routers, UploadMismatch(r) \/ Commit(r) PROVE TypeOK'
  BY <1>4, <1>2 DEF StoreInv, TypeOK, UploadMismatch, Commit
<1>5. ASSUME NEW r \in Routers, LeaseForUse(r) PROVE TypeOK'
  <2>1. CASE Finish(r, "idle")
    BY <1>5, <2>1, <1>2 DEF StoreInv, TypeOK, LeaseForUse, files
  <2>2. CASE Goto(r, "restoring") /\ UNCHANGED <<job, copy>>
    BY <1>5, <2>2 DEF StoreInv, TypeOK, LeaseForUse, Goto, files
  <2>3. QED
    BY <1>5, <2>1, <2>2 DEF LeaseForUse
<1>6. ASSUME NEW r \in Routers, BeginBuild(r) PROVE TypeOK'
  BY <1>6 DEF StoreInv, TypeOK, BeginBuild, Goto, files, Kinds
<1>7. ASSUME NEW r \in Routers, Upload(r) PROVE TypeOK'
  <2>1. PICK b \in Blobs :
          /\ blob' = [blob EXCEPT ![b] = "good"]
          /\ job' = [job EXCEPT ![r].row = [blob |-> b, status |-> "validated"]]
    BY <1>7 DEF Upload
  <2>2. [blob |-> b, status |-> "validated"] \in Rows
    BY DEF Rows
  <2>3. QED
    BY <1>7, <2>1, <2>2 DEF StoreInv, TypeOK, Upload, Goto
<1>8. ASSUME NEW r \in Routers, Find(r) PROVE TypeOK'
  BY <1>8 DEF StoreInv, TypeOK, Find, Goto, files, Kinds, Tables
<1>9. ASSUME NEW r \in Routers, Attempt(r) PROVE TypeOK'
  BY <1>9 DEF StoreInv, TypeOK, Attempt, Goto, files
<1>10. ASSUME NEW r \in Routers, FindCorrupt(r) \/ FindMismatch(r) PROVE TypeOK'
  <2>1. job[r].row \in Rows
    BY <1>10 DEF StoreInv, JobsHaveRows, Carrying, FindCorrupt, FindMismatch
  <2>2. Quarantined(job[r].row) \in Rows
    BY <2>1, QuarantinedRow
  <2>3. CASE FindCorrupt(r)
    <3>1. stage' = [stage EXCEPT ![r] = "write"]
      BY <2>3 DEF FindCorrupt, Goto
    <3>2. job' = [job EXCEPT ![r].kind = "corrupt", ![r].row = Quarantined(job[r].row)]
      BY <2>3 DEF FindCorrupt
    <3>3. UNCHANGED <<files, copy>>
      BY <2>3 DEF FindCorrupt
    <3>4. QED
      BY <2>2, <3>1, <3>2, <3>3 DEF StoreInv, TypeOK, files, Kinds
  <2>4. CASE FindMismatch(r)
    <3>1. stage' = [stage EXCEPT ![r] = "write"]
      BY <2>4 DEF FindMismatch, Goto
    <3>2. job' = [job EXCEPT ![r].kind = "mismatch", ![r].row = Quarantined(job[r].row)]
      BY <2>4 DEF FindMismatch
    <3>3. UNCHANGED <<files, copy>>
      BY <2>4 DEF FindMismatch
    <3>4. QED
      BY <2>2, <3>1, <3>2, <3>3 DEF StoreInv, TypeOK, files, Kinds
  <2>5. QED
    BY <1>10, <2>3, <2>4
<1>11. ASSUME NEW r \in Routers, Prepare(r) \/ Prepared(r) PROVE TypeOK'
  BY <1>11 DEF StoreInv, TypeOK, Prepare, Prepared, Goto
<1>12. ASSUME NEW r \in Routers, WriteManifest(r) PROVE TypeOK'
  BY <1>12 DEF StoreInv, TypeOK, WriteManifest, Goto, Tables
<1>13. ASSUME NEW r \in Routers, LoadRegistry(r) PROVE TypeOK'
  BY <1>13 DEF StoreInv, TypeOK, LoadRegistry, Goto, files
<1>14. ASSUME NEW r \in Routers, SaveRegistry(r) PROVE TypeOK'
  <2>1. registry' \in Tables
    BY <1>14, EditedTyped DEF SaveRegistry
  <2>2. CASE Finish(r, "idle")
    BY <1>14, <2>1, <2>2, NoJobTyped, EmptyTyped DEF StoreInv, TypeOK, SaveRegistry, Finish, Goto
  <2>3. CASE UNCHANGED <<job, copy>> /\ (Goto(r, "commit") \/ Goto(r, "found"))
    BY <1>14, <2>1, <2>3 DEF StoreInv, TypeOK, SaveRegistry, Goto
  <2>4. CASE Goto(r, "write") /\ job' = [job EXCEPT ![r].kind = "touch"] /\ UNCHANGED copy
    BY <1>14, <2>1, <2>4 DEF StoreInv, TypeOK, SaveRegistry, Goto, Kinds
  <2>5. QED
    BY <1>14, <2>2, <2>3, <2>4 DEF SaveRegistry
<1>15. CASE Rot \/ UNCHANGED vars
  BY <1>15 DEF StoreInv, TypeOK, Rot, vars, files
<1>16. QED
  BY <1>1, <1>3, <1>4, <1>5, <1>6, <1>7, <1>8, <1>9, <1>10, <1>11, <1>12, <1>13, <1>14, <1>15
     DEF Next, Build, Use, Write

LEMMA RowsStep ==
  ASSUME StoreInv, [Next]_vars
  PROVE  RowsHaveManifests'
<1>1. ASSUME \A k \in Keys : registry'[k] # None => manifest[k] # None
      PROVE  RowsHaveManifests'
  BY <1>1, ManifestsStay DEF RowsHaveManifests
<1>2. CASE UNCHANGED registry
  BY <1>1, <1>2 DEF StoreInv, RowsHaveManifests
<1>3. CASE registry' = Rebuilt
  BY <1>1, <1>3, RebuiltTyped DEF StoreInv
<1>4. ASSUME NEW r \in Routers, SaveRegistry(r) PROVE RowsHaveManifests'
  BY <1>1, <1>4, EditedTyped DEF SaveRegistry
<1>5. ASSUME NEW r \in Routers, Start(r) \/ Crash(r) \/ RebuildLost(r) \/ LogRebuild(r)
      PROVE  registry' = Rebuilt \/ UNCHANGED registry
  BY <1>5 DEF Start, Crash, RebuildLost, LogRebuild, Rebuild, files
<1>6. ASSUME NEW r \in Routers, Build(r) \/ Use(r) PROVE UNCHANGED registry
  BY <1>6 DEF Build, BeginBuild, Upload, UploadMismatch, BuildFails,
              Use, Find, LeaseForUse, GiveUp, Attempt, FindCorrupt, FindMismatch, files
<1>7. ASSUME NEW r \in Routers, Write(r), ~SaveRegistry(r) PROVE UNCHANGED registry
  BY <1>7 DEF Write, Prepare, WriteManifest, Prepared, LoadRegistry, Commit, files
<1>8. CASE Rot \/ UNCHANGED vars
  BY <1>2, <1>8 DEF Rot, vars, files
<1>9. QED
  BY <1>2, <1>3, <1>4, <1>5, <1>6, <1>7, <1>8 DEF Next

LEMMA ManifestsStep ==
  ASSUME StoreInv, [Next]_vars
  PROVE  ManifestsHaveBlobs'
<1>1. ASSUME NEW r \in Routers, WriteManifest(r) PROVE ManifestsHaveBlobs'
  <2>1. job[r].key \in Keys
    BY DEF StoreInv, TypeOK
  <2>2. job[r].row \in Rows /\ blob[job[r].row.blob] # "absent"
    BY <1>1 DEF StoreInv, JobsHaveRows, WriteManifest, Carrying, Stages
  <2>3. UNCHANGED blob /\ manifest' = [manifest EXCEPT ![job[r].key] = job[r].row]
    BY <1>1 DEF WriteManifest
  <2>4. QED
    BY <2>1, <2>2, <2>3 DEF StoreInv, TypeOK, Tables, ManifestsHaveBlobs
<1>2. CASE UNCHANGED manifest
  <2>1. ASSUME NEW k \in Keys, manifest[k] # None
        PROVE  manifest[k].blob \in Blobs /\ blob[manifest[k].blob] # "absent"
    BY <2>1, RowsAreNotNone DEF StoreInv, TypeOK, Tables, ManifestsHaveBlobs
  <2>2. QED
    BY <1>2, <2>1, BlobsStay DEF StoreInv, ManifestsHaveBlobs
<1>3. QED
  BY <1>1, <1>2, OtherStepsKeepManifests

LEMMA CopiesStep ==
  ASSUME StoreInv, [Next]_vars
  PROVE  CopiesHaveManifests'
<1>1. ASSUME \A r \in Routers, k \in Keys : copy'[r][k] # None => manifest[k] # None
      PROVE  CopiesHaveManifests'
  BY <1>1, ManifestsStay DEF CopiesHaveManifests
<1>2. CASE UNCHANGED copy
  BY <1>1, <1>2 DEF StoreInv, CopiesHaveManifests
<1>3. ASSUME NEW r \in Routers, NEW t \in {EmptyTable, registry}, copy' = [copy EXCEPT ![r] = t]
      PROVE  CopiesHaveManifests'
  BY <1>1, <1>3, EmptyTyped DEF StoreInv, TypeOK, CopiesHaveManifests, RowsHaveManifests
<1>4. ASSUME NEW r \in Routers, NEW s, Finish(r, s) PROVE CopiesHaveManifests'
  BY <1>3, <1>4 DEF Finish
<1>5. ASSUME NEW r \in Routers, Start(r) \/ Crash(r) \/ RebuildLost(r) \/ LogRebuild(r)
      PROVE  CopiesHaveManifests'
  BY <1>2, <1>4, <1>5 DEF Start, Crash, RebuildLost, LogRebuild
<1>6. ASSUME NEW r \in Routers, Build(r) PROVE CopiesHaveManifests'
  BY <1>2, <1>4, <1>6 DEF Build, BeginBuild, Upload, UploadMismatch, BuildFails
<1>7. ASSUME NEW r \in Routers, Use(r) PROVE CopiesHaveManifests'
  BY <1>2, <1>4, <1>7 DEF Use, Find, LeaseForUse, GiveUp, Attempt, FindCorrupt, FindMismatch
<1>8. ASSUME NEW r \in Routers, Write(r) PROVE CopiesHaveManifests'
  BY <1>2, <1>3, <1>4, <1>8
     DEF Write, Prepare, WriteManifest, Prepared, LoadRegistry, SaveRegistry, Commit
<1>9. CASE Rot \/ UNCHANGED vars
  BY <1>2, <1>9 DEF Rot, vars
<1>10. QED
  BY <1>5, <1>6, <1>7, <1>8, <1>9 DEF Next

\* The row a router holds, whatever it is doing next.
Backed(r) == job[r].row \in Rows /\ blob[job[r].row.blob] # "absent"

LEMMA BackedStays ==
  ASSUME StoreInv, [Next]_vars, NEW r \in Routers, Backed(r),
         job'[r].row \in Rows, job'[r].row.blob = job[r].row.blob
  PROVE  Backed(r)'
  BY BlobsStay DEF StoreInv, Backed, Rows

LEMMA JobRowsStep ==
  ASSUME StoreInv, [Next]_vars
  PROVE  JobsHaveRows'
<1> USE DEF Stages, Carrying
<1>a. \A q \in Routers : stage[q] \in Carrying => Backed(q)
  BY DEF StoreInv, JobsHaveRows, Backed
<1>b. ASSUME \A q \in Routers : stage'[q] \in Carrying => Backed(q)' PROVE JobsHaveRows'
  BY <1>b DEF JobsHaveRows, Backed
<1>0. /\ stage \in [Routers -> Stages]
      /\ job \in [Routers -> [kind : Kinds, key : Keys, old : Keys, row : Rows \union {None}]]
  BY DEF StoreInv, TypeOK
\* Only r moves, to a stage without a manifest.
<1>1. ASSUME NEW r \in Routers, NEW s \in {"down", "idle", "rebuilt", "upload"}, Goto(r, s),
             \A q \in Routers \ {r} : job'[q] = job[q]
      PROVE  JobsHaveRows'
  BY <1>0, <1>1, <1>a, <1>b, BackedStays DEF Goto, Backed
\* Only r moves, keeping or quarantining its manifest.
<1>2. ASSUME NEW r \in Routers, NEW s \in Stages, Goto(r, s), stage[r] \in Carrying,
             \A q \in Routers \ {r} : job'[q] = job[q],
             job'[r].row \in {job[r].row, Quarantined(job[r].row)}
      PROVE  JobsHaveRows'
  <2>1. job'[r].row \in Rows /\ job'[r].row.blob = job[r].row.blob
    BY <1>2, <1>a, QuarantinedRow DEF Backed
  <2>2. Backed(r)'
    BY <1>2, <1>a, <2>1, BackedStays
  <2>3. \A q \in Routers \ {r} : stage[q] \in Carrying => Backed(q)'
    BY <1>2, <1>a, BackedStays DEF Backed
  <2>4. QED
    BY <1>0, <1>2, <1>b, <2>2, <2>3 DEF Goto
<1>3. ASSUME NEW r \in Routers, NEW s \in {"down", "idle"}, Finish(r, s) PROVE JobsHaveRows'
  BY <1>0, <1>1, <1>3 DEF Finish
<1>4. ASSUME NEW r \in Routers, Start(r) \/ Crash(r) \/ RebuildLost(r) \/ LogRebuild(r) PROVE JobsHaveRows'
  <2>1. CASE Start(r) \/ Crash(r)
    BY <1>1, <1>3, <2>1 DEF Start, Crash, Rebuild
  <2>2. CASE RebuildLost(r)
    BY <1>1, <1>2, <2>2 DEF RebuildLost, Rebuild
  <2>3. CASE LogRebuild(r)
    BY <1>1, <1>2, <2>3 DEF LogRebuild
  <2>4. QED
    BY <1>4, <2>1, <2>2, <2>3
<1>5. ASSUME UNCHANGED <<stage, job>> PROVE JobsHaveRows'
  BY <1>5, <1>a, <1>b, BackedStays DEF Backed
<1>6. ASSUME NEW r \in Routers, BeginBuild(r) \/ UploadMismatch(r) \/ BuildFails(r) PROVE JobsHaveRows'
  BY <1>0, <1>1, <1>3, <1>6 DEF BeginBuild, UploadMismatch, BuildFails
<1>7. ASSUME NEW r \in Routers, Upload(r) PROVE JobsHaveRows'
  <2>1. PICK b \in Blobs :
          /\ blob' = [blob EXCEPT ![b] = "good"]
          /\ job' = [job EXCEPT ![r].row = [blob |-> b, status |-> "validated"]]
    BY <1>7 DEF Upload
  <2>2. job'[r].row = [blob |-> b, status |-> "validated"] /\ blob'[b] = "good"
    BY <1>0, <2>1 DEF StoreInv, TypeOK
  <2>3. Backed(r)'
    BY <2>2 DEF Backed, Rows
  <2>4. \A q \in Routers \ {r} : stage[q] \in Carrying => Backed(q)'
    BY <1>0, <1>a, <2>1, BackedStays DEF Backed
  <2>5. QED
    BY <1>0, <1>7, <1>b, <2>3, <2>4 DEF Upload, Goto
<1>8. ASSUME NEW r \in Routers, Find(r) PROVE JobsHaveRows'
  <2>1. PICK k \in Keys :
          /\ manifest[k] # None
          /\ job' = [job EXCEPT ![r] = [kind |-> "touch", key |-> k, old |-> k, row |-> manifest[k]]]
    BY <1>8 DEF Find, Usable
  <2>2. manifest[k] \in Rows /\ blob[manifest[k].blob] # "absent"
    BY <2>1, NoneIsNoRow DEF StoreInv, TypeOK, Tables, ManifestsHaveBlobs
  <2>3. Backed(r)'
    BY <1>0, <1>8, <2>1, <2>2 DEF Backed, Find, files
  <2>4. \A q \in Routers \ {r} : stage[q] \in Carrying => Backed(q)'
    BY <1>0, <1>a, <2>1, BackedStays DEF Backed
  <2>5. QED
    BY <1>0, <1>8, <1>b, <2>3, <2>4 DEF Find, Goto
<1>9. ASSUME NEW r \in Routers, LeaseForUse(r) \/ GiveUp(r) \/ Attempt(r) PROVE JobsHaveRows'
  BY <1>2, <1>3, <1>9 DEF LeaseForUse, GiveUp, Attempt
<1>10. ASSUME NEW r \in Routers, FindCorrupt(r) \/ FindMismatch(r) PROVE JobsHaveRows'
  BY <1>0, <1>2, <1>10 DEF FindCorrupt, FindMismatch
<1>11. ASSUME NEW r \in Routers, Prepare(r) \/ WriteManifest(r) \/ Prepared(r) \/ LoadRegistry(r)
       PROVE  JobsHaveRows'
  BY <1>2, <1>11 DEF Prepare, WriteManifest, Prepared, LoadRegistry
<1>12. ASSUME NEW r \in Routers, SaveRegistry(r) \/ Commit(r) PROVE JobsHaveRows'
  BY <1>0, <1>2, <1>3, <1>12 DEF SaveRegistry, Commit
<1>13. CASE Rot \/ UNCHANGED vars
  BY <1>5, <1>13 DEF Rot, vars
<1>14. QED
  BY <1>4, <1>6, <1>7, <1>8, <1>9, <1>10, <1>11, <1>12, <1>13 DEF Next, Build, Use, Write

LEMMA JobManifestsStep ==
  ASSUME StoreInv, [Next]_vars
  PROVE  JobsHaveManifests'
<1> USE DEF Stages, Written
<1>0. /\ stage \in [Routers -> Stages]
      /\ job \in [Routers -> [kind : Kinds, key : Keys, old : Keys, row : Rows \union {None}]]
  BY DEF StoreInv, TypeOK
<1>a. \A q \in Routers : stage[q] \in Written => manifest[job[q].key] # None
  BY DEF StoreInv, JobsHaveManifests
\* A router that keeps its key, and had its manifest written, still has.
<1>b. ASSUME NEW q \in Routers, stage[q] \in Written, job'[q].key = job[q].key
      PROVE  manifest'[job'[q].key] # None
  BY <1>0, <1>a, <1>b, ManifestsStay
\* Only r moves, to a stage before its write.
<1>1. ASSUME NEW r \in Routers, NEW s \in Stages \ Written, Goto(r, s),
             \A q \in Routers \ {r} : job'[q] = job[q]
      PROVE  JobsHaveManifests'
  BY <1>0, <1>1, <1>b DEF Goto, JobsHaveManifests
\* Only r moves, with its manifest written.
<1>2. ASSUME NEW r \in Routers, NEW s \in Stages, Goto(r, s), stage[r] \in Written,
             job' = job
      PROVE  JobsHaveManifests'
  BY <1>0, <1>2, <1>b DEF Goto, JobsHaveManifests
<1>3. ASSUME NEW r \in Routers, NEW s \in {"down", "idle"}, Finish(r, s) PROVE JobsHaveManifests'
  BY <1>0, <1>1, <1>3 DEF Finish
<1>4. ASSUME NEW r \in Routers, Start(r) \/ Crash(r) \/ RebuildLost(r) \/ LogRebuild(r)
      PROVE  JobsHaveManifests'
  <2>1. CASE Start(r) \/ Crash(r)
    BY <1>1, <1>3, <2>1 DEF Start, Crash, Rebuild
  <2>2. CASE RebuildLost(r)
    BY <1>1, <1>2, <2>2 DEF RebuildLost, Rebuild
  <2>3. CASE LogRebuild(r)
    BY <1>1, <1>2, <2>3 DEF LogRebuild
  <2>4. QED
    BY <1>4, <2>1, <2>2, <2>3
<1>5. ASSUME NEW r \in Routers, Build(r) PROVE JobsHaveManifests'
  BY <1>0, <1>1, <1>3, <1>5 DEF Build, BeginBuild, Upload, UploadMismatch, BuildFails
<1>6. ASSUME NEW r \in Routers, Use(r) PROVE JobsHaveManifests'
  BY <1>0, <1>1, <1>3, <1>6
     DEF Use, Find, LeaseForUse, GiveUp, Attempt, FindCorrupt, FindMismatch
<1>7. ASSUME NEW r \in Routers, WriteManifest(r) PROVE JobsHaveManifests'
  <2>1. job[r].row # None /\ job' = job
    BY <1>7, RowsAreNotNone DEF StoreInv, JobsHaveRows, Carrying, WriteManifest
  <2>2. manifest'[job'[r].key] # None
    BY <1>0, <1>7, <2>1 DEF StoreInv, TypeOK, Tables, WriteManifest
  <2>3. \A q \in Routers \ {r} : stage'[q] = stage[q]
    BY <1>0, <1>7 DEF WriteManifest, Goto
  <2>4. QED
    BY <1>b, <2>1, <2>2, <2>3 DEF JobsHaveManifests
<1>8. ASSUME NEW r \in Routers, Prepare(r) PROVE JobsHaveManifests'
  BY <1>1, <1>8 DEF Prepare
<1>9. ASSUME NEW r \in Routers, Prepared(r) \/ LoadRegistry(r) PROVE JobsHaveManifests'
  BY <1>2, <1>9 DEF Prepared, LoadRegistry
<1>10. ASSUME NEW r \in Routers, SaveRegistry(r) \/ Commit(r) PROVE JobsHaveManifests'
  BY <1>0, <1>1, <1>2, <1>3, <1>10 DEF SaveRegistry, Commit
<1>11. ASSUME UNCHANGED <<stage, job>> PROVE JobsHaveManifests'
  BY <1>11, <1>b DEF JobsHaveManifests
<1>12. CASE Rot \/ UNCHANGED vars
  BY <1>11, <1>12 DEF Rot, vars
<1>13. QED
  BY <1>4, <1>5, <1>6, <1>7, <1>8, <1>9, <1>10, <1>12 DEF Next, Write

-----------------------------------------------------------------------------
(* Theorems *)

LEMMA InitInv == Init => StoreInv
<1> SUFFICES ASSUME Init PROVE StoreInv
  OBVIOUS
<1>1. TypeOK
  BY NoJobTyped, EmptyTyped DEF Init, TypeOK, Stages
<1>2. RowsHaveManifests /\ ManifestsHaveBlobs /\ CopiesHaveManifests
  BY EmptyTyped DEF Init, RowsHaveManifests, ManifestsHaveBlobs, CopiesHaveManifests
<1>3. JobsHaveRows /\ JobsHaveManifests
  BY DEF Init, JobsHaveRows, JobsHaveManifests, Carrying, Written, Stages
<1>4. QED
  BY <1>1, <1>2, <1>3 DEF StoreInv

\* The invariant the others follow from: what is filed, and what is about to be filed
\* by a router that may yet die, is backed by what is on disk.
THEOREM StoreInvariant == Spec => []StoreInv
<1>1. StoreInv /\ [Next]_vars => StoreInv'
  BY TypeStep, RowsStep, ManifestsStep, CopiesStep, JobRowsStep, JobManifestsStep DEF StoreInv
<1>2. QED
  BY InitInv, <1>1, PTL DEF Spec

\* Files and routers' memory keep their types.
THEOREM StoreTyped == Spec => []TypeOK
<1>1. StoreInv => TypeOK
  BY DEF StoreInv
<1>2. QED
  BY StoreInvariant, <1>1, PTL

\* Every registry row, of build_cache, use_cache, a quarantine or a rebuild, has its
\* manifest on disk, whenever any router dies.
THEOREM RowsFollowManifests == Spec => []RowsHaveManifests
<1>1. StoreInv => RowsHaveManifests
  BY DEF StoreInv
<1>2. QED
  BY StoreInvariant, <1>1, PTL

\* Every manifest names a blob that has been stored.
THEOREM ManifestsFollowBlobs == Spec => []ManifestsHaveBlobs
<1>1. StoreInv => ManifestsHaveBlobs
  BY DEF StoreInv
<1>2. QED
  BY StoreInvariant, <1>1, PTL

\* Nothing on disk names what is not there.
THEOREM NothingEverDangles == Spec => []NothingDangles
<1>1. RowsHaveManifests /\ ManifestsHaveBlobs => NothingDangles
  BY DEF NothingDangles
<1>2. QED
  BY <1>1, RowsFollowManifests, ManifestsFollowBlobs, PTL

-----------------------------------------------------------------------------
(***************************************************************************)
(* The maintenance tool while no router runs, for any number of routers,   *)
(* keys, tenants and blobs, and killed at any step.  What makes its three  *)
(* promises true is what it has in memory: the manifests, the registry and *)
(* the blobs it has read do not change under it.  ToolInv says so for each *)
(* step it may be at.                                                      *)
(***************************************************************************)

Statuses == {"none", "validated", "quarantined", "tenant_deleted"}
Loose == [blob : Blobs \union {"none"}, status : Statuses]
LooseTables == [Keys -> Loose]
Jobs == [kind : Kinds, key : Keys, old : Keys, row : Loose]
Tenants == {TenantOf[k] : k \in Keys} \union {None}

StoreTypes ==
  /\ blob \in [Blobs -> {"absent", "good", "damaged"}]
  /\ manifest \in LooseTables
  /\ registry \in LooseTables
  /\ job \in [Routers -> Jobs]
  /\ copy \in [Routers -> LooseTables]

Runs == [step : {"idle", "marking", "collecting", "unlinking", "filing"}, ok : BOOLEAN, gc : BOOLEAN,
         tenant : Tenants, rows : LooseTables, marks : LooseTables, blobs : SUBSET Blobs]

\* What is still to be written over a manifest is a tombstone.
MarksAreTombstones == \A k \in Keys : tool.marks[k] # None => Deleted(tool.marks[k])

\* What a deletion has not marked yet it will mark before it touches the registry.
DoomedAreMarked ==
  tool.step = "marking" =>
    \A k \in Keys : TenantOf[k] = tool.tenant /\ registry[k] # None =>
      \/ tool.marks[k] # None
      \/ manifest[k] = None
      \/ Deleted(manifest[k])
      \/ ~Intact(manifest[k])

\* Nothing a manifest names is on the list of what is unlinked.
NamedAreSpared == tool.step = "unlinking" => \A b \in tool.blobs : ~Named(b)

\* And nothing else is missing from it, unless an unlink has failed.
OthersAreListed ==
  tool.step = "unlinking" /\ tool.ok =>
    \A b \in Blobs : blob[b] # "absent" => b \in tool.blobs \/ Named(b)

ToolInv ==
  /\ StoreTypes
  /\ tool \in Runs
  /\ MarksAreTombstones
  /\ DoomedAreMarked
  /\ NamedAreSpared
  /\ OthersAreListed

-----------------------------------------------------------------------------
LEMMA NoneTyped == None \in Loose
  BY DEF None, Loose, Statuses

LEMMA EmptyTableTyped == EmptyTable \in LooseTables /\ \A k \in Keys : EmptyTable[k] = None
  BY NoneTyped DEF EmptyTable, LooseTables

LEMMA NoJobIsJob == NoJob \in Jobs
<1>1. SomeKey \in Keys
  BY StoreAssumption DEF SomeKey
<1>2. QED
  BY <1>1, NoneTyped DEF NoJob, Jobs, Kinds

LEMMA IdleTyped == Idle \in Runs /\ Idle.step = "idle" /\ \A k \in Keys : Idle.marks[k] = None
  BY EmptyTableTyped DEF Idle, Runs, Tenants

LEMMA RebuiltLoose ==
  ASSUME StoreTypes
  PROVE  Rebuilt \in LooseTables /\ OfflineRebuilt \in LooseTables
  BY NoneTyped DEF StoreTypes, LooseTables, Rebuilt, OfflineRebuilt

LEMMA TombstoneTyped ==
  ASSUME NEW row \in Loose
  PROVE  Tombstone(row) \in Loose /\ Deleted(Tombstone(row)) /\ Quarantined(row) \in Loose
  BY DEF Loose, Statuses, Tombstone, Deleted, Quarantined

LEMMA EditedLoose ==
  ASSUME StoreTypes, NEW r \in Routers
  PROVE  Edited(r) \in LooseTables
<1>1. copy[r] \in LooseTables /\ job[r] \in Jobs
  BY DEF StoreTypes
<1>2. CASE job[r].kind = "build"
  BY <1>1, <1>2, NoneTyped DEF Edited, LooseTables, Jobs
<1>3. CASE job[r].kind = "touch"
  BY <1>1, <1>3 DEF Edited
<1>4. CASE job[r].kind \notin {"build", "touch"}
  <2> DEFINE old == copy[r][job[r].key]
             new == IF old = None THEN None ELSE [old EXCEPT !.status = "quarantined"]
  <2>1. Edited(r) = [copy[r] EXCEPT ![job[r].key] = new]
    BY <1>4 DEF Edited
  <2>2. old \in Loose /\ job[r].key \in Keys
    BY <1>1 DEF LooseTables, Jobs
  <2>3. new \in Loose
    BY <2>2, NoneTyped DEF Loose, Statuses
  <2>4. QED
    BY <1>1, <2>1, <2>2, <2>3 DEF LooseTables
<1>5. QED
  BY <1>2, <1>3, <1>4

-----------------------------------------------------------------------------
(* A step of a router; it only happens while the tool is idle *)

LEMMA RouterTypes ==
  ASSUME StoreTypes, Next
  PROVE  StoreTypes'
<1>1. ASSUME NEW r \in Routers, Start(r) \/ RebuildLost(r) \/ LogRebuild(r) PROVE StoreTypes'
  BY <1>1, RebuiltLoose DEF StoreTypes, Start, RebuildLost, LogRebuild, Rebuild
<1>2. ASSUME NEW r \in Routers, NEW s, Finish(r, s), UNCHANGED <<registry, manifest>>,
             blob' \in [Blobs -> {"absent", "good", "damaged"}]
      PROVE  StoreTypes'
  BY <1>2, NoJobIsJob, EmptyTableTyped DEF StoreTypes, Finish
<1>3. ASSUME NEW r \in Routers, Crash(r) \/ BuildFails(r) \/ GiveUp(r) \/ UploadMismatch(r) \/ Commit(r)
      PROVE  StoreTypes'
  <2>1. blob' \in [Blobs -> {"absent", "good", "damaged"}] /\ UNCHANGED <<registry, manifest>>
    BY <1>3 DEF StoreTypes, Crash, BuildFails, GiveUp, UploadMismatch, Commit, files
  <2>2. QED
    BY <1>2, <1>3, <2>1 DEF Crash, BuildFails, GiveUp, UploadMismatch, Commit
<1>4. ASSUME NEW r \in Routers, LeaseForUse(r) PROVE StoreTypes'
  <2>1. UNCHANGED <<blob, registry, manifest>>
    BY <1>4 DEF LeaseForUse, files
  <2>2. CASE Finish(r, "idle")
    BY <1>2, <2>1, <2>2 DEF StoreTypes
  <2>3. CASE UNCHANGED <<job, copy>>
    BY <2>1, <2>3 DEF StoreTypes
  <2>4. QED
    BY <1>4, <2>2, <2>3 DEF LeaseForUse
<1>5. ASSUME NEW r \in Routers, BeginBuild(r) PROVE StoreTypes'
  BY <1>5, NoneTyped DEF StoreTypes, BeginBuild, files, Jobs, Kinds
<1>6. ASSUME NEW r \in Routers, Upload(r) PROVE StoreTypes'
  <2>1. PICK b \in Blobs :
          /\ blob' = [blob EXCEPT ![b] = "good"]
          /\ job' = [job EXCEPT ![r].row = [blob |-> b, status |-> "validated"]]
    BY <1>6 DEF Upload
  <2>2. [blob |-> b, status |-> "validated"] \in Loose
    BY DEF Loose, Statuses
  <2>3. QED
    BY <1>6, <2>1, <2>2 DEF StoreTypes, Upload, Jobs
<1>7. ASSUME NEW r \in Routers, Find(r) PROVE StoreTypes'
  BY <1>7 DEF StoreTypes, Find, files, Jobs, Kinds, LooseTables
<1>8. ASSUME NEW r \in Routers, FindCorrupt(r) \/ FindMismatch(r) PROVE StoreTypes'
  <2>1. Quarantined(job[r].row) \in Loose
    BY TombstoneTyped DEF StoreTypes, Jobs
  <2>2. CASE FindCorrupt(r)
    BY <2>1, <2>2 DEF StoreTypes, FindCorrupt, files, Jobs, Kinds
  <2>3. CASE FindMismatch(r)
    BY <2>1, <2>3 DEF StoreTypes, FindMismatch, files, Jobs, Kinds
  <2>4. QED
    BY <1>8, <2>2, <2>3
<1>9. ASSUME NEW r \in Routers, Attempt(r) \/ Prepare(r) \/ Prepared(r) PROVE StoreTypes'
  BY <1>9 DEF StoreTypes, Attempt, Prepare, Prepared, files
<1>10. ASSUME NEW r \in Routers, WriteManifest(r) PROVE StoreTypes'
  BY <1>10 DEF StoreTypes, WriteManifest, LooseTables, Jobs
<1>11. ASSUME NEW r \in Routers, LoadRegistry(r) PROVE StoreTypes'
  BY <1>11 DEF StoreTypes, LoadRegistry, files
<1>12. ASSUME NEW r \in Routers, SaveRegistry(r) PROVE StoreTypes'
  <2>1. registry' \in LooseTables /\ UNCHANGED <<blob, manifest>>
    BY <1>12, EditedLoose DEF SaveRegistry
  <2>2. CASE Finish(r, "idle")
    BY <2>1, <2>2, NoJobIsJob, EmptyTableTyped DEF StoreTypes, Finish
  <2>3. CASE UNCHANGED <<job, copy>>
    BY <2>1, <2>3 DEF StoreTypes
  <2>4. CASE job' = [job EXCEPT ![r].kind = "touch"] /\ UNCHANGED copy
    BY <2>1, <2>4 DEF StoreTypes, Jobs, Kinds
  <2>5. QED
    BY <1>12, <2>2, <2>3, <2>4 DEF SaveRegistry
<1>13. CASE Rot
  BY <1>13 DEF StoreTypes, Rot
<1>14. QED
  BY <1>1, <1>3, <1>4, <1>5, <1>6, <1>7, <1>8, <1>9, <1>10, <1>11, <1>12, <1>13 DEF Next, Build, Use, Write

-----------------------------------------------------------------------------
(* A step of the tool *)

\* While nothing is being marked or unlinked, only types are at stake.
LEMMA IdleTool ==
  ASSUME StoreTypes, tool = Idle
  PROVE  ToolInv
  BY IdleTyped DEF ToolInv, MarksAreTombstones, DoomedAreMarked, NamedAreSpared, OthersAreListed

LEMMA ToolBegins ==
  ASSUME ToolInv, BeginDelete \/ BeginCollect \/ BeginRebuild
  PROVE  ToolInv'
<1>1. StoreTypes'
  BY DEF ToolInv, BeginDelete, BeginCollect, BeginRebuild, StoreTypes, vars, files
<1>2. CASE BeginDelete
  <2>1. PICK rows \in {registry} \union (IF DiskFaults THEN {OfflineRebuilt} ELSE {}),
             t \in {TenantOf[k] : k \in Keys}, gc \in BOOLEAN :
          tool' = [Idle EXCEPT
            !.step = "marking", !.gc = gc, !.tenant = t, !.rows = rows,
            !.marks = [k \in Keys |-> IF k \in {j \in Keys : TenantOf[j] = t /\ rows[j] # None} /\ manifest[k] # None
                                      THEN Tombstone(manifest[k]) ELSE None]]
    BY <1>2, Zenon DEF BeginDelete
  <2> DEFINE marks == [k \in Keys |-> IF TenantOf[k] = t /\ rows[k] # None /\ manifest[k] # None
                                     THEN Tombstone(manifest[k]) ELSE None]
  <2>2. rows \in {registry, OfflineRebuilt} /\ rows \in LooseTables
    BY RebuiltLoose DEF ToolInv, StoreTypes
  <2>3. marks \in LooseTables /\ \A k \in Keys : marks[k] # None => Deleted(marks[k])
    BY TombstoneTyped, NoneTyped DEF ToolInv, StoreTypes, LooseTables
  <2>4. tool' = [step |-> "marking", ok |-> TRUE, gc |-> gc, tenant |-> t, rows |-> rows, marks |-> marks, blobs |-> {}]
    BY <2>1 DEF Idle
  <2>5. tool' \in Runs
    BY <2>2, <2>3, <2>4 DEF Runs, Tenants
  <2>6. UNCHANGED <<manifest, registry, blob>>
    BY <1>2 DEF BeginDelete, vars, files
  <2>7. ASSUME NEW k \in Keys, TenantOf[k] = t, registry[k] # None
        PROVE  marks[k] # None \/ manifest[k] = None \/ Deleted(manifest[k]) \/ ~Intact(manifest[k])
    <3>1. CASE rows[k] # None /\ manifest[k] # None
      <4>1. manifest[k] \in Loose
        BY DEF ToolInv, StoreTypes, LooseTables
      <4>2. Tombstone(manifest[k]) # None
        BY <4>1, TombstoneTyped DEF Deleted, None
      <4>3. QED
        BY <2>7, <3>1, <4>2
    <3>2. CASE rows[k] = None /\ manifest[k] # None
      BY <2>2, <2>7, <3>2 DEF OfflineRebuilt, Sound
    <3>3. QED
      BY <3>1, <3>2
  <2>8. DoomedAreMarked'
    BY <2>4, <2>6, <2>7 DEF DoomedAreMarked, Intact
  <2>9. QED
    BY <1>1, <2>3, <2>4, <2>5, <2>8 DEF ToolInv, MarksAreTombstones, NamedAreSpared, OthersAreListed
<1>3. CASE BeginCollect
  BY <1>1, <1>3, IdleTyped
     DEF BeginCollect, ToolInv, Runs, Idle, MarksAreTombstones, DoomedAreMarked, NamedAreSpared, OthersAreListed
<1>4. CASE BeginRebuild
  <2>1. OfflineRebuilt \in LooseTables
    BY RebuiltLoose DEF ToolInv
  <2>2. tool' \in Runs /\ tool'.step \in {"idle", "filing"} /\ tool'.marks = Idle.marks
    BY <1>4, <2>1, IdleTyped DEF BeginRebuild, Runs, Idle
  <2>3. QED
    BY <1>1, <2>2, IdleTyped
       DEF ToolInv, MarksAreTombstones, DoomedAreMarked, NamedAreSpared, OthersAreListed
<1>5. QED
  BY <1>2, <1>3, <1>4

LEMMA ToolMarks ==
  ASSUME ToolInv, MarkManifest
  PROVE  ToolInv'
<1>1. PICK k \in Keys : /\ tool.marks[k] # None
                        /\ manifest' = [manifest EXCEPT ![k] = tool.marks[k]]
                        /\ tool' = [tool EXCEPT !.marks[k] = None]
  BY DEF MarkManifest
<1>2. UNCHANGED <<blob, registry, job, copy>> /\ tool.step = "marking"
  BY DEF MarkManifest
<1>3. tool \in Runs /\ tool.marks \in LooseTables
  BY DEF ToolInv, Runs
<1>4. /\ tool'.step = "marking" /\ tool'.tenant = tool.tenant
      /\ tool'.marks = [tool.marks EXCEPT ![k] = None]
      /\ tool' \in Runs
  BY <1>1, <1>2, <1>3, NoneTyped DEF Runs, LooseTables
<1>5. StoreTypes'
  BY <1>1, <1>2, <1>3 DEF ToolInv, StoreTypes, LooseTables
<1>6. MarksAreTombstones'
  BY <1>3, <1>4 DEF ToolInv, MarksAreTombstones, LooseTables
<1>7. DoomedAreMarked'
  <2> SUFFICES ASSUME NEW j \in Keys, TenantOf[j] = tool.tenant, registry[j] # None
               PROVE  \/ tool'.marks[j] # None
                      \/ manifest'[j] = None
                      \/ Deleted(manifest'[j])
                      \/ ~Intact(manifest[j])'
    BY <1>2, <1>4 DEF DoomedAreMarked
  <2>1. CASE j = k
    BY <1>1, <2>1 DEF ToolInv, StoreTypes, LooseTables, MarksAreTombstones
  <2>2. CASE j # k
    <3>1. manifest'[j] = manifest[j] /\ tool'.marks[j] = tool.marks[j]
      BY <1>1, <1>3, <1>4, <2>2 DEF ToolInv, StoreTypes, LooseTables
    <3>2. QED
      BY <1>2, <3>1 DEF ToolInv, DoomedAreMarked, Intact
  <2>3. QED
    BY <2>1, <2>2
<1>8. QED
  BY <1>4, <1>5, <1>6, <1>7 DEF ToolInv, NamedAreSpared, OthersAreListed

LEMMA ToolCollects ==
  ASSUME ToolInv, Collect
  PROVE  ToolInv'
<1>1. UNCHANGED <<blob, manifest, registry, job, copy>>
  BY DEF Collect, vars, files
<1>2. StoreTypes'
  BY <1>1 DEF ToolInv, StoreTypes
<1>3. CASE tool' = Idle
  BY <1>2, <1>3, IdleTyped DEF ToolInv, MarksAreTombstones, DoomedAreMarked, NamedAreSpared, OthersAreListed
<1>4. CASE tool' = [tool EXCEPT !.step = "unlinking",
                                !.blobs = {b \in Blobs : blob[b] # "absent"} \ References]
  <2>1. /\ tool' \in Runs
        /\ tool'.step = "unlinking"
        /\ tool'.blobs = {b \in Blobs : blob[b] # "absent"} \ References
        /\ tool'.marks = tool.marks
    BY <1>4 DEF ToolInv, Runs
  <2>2. \A b : b \in References <=> Named(b)
    BY DEF References, Named
  <2>3. \A b : Named(b)' <=> Named(b)
    BY <1>1 DEF Named
  <2>4. NamedAreSpared' /\ OthersAreListed'
    BY <1>1, <2>1, <2>2, <2>3 DEF NamedAreSpared, OthersAreListed
  <2>5. MarksAreTombstones' /\ DoomedAreMarked'
    BY <2>1 DEF ToolInv, MarksAreTombstones, DoomedAreMarked
  <2>6. QED
    BY <1>2, <2>1, <2>4, <2>5 DEF ToolInv
<1>5. QED
  BY <1>3, <1>4 DEF Collect

LEMMA ToolUnlinks ==
  ASSUME ToolInv, Unlink
  PROVE  ToolInv'
<1>1. PICK b \in tool.blobs :
        \/ /\ blob[b] # "absent"
           /\ blob' = [blob EXCEPT ![b] = "absent"]
           /\ tool' = [tool EXCEPT !.blobs = @ \ {b}]
        \/ /\ tool' = [tool EXCEPT !.blobs = @ \ {b}, !.ok = FALSE]
           /\ UNCHANGED blob
  BY DEF Unlink
<1>2. UNCHANGED <<manifest, registry, job, copy>> /\ tool.step = "unlinking"
  BY DEF Unlink
<1>3. tool \in Runs /\ tool.blobs \subseteq Blobs /\ blob \in [Blobs -> {"absent", "good", "damaged"}]
  BY DEF ToolInv, Runs, StoreTypes
<1>4. /\ tool' \in Runs
      /\ tool'.step = "unlinking"
      /\ tool'.blobs = tool.blobs \ {b}
      /\ tool'.marks = tool.marks
      /\ tool'.ok = tool.ok \/ tool'.ok = FALSE
  BY <1>1, <1>2, <1>3 DEF Runs
<1>5. StoreTypes'
  BY <1>1, <1>2, <1>3 DEF ToolInv, StoreTypes
<1>6. \A c : Named(c)' <=> Named(c)
  BY <1>2 DEF Named
<1>7. NamedAreSpared'
  BY <1>2, <1>4, <1>6 DEF ToolInv, NamedAreSpared
<1>8. OthersAreListed'
  <2>1. CASE blob' = [blob EXCEPT ![b] = "absent"] /\ tool' = [tool EXCEPT !.blobs = @ \ {b}]
    BY <1>2, <1>3, <1>4, <1>6, <2>1 DEF ToolInv, OthersAreListed, Runs
  <2>2. CASE tool' = [tool EXCEPT !.blobs = @ \ {b}, !.ok = FALSE]
    BY <1>3, <2>2 DEF OthersAreListed, Runs
  <2>3. QED
    BY <1>1, <2>1, <2>2
<1>9. QED
  BY <1>4, <1>5, <1>7, <1>8 DEF ToolInv, MarksAreTombstones, DoomedAreMarked

\* The last write of a run, or the end of one.
LEMMA ToolEnds ==
  ASSUME ToolInv, RemoveRows \/ EndCollect \/ WriteRegistry \/ Kill
  PROVE  ToolInv'
<1>1. tool.rows \in LooseTables
  BY DEF ToolInv, Runs
<1>2. StoreTypes'
  <2>1. CASE RemoveRows
    BY <1>1, <2>1, NoneTyped DEF ToolInv, StoreTypes, RemoveRows, LooseTables
  <2>2. CASE WriteRegistry
    BY <1>1, <2>2 DEF ToolInv, StoreTypes, WriteRegistry
  <2>3. CASE EndCollect \/ Kill
    BY <2>3 DEF ToolInv, StoreTypes, EndCollect, Kill, vars, files
  <2>4. QED
    BY <2>1, <2>2, <2>3
<1>3. tool' \in Runs /\ tool'.step \in {"idle", "collecting"} /\ tool'.marks = Idle.marks
  BY IdleTyped DEF RemoveRows, EndCollect, WriteRegistry, Kill, Idle, Runs
<1>4. QED
  BY <1>2, <1>3, IdleTyped
     DEF ToolInv, MarksAreTombstones, DoomedAreMarked, NamedAreSpared, OthersAreListed

LEMMA StillTool ==
  ASSUME ToolInv, UNCHANGED <<tool, vars>>
  PROVE  ToolInv'
  BY DEF ToolInv, StoreTypes, vars, files, MarksAreTombstones, DoomedAreMarked, NamedAreSpared,
         OthersAreListed, Intact, Named

-----------------------------------------------------------------------------
\* The inductive invariant of the tool's runs next to routers that are down.
THEOREM ToolInvariant == ASSUME Offline PROVE MaintenanceSpec => []ToolInv
<1>1. MaintenanceInit => ToolInv
  <2> SUFFICES ASSUME MaintenanceInit PROVE ToolInv
    OBVIOUS
  <2>1. StoreTypes
    BY NoJobIsJob, EmptyTableTyped DEF MaintenanceInit, Init, StoreTypes
  <2>2. QED
    BY <2>1, IdleTool DEF MaintenanceInit
<1>2. ToolInv /\ [MaintenanceNext]_storeVars => ToolInv'
  <2> SUFFICES ASSUME ToolInv, [MaintenanceNext]_storeVars PROVE ToolInv'
    OBVIOUS
  <2>1. CASE Router
    <3>1. tool.step = "idle" /\ Next /\ tool' = tool
      BY <2>1 DEF Router
    <3>2. StoreTypes'
      BY <3>1, RouterTypes DEF ToolInv
    <3>3. QED
      BY <3>1, <3>2 DEF ToolInv, MarksAreTombstones, DoomedAreMarked, NamedAreSpared, OthersAreListed
  <2>2. CASE Delete
    BY <2>2, ToolBegins, ToolMarks, ToolEnds DEF Delete
  <2>3. CASE CollectGarbage
    BY <2>3, ToolBegins, ToolCollects, ToolUnlinks, ToolEnds DEF CollectGarbage
  <2>4. CASE BeginRebuild \/ WriteRegistry \/ Kill
    BY <2>4, ToolBegins, ToolEnds
  <2>5. CASE Litter \/ UNCHANGED storeVars
    BY <2>5, StillTool DEF Litter, storeVars
  <2>6. QED
    BY <2>1, <2>2, <2>3, <2>4, <2>5 DEF MaintenanceNext
<1>3. QED
  BY <1>1, <1>2, PTL DEF MaintenanceSpec

\* With the routers down blob GC never deletes what a manifest that is not a tombstone
\* names (gc_unreferenced_blobs), whoever kills it, and whatever it is run after.
THEOREM ReferencedBlobsStay == ASSUME Offline PROVE MaintenanceSpec => ReferencedStay
<1>1. ToolInv /\ [MaintenanceNext]_storeVars =>
        [\A b \in Blobs : blob[b] # "absent" /\ blob'[b] = "absent" => ~Named(b)]_storeVars
  <2> SUFFICES ASSUME ToolInv, MaintenanceNext, NEW b \in Blobs, blob[b] # "absent", blob'[b] = "absent"
               PROVE  ~Named(b)
    OBVIOUS
  <2>1. CASE Unlink
    BY <2>1 DEF ToolInv, StoreTypes, NamedAreSpared, Unlink
  <2>2. CASE Router
    <3>1. ASSUME NEW r \in Routers, Upload(r) \/ UploadMismatch(r) PROVE FALSE
      BY <3>1 DEF ToolInv, StoreTypes, Upload, UploadMismatch
    <3>2. CASE Rot
      BY <3>2 DEF ToolInv, StoreTypes, Rot
    <3>3. ASSUME NEW r \in Routers, Start(r) \/ Crash(r) \/ RebuildLost(r) \/ LogRebuild(r) \/ Use(r)
          PROVE  UNCHANGED blob
      BY <3>3 DEF Start, Crash, RebuildLost, LogRebuild, files, Use, Find, LeaseForUse, GiveUp, Attempt,
                  FindCorrupt, FindMismatch
    <3>4. ASSUME NEW r \in Routers, BeginBuild(r) \/ BuildFails(r) \/ Write(r) PROVE UNCHANGED blob
      BY <3>4 DEF BeginBuild, BuildFails, Write, Prepare, WriteManifest, Prepared, LoadRegistry, SaveRegistry,
                  Commit, files
    <3>5. QED
      BY <2>2, <3>1, <3>2, <3>3, <3>4 DEF Router, Next, Build
  <2>3. CASE Delete \/ BeginRebuild \/ WriteRegistry \/ Kill \/ Litter
    BY <2>3 DEF Delete, BeginDelete, MarkManifest, RemoveRows, BeginRebuild, WriteRegistry, Kill, Litter, vars, files
  <2>4. CASE BeginCollect \/ Collect \/ EndCollect
    BY <2>4 DEF BeginCollect, Collect, EndCollect, vars, files
  <2>5. QED
    BY <2>1, <2>2, <2>3, <2>4 DEF MaintenanceNext, CollectGarbage
<1>2. QED
  BY <1>1, ToolInvariant, PTL DEF MaintenanceSpec, ReferencedStay

\* A collection that reports ok has left nothing that only tombstones name.
THEOREM CollectionsAreComplete == ASSUME Offline PROVE MaintenanceSpec => CollectedMeansGone
<1>1. ToolInv =>
        (tool.step = "unlinking" /\ tool.blobs = {} /\ tool.ok =>
           \A b \in Blobs : blob[b] # "absent" => Named(b))
  BY DEF ToolInv, OthersAreListed
<1>2. ToolInv /\ [MaintenanceNext]_storeVars =>
        [tool.step = "unlinking" /\ tool.blobs = {} /\ tool.ok /\ tool'.step = "idle" =>
           \A b \in Blobs : blob[b] # "absent" => Named(b)]_storeVars
  BY <1>1
<1>3. QED
  BY <1>2, ToolInvariant, PTL DEF MaintenanceSpec, CollectedMeansGone

\* However often a deletion is killed, what it has not marked still has its row
\* (tenant_delete marks the manifests before it writes the registry).
THEOREM RowsLeaveLast == ASSUME Offline PROVE MaintenanceSpec => TenantRowsLeaveLast
<1>1. ToolInv /\ [MaintenanceNext]_storeVars =>
        [\A k \in Keys :
           tool.step = "marking" /\ registry[k] # None /\ registry'[k] = None /\ TenantOf[k] = tool.tenant =>
             manifest[k] = None \/ Deleted(manifest[k]) \/ ~Intact(manifest[k])]_storeVars
  <2> SUFFICES ASSUME ToolInv, MaintenanceNext, NEW k \in Keys, tool.step = "marking", registry[k] # None,
                      registry'[k] = None, TenantOf[k] = tool.tenant
               PROVE  manifest[k] = None \/ Deleted(manifest[k]) \/ ~Intact(manifest[k])
    OBVIOUS
  <2>1. CASE RemoveRows
    BY <2>1, EmptyTableTyped DEF ToolInv, DoomedAreMarked, RemoveRows
  <2>2. CASE BeginDelete \/ MarkManifest \/ Kill \/ Litter
    BY <2>2 DEF BeginDelete, MarkManifest, Kill, Litter, vars, files
  <2>3. CASE CollectGarbage \/ BeginRebuild \/ WriteRegistry
    BY <2>3 DEF CollectGarbage, BeginCollect, Collect, Unlink, EndCollect, BeginRebuild, WriteRegistry, MayRun
  <2>4. CASE Router
    BY <2>4 DEF Router
  <2>5. QED
    BY <2>1, <2>2, <2>3, <2>4 DEF MaintenanceNext, Delete
<1>2. QED
  BY <1>1, ToolInvariant, PTL DEF MaintenanceSpec, TenantRowsLeaveLast

-----------------------------------------------------------------------------
(***************************************************************************)
(* One router on the cache root, which may die at any write and come back. *)
(* Its registry copy is then never stale when it is saved, and what it has *)
(* in memory of a quarantined entry says so: SoleInv.  With two routers    *)
(* neither is so, and run store_faults shows a published row lost.         *)
(***************************************************************************)

OneRouter == \A q, r \in Routers : q = r

\* What its job is about, at each stage of it.
SoleOK(r) ==
  /\ stage[r] = "upload" => job[r].kind = "build"
  /\ stage[r] = "save" => copy[r] = registry
  /\ stage[r] \in Carrying =>
       IF job[r].kind = "build"
       THEN Active(job[r].row) /\ (stage[r] \in Written => manifest[job[r].key] = job[r].row)
       ELSE manifest[job[r].key].status = "quarantined" => job[r].row.status = "quarantined"

SoleInv ==
  /\ StoreTypes
  /\ stage \in [Routers -> Stages]
  /\ \A r \in Routers : SoleOK(r)

\* A job that is over leaves nothing to say, and so does one that has not begun.
LEMMA Over ==
  ASSUME SoleInv, NEW r \in Routers, NEW s \in {"down", "idle", "rebuilt"}, Goto(r, s)
  PROVE  stage' \in [Routers -> Stages] /\ SoleOK(r)'
  BY DEF SoleInv, Goto, SoleOK, Carrying, Stages

LEMMA SoleBuild ==
  ASSUME SoleInv, NEW r \in Routers, Build(r)
  PROVE  stage' \in [Routers -> Stages] /\ SoleOK(r)'
<1>1. CASE BeginBuild(r)
  BY <1>1 DEF SoleInv, StoreTypes, Jobs, BeginBuild, Goto, SoleOK, Carrying, Written, Stages, files
<1>2. CASE Upload(r)
  <2>1. PICK b \in Blobs : job' = [job EXCEPT ![r].row = [blob |-> b, status |-> "validated"]]
    BY <1>2 DEF Upload
  <2>2. job'[r].kind = "build" /\ job'[r].row = [blob |-> b, status |-> "validated"]
    BY <1>2, <2>1 DEF SoleInv, SoleOK, StoreTypes, Jobs, Upload
  <2>3. Active(job'[r].row)
    BY <2>2 DEF Active
  <2>4. stage' \in [Routers -> Stages] /\ stage'[r] = "prepare"
    BY <1>2 DEF SoleInv, Upload, Goto, Stages
  <2> QED
    BY <2>2, <2>3, <2>4 DEF SoleOK, Written
<1>3. CASE UploadMismatch(r) \/ BuildFails(r)
  BY <1>3, Over DEF UploadMismatch, BuildFails, Finish
<1> QED
  BY <1>1, <1>2, <1>3 DEF Build

LEMMA SoleUse ==
  ASSUME SoleInv, NEW r \in Routers, Use(r)
  PROVE  stage' \in [Routers -> Stages] /\ SoleOK(r)'
<1>1. CASE Find(r)
  <2>1. PICK k \in Keys : job' = [job EXCEPT ![r] = [kind |-> "touch", key |-> k, old |-> k, row |-> manifest[k]]]
    BY <1>1 DEF Find
  <2>2. job'[r].kind = "touch" /\ job'[r].key = k /\ job'[r].row = manifest[k]
    BY <2>1 DEF SoleInv, StoreTypes
  <2>3. manifest' = manifest /\ stage'[r] = "found" /\ stage' \in [Routers -> Stages]
    BY <1>1 DEF Find, Goto, files, SoleInv, Stages
  <2> QED
    BY <2>2, <2>3 DEF SoleOK
<1>2. CASE LeaseForUse(r) \/ GiveUp(r)
  <2>1. CASE Finish(r, "idle")
    BY <2>1, Over DEF Finish
  <2>2. CASE Goto(r, "restoring") /\ UNCHANGED <<job, copy>>
    BY <1>2, <2>2 DEF SoleInv, SoleOK, LeaseForUse, GiveUp, Goto, files, Carrying, Written, Stages
  <2> QED
    BY <1>2, <2>1, <2>2 DEF LeaseForUse, GiveUp
<1>3. CASE Attempt(r)
  BY <1>3 DEF SoleInv, SoleOK, Attempt, Goto, files, Carrying, Written, Stages
<1>4. CASE FindCorrupt(r) \/ FindMismatch(r)
  <2>1. PICK kind \in {"corrupt", "mismatch"} : job' = [job EXCEPT ![r].kind = kind, ![r].row = Quarantined(@)]
    BY <1>4 DEF FindCorrupt, FindMismatch
  <2>2. job'[r].kind = kind /\ job'[r].row = Quarantined(job[r].row) /\ job[r].row \in Loose
    BY <2>1 DEF SoleInv, StoreTypes, Jobs
  <2>3. job'[r].row.status = "quarantined"
    BY <2>2 DEF Quarantined, Loose
  <2>4. stage'[r] = "write" /\ stage' \in [Routers -> Stages]
    BY <1>4 DEF FindCorrupt, FindMismatch, Goto, SoleInv, Stages
  <2> QED
    BY <2>2, <2>3, <2>4 DEF SoleOK
<1> QED
  BY <1>1, <1>2, <1>3, <1>4 DEF Use

LEMMA SoleWrite ==
  ASSUME SoleInv, NEW r \in Routers, Write(r)
  PROVE  stage' \in [Routers -> Stages] /\ SoleOK(r)'
<1>1. CASE Prepare(r) \/ Prepared(r)
  BY <1>1 DEF SoleInv, SoleOK, Prepare, Prepared, Goto, Carrying, Written, Stages
<1>2. CASE WriteManifest(r)
  <2>1. manifest'[job[r].key] = job[r].row
    BY <1>2 DEF SoleInv, StoreTypes, LooseTables, Jobs, WriteManifest
  <2>2. job[r].kind = "build" => Active(job[r].row)
    BY <1>2 DEF SoleInv, SoleOK, WriteManifest, Carrying, Stages
  <2>3. job' = job /\ stage' \in [Routers -> Stages] /\ stage'[r] \in {"prepared", "load"}
    BY <1>2 DEF SoleInv, WriteManifest, Goto, Stages
  <2> QED
    BY <2>1, <2>2, <2>3 DEF SoleOK, Active
<1>3. CASE LoadRegistry(r)
  BY <1>3 DEF SoleInv, StoreTypes, SoleOK, LoadRegistry, Goto, files, Carrying, Written, Stages
<1>4. CASE SaveRegistry(r)
  <2>1. CASE Finish(r, "idle")
    BY <2>1, Over DEF Finish
  <2>2. CASE job[r].kind = "build" /\ Goto(r, "commit") /\ UNCHANGED <<job, copy>>
    BY <1>4, <2>2 DEF SoleInv, SoleOK, SaveRegistry, Goto, Carrying, Written, Stages
  <2>3. CASE job[r].kind = "mismatch" /\ Goto(r, "write") /\ job' = [job EXCEPT ![r].kind = "touch"]
    <3>1. job'[r].kind = "touch" /\ job'[r].row = job[r].row /\ job'[r].key = job[r].key
      BY <2>3 DEF SoleInv, StoreTypes, Jobs
    <3>2. manifest' = manifest /\ stage'[r] = "write" /\ stage' \in [Routers -> Stages] /\ stage[r] = "save"
      BY <1>4, <2>3 DEF SaveRegistry, Goto, SoleInv, Stages
    <3>3. manifest[job[r].key].status = "quarantined" => job[r].row.status = "quarantined"
      BY <2>3, <3>2 DEF SoleInv, SoleOK, Carrying, Stages
    <3> QED
      BY <3>1, <3>2, <3>3 DEF SoleOK
  <2>4. CASE job[r].kind = "touch" /\ Goto(r, "found") /\ UNCHANGED <<job, copy>>
    BY <1>4, <2>4 DEF SoleInv, SoleOK, SaveRegistry, Goto, Carrying, Written, Stages
  <2> QED
    BY <1>4, <2>1, <2>2, <2>3, <2>4 DEF SaveRegistry
<1>5. CASE Commit(r)
  BY <1>5, Over DEF Commit, Finish
<1> QED
  BY <1>1, <1>2, <1>3, <1>4, <1>5 DEF Write

LEMMA SoleStep ==
  ASSUME OneRouter, SoleInv, Next
  PROVE  SoleInv'
<1>1. StoreTypes'
  BY RouterTypes DEF SoleInv
<1>2. ASSUME NEW r \in Routers,
             Start(r) \/ Crash(r) \/ RebuildLost(r) \/ LogRebuild(r) \/ Build(r) \/ Use(r) \/ Write(r)
      PROVE  stage' \in [Routers -> Stages] /\ SoleOK(r)'
  <2>1. CASE Start(r) \/ Crash(r)
    BY <2>1, Over DEF Start, Crash, Finish, Rebuild
  <2>2. CASE RebuildLost(r)
    BY <2>2, Over DEF SoleInv, SoleOK, RebuildLost, Rebuild, Goto, Carrying, Written, Stages
  <2>3. CASE LogRebuild(r)
    BY <2>3, Over DEF SoleInv, SoleOK, LogRebuild, Goto, Carrying, Written, Stages
  <2> QED
    BY <1>2, <2>1, <2>2, <2>3, SoleBuild, SoleUse, SoleWrite
<1>3. CASE Rot
  BY <1>1, <1>3 DEF SoleInv, SoleOK, Rot
<1>4. ASSUME NEW r \in Routers, stage' \in [Routers -> Stages], SoleOK(r)'
      PROVE  SoleInv'
  <2>1. \A q \in Routers : q = r
    BY DEF OneRouter
  <2>2. \A q \in Routers : SoleOK(q)'
    BY <1>4, <2>1
  <2> QED
    BY <1>1, <1>4, <2>2 DEF SoleInv
<1> QED
  BY <1>2, <1>3, <1>4 DEF Next

LEMMA SoleInit == Init => SoleInv
<1> SUFFICES ASSUME Init PROVE SoleInv
  OBVIOUS
<1>1. StoreTypes
  BY NoJobIsJob, EmptyTableTyped DEF Init, StoreTypes
<1>2. stage \in [Routers -> Stages] /\ \A r \in Routers : SoleOK(r)
  BY DEF Init, SoleOK, Carrying, Stages
<1> QED
  BY <1>1, <1>2 DEF SoleInv

\* A router that has the store to itself saves no stale copy, and knows what it has
\* quarantined.
THEOREM SoleInvariant == ASSUME OneRouter PROVE Spec => []SoleInv
<1>1. SoleInv /\ [Next]_vars => SoleInv'
  <2>1. SoleInv /\ UNCHANGED vars => SoleInv'
    BY DEF SoleInv, StoreTypes, SoleOK, vars, files
  <2> QED
    BY <2>1, SoleStep
<1> QED
  BY <1>1, SoleInit, PTL DEF Spec

\* Rows change with a rebuild and with the end of a job, and nowhere else.
LEMMA OtherStepsKeepRows ==
  ASSUME [Next]_vars, \A r \in Routers : ~SaveRegistry(r) /\ ~Rebuild(r)
  PROVE  UNCHANGED registry
<1>1. ASSUME NEW r \in Routers, Start(r) \/ Crash(r) \/ RebuildLost(r) \/ LogRebuild(r)
      PROVE  UNCHANGED registry
  BY <1>1 DEF Start, Crash, RebuildLost, LogRebuild, files
<1>2. ASSUME NEW r \in Routers, Build(r) PROVE UNCHANGED registry
  BY <1>2 DEF Build, BeginBuild, Upload, UploadMismatch, BuildFails, files
<1>3. ASSUME NEW r \in Routers, Use(r) PROVE UNCHANGED registry
  BY <1>3 DEF Use, Find, LeaseForUse, GiveUp, Attempt, FindCorrupt, FindMismatch, files
<1>4. ASSUME NEW r \in Routers, Write(r) PROVE UNCHANGED registry
  BY <1>4 DEF Write, Prepare, Prepared, LoadRegistry, WriteManifest, Commit, files
<1>5. CASE Rot \/ UNCHANGED vars
  BY <1>5 DEF Rot, vars, files
<1> QED
  BY <1>1, <1>2, <1>3, <1>4, <1>5 DEF Next

\* What saving changes when the copy is not stale.
LEMMA SaveIsExact ==
  ASSUME SoleInv, NEW r \in Routers, SaveRegistry(r), NEW k \in Keys
  PROVE  /\ registry[k] # None /\ registry'[k] = None => job[r].kind = "build" /\ job[r].old = k
         /\ registry[k] = None /\ registry'[k] # None => Active(manifest[k])
<1> DEFINE j == job[r]
           old == registry[j.key]
           new == IF old = None THEN None ELSE [old EXCEPT !.status = "quarantined"]
<1>1. /\ registry' = Edited(r) /\ stage[r] = "save" /\ copy[r] = registry
      /\ registry \in [Keys -> Loose] /\ j.key \in Keys /\ j.old \in Keys
  BY DEF SoleInv, SoleOK, StoreTypes, LooseTables, Jobs, SaveRegistry
<1>2. CASE j.kind = "build"
  <2>1. Active(j.row) /\ manifest[j.key] = j.row
    BY <1>1, <1>2 DEF SoleInv, SoleOK, Carrying, Written, Stages
  <2>2. j.row # None
    BY <2>1 DEF Active, None
  <2>3. registry' = [registry EXCEPT ![j.old] = None, ![j.key] = j.row]
    BY <1>1, <1>2 DEF Edited
  <2> HIDE DEF j
  <2>4. registry'[k] = IF k = j.key THEN j.row ELSE IF k = j.old THEN None ELSE registry[k]
    BY <1>1, <2>3
  <2> QED
    BY <1>2, <2>1, <2>2, <2>4 DEF j
<1>3. CASE j.kind = "touch"
  BY <1>1, <1>3 DEF Edited
<1>4. CASE j.kind \notin {"build", "touch"}
  <2>1. registry' = [registry EXCEPT ![j.key] = new]
    BY <1>1, <1>4 DEF Edited
  <2>2. old # None => new # None
    BY DEF None
  <2> HIDE DEF new, j
  <2>3. registry'[k] = IF k = j.key THEN new ELSE registry[k]
    BY <1>1, <2>1
  <2>4. old = None => new = None
    BY DEF new
  <2> QED
    BY <2>2, <2>3, <2>4
<1> QED
  BY <1>2, <1>3, <1>4

\* A row that was published (save_registry) stays, whatever write the router dies at:
\* a refresh of its key, or a rebuild that finds it bad, takes it away.
THEOREM PublishedRowsStay == ASSUME OneRouter PROVE Spec => PublishedStays
<1>1. StoreInv /\ SoleInv /\ [Next]_vars =>
        [\A k \in Keys :
           registry[k] # None /\ registry'[k] = None =>
             \/ \E r \in Routers : stage[r] = "save" /\ job[r].kind = "build" /\ job[r].old = k
             \/ ~Active(manifest[k])
             \/ ~Intact(manifest[k])]_vars
  <2> SUFFICES ASSUME StoreInv, SoleInv, Next, NEW k \in Keys, registry[k] # None, registry'[k] = None
               PROVE  \/ \E r \in Routers : stage[r] = "save" /\ job[r].kind = "build" /\ job[r].old = k
                      \/ ~Active(manifest[k])
                      \/ ~Intact(manifest[k])
    OBVIOUS
  <2>1. CASE \E r \in Routers : Rebuild(r)
    <3>1. manifest[k] # None /\ Rebuilt[k] = None
      BY <2>1 DEF StoreInv, RowsHaveManifests, Rebuild
    <3> QED
      BY <3>1 DEF Rebuilt
  <2>2. ASSUME NEW r \in Routers, SaveRegistry(r)
        PROVE  stage[r] = "save" /\ job[r].kind = "build" /\ job[r].old = k
    BY <2>2, SaveIsExact DEF SaveRegistry
  <2> QED
    BY <2>1, <2>2, OtherStepsKeepRows
<1> QED
  BY <1>1, StoreInvariant, SoleInvariant, PTL DEF Spec, PublishedStays

\* After quarantine_cache_entry no use that still has the manifest in memory, and no
\* restart, makes the entry active again: only a build that writes it anew.
THEOREM QuarantinesStick == ASSUME OneRouter PROVE Spec => QuarantineSticks
<1>1. SoleInv /\ [Next]_vars =>
        [\A k \in Keys :
           manifest[k].status = "quarantined" /\ Active(manifest'[k]) =>
             \E r \in Routers : stage[r] = "write" /\ job[r].kind = "build" /\ job[r].key = k]_vars
  <2> SUFFICES ASSUME SoleInv, Next, NEW k \in Keys, manifest[k].status = "quarantined", Active(manifest'[k])
               PROVE  \E r \in Routers : stage[r] = "write" /\ job[r].kind = "build" /\ job[r].key = k
    OBVIOUS
  <2>1. manifest'[k] # manifest[k]
    BY DEF Active
  <2>2. PICK r \in Routers : WriteManifest(r)
    BY <2>1, OtherStepsKeepManifests
  <2>3. job[r].key = k /\ manifest'[k] = job[r].row
    BY <2>1, <2>2 DEF WriteManifest, SoleInv, StoreTypes, LooseTables
  <2>4. job[r].kind = "build"
    BY <2>2, <2>3 DEF WriteManifest, SoleInv, SoleOK, Carrying, Stages, Active
  <2> QED
    BY <2>2, <2>3, <2>4 DEF WriteManifest
<1> QED
  BY <1>1, SoleInvariant, PTL DEF Spec, QuarantineSticks

-----------------------------------------------------------------------------
(* The tool next to one router that is down while it runs *)

ToolAlone == tool.step # "idle" => \A r \in Routers : stage[r] = "down"

LEMMA SoleMaintenanceStep ==
  ASSUME OneRouter, Offline, ToolInv, ToolInv', SoleInv, ToolAlone, [MaintenanceNext]_storeVars
  PROVE  SoleInv' /\ ToolAlone'
<1>1. CASE Router
  <2>1. Next /\ tool.step = "idle" /\ tool' = tool
    BY <1>1 DEF Router
  <2> QED
    BY <2>1, SoleStep DEF ToolAlone
<1>2. CASE UNCHANGED vars /\ (tool'.step # "idle" => \A r \in Routers : stage[r] = "down")
  BY <1>2 DEF SoleInv, StoreTypes, SoleOK, vars, files, ToolAlone
<1>3. CASE UNCHANGED <<stage, job, copy>> /\ \A r \in Routers : stage[r] = "down"
  <2>1. StoreTypes' /\ stage' \in [Routers -> Stages]
    BY <1>3 DEF ToolInv, SoleInv
  <2>2. \A r \in Routers : SoleOK(r)'
    BY <1>3 DEF SoleOK, Carrying
  <2> QED
    BY <1>3, <2>1, <2>2 DEF SoleInv, ToolAlone
<1>4. CASE BeginDelete \/ BeginCollect \/ BeginRebuild
  BY <1>2, <1>4 DEF BeginDelete, BeginCollect, BeginRebuild, MayRun
<1>5. CASE Collect \/ EndCollect \/ Kill
  BY <1>2, <1>5 DEF Collect, EndCollect, Kill, ToolAlone
<1>6. CASE MarkManifest \/ RemoveRows \/ Unlink \/ WriteRegistry
  BY <1>3, <1>6 DEF MarkManifest, RemoveRows, Unlink, WriteRegistry, ToolAlone
<1>7. CASE Litter \/ UNCHANGED storeVars
  BY <1>2, <1>7 DEF Litter, storeVars, ToolAlone
<1> QED
  BY <1>1, <1>4, <1>5, <1>6, <1>7 DEF MaintenanceNext, Delete, CollectGarbage

\* A deleted tenant's entry that has left the registry does not come back through a
\* router: neither replay nor rebuild files a tombstone, and no job has it in memory.
THEOREM RoutersResurrectNothing == ASSUME OneRouter, Offline PROVE MaintenanceSpec => NoRouterResurrects
<1>1. MaintenanceInit => SoleInv /\ ToolAlone
  BY SoleInit, IdleTyped DEF MaintenanceInit, ToolAlone
<1>2. ToolInv /\ ToolInv' /\ SoleInv /\ ToolAlone /\ [MaintenanceNext]_storeVars => SoleInv' /\ ToolAlone'
  BY SoleMaintenanceStep
<1>3. SoleInv /\ [MaintenanceNext]_storeVars =>
        [\A k \in Keys :
           Deleted(manifest[k]) /\ registry[k] = None /\ registry'[k] # None =>
             tool.step \in {"marking", "filing"}]_storeVars
  <2> SUFFICES ASSUME SoleInv, MaintenanceNext, NEW k \in Keys,
                      Deleted(manifest[k]), registry[k] = None, registry'[k] # None
               PROVE  tool.step \in {"marking", "filing"}
    OBVIOUS
  <2>1. CASE Router
    <3>1. Next
      BY <2>1 DEF Router
    <3>2. ~Active(manifest[k])
      BY DEF Deleted, Active
    <3>3. CASE \E r \in Routers : Rebuild(r)
      BY <3>2, <3>3 DEF Rebuild, Rebuilt
    <3>4. ASSUME NEW r \in Routers, SaveRegistry(r)
          PROVE  FALSE
      BY <3>2, <3>4, SaveIsExact
    <3> QED
      BY <3>1, <3>3, <3>4, OtherStepsKeepRows
  <2>2. CASE RemoveRows \/ WriteRegistry
    BY <2>2 DEF RemoveRows, WriteRegistry
  <2>3. CASE BeginDelete \/ MarkManifest \/ CollectGarbage \/ BeginRebuild \/ Kill \/ Litter
    BY <2>3 DEF BeginDelete, MarkManifest, CollectGarbage, BeginCollect, Collect, Unlink, EndCollect,
                BeginRebuild, Kill, Litter, vars, files
  <2> QED
    BY <2>1, <2>2, <2>3 DEF MaintenanceNext, Delete
<1> QED
  BY <1>1, <1>2, <1>3, ToolInvariant, PTL DEF MaintenanceSpec, NoRouterResurrects
=============================================================================
