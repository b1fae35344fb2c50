---------------------------- MODULE ServiceProofs ---------------------------
(***************************************************************************)
(* What the operations of IngestionService see of the pipeline and do to   *)
(* it, for any documents, users and failures: what the queue monitor lists *)
(* while the daemon moves what it is listing (QueueScan), and what becomes *)
(* of filings downloaded into files the daemon may have in hand (Download).*)
(***************************************************************************)
EXTENDS QueueScan, Download, IngestionProofs

-----------------------------------------------------------------------------
(* The pipeline under the scan *)

LEMMA ScanLeavesPipeline ==
  ASSUME Scan
  PROVE  UNCHANGED vars
BY DEF Scan, StartScan, CheckFile, StatFile, NextDirectory, EndScan

LEMMA ScanImplementsPipeline == ScanSpec => Spec
<1>1. ScanInit => Init
  BY DEF ScanInit
<1>2. [ScanNext]_<<vars, scanVars, steady>> => [Next]_vars
  BY ScanLeavesPipeline DEF ScanNext, PipelineStep
<1>3. QED  BY <1>1, <1>2, PTL DEF ScanSpec, Spec

(* A document that no user re-queued or replaced keeps its name, but for   *)
(* the daemon's move of it from incoming to the other directories.         *)
LEMMA SteadyStays ==
  ASSUME TypeOK, PlaceInv, [Next]_vars, NEW v \in Versions,
         v \notin overwritten', ~Requeued(v), NEW n \in Names
  PROVE  /\ incoming[n] = v =>
              incoming'[n] = v \/ Stored(processed', v) \/ Stored(failed', v)
         /\ processed[n] = v => processed'[n] = v
         /\ failed[n] = v => failed'[n] = v
<1>0. v # None /\ incoming \in Directory /\ processed \in Directory /\ failed \in Directory
  BY ConstantsAssumption DEF TypeOK, Directory
<1>1. CASE UNCHANGED <<incoming, processed, failed>>
  BY <1>1
<1>2. CASE ArchiveDocument
  <2>1. PICK m \in UniqueDest(processed, cur) :
          processed' = [processed EXCEPT ![m] = incoming[cur]]
    BY <1>2 DEF ArchiveDocument
  <2>2. /\ cur \in Names /\ incoming' = [incoming EXCEPT ![cur] = None]
        /\ failed' = failed
    BY <1>2 DEF ArchiveDocument, TypeOK
  <2>3. m \in Names /\ processed[m] = None
    BY <2>1, <2>2, UniqueDestIsFree
  <2>4. incoming[n] = v => incoming'[n] = v \/ Stored(processed', v)
    BY <1>0, <2>1, <2>2, <2>3 DEF Directory, Stored
  <2>5. processed[n] = v => processed'[n] = v
    BY <1>0, <2>1, <2>3 DEF Directory
  <2>6. QED  BY <2>2, <2>4, <2>5
<1>3. CASE RejectDocument
  <2>1. PICK m \in UniqueDest(failed, cur) :
          failed' = [failed EXCEPT ![m] = incoming[cur]]
    BY <1>3 DEF RejectDocument
  <2>2. /\ cur \in Names /\ incoming' = [incoming EXCEPT ![cur] = None]
        /\ processed' = processed
    BY <1>3 DEF RejectDocument, TypeOK, Existing
  <2>3. m \in Names /\ failed[m] = None
    BY <2>1, <2>2, UniqueDestIsFree
  <2>4. incoming[n] = v => incoming'[n] = v \/ Stored(failed', v)
    BY <1>0, <2>1, <2>2, <2>3 DEF Directory, Stored
  <2>5. failed[n] = v => failed'[n] = v
    BY <1>0, <2>1, <2>3 DEF Directory
  <2>6. QED  BY <2>2, <2>4, <2>5
<1>4. ASSUME NEW m \in Names, NEW w, PutIncoming(m, w)
      PROVE  incoming[n] = v => incoming'[n] = v
  <2>1. /\ incoming' = [incoming EXCEPT ![m] = w]
        /\ overwritten' = overwritten \union ({incoming[m]} \ {None})
    BY <1>4 DEF PutIncoming
  <2>2. QED  BY <1>0, <2>1 DEF Directory
<1>5. ASSUME NEW u \in Users, NEW m \in Names, NEW w \in Versions,
             UploadDocument(u, m, w)
      PROVE  /\ incoming[n] = v => incoming'[n] = v
             /\ UNCHANGED <<processed, failed>>
  BY <1>4, <1>5 DEF UploadDocument
<1>6. ASSUME NEW u \in Users, NEW m \in Names, RequeueDocument(u, m)
      PROVE  /\ incoming[n] = v => incoming'[n] = v
             /\ processed' = processed
             /\ failed[n] = v => failed'[n] = v
  <2>1. /\ PutIncoming(m, failed[m]) /\ processed' = processed
        /\ failed' = [failed EXCEPT ![m] = None]
    BY <1>6 DEF RequeueDocument
  <2>2. Stored(failed', v) <=> (Stored(failed, v) /\ v # failed[m])
    BY <1>6, RequeueArrives DEF Arrives
  <2>3. failed[n] = v => v # failed[m]
    BY <2>2 DEF Requeued, Stored
  <2>4. QED  BY <1>0, <1>4, <2>1, <2>3 DEF Directory
<1>7. QED
  BY <1>1, <1>2, <1>3, <1>5, <1>6, WhoChangesWhat

-----------------------------------------------------------------------------
(* Where the scan is *)

LEMMA FoundIs ==
  ASSUME ScanTypeOK, NEW n
  PROVE  /\ turn = 1 => ScanOrder[turn] = "incoming" /\ Found(n) = incoming[n]
         /\ turn = 2 => ScanOrder[turn] = "processed" /\ Found(n) = processed[n]
         /\ turn = 3 => ScanOrder[turn] = "failed" /\ Found(n) = failed[n]
         /\ turn = 1 \/ turn = 2 \/ turn = 3
BY DEF ScanTypeOK, Found, Contents, ScanOrder

LEMMA FoundIsNext ==
  ASSUME turn' \in 1..3, NEW n
  PROVE  /\ turn' = 1 => ScanOrder[turn'] = "incoming" /\ Found(n)' = incoming'[n]
         /\ turn' = 2 => ScanOrder[turn'] = "processed" /\ Found(n)' = processed'[n]
         /\ turn' = 3 => ScanOrder[turn'] = "failed" /\ Found(n)' = failed'[n]
         /\ turn' = 1 \/ turn' = 2 \/ turn' = 3
BY DEF Found, Contents, ScanOrder

(* While the scan stays in a directory and the pipeline rests, it finds    *)
(* what it found.                                                          *)
LEMMA FoundUntouched ==
  ASSUME UNCHANGED <<vars, turn>>
  PROVE  /\ \A n : Found(n)' = Found(n)
         /\ UNCHANGED <<processed, failed>>
BY DEF Found, Contents, vars, dirVars

-----------------------------------------------------------------------------
(* Steps of the scan *)

LEMMA StartKeepsScanInv ==
  ASSUME TypeOK, StartScan
  PROVE  ScanInv'
<1>1. /\ scan' = "running" /\ turn' = 1 /\ listing' = FilesOf(ScanOrder[1])
      /\ checked' = None /\ items' = {}
      /\ steady' = {v \in Versions : Anywhere(v)}
      /\ UNCHANGED <<incoming, processed, failed>>
  BY DEF StartScan, vars, dirVars
<1>2. listing' = {n \in Names : incoming[n] # None}
  BY <1>1 DEF FilesOf, Contents, ScanOrder
<1>3. ScanTypeOK'
  BY <1>1, <1>2 DEF ScanTypeOK
<1>4. ASSUME NEW v \in steady' PROVE Ahead(v)'
  <2>1. v \in Versions /\ v # None /\ Anywhere(v)
    BY <1>1, ConstantsAssumption
  <2>2. CASE Stored(incoming, v)
    <3>1. PICK n \in Names : incoming[n] = v
      BY <2>2 DEF Stored
    <3>2. n \in listing' /\ Found(n)' = v
      BY <1>1, <1>2, <2>1, <3>1, FoundIsNext
    <3>3. QED  BY <3>2 DEF Ahead
  <2>3. CASE Stored(processed, v) \/ Stored(failed, v)
    BY <1>1, <2>3 DEF Ahead, Stored
  <2>4. QED  BY <2>1, <2>2, <2>3 DEF Anywhere
<1>5. SettledInv'
  BY <1>1 DEF SettledInv, ResolvedOnce
<1>6. QED  BY <1>3, <1>4, <1>5 DEF ScanInv, ListedInv

LEMMA CheckKeepsScanInv ==
  ASSUME ScanInv, NEW n \in Names, CheckFile(n)
  PROVE  ScanInv'
<1>1. /\ scan = "running" /\ checked = None /\ n \in listing
      /\ listing' = listing \ {n}
      /\ checked' = IF Found(n) # None THEN n ELSE None
      /\ UNCHANGED <<vars, scan, turn, items, steady>>
  BY DEF CheckFile
<1>2. ScanTypeOK'
  BY <1>1 DEF ScanInv, ScanTypeOK
<1>3. ASSUME NEW v \in steady' PROVE Listed(v)' \/ Ahead(v)'
  <2>1. v \in steady /\ v # None /\ (Listed(v) \/ Ahead(v))
    BY <1>1, ConstantsAssumption DEF ScanInv, ListedInv, ScanTypeOK
  <2>2. CASE Listed(v)
    BY <1>1, <2>2 DEF Listed
  <2>3. CASE ~Listed(v) /\ \E m \in Names : m \in listing \union {checked} /\ Found(m) = v
    <3>1. PICK m \in Names : m \in listing \union {checked} /\ Found(m) = v
      BY <2>3
    <3>2. m \in listing' \union {checked'}
      BY <1>1, <2>1, <3>1, ConstantsAssumption
    <3>3. QED  BY <1>1, <3>1, <3>2, FoundUntouched DEF Ahead
  <2>4. QED  BY <1>1, <2>1, <2>2, <2>3, FoundUntouched DEF Ahead, Stored
<1>4. SettledInv'
  BY <1>1, FoundUntouched DEF ScanInv, SettledInv, ResolvedOnce, Stored
<1>5. QED  BY <1>2, <1>3, <1>4 DEF ScanInv, ListedInv

LEMMA StatKeepsScanInv ==
  ASSUME TypeOK, PlaceInv, ScanInv, StatFile
  PROVE  ScanInv'
<1>1. /\ checked # None /\ checked \in Names /\ checked' = None
      /\ UNCHANGED <<vars, turn, listing, steady>>
      /\ UNCHANGED <<incoming, processed, failed>>
  BY DEF StatFile, ScanInv, ScanTypeOK, vars, dirVars
<1>2. CASE Found(checked) = None
  <2>1. scan' = "raised" /\ items' = items
    BY <1>2 DEF StatFile
  <2>2. ScanTypeOK' /\ ListedInv'
    BY <1>1, <2>1 DEF ScanInv, ScanTypeOK, ListedInv
  <2>3. SettledInv'
    BY <1>1, <2>1 DEF ScanInv, SettledInv, ResolvedOnce, Stored
  <2>4. QED  BY <2>2, <2>3 DEF ScanInv
<1>3. CASE Found(checked) # None
  <2> DEFINE w == Found(checked)
             d == ScanOrder[turn]
  <2>1. scan' = scan /\ items' = items \union {<<d, w>>}
    BY <1>3 DEF StatFile
  <2>2. ScanTypeOK /\ ListedInv /\ SettledInv
    BY DEF ScanInv
  <2>3. /\ turn = 1 => d = "incoming" /\ w = incoming[checked]
        /\ turn = 2 => d = "processed" /\ w = processed[checked]
        /\ turn = 3 => d = "failed" /\ w = failed[checked]
        /\ turn \in {1, 2, 3} /\ d \in Dirs
    BY <2>2, FoundIs DEF Dirs
  <2>4. w \in Versions
    BY <1>1, <1>3, <2>3 DEF TypeOK
  <2> HIDE DEF w, d
  <2>5. ScanTypeOK'
    BY <1>1, <2>1, <2>2, <2>3, <2>4 DEF ScanTypeOK
  <2>6. ASSUME NEW v \in steady', scan' \in {"running", "done"}
        PROVE  Listed(v)' \/ Ahead(v)'
    <3>1. v \in steady /\ (Listed(v) \/ Ahead(v)) /\ v # None
      BY <1>1, <2>1, <2>2, <2>6, ConstantsAssumption DEF ListedInv, ScanTypeOK
    <3>2. CASE Listed(v) \/ v = w
      BY <2>1, <2>3, <3>2 DEF Listed
    <3>3. CASE ~Listed(v) /\ v # w
      <4>1. \A n : Found(n)' = Found(n)
        BY <1>1, FoundUntouched
      <4>2. Found(checked) # v
        BY <3>3 DEF w
      <4>3. QED  BY <1>1, <3>1, <3>3, <4>1, <4>2 DEF Ahead, Stored
    <3>4. QED  BY <3>2, <3>3
  <2>7. SettledInv'
    <3>1. ASSUME NEW v \in Versions, <<"processed", v>> \in items'
          PROVE  Stored(processed, v)
      BY <1>1, <2>1, <2>2, <2>3, <3>1 DEF SettledInv, Stored
    <3>2. ASSUME NEW v \in Versions, <<"failed", v>> \in items'
          PROVE  turn = 3
      BY <2>1, <2>2, <2>3, <3>2 DEF SettledInv
    <3>3. ASSUME NEW v \in Versions, <<"processed", v>> \in items', <<"failed", v>> \in items'
          PROVE  FALSE
      <4>1. Stored(processed, v) /\ turn = 3
        BY <3>1, <3>2, <3>3
      <4>2. ~Stored(failed, v)
        BY <4>1 DEF PlaceInv, Conservation
      <4>3. w # v
        BY <1>1, <2>3, <4>1, <4>2 DEF Stored
      <4>4. <<"processed", v>> \in items /\ <<"failed", v>> \in items
        BY <2>1, <3>3, <4>3
      <4>5. QED  BY <2>2, <4>4 DEF SettledInv, ResolvedOnce
    <3>4. QED  BY <1>1, <3>1, <3>2, <3>3 DEF SettledInv, ResolvedOnce, Stored
  <2>8. QED  BY <2>5, <2>6, <2>7 DEF ScanInv, ListedInv
<1>4. QED  BY <1>2, <1>3

LEMMA TurnKeepsScanInv ==
  ASSUME TypeOK, ScanInv, NextDirectory
  PROVE  ScanInv'
<1>1. /\ scan = "running" /\ listing = {} /\ checked = None /\ turn < 3
      /\ turn' = turn + 1 /\ listing' = FilesOf(ScanOrder[turn'])
      /\ UNCHANGED <<vars, scan, checked, items, steady>>
      /\ UNCHANGED <<incoming, processed, failed>>
  BY DEF NextDirectory, vars, dirVars
<1>2. ScanTypeOK /\ ListedInv /\ SettledInv
  BY DEF ScanInv
<1>3. /\ turn = 1 => turn' = 2 /\ listing' = {n \in Names : processed[n] # None}
      /\ turn = 2 => turn' = 3 /\ listing' = {n \in Names : failed[n] # None}
      /\ turn \in {1, 2}
  BY <1>1, <1>2 DEF ScanTypeOK, FilesOf, Contents, ScanOrder
<1>4. ScanTypeOK'
  BY <1>1, <1>2, <1>3 DEF ScanTypeOK
<1>5. ASSUME NEW v \in steady' PROVE Listed(v)' \/ Ahead(v)'
  <2>1. v \in steady /\ v \in Versions /\ v # None /\ (Listed(v) \/ Ahead(v))
    BY <1>1, <1>2, ConstantsAssumption DEF ListedInv, ScanTypeOK
  <2>2. CASE Listed(v)
    BY <1>1, <2>2 DEF Listed
  <2>3. CASE ~Listed(v)
    <3>1. (turn < 2 /\ Stored(processed, v)) \/ Stored(failed, v)
      BY <1>1, <2>1, <2>3, ConstantsAssumption DEF Ahead
    <3>2. CASE turn = 1 /\ Stored(processed, v)
      <4>1. PICK n \in Names : processed[n] = v
        BY <3>2 DEF Stored
      <4>2. n \in listing' /\ Found(n)' = v
        BY <1>1, <1>3, <2>1, <3>2, <4>1, FoundIsNext
      <4>3. QED  BY <4>2 DEF Ahead
    <3>3. CASE turn = 1 /\ Stored(failed, v)
      BY <1>1, <1>3, <3>3 DEF Ahead, Stored
    <3>4. CASE turn = 2 /\ Stored(failed, v)
      <4>1. PICK n \in Names : failed[n] = v
        BY <3>4 DEF Stored
      <4>2. n \in listing' /\ Found(n)' = v
        BY <1>1, <1>3, <2>1, <3>4, <4>1, FoundIsNext
      <4>3. QED  BY <4>2 DEF Ahead
    <3>5. QED  BY <1>3, <3>1, <3>2, <3>3, <3>4
  <2>4. QED  BY <2>2, <2>3
<1>6. SettledInv'
  BY <1>1, <1>2, <1>3 DEF SettledInv, ResolvedOnce, Stored
<1>7. QED  BY <1>4, <1>5, <1>6 DEF ScanInv, ListedInv

LEMMA EndKeepsScanInv ==
  ASSUME ScanInv, EndScan
  PROVE  ScanInv'
<1>1. /\ scan = "running" /\ listing = {} /\ checked = None /\ turn = 3 /\ scan' = "done"
      /\ UNCHANGED <<vars, turn, listing, checked, items, steady>>
  BY DEF EndScan
<1>2. ScanTypeOK'
  BY <1>1 DEF ScanInv, ScanTypeOK
<1>3. ListedInv'
  BY <1>1, FoundUntouched DEF ScanInv, ListedInv, Listed, Ahead, Stored
<1>4. SettledInv'
  BY <1>1, FoundUntouched DEF ScanInv, SettledInv, ResolvedOnce, Stored
<1>5. QED  BY <1>2, <1>3, <1>4 DEF ScanInv

(* What the scan was still to come to, it is still to come to, be it under *)
(* the name it had or in the directory the daemon moved it to.             *)
LEMMA PipelineKeepsScanInv ==
  ASSUME TypeOK, PlaceInv, ScanInv, PipelineStep
  PROVE  ScanInv'
<1>1. /\ [Next]_vars
      /\ steady' = {v \in steady : v \notin overwritten' /\ ~Requeued(v)}
      /\ UNCHANGED <<scan, turn, listing, checked, items>>
  BY DEF PipelineStep, scanVars
<1>2. ScanTypeOK /\ ListedInv /\ SettledInv
  BY DEF ScanInv
<1>3. ScanTypeOK'
  BY <1>1, <1>2 DEF ScanTypeOK
<1>4. ASSUME NEW v \in steady', scan' \in {"running", "done"}
      PROVE  Listed(v)' \/ Ahead(v)'
  <2>1. /\ v \in steady /\ v \in Versions /\ v \notin overwritten' /\ ~Requeued(v)
        /\ Listed(v) \/ Ahead(v)
    BY <1>1, <1>2, <1>4 DEF ListedInv, ScanTypeOK
  <2>2. \A n \in Names :
          /\ incoming[n] = v =>
               incoming'[n] = v \/ Stored(processed', v) \/ Stored(failed', v)
          /\ processed[n] = v => processed'[n] = v
          /\ failed[n] = v => failed'[n] = v
    BY <1>1, <2>1, SteadyStays
  <2>3. CASE Listed(v)
    BY <1>1, <2>3 DEF Listed
  <2>4. CASE (turn < 2 /\ Stored(processed, v)) \/ (turn < 3 /\ Stored(failed, v))
    BY <1>1, <2>2, <2>4 DEF Ahead, Stored
  <2>5. ASSUME NEW n \in Names, n \in listing \union {checked}, Found(n) = v
        PROVE  Ahead(v)'
    <3>1. turn' = turn /\ turn' \in 1..3 /\ n \in listing' \union {checked'}
      BY <1>1, <1>2, <2>5 DEF ScanTypeOK
    <3>2. Found(n)' = v \/ (turn = 1 /\ (Stored(processed', v) \/ Stored(failed', v)))
      BY <1>2, <2>2, <2>5, <3>1, FoundIs, FoundIsNext
    <3>3. CASE Found(n)' = v
      BY <3>1, <3>3 DEF Ahead
    <3>4. CASE turn = 1 /\ (Stored(processed', v) \/ Stored(failed', v))
      BY <3>1, <3>4 DEF Ahead, Stored
    <3>5. QED  BY <3>2, <3>3, <3>4
  <2>6. \/ Listed(v)
        \/ (turn < 2 /\ Stored(processed, v)) \/ (turn < 3 /\ Stored(failed, v))
        \/ \E n \in Names : n \in listing \union {checked} /\ Found(n) = v
    BY <2>1 DEF Ahead
  <2>7. QED  BY <2>3, <2>4, <2>5, <2>6
<1>5. SettledInv'
  <2>1. ASSUME NEW v \in Versions, Stored(processed, v) PROVE Stored(processed', v)
    <3>1. CASE ArchiveDocument
      BY <2>1, <3>1, ArchiveMoves
    <3>2. CASE processed' = processed
      BY <2>1, <3>2
    <3>3. QED
      BY <1>1, <3>1, <3>2, WhoChangesWhat DEF RejectDocument, UploadDocument, RequeueDocument
  <2>2. QED  BY <1>1, <1>2, <2>1 DEF SettledInv, ResolvedOnce, Stored
<1>6. QED  BY <1>3, <1>4, <1>5 DEF ScanInv, ListedInv

-----------------------------------------------------------------------------
(* Theorems *)

LEMMA ScanInitIsInv == ScanInit => ScanInv
BY DEF ScanInit, ScanInv, ScanTypeOK, ListedInv, SettledInv, ResolvedOnce

LEMMA ScanNextKeepsScanInv ==
  ASSUME TypeOK, PlaceInv, ScanInv, [ScanNext]_<<vars, scanVars, steady>>
  PROVE  ScanInv'
<1>1. CASE Scan
  BY <1>1, StartKeepsScanInv, CheckKeepsScanInv, StatKeepsScanInv, TurnKeepsScanInv,
     EndKeepsScanInv DEF Scan
<1>2. CASE PipelineStep
  BY <1>2, PipelineKeepsScanInv
<1>3. CASE UNCHANGED <<vars, scanVars, steady>>
  <2>1. UNCHANGED <<vars, turn>> /\ UNCHANGED <<scan, turn, listing, checked, items, steady>>
    BY <1>3 DEF scanVars
  <2>2. ScanTypeOK' /\ ListedInv'
    BY <2>1, FoundUntouched DEF ScanInv, ScanTypeOK, ListedInv, Listed, Ahead, Stored
  <2>3. SettledInv'
    BY <2>1, FoundUntouched DEF ScanInv, SettledInv, ResolvedOnce, Stored
  <2>4. QED  BY <2>2, <2>3 DEF ScanInv
<1>4. QED  BY <1>1, <1>2, <1>3 DEF ScanNext

(* The inductive invariant: a document that no user touches was listed, or *)
(* the scan will come to it, wherever the daemon moves it meanwhile.       *)
THEOREM ScanInvariantHolds == ScanSpec => []ScanInv
<1>1. /\ TypeOK /\ PipelineInv /\ ScanInv /\ [ScanNext]_<<vars, scanVars, steady>>
      => ScanInv'
  BY ScanNextKeepsScanInv DEF PipelineInv
<1>2. QED
  BY <1>1, ScanInitIsInv, ScanImplementsPipeline, InvariantHolds, PTL DEF ScanSpec

(* A scan that ends lists every document that was there when it began and  *)
(* that no user moved meanwhile.                                           *)
THEOREM NothingMissedHolds == ScanSpec => []NothingMissed
<1>1. ScanInv => NothingMissed
  <2> SUFFICES ASSUME ScanInv, scan = "done", NEW v \in steady
               PROVE  Listed(v)
    BY DEF NothingMissed, Listed
  <2>1. turn = 3 /\ listing = {} /\ checked = None
    BY DEF ScanInv, ScanTypeOK
  <2>2. ~Ahead(v)
    BY <2>1, ConstantsAssumption DEF Ahead
  <2>3. QED  BY <2>2 DEF ScanInv, ListedInv
<1>2. QED  BY <1>1, ScanInvariantHolds, PTL

(* No scan counts a document both as processed and as failed.              *)
THEOREM ResolvedOnceHolds == ScanSpec => []ResolvedOnce
<1>1. ScanInv => ResolvedOnce
  BY DEF ScanInv, SettledInv
<1>2. QED  BY <1>1, ScanInvariantHolds, PTL
-----------------------------------------------------------------------------
(* The pipeline under downloads *)

downloadVars == <<vars, fetchVars>>

(* What a step of the composition is to the pipeline: one of its own, or   *)
(* one of the five that are not.                                           *)
LEMMA DownloadStepOfPipeline ==
  ASSUME [DownloadNext]_downloadVars
  PROVE  \/ [Next]_vars
         \/ ParseEmpty
         \/ \E n \in Names : SampleUnfinished(n)
         \/ \E f \in Fetchers, v \in Versions : OpenTarget(f, v)
         \/ \E f \in Fetchers : WriteSidecar(f)
<1>1. CASE UNCHANGED downloadVars
  BY <1>1 DEF downloadVars, fetchVars, vars
<1>2. CASE PipelineMoves
  <2>1. ASSUME NEW n \in Names, SampleFinished(n) PROVE Next
    BY <2>1 DEF SampleFinished, Next, Daemon, Watch
  <2>2. CASE ParseWritten
    BY <2>2 DEF ParseWritten, Next, Daemon, Process
  <2>3. ASSUME NEW u \in Users, UserStep(u) PROVE Next
    BY <2>3 DEF UserStep, Next
  <2>4. QED
    BY <1>2, <2>1, <2>2, <2>3 DEF PipelineMoves, Next, Daemon, Watch, Process
<1>3. ASSUME NEW f \in Fetchers,
             \/ \E n \in Uploadable : BeginDownload(f, n)
             \/ Fetch(f) \/ DownloadFails(f)
      PROVE  \/ UNCHANGED vars
             \/ \E v \in Versions : OpenTarget(f, v)
             \/ WriteSidecar(f)
  BY <1>3 DEF BeginDownload, Fetch, DownloadFails, Answered, TooManyRequests,
       WriteSome, CloseTarget
<1>4. QED  BY <1>1, <1>2, <1>3 DEF DownloadNext

(* Opening the target is an arrival of a new version, as an upload is.     *)
LEMMA OpenTargetArrives ==
  ASSUME TypeOK, PlaceInv, FetchTypeOK, NEW f \in Fetchers, NEW v \in Versions,
         OpenTarget(f, v)
  PROVE  /\ fetch[f].name \in Names /\ Arrives(fetch[f].name, v)
         /\ ~Stored(incoming, v)
<1> DEFINE n == fetch[f].name
<1>1. n \in Names
  BY DEF OpenTarget, FetchTypeOK
<1>2. /\ PutIncoming(n, v) /\ v \notin used /\ used' = used \union {v}
      /\ processed' = processed /\ failed' = failed
  BY DEF OpenTarget
<1>3. ~Stored(incoming, v) /\ ~Stored(processed, v) /\ ~Stored(failed, v)
  BY <1>2, ConstantsAssumption DEF Stored, PlaceInv
<1>4. v \notin overwritten /\ failed \in Directory
  BY <1>2 DEF TypeOK, Directory
<1>5. NoTwins(failed) /\ \A m \in Names : failed[m] \in used \union {None}
  BY DEF PlaceInv
<1>6. QED  BY <1>1, <1>2, <1>3, <1>4, <1>5 DEF Arrives

(* The steps that are not the pipeline's keep its types ...                *)
LEMMA DownloadKeepsTypes ==
  ASSUME TypeOK, JobInv, PlaceInv, UserInv, FetchTypeOK, [DownloadNext]_downloadVars
  PROVE  TypeOK'
<1> USE ConstantsAssumption
<1> USE DEF dirVars, jobVars, userVars, watchVars
<1>1. CASE ParseEmpty
  <2>1. cur \in Names /\ doc' \in Versions \union {None} /\ pc' = "reject"
    BY <1>1 DEF ParseEmpty, InHand, TypeOK
  <2>2. QED  BY <1>1, <2>1 DEF ParseEmpty, TypeOK, Point
<1>2. ASSUME NEW n \in Names, SampleUnfinished(n) PROVE TypeOK'
  <2>1. Untracked \in [ver : Versions \union {None}, count : Nat]
    BY DEF Untracked
  <2>2. tracked' \in [Names -> [ver : Versions \union {None}, count : Nat]]
    BY <1>2, <2>1 DEF SampleUnfinished, TypeOK
  <2>3. QED  BY <1>2, <2>2 DEF SampleUnfinished, TypeOK
<1>3. ASSUME NEW f \in Fetchers, NEW v \in Versions, OpenTarget(f, v) PROVE TypeOK'
  <2> DEFINE n == fetch[f].name
  <2>1. n \in Names /\ PutIncoming(n, v) /\ used' = used \union {v}
    BY <1>3, OpenTargetArrives DEF Arrives
  <2>2. incoming' \in [Names -> Versions \union {None}]
    BY <2>1, PutIncomingType
  <2>3. incoming[n] \in used \union {None}
    BY <2>1 DEF PlaceInv
  <2>4. overwritten' \subseteq used' /\ swapped' \subseteq used'
    BY <2>1, <2>3 DEF PutIncoming, TypeOK
  <2>5. QED  BY <1>3, <2>1, <2>2, <2>4 DEF OpenTarget, TypeOK
<1>4. ASSUME NEW f \in Fetchers, WriteSidecar(f) PROVE TypeOK'
  <2>1. fetch[f].name \in Names /\ fetch[f].ver \in Versions
    BY <1>4 DEF WriteSidecar, FetchTypeOK, TypeOK
  <2>2. side' \in [Dirs -> [Sidecars -> Versions \union {None}]]
    BY <1>4, <2>1 DEF WriteSidecar, TypeOK, Dirs
  <2>3. QED  BY <1>4, <2>2 DEF WriteSidecar, TypeOK
<1>5. QED
  BY <1>1, <1>2, <1>3, <1>4, NextKeepsTypes, DownloadStepOfPipeline

(* ... the progress of its job ...                                         *)
LEMMA DownloadKeepsJobInv ==
  ASSUME TypeOK, JobInv, PlaceInv, FetchTypeOK, [DownloadNext]_downloadVars
  PROVE  JobInv'
<1> USE DEF dirVars, jobVars, userVars, watchVars
<1>1. CASE ParseEmpty
  BY <1>1 DEF ParseEmpty, JobInv
<1>2. ASSUME NEW n \in Names, SampleUnfinished(n) PROVE JobInv'
  BY <1>2, JobInvUntouched DEF SampleUnfinished
<1>3. ASSUME NEW f \in Fetchers, NEW v \in Versions, OpenTarget(f, v) PROVE JobInv'
  <2>1. fetch[f].name \in Names /\ PutIncoming(fetch[f].name, v)
    BY <1>3, OpenTargetArrives DEF Arrives
  <2>2. QED  BY <1>3, <2>1, JobInvUnderPut DEF OpenTarget
<1>4. ASSUME NEW f \in Fetchers, WriteSidecar(f) PROVE JobInv'
  BY <1>4, JobInvUntouched DEF WriteSidecar
<1>5. QED
  BY <1>1, <1>2, <1>3, <1>4, NextKeepsJobInv, DownloadStepOfPipeline

(* ... the places of its documents ...                                     *)
LEMMA DownloadKeepsPlaceInv ==
  ASSUME TypeOK, PlaceInv, FetchTypeOK, [DownloadNext]_downloadVars
  PROVE  PlaceInv'
<1> USE DEF userVars
<1>1. CASE ParseEmpty
  BY <1>1, PlaceInvUntouched DEF ParseEmpty
<1>2. ASSUME NEW n \in Names, SampleUnfinished(n) PROVE PlaceInv'
  BY <1>2, PlaceInvUntouched DEF SampleUnfinished
<1>3. ASSUME NEW f \in Fetchers, NEW v \in Versions, OpenTarget(f, v) PROVE PlaceInv'
  BY <1>3, OpenTargetArrives, ArrivalKeepsPlaceInv
<1>4. ASSUME NEW f \in Fetchers, WriteSidecar(f) PROVE PlaceInv'
  BY <1>4, PlaceInvUntouched DEF WriteSidecar
<1>5. QED
  BY <1>1, <1>2, <1>3, <1>4, NextKeepsPlaceInv, DownloadStepOfPipeline

(* ... the requests of its users ...                                       *)
LEMMA DownloadKeepsUserInv ==
  ASSUME TypeOK, UserInv, [DownloadNext]_downloadVars
  PROVE  UserInv'
<1>1. CASE UNCHANGED <<user, requeues>>
  BY <1>1 DEF UserInv
<1>2. QED
  BY <1>1, NextKeepsUserInv, DownloadStepOfPipeline
     DEF ParseEmpty, SampleUnfinished, OpenTarget, WriteSidecar, userVars

(* ... and what is in processed.                                           *)
LEMMA DownloadKeepsProcessedWasIndexed ==
  ASSUME TypeOK, TypeOK', JobInv, ProcessedWasIndexed, [DownloadNext]_downloadVars
  PROVE  ProcessedWasIndexed'
<1>1. CASE UNCHANGED <<processed, lake>> /\ swapped \subseteq swapped'
  BY <1>1 DEF ProcessedWasIndexed, Indexed
<1>2. QED
  BY <1>1, NextKeepsProcessedWasIndexed, DownloadStepOfPipeline
     DEF ParseEmpty, SampleUnfinished, OpenTarget, WriteSidecar, PutIncoming,
         userVars, dirVars
-----------------------------------------------------------------------------
(* What is half-written *)

(* The pipeline leaves what the sessions do alone, and a user's step notes *)
(* what comes half-written under the daemon's hands.                       *)
LEMMA PipelineLeavesSessions ==
  ASSUME PipelineMoves
  PROVE  /\ UNCHANGED <<fetch, content>>
         /\ spoilt \subseteq spoilt'
         /\ \/ spoilt' = spoilt
            \/ \E u \in Users : UserStep(u)
         /\ overwritten \subseteq overwritten'
<1>1. \A n \in Names, v \in Versions \union {None} :
        PutIncoming(n, v) => overwritten \subseteq overwritten'
  BY DEF PutIncoming
<1>2. ASSUME NEW u \in Users, UserStep(u) PROVE overwritten \subseteq overwritten'
  BY <1>2 DEF UserStep, User, UploadDocument, RequeueDocument, UploadSidecar,
       RequeueSidecars, UnlinkErrorLog, AbandonRequest, PutIncoming, userVars
<1>3. CASE \E u \in Users : UserStep(u)
  BY <1>2, <1>3 DEF PipelineMoves, UserStep
<1>4. CASE ~\E u \in Users : UserStep(u)
  <2>1. UNCHANGED userVars
    BY <1>4 DEF PipelineMoves, ParseEmpty, ParseWritten, ReadMetadata, PartitionFile,
         ScanIncoming, DropCandidate, SampleUnfinished, SampleFinished,
         SampleCandidate, DispatchCandidate, EnqueueCandidate, EmbedChunks,
         BeginWrite, FinishWrite, Relocate, ArchiveDocument, ArchiveSidecars,
         RejectDocument, RejectMissing, RejectSidecars, WriteDeadLetter, Failure,
         FaultWhileHandling, FaultWhileArchivingSidecars, FaultWhileRejecting, Crash
  <2>2. QED  BY <1>4, <2>1 DEF PipelineMoves, userVars
<1>5. QED  BY <1>3, <1>4

(* What a session does to the pipeline, to the files and to its record.    *)
LEMMA WhatASessionDoes ==
  ASSUME FetchTypeOK, NEW f \in Fetchers,
         \/ \E n \in Uploadable : BeginDownload(f, n)
         \/ Fetch(f) \/ DownloadFails(f)
  PROVE  /\ spoilt \subseteq spoilt' /\ torn' = torn
         /\ \/ \E v \in Versions : OpenTarget(f, v)
            \/ WriteSidecar(f)
            \/ UNCHANGED vars
         /\ \/ \E v \in Versions : OpenTarget(f, v)
            \/ WriteSome(f) \/ CloseTarget(f)
            \/ content' = content
BY DEF BeginDownload, Fetch, DownloadFails, Answered, TooManyRequests,
       OpenTarget, WriteSome, CloseTarget, WriteSidecar

(* A session's record keeps its type.                                      *)
LEMMA DownloadKeepsFetchTypes ==
  ASSUME TypeOK, FetchTypeOK, TypeOK', [DownloadNext]_downloadVars
  PROVE  FetchTypeOK'
<1> USE ConstantsAssumption, AttemptsAssumption
<1> DEFINE Rec == [at : Phase, tries : Nat, name : Names \union {None},
                   ver : Versions \union {None}]
           Good(r) == /\ r.at # "idle" => r.name # None
                      /\ r.at \in {"opened", "closed"} => r.ver \in used
           Good2(r) == /\ r.at # "idle" => r.name # None
                       /\ r.at \in {"opened", "closed"} => r.ver \in used'
           Levels3 == {"empty", "partial", "whole"}
<1>1. used \subseteq used'
  BY DownloadStepOfPipeline, WhoChangesWhat
     DEF ArchiveDocument, RejectDocument, UploadDocument, RequeueDocument,
         ParseEmpty, SampleUnfinished, OpenTarget, WriteSidecar, userVars
<1>2. CASE UNCHANGED <<fetch, content>>
  BY <1>1, <1>2 DEF FetchTypeOK
<1>3. ASSUME NEW f \in Fetchers, NEW r \in Rec, Good2(r),
             fetch' = [fetch EXCEPT ![f] = r], content' \in [Versions -> Levels3]
      PROVE  FetchTypeOK'
  BY <1>1, <1>3 DEF FetchTypeOK
<1>4. NoFetch \in Rec /\ NoFetch.at = "idle"
  BY DEF NoFetch, Phase
<1>5. content \in [Versions -> Levels3] /\ fetch \in [Fetchers -> Rec]
  BY DEF FetchTypeOK
<1>6. ASSUME NEW f \in Fetchers, NEW n \in Uploadable, BeginDownload(f, n)
      PROVE  FetchTypeOK'
  <2> DEFINE r == [NoFetch EXCEPT !.at = "tickers", !.name = n]
  <2>1. r \in Rec /\ Good2(r)
    BY DEF NoFetch, Phase
  <2>2. QED  BY <1>3, <1>5, <1>6, <2>1 DEF BeginDownload
<1>7. ASSUME NEW f \in Fetchers, Answered(f) PROVE FetchTypeOK'
  <2> DEFINE r == [fetch[f] EXCEPT !.at = Follows(@), !.tries = 0]
  <2>1. Follows(fetch[f].at) \in {"submissions", "document"}
    BY <1>7 DEF Answered, Follows
  <2>2. r \in Rec /\ Good2(r)
    BY <1>5, <1>7, <2>1 DEF Answered, FetchTypeOK, Phase
  <2>3. fetch' = [fetch EXCEPT ![f] = r]
    BY <1>7 DEF Answered
  <2>4. QED  BY <1>3, <1>5, <1>7, <2>2, <2>3 DEF Answered
<1>8. ASSUME NEW f \in Fetchers, TooManyRequests(f) PROVE FetchTypeOK'
  <2> DEFINE r == [fetch[f] EXCEPT !.tries = @ + 1]
  <2>1. r \in Rec /\ Good2(r)
    BY <1>1, <1>5 DEF FetchTypeOK
  <2>2. fetch' = [fetch EXCEPT ![f] = r] \/ fetch' = [fetch EXCEPT ![f] = NoFetch]
    BY <1>8 DEF TooManyRequests
  <2>3. QED  BY <1>3, <1>4, <1>5, <1>8, <2>1, <2>2 DEF TooManyRequests
<1>9. ASSUME NEW f \in Fetchers, DownloadFails(f) \/ WriteSidecar(f) PROVE FetchTypeOK'
  BY <1>3, <1>4, <1>5, <1>9 DEF DownloadFails, WriteSidecar
<1>10. ASSUME NEW f \in Fetchers, NEW v \in Versions, OpenTarget(f, v) PROVE FetchTypeOK'
  <2> DEFINE n == fetch[f].name
             new == [at |-> "opened", tries |-> 0, name |-> n, ver |-> v]
  <2>1. n \in Names /\ v \in used'
    BY <1>10 DEF OpenTarget, FetchTypeOK
  <2>2. new \in Rec
    BY <2>1 DEF Phase
  <2>3. ASSUME NEW g \in Fetchers
        PROVE  fetch'[g] \in Rec /\ Good2(fetch'[g])
    <3>1. fetch'[g] = IF g = f THEN new
                      ELSE IF fetch[g].at = "opened" /\ fetch[g].ver = incoming[n]
                        THEN [fetch[g] EXCEPT !.ver = v]
                      ELSE fetch[g]
      BY <1>10 DEF OpenTarget
    <3>2. fetch[g] \in Rec /\ Good(fetch[g])
      BY DEF FetchTypeOK
    <3>3. QED  BY <1>1, <2>1, <2>2, <3>1, <3>2
  <2>4. DOMAIN fetch' = Fetchers /\ fetch' = [g \in Fetchers |-> fetch'[g]]
    BY <1>10 DEF OpenTarget
  <2>5. fetch' \in [Fetchers -> Rec]
    BY <2>3, <2>4
  <2>6. content' \in [Versions -> Levels3]
    BY <1>5, <1>10 DEF OpenTarget
  <2>7. QED  BY <2>3, <2>5, <2>6 DEF FetchTypeOK
<1>11. ASSUME NEW f \in Fetchers, WriteSome(f) PROVE FetchTypeOK'
  BY <1>1, <1>5, <1>11 DEF WriteSome, FetchTypeOK
<1>12. ASSUME NEW f \in Fetchers, CloseTarget(f) PROVE FetchTypeOK'
  <2> DEFINE r == [fetch[f] EXCEPT !.at = "closed"]
  <2>1. r \in Rec /\ Good2(r)
    BY <1>1, <1>5, <1>12 DEF CloseTarget, FetchTypeOK, Phase
  <2>2. QED  BY <1>3, <1>5, <1>12, <2>1 DEF CloseTarget
<1>13. QED
  BY <1>2, <1>6, <1>7, <1>8, <1>9, <1>10, <1>11, <1>12, PipelineLeavesSessions
     DEF DownloadNext, Fetch, downloadVars, fetchVars

(* A version stays half-written only while a session writes it, or once it *)
(* was given up or its file replaced: the session that truncates the file  *)
(* takes those along that were writing to it.                              *)
LEMMA DownloadKeepsHalfWrittenInv ==
  ASSUME TypeOK, PlaceInv, FetchTypeOK, HalfWrittenInv, [DownloadNext]_downloadVars
  PROVE  HalfWrittenInv'
<1>1. CASE /\ UNCHANGED <<fetch, content>>
           /\ spoilt \subseteq spoilt' /\ overwritten \subseteq overwritten'
  BY <1>1 DEF HalfWrittenInv, Opened
<1>2. ASSUME NEW f \in Fetchers, NEW v \in Versions, OpenTarget(f, v)
      PROVE  HalfWrittenInv'
  <2> DEFINE n == fetch[f].name
  <2>1. /\ n \in Names /\ v \notin used
        /\ overwritten' = overwritten \union ({incoming[n]} \ {None})
        /\ spoilt \subseteq spoilt'
    BY <1>2 DEF OpenTarget, PutIncoming, FetchTypeOK
  <2>2. fetch'[f].at = "opened" /\ fetch'[f].ver = v
    BY <1>2 DEF OpenTarget
  <2>3. ASSUME NEW w \in Versions, content'[w] # "whole", w # v
        PROVE  Opened(w)' \/ w \in spoilt' \union overwritten'
    <3>1. content[w] # "whole"
      BY <1>2, <2>3 DEF OpenTarget, FetchTypeOK
    <3>2. CASE w \in spoilt \union overwritten
      BY <2>1, <3>2
    <3>3. CASE w = incoming[n]
      BY <2>1, <3>3, ConstantsAssumption
    <3>4. CASE Opened(w) /\ w # incoming[n]
      <4>1. PICK g \in Fetchers : fetch[g].at = "opened" /\ fetch[g].ver = w
        BY <3>4 DEF Opened
      <4>2. g # f
        BY <1>2, <4>1 DEF OpenTarget
      <4>3. fetch'[g] = fetch[g]
        BY <1>2, <3>4, <4>1, <4>2 DEF OpenTarget
      <4>4. QED  BY <4>1, <4>3 DEF Opened
    <3>5. QED  BY <3>1, <3>2, <3>3, <3>4 DEF HalfWrittenInv
  <2>4. Opened(v)'
    BY <2>2 DEF Opened
  <2>5. QED  BY <2>3, <2>4 DEF HalfWrittenInv
<1>3. ASSUME NEW f \in Fetchers, WriteSome(f) PROVE HalfWrittenInv'
  <2>1. Opened(fetch[f].ver)
    BY <1>3 DEF WriteSome, Opened
  <2>2. \A w \in Versions : content'[w] # "whole" => content[w] # "whole" \/ w = fetch[f].ver
    BY <1>3 DEF WriteSome, FetchTypeOK
  <2>3. UNCHANGED <<fetch, spoilt, overwritten>>
    BY <1>3 DEF WriteSome, vars, userVars
  <2>4. QED  BY <2>1, <2>2, <2>3 DEF HalfWrittenInv, Opened
<1>4. ASSUME NEW f \in Fetchers, CloseTarget(f) PROVE HalfWrittenInv'
  <2> DEFINE v == fetch[f].ver
  <2>1. v \in Versions /\ content' = [content EXCEPT ![v] = "whole"]
    BY <1>4 DEF CloseTarget, FetchTypeOK, TypeOK
  <2>2. ASSUME NEW w \in Versions, content'[w] # "whole"
        PROVE  content[w] # "whole" /\ w # v
    BY <2>1, <2>2 DEF FetchTypeOK
  <2>3. ASSUME NEW w \in Versions, w # v, Opened(w) PROVE Opened(w)'
    <3>1. PICK g \in Fetchers : fetch[g].at = "opened" /\ fetch[g].ver = w
      BY <2>3 DEF Opened
    <3>2. fetch'[g] = fetch[g]
      BY <1>4, <2>3, <3>1 DEF CloseTarget, FetchTypeOK
    <3>3. QED  BY <3>1, <3>2 DEF Opened
  <2>4. UNCHANGED <<spoilt, overwritten>>
    BY <1>4 DEF CloseTarget, vars, userVars
  <2>5. QED  BY <2>2, <2>3, <2>4 DEF HalfWrittenInv
<1>5. ASSUME NEW f \in Fetchers, DownloadFails(f) PROVE HalfWrittenInv'
  <2>1. /\ content' = content /\ overwritten' = overwritten
        /\ spoilt \subseteq spoilt'
        /\ fetch[f].at = "opened" => fetch[f].ver \in spoilt'
        /\ \A g \in Fetchers \ {f} : fetch'[g] = fetch[g]
    BY <1>5 DEF DownloadFails, vars, userVars, FetchTypeOK
  <2>2. ASSUME NEW w \in Versions, Opened(w) PROVE Opened(w)' \/ w \in spoilt'
    <3>1. PICK g \in Fetchers : fetch[g].at = "opened" /\ fetch[g].ver = w
      BY <2>2 DEF Opened
    <3>2. QED  BY <2>1, <3>1 DEF Opened
  <2>3. QED  BY <2>1, <2>2 DEF HalfWrittenInv
<1>6. ASSUME NEW f \in Fetchers,
             \/ \E n \in Uploadable : BeginDownload(f, n)
             \/ Answered(f) \/ TooManyRequests(f) \/ WriteSidecar(f)
      PROVE  HalfWrittenInv'
  <2>1. UNCHANGED <<content, spoilt, overwritten>>
    BY <1>6 DEF BeginDownload, Answered, TooManyRequests, WriteSidecar, vars, userVars
  <2>2. fetch[f].at # "opened" /\ \A g \in Fetchers \ {f} : fetch'[g] = fetch[g]
    <3>1. \A i \in 1..3 : Requests[i] # "opened"
      BY DEF Requests
    <3>2. fetch[f].at # "opened"
      BY <1>6, <3>1 DEF BeginDownload, Answered, TooManyRequests, WriteSidecar
    <3>3. \A g \in Fetchers \ {f} : fetch'[g] = fetch[g]
      BY <1>6 DEF BeginDownload, Answered, TooManyRequests, WriteSidecar, FetchTypeOK
    <3>4. QED  BY <3>2, <3>3
  <2>3. ASSUME NEW w \in Versions, Opened(w) PROVE Opened(w)'
    BY <2>2, <2>3 DEF Opened
  <2>4. QED  BY <2>1, <2>3 DEF HalfWrittenInv
<1>7. CASE PipelineMoves
  BY <1>1, <1>7, PipelineLeavesSessions
<1>8. CASE UNCHANGED downloadVars
  BY <1>1, <1>8 DEF downloadVars, fetchVars, vars, userVars
<1>9. QED
  BY <1>2, <1>3, <1>4, <1>5, <1>6, <1>7, <1>8 DEF DownloadNext, Fetch

(* The daemon comes to read a half-written version only if a session, or a *)
(* user's re-queue, put it under its hands: what it dispatches is whole or *)
(* was given up.                                                           *)
LEMMA DownloadKeepsUnreadInv ==
  ASSUME TypeOK, JobInv, PlaceInv, FetchTypeOK, HalfWrittenInv, UnreadInv,
         [DownloadNext]_downloadVars
  PROVE  UnreadInv'
<1> USE DEF InHand
<1>1. CASE pc' \notin {"parse", "partition"}
  BY <1>1 DEF UnreadInv
<1>2. CASE /\ UNCHANGED <<incoming, cur, content>> /\ spoilt \subseteq spoilt'
           /\ pc' \in {"parse", "partition"} => pc \in {"parse", "partition"}
  BY <1>2 DEF UnreadInv
<1>3. ASSUME NEW n \in Names, SampleFinished(n), UNCHANGED <<content, spoilt>>
      PROVE  UnreadInv'
  <2>1. CASE DispatchCandidate(n)
    <3>1. cur' = n /\ incoming' = incoming /\ incoming[n] \in Versions
      BY <2>1 DEF DispatchCandidate, dirVars, Existing, TypeOK
    <3>2. ~Opened(incoming[n])
      BY <1>3 DEF SampleFinished, IsOpen, Opened
    <3>3. incoming[n] \notin overwritten
      BY <3>1 DEF PlaceInv, Conservation, Stored, TypeOK
    <3>4. content[incoming[n]] # "whole" => incoming[n] \in spoilt
      BY <3>1, <3>2, <3>3 DEF HalfWrittenInv
    <3>5. QED  BY <1>3, <3>1, <3>4 DEF UnreadInv
  <2>2. CASE SampleCandidate(n)
    BY <1>1, <2>2 DEF SampleCandidate
  <2>3. QED  BY <1>3, <2>1, <2>2 DEF SampleFinished
<1>4. ASSUME NEW f \in Fetchers, NEW v \in Versions, OpenTarget(f, v)
      PROVE  UnreadInv'
  <2> DEFINE n == fetch[f].name
  <2>1. /\ n \in Names /\ incoming' = [incoming EXCEPT ![n] = v] /\ UNCHANGED <<pc, cur>>
        /\ content' = [content EXCEPT ![v] = "empty"]
        /\ spoilt' = IF cur = n /\ pc \in {"parse", "partition"}
                       THEN spoilt \union {v} ELSE spoilt
    BY <1>4 DEF OpenTarget, PutIncoming, FetchTypeOK, jobVars
  <2>2. v \notin used
    BY <1>4 DEF OpenTarget
  <2>3. CASE pc \in {"parse", "partition"} /\ cur = n
    BY <2>1, <2>3 DEF UnreadInv, TypeOK
  <2>4. CASE pc \in {"parse", "partition"} /\ cur # n
    <3>1. cur \in Names
      BY <2>4 DEF TypeOK
    <3>2. incoming'[cur] = incoming[cur] /\ incoming[cur] # v
      BY <2>1, <2>2, <2>4, <3>1, ConstantsAssumption DEF PlaceInv, TypeOK
    <3>3. content'[incoming[cur]] = content[incoming[cur]]
      BY <2>1, <3>2 DEF FetchTypeOK
    <3>4. QED  BY <2>1, <2>4, <3>2, <3>3 DEF UnreadInv
  <2>5. QED  BY <1>1, <2>1, <2>3, <2>4
<1>5. ASSUME NEW f \in Fetchers, WriteSome(f) PROVE UnreadInv'
  <2> DEFINE v == fetch[f].ver
  <2>1. /\ content[v] = "empty" /\ content' = [content EXCEPT ![v] = "partial"]
        /\ UNCHANGED <<pc, cur, incoming, spoilt>>
    BY <1>5 DEF WriteSome, vars, dirVars, jobVars
  <2>2. \A w \in DOMAIN content : content'[w] # "whole" => content[w] # "whole"
    BY <2>1
  <2>3. pc \in {"parse", "partition"} => incoming[cur] \in DOMAIN content
    BY DEF JobInv, TypeOK, FetchTypeOK
  <2>4. QED  BY <2>1, <2>2, <2>3 DEF UnreadInv
<1>6. ASSUME NEW f \in Fetchers, CloseTarget(f) PROVE UnreadInv'
  <2> DEFINE v == fetch[f].ver
  <2>1. /\ v \in Versions /\ content' = [content EXCEPT ![v] = "whole"]
        /\ UNCHANGED <<pc, cur, incoming, spoilt>>
    BY <1>6 DEF CloseTarget, vars, dirVars, jobVars, FetchTypeOK, TypeOK
  <2>2. content'[incoming[cur]] # "whole" => content'[incoming[cur]] = content[incoming[cur]]
    BY <2>1 DEF FetchTypeOK
  <2>3. QED  BY <2>1, <2>2 DEF UnreadInv
<1>7. ASSUME NEW f \in Fetchers,
             \/ \E n \in Uploadable : BeginDownload(f, n)
             \/ Answered(f) \/ TooManyRequests(f) \/ WriteSidecar(f) \/ DownloadFails(f)
      PROVE  UnreadInv'
  BY <1>2, <1>7 DEF BeginDownload, Answered, TooManyRequests, WriteSidecar,
       DownloadFails, vars, dirVars, jobVars
<1>8. ASSUME NEW u \in Users, UserStep(u), content' = content PROVE UnreadInv'
  <2>1. UNCHANGED <<pc, cur>>
    BY <1>8 DEF UserStep, User, UploadDocument, RequeueDocument, UploadSidecar,
         RequeueSidecars, UnlinkErrorLog, AbandonRequest, jobVars
  <2>2. CASE InHand' = InHand
    BY <1>8, <2>1, <2>2 DEF UserStep, UnreadInv
  <2>3. CASE InHand' # InHand
    BY <1>8, <2>1, <2>3 DEF UserStep, UnreadInv
  <2>4. QED  BY <2>2, <2>3
<1>9. CASE PipelineMoves /\ UNCHANGED spoilt /\ ~\E u \in Users : UserStep(u)
  <2>1. ASSUME NEW n \in Names,
               DropCandidate(n) \/ SampleUnfinished(n) \/ EnqueueCandidate(n)
        PROVE  UNCHANGED <<incoming, cur, pc>>
    BY <2>1 DEF DropCandidate, SampleUnfinished, EnqueueCandidate, dirVars, jobVars
  <2>2. CASE ScanIncoming
    BY <1>2, <1>9, <2>2, PipelineLeavesSessions DEF ScanIncoming, dirVars, jobVars
  <2>3. CASE ParseWritten
    <3>1. UNCHANGED <<incoming, cur>>
      BY <2>3 DEF ParseWritten, ReadMetadata, PartitionFile, dirVars
    <3>2. pc \in {"parse", "partition"}
      BY <2>3 DEF ParseWritten
    <3>3. QED  BY <1>2, <1>9, <3>1, <3>2, PipelineLeavesSessions
  <2>4. CASE ParseEmpty \/ EmbedChunks \/ BeginWrite \/ FinishWrite \/ Relocate \/ Failure
    <3>1. pc' \notin {"parse", "partition"}
      BY <2>4 DEF ParseEmpty, EmbedChunks, BeginWrite, FinishWrite, Relocate,
           ArchiveDocument, ArchiveSidecars, RejectDocument, RejectMissing,
           RejectSidecars, WriteDeadLetter, EndJob, Failure, FaultWhileHandling,
           FaultWhileArchivingSidecars, FaultWhileRejecting, Crash
    <3>2. QED  BY <1>1, <3>1
  <2>5. UNCHANGED content
    BY <1>9, PipelineLeavesSessions
  <2>6. QED
    BY <1>2, <1>3, <1>9, <2>1, <2>2, <2>3, <2>4, <2>5 DEF PipelineMoves
<1>10. CASE UNCHANGED downloadVars
  BY <1>2, <1>10 DEF downloadVars, fetchVars, vars, dirVars, jobVars
<1>11. QED
  BY <1>4, <1>5, <1>6, <1>7, <1>8, <1>9, <1>10, PipelineLeavesSessions
     DEF DownloadNext, Fetch

(* The daemon refuses a document for a reason: besides those of the        *)
(* pipeline, for being empty when it was half-written under its hands.     *)
LEMMA DownloadKeepsRefusalInv ==
  ASSUME TypeOK, JobInv, FetchTypeOK, UnreadInv, DownloadRefusalInv,
         [DownloadNext]_downloadVars
  PROVE  DownloadRefusalInv'
<1> USE DEF InHand
<1>1. CASE pc' # "reject"
  BY <1>1 DEF DownloadRefusalInv
<1>2. CASE UNCHANGED <<incoming, cur, pc, swapped, faults>> /\ spoilt \subseteq spoilt'
  BY <1>2 DEF DownloadRefusalInv
<1>3. ASSUME NEW n \in Names, NEW v \in Versions, PutIncoming(n, v),
             UNCHANGED <<pc, cur, faults>>, spoilt \subseteq spoilt'
      PROVE  DownloadRefusalInv'
  <2>1. pc = "reject" => cur \in Names
    BY DEF TypeOK
  <2>2. pc = "reject" /\ cur = n => incoming'[cur] = v /\ v \in swapped'
    BY <1>3, <2>1 DEF PutIncoming, ReadNotMoved, TypeOK
  <2>3. pc = "reject" /\ cur # n => incoming'[cur] = incoming[cur]
    BY <1>3, <2>1 DEF PutIncoming, TypeOK
  <2>4. swapped \subseteq swapped'
    BY <1>3 DEF PutIncoming
  <2>5. QED  BY <1>3, <2>2, <2>3, <2>4 DEF DownloadRefusalInv
<1>4. CASE PipelineMoves
  <2>1. spoilt \subseteq spoilt' /\ UNCHANGED content
    BY <1>4, PipelineLeavesSessions
  <2>2. CASE ParseEmpty
    <3>1. pc \in {"parse", "partition"} /\ content[incoming[cur]] = "empty"
      BY <2>2 DEF ParseEmpty
    <3>2. incoming[cur] \in spoilt /\ incoming' = incoming /\ cur' = cur
      BY <2>2, <3>1 DEF ParseEmpty, dirVars, UnreadInv
    <3>3. QED  BY <2>1, <3>2 DEF DownloadRefusalInv
  <2>3. CASE ParseWritten
    BY <1>1, <2>1, <2>3 DEF ParseWritten, ReadMetadata, PartitionFile, dirVars,
         DownloadRefusalInv
  <2>4. CASE FaultWhileHandling \/ FaultWhileArchivingSidecars
    BY <2>4 DEF FaultWhileHandling, FaultWhileArchivingSidecars, DownloadRefusalInv, TypeOK
  <2>5. ASSUME NEW u \in Users, UserStep(u) PROVE DownloadRefusalInv'
    <3>1. ASSUME NEW n \in Names, NEW v \in Versions, UploadDocument(u, n, v)
          PROVE  DownloadRefusalInv'
      BY <1>3, <2>1, <3>1 DEF UploadDocument, jobVars
    <3>2. ASSUME NEW n \in Names, RequeueDocument(u, n) PROVE DownloadRefusalInv'
      <4>1. failed[n] \in Versions
        BY <3>2 DEF RequeueDocument, TypeOK
      <4>2. QED  BY <1>3, <2>1, <3>2, <4>1 DEF RequeueDocument, jobVars
    <3>3. CASE UploadSidecar(u) \/ RequeueSidecars(u) \/ UnlinkErrorLog(u)
                 \/ AbandonRequest(u)
      BY <1>2, <2>1, <3>3 DEF UploadSidecar, RequeueSidecars, UnlinkErrorLog,
           AbandonRequest, dirVars, jobVars
    <3>4. QED  BY <2>5, <3>1, <3>2, <3>3 DEF UserStep, User
  <2>6. ASSUME NEW n \in Names,
               \/ DropCandidate(n) \/ SampleUnfinished(n) \/ SampleFinished(n)
               \/ EnqueueCandidate(n)
        PROVE  DownloadRefusalInv'
    BY <1>1, <1>2, <2>1, <2>6 DEF DropCandidate, SampleUnfinished, SampleFinished,
         SampleCandidate, DispatchCandidate, EnqueueCandidate, dirVars, jobVars, userVars
  <2>7. CASE \/ ScanIncoming \/ EmbedChunks \/ BeginWrite \/ FinishWrite \/ Relocate
             \/ FaultWhileRejecting \/ Crash
    BY <1>1, <2>7 DEF ScanIncoming, EmbedChunks, BeginWrite, FinishWrite, Relocate,
         ArchiveDocument, ArchiveSidecars, RejectDocument, RejectMissing,
         RejectSidecars, WriteDeadLetter, EndJob, FaultWhileRejecting, Crash
  <2>8. QED
    BY <1>4, <2>2, <2>3, <2>4, <2>5, <2>6, <2>7 DEF PipelineMoves, Failure
<1>5. ASSUME NEW f \in Fetchers, NEW v \in Versions, OpenTarget(f, v)
      PROVE  DownloadRefusalInv'
  <2>1. fetch[f].name \in Names /\ PutIncoming(fetch[f].name, v)
    BY <1>5 DEF OpenTarget, FetchTypeOK
  <2>2. UNCHANGED <<pc, cur, faults>> /\ spoilt \subseteq spoilt'
    BY <1>5 DEF OpenTarget, jobVars
  <2>3. QED  BY <1>3, <2>1, <2>2
<1>6. ASSUME NEW f \in Fetchers, WriteSidecar(f) \/ UNCHANGED vars, spoilt \subseteq spoilt'
      PROVE  DownloadRefusalInv'
  BY <1>2, <1>6 DEF WriteSidecar, vars, dirVars, jobVars, userVars
<1>7. CASE UNCHANGED downloadVars
  BY <1>2, <1>7 DEF downloadVars, fetchVars, vars, dirVars, jobVars, userVars
<1>8. QED
  BY <1>4, <1>5, <1>6, <1>7, WhatASessionDoes DEF DownloadNext

(* A half-written version is partitioned, and a document that is not       *)
(* broken is refused, only if something was spoilt.                        *)
LEMMA DownloadKeepsOnlySpoiltSuffer ==
  ASSUME TypeOK, JobInv, FetchTypeOK, UnreadInv, DownloadRefusalInv, OnlySpoiltSuffer,
         TypeOK', [DownloadNext]_downloadVars
  PROVE  OnlySpoiltSuffer'
<1>1. spoilt \subseteq spoilt'
  BY PipelineLeavesSessions, WhatASessionDoes DEF DownloadNext, downloadVars, fetchVars
<1>2. torn' \subseteq spoilt'
  <2>1. CASE torn' = torn
    BY <1>1, <2>1 DEF OnlySpoiltSuffer
  <2>2. CASE ParseWritten
    <3>1. torn' \subseteq torn \union {InHand} /\ (InHand \in torn' \ torn => content[InHand] = "partial")
      BY <2>2 DEF ParseWritten
    <3>2. pc \in {"parse", "partition"}
      BY <2>2 DEF ParseWritten
    <3>3. QED  BY <1>1, <3>1, <3>2 DEF UnreadInv, OnlySpoiltSuffer
  <2>3. CASE ParseEmpty
    BY <2>1, <2>3 DEF ParseEmpty
  <2>4. QED
    BY <2>1, <2>2, <2>3, WhatASessionDoes
       DEF DownloadNext, PipelineMoves, downloadVars, fetchVars
<1>3. swapped \subseteq swapped' /\ (faults > 0 => faults' > 0)
  <2>1. CASE [Next]_vars
    BY <2>1, HistoryGrows DEF TypeOK
  <2>2. QED
    BY <2>1, DownloadStepOfPipeline
       DEF ParseEmpty, SampleUnfinished, OpenTarget, WriteSidecar, PutIncoming, userVars
<1>4. ASSUME NEW m \in Names, failed'[m] # None
      PROVE  failed'[m] \in Unparseable \union swapped' \union spoilt' \/ faults' > 0
  <2>1. CASE failed'[m] = failed[m]
    BY <1>1, <1>3, <1>4, <2>1 DEF OnlySpoiltSuffer
  <2>2. CASE failed'[m] # failed[m]
    <3>1. [Next]_vars
      BY <2>2, DownloadStepOfPipeline
         DEF ParseEmpty, SampleUnfinished, OpenTarget, WriteSidecar, dirVars
    <3>2. CASE RejectDocument
      <4>1. failed'[m] = incoming[cur] /\ pc = "reject"
        BY <2>2, <3>2 DEF RejectDocument, TypeOK
      <4>2. QED  BY <1>1, <1>3, <1>4, <4>1 DEF DownloadRefusalInv, InHand
    <3>3. ~\E u \in Users, n \in Names : RequeueDocument(u, n)
      BY <1>4, <2>2 DEF RequeueDocument, TypeOK
    <3>4. QED
      BY <2>2, <3>1, <3>2, <3>3, WhoChangesWhat DEF ArchiveDocument, UploadDocument
  <2>3. QED  BY <2>1, <2>2
<1>5. QED  BY <1>2, <1>4 DEF OnlySpoiltSuffer

-----------------------------------------------------------------------------
(* The theorems about downloads *)

(* The inductive invariant: the pipeline's, and what becomes of files that *)
(* are being written.                                                      *)
THEOREM DownloadInvariant == DownloadSpec => [](TypeOK /\ DownloadInv)
<1>1. DownloadInit => TypeOK /\ DownloadInv
  <2> SUFFICES ASSUME DownloadInit PROVE TypeOK /\ DownloadInv
    OBVIOUS
  <2>1. Init
    BY DEF DownloadInit
  <2>2. TypeOK /\ JobInv /\ PlaceInv /\ UserInv
    BY <2>1, InitIsTyped, InitIsInv DEF PipelineInv
  <2>3. FetchTypeOK
    <3>1. fetch = [f \in Fetchers |-> NoFetch] /\ content = [v \in Versions |-> "whole"]
      BY DEF DownloadInit
    <3>2. /\ NoFetch \in [at : Phase, tries : Nat, name : Names \union {None},
                          ver : Versions \union {None}]
          /\ NoFetch.at = "idle"
      BY DEF NoFetch, Phase
    <3>3. QED  BY <3>1, <3>2 DEF FetchTypeOK
  <2>4. HalfWrittenInv
    BY DEF DownloadInit, HalfWrittenInv
  <2>5. UnreadInv /\ DownloadRefusalInv /\ OnlySpoiltSuffer /\ ProcessedWasIndexed
    BY <2>1 DEF Init, DownloadInit, UnreadInv, DownloadRefusalInv, OnlySpoiltSuffer,
         ProcessedWasIndexed
  <2>6. QED  BY <2>2, <2>3, <2>4, <2>5 DEF DownloadInv
<1>2. TypeOK /\ DownloadInv /\ [DownloadNext]_downloadVars => TypeOK' /\ DownloadInv'
  <2> SUFFICES ASSUME TypeOK, DownloadInv, [DownloadNext]_downloadVars
               PROVE  TypeOK' /\ DownloadInv'
    OBVIOUS
  <2> USE DEF DownloadInv
  <2>1. TypeOK'
    BY DownloadKeepsTypes
  <2>2. JobInv' /\ PlaceInv' /\ UserInv'
    BY DownloadKeepsJobInv, DownloadKeepsPlaceInv, DownloadKeepsUserInv
  <2>3. FetchTypeOK' /\ HalfWrittenInv' /\ UnreadInv'
    BY <2>1, DownloadKeepsFetchTypes, DownloadKeepsHalfWrittenInv, DownloadKeepsUnreadInv
  <2>4. DownloadRefusalInv' /\ OnlySpoiltSuffer' /\ ProcessedWasIndexed'
    BY <2>1, DownloadKeepsRefusalInv, DownloadKeepsOnlySpoiltSuffer,
       DownloadKeepsProcessedWasIndexed
  <2>5. QED  BY <2>1, <2>2, <2>3, <2>4
<1>3. QED  BY <1>1, <1>2, PTL DEF DownloadSpec, downloadVars

(* A filing that is downloaded once and to its end is indexed whole: what  *)
(* is partitioned half-written, or refused without being broken, was left  *)
(* by an error or put into a file the daemon was about to read.            *)
THEOREM OnlySpoiltSufferHolds == DownloadSpec => []OnlySpoiltSuffer
<1>1. DownloadInv => OnlySpoiltSuffer
  BY DEF DownloadInv
<1>2. QED  BY <1>1, DownloadInvariant, PTL

(* However many sessions download into incoming, in place, no document is  *)
(* lost or doubled, and what is archived was indexed.                      *)
THEOREM DownloadConserves == DownloadSpec => [](Conservation /\ ProcessedWasIndexed)
<1>1. DownloadInv => Conservation /\ ProcessedWasIndexed
  BY DEF DownloadInv, PlaceInv
<1>2. QED  BY <1>1, DownloadInvariant, PTL

(* The composition still implements the ledger: opening the target of a    *)
(* download is an arrival, whoever stood under the name.                   *)
THEOREM DownloadFollowsLedger == DownloadSpec => MovesFollowLedger
<1>1. DownloadInit => Ledger!Init
  BY InitIsLedgerInit DEF DownloadInit
<1>2. TypeOK /\ DownloadInv /\ TypeOK' /\ DownloadInv' /\ [DownloadNext]_downloadVars
        => [Ledger!Next]_Places
  <2> SUFFICES ASSUME TypeOK, DownloadInv, TypeOK', DownloadInv',
                      [DownloadNext]_downloadVars
               PROVE  [Ledger!Next]_Places
    OBVIOUS
  <2>1. PlaceInv /\ PlaceInv' /\ JobInv /\ FetchTypeOK /\ PlaceIsRead /\ PlaceIsRead'
    BY PlaceIs, PlaceIsNext DEF DownloadInv
  <2>2. CASE [Next]_vars
    BY <2>1, <2>2, NextIsLedgerStep
  <2>3. CASE UNCHANGED <<dirVars, used>>
    BY <2>3 DEF Places, Place, Stored, dirVars
  <2>4. ASSUME NEW f \in Fetchers, NEW v \in Versions, OpenTarget(f, v)
        PROVE  Ledger!Next
    BY <2>1, <2>4, OpenTargetArrives, ArrivalIsLedgerStep DEF Ledger!Next
  <2>5. QED
    BY <2>2, <2>3, <2>4, DownloadStepOfPipeline
       DEF ParseEmpty, SampleUnfinished, WriteSidecar, userVars
<1>3. QED
  BY <1>1, <1>2, DownloadInvariant, PTL
     DEF DownloadSpec, downloadVars, MovesFollowLedger, Ledger!SafeSpec
=============================================================================
