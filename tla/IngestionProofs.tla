-------------------------- MODULE IngestionProofs --------------------------
(***************************************************************************)
(* What the ingestion pipeline keeps for any set of documents, names and   *)
(* users, and any number of crashes, errors and re-queues.                 *)
(***************************************************************************)
EXTENDS Ingestion, SequenceTheorems, TLAPS

-----------------------------------------------------------------------------
(* Helpers *)

(* Moving sidecars between two directories keeps the type of the map.      *)
LEMMA MovedSidecarsType ==
  ASSUME TypeOK, NEW from \in Dirs, NEW to \in Dirs, NEW moved
  PROVE  MovedSidecars(from, to, moved)
           \in [Dirs -> [Sidecars -> Versions \union {None}]]
<1> DEFINE V == Versions \union {None}
<1>1. side \in [Dirs -> [Sidecars -> V]]
  BY DEF TypeOK
<1> DEFINE arrived == [s \in Sidecars |-> IF s \in moved /\ side[to][s] = None
                                            THEN side[from][s] ELSE side[to][s]]
           mid == [side EXCEPT ![to] = arrived]
           left == [s \in Sidecars |-> IF s \in moved THEN None ELSE mid[from][s]]
<1>2. arrived \in [Sidecars -> V]
  BY <1>1
<1>3. mid \in [Dirs -> [Sidecars -> V]]
  BY <1>1, <1>2
<1>4. left \in [Sidecars -> V]
  BY <1>3
<1>5. [mid EXCEPT ![from] = left] \in [Dirs -> [Sidecars -> V]]
  BY <1>3, <1>4
<1>6. QED  BY <1>5 DEF MovedSidecars

(* The metadata of a file is that of an upload, or none.                   *)
LEMMA ResolvedType ==
  ASSUME TypeOK, NEW n \in Names
  PROVE  /\ ResolveMetadata(n) \in Versions \union {None}
         /\ Domain(ResolveMetadata(n)) \in Domains
<1>1. FullSidecar[n] \in Sidecars /\ StemSidecar[n] \in Sidecars
  BY ConstantsAssumption
<1>2. side["incoming"] \in [Sidecars -> Versions \union {None}]
  BY DEF TypeOK, Dirs
<1>3. ResolveMetadata(n) \in Versions \union {None}
  BY <1>1, <1>2 DEF ResolveMetadata
<1>4. QED  BY <1>3, ConstantsAssumption DEF Domain

(* A unique destination is a name, and nothing is there.                   *)
LEMMA UniqueDestIsFree ==
  ASSUME NEW dir, NEW n \in Names, NEW m \in UniqueDest(dir, n),
         dir \in {processed, failed}
  PROVE  m \in Names /\ dir[m] = None
BY DEF UniqueDest

(* Finishing the last parquet file keeps all the others.                   *)
LEMMA FinishedLake ==
  ASSUME TypeOK, lake # <<>>, lake' = [lake EXCEPT ![Len(lake)].whole = TRUE]
  PROVE  /\ lake' \in Seq(Batch) /\ Len(lake') = Len(lake)
         /\ Len(lake) \in DOMAIN lake /\ DOMAIN lake' = DOMAIN lake
         /\ lake'[Len(lake)].whole /\ lake'[Len(lake)].ver = lake[Len(lake)].ver
         /\ \A i \in DOMAIN lake : /\ lake'[i].ver = lake[i].ver
                                   /\ lake[i].whole => lake'[i].whole
<1>1. lake \in Seq(Batch) /\ Len(lake) \in Nat \ {0} /\ DOMAIN lake = 1..Len(lake)
  BY EmptySeq DEF TypeOK
<1> DEFINE e == [lake[Len(lake)] EXCEPT !.whole = TRUE]
<1>2. lake[Len(lake)] \in Batch
  BY <1>1
<1>3. e \in Batch /\ e.whole = TRUE /\ e.ver = lake[Len(lake)].ver
  BY <1>2 DEF Batch
<1>4. lake' = [lake EXCEPT ![Len(lake)] = e]
  OBVIOUS
<1> HIDE DEF e
<1>5. lake' \in Seq(Batch) /\ Len(lake') = Len(lake) /\ DOMAIN lake' = DOMAIN lake
  <2> DEFINE n == Len(lake)
  <2>1. n \in 1..Len(lake) /\ e \in Batch /\ lake \in Seq(Batch)
    BY <1>1, <1>3
  <2> HIDE DEF n
  <2>2. [lake EXCEPT ![n] = e] \in Seq(Batch) /\ Len([lake EXCEPT ![n] = e]) = Len(lake)
    BY <2>1, ExceptSeq
  <2>3. DOMAIN [lake EXCEPT ![n] = e] = DOMAIN lake
    OBVIOUS
  <2>4. QED  BY <2>2, <2>3, <1>4 DEF n
<1>6. \A i \in DOMAIN lake : lake'[i] = IF i = Len(lake) THEN e ELSE lake[i]
  BY <1>4
<1>7. lake'[Len(lake)] = e
  BY <1>1, <1>6
<1>8. ASSUME NEW i \in DOMAIN lake
      PROVE  lake'[i].ver = lake[i].ver /\ (lake[i].whole => lake'[i].whole)
  <2>1. CASE i = Len(lake)  BY <2>1, <1>3, <1>7
  <2>2. CASE i # Len(lake)  BY <2>2, <1>6
  <2>3. QED  BY <2>1, <2>2
<1>9. QED  BY <1>1, <1>3, <1>5, <1>7, <1>8

(* Who changes what: the only steps that move a document, write the lake,  *)
(* note a swap, count a failure or a re-queue, or serve a user.            *)
LEMMA WhoChangesWhat ==
  ASSUME [Next]_vars
  PROVE  /\ \/ UNCHANGED <<incoming, processed, failed, used, overwritten, swapped>>
            \/ ArchiveDocument \/ RejectDocument
            \/ \E u \in Users, n \in Names :
                 \/ \E v \in Versions : UploadDocument(u, n, v)
                 \/ RequeueDocument(u, n)
         /\ lake' = lake \/ BeginWrite \/ FinishWrite
         /\ faults' = faults \/ faults' = faults + 1
         /\ crashes' = crashes \/ crashes' = crashes + 1
         /\ requeues' = requeues \/ requeues' = requeues + 1
         /\ UNCHANGED <<user, requeues>> \/ \E u \in Users : User(u)
         /\ \/ errlog \subseteq errlog'
            \/ \E u \in Users : UnlinkErrorLog(u)
         /\ \/ UNCHANGED <<pc, dest>> \/ pc \notin {"rejectSide", "rejectLog"}
            \/ RejectSidecars \/ WriteDeadLetter
            \/ faults' = faults + 1 \/ crashes' = crashes + 1
BY DEF Next, vars, Daemon, Watch, Process, Relocate, Failure, User,
     dirVars, jobVars, userVars, watchVars,
     ScanIncoming, DropCandidate, SampleCandidate, DispatchCandidate,
     EnqueueCandidate, ReadMetadata, PartitionFile, EmbedChunks, BeginWrite,
     FinishWrite, ArchiveDocument, ArchiveSidecars, RejectDocument,
     RejectMissing, RejectSidecars, WriteDeadLetter, FaultWhileHandling,
     FaultWhileArchivingSidecars, FaultWhileRejecting, Crash,
     UploadDocument, UploadSidecar, RequeueDocument, RequeueSidecars,
     UnlinkErrorLog, AbandonRequest

-----------------------------------------------------------------------------
(* Types *)

(* The empty directories, lake and job the daemon starts with are typed.   *)
LEMMA InitIsTyped == Init => TypeOK
<1> SUFFICES ASSUME Init PROVE TypeOK
  OBVIOUS
<1> USE ConstantsAssumption DEF Init
<1>1. side \in [Dirs -> [Sidecars -> Versions \union {None}]]
  OBVIOUS
<1>2. lake \in Seq(Batch)
  OBVIOUS
<1>3. tracked \in [Names -> [ver : Versions \union {None}, count : Nat]]
  BY DEF Untracked
<1>4. user \in [Users -> [at : {"idle", "uploaded", "requeued", "unlinking"},
                         name : Names \union {None},
                         ver : Versions \union {None}]]
  BY DEF IdleUser
<1>5. QED  BY <1>1, <1>2, <1>3, <1>4 DEF TypeOK, Point

(* A step of the watcher keeps the types.                                  *)
LEMMA WatchKeepsTypes ==
  ASSUME TypeOK, Watch \/ (\E n \in Names : EnqueueCandidate(n))
  PROVE  TypeOK'
<1> USE ConstantsAssumption
<1> USE DEF TypeOK, dirVars, jobVars, userVars
<1>1. CASE ScanIncoming
  BY <1>1 DEF ScanIncoming, Existing
<1>2. ASSUME NEW n \in Names, DropCandidate(n) PROVE TypeOK'
  BY <1>2 DEF DropCandidate
<1>3. ASSUME NEW n \in Names, SampleCandidate(n) PROVE TypeOK'
  <2> DEFINE Rec == [ver : Versions \union {None}, count : Nat]
             k == IF tracked[n].ver = incoming[n] THEN tracked[n].count + 1 ELSE 0
             r == [ver |-> incoming[n], count |-> k]
  <2>1. k \in Nat /\ incoming[n] \in Versions \union {None}
    OBVIOUS
  <2>2. r \in Rec
    BY <2>1
  <2>3. tracked' = [tracked EXCEPT ![n] = r]
    BY <1>3 DEF SampleCandidate
  <2> HIDE DEF r
  <2>4. tracked' \in [Names -> Rec]
    BY <2>2, <2>3
  <2>5. QED  BY <1>3, <2>4 DEF SampleCandidate
<1>4. ASSUME NEW n \in Names, DispatchCandidate(n) PROVE TypeOK'
  <2>1. Untracked \in [ver : Versions \union {None}, count : Nat]
    BY DEF Untracked
  <2>2. tracked' \in [Names -> [ver : Versions \union {None}, count : Nat]]
    BY <1>4, <2>1 DEF DispatchCandidate
  <2>3. pc' = "parse" /\ cur' = n /\ cur' # None
    BY <1>4 DEF DispatchCandidate
  <2>4. QED  BY <1>4, <2>2, <2>3 DEF DispatchCandidate, Point
<1>5. ASSUME NEW n \in Names, EnqueueCandidate(n) PROVE TypeOK'
  BY <1>5 DEF EnqueueCandidate
<1>6. QED  BY <1>1, <1>2, <1>3, <1>4, <1>5 DEF Watch

(* A step of the processor keeps the types.                                *)
LEMMA ProcessKeepsTypes ==
  ASSUME TypeOK, JobInv, Process
  PROVE  TypeOK'
<1> USE ConstantsAssumption
<1> USE DEF TypeOK, Point, dirVars, jobVars, userVars, watchVars
<1>1. CASE ReadMetadata
  <2>1. cur \in Names  BY <1>1 DEF ReadMetadata
  <2>2. meta' \in Versions \union {None}  BY <1>1, <2>1, ResolvedType DEF ReadMetadata
  <2>3. QED  BY <1>1, <2>2 DEF ReadMetadata
<1>2. CASE PartitionFile
  <2>1. cur \in Names  BY <1>2 DEF PartitionFile
  <2>2. doc' \in Versions \union {None}  BY <1>2, <2>1 DEF PartitionFile
  <2>3. pc' \in {"reject", "embed"}  BY <1>2 DEF PartitionFile
  <2>4. QED  BY <1>2, <2>1, <2>2, <2>3 DEF PartitionFile
<1>3. CASE EmbedChunks
  <2>1. cur \in Names  BY <1>3 DEF EmbedChunks
  <2>2. model' \in Domains  BY <1>3, <2>1, ResolvedType DEF EmbedChunks
  <2>3. QED  BY <1>3, <2>2 DEF EmbedChunks
<1>4. CASE BeginWrite
  <2> DEFINE b == [ver |-> doc, meta |-> meta, model |-> model, whole |-> FALSE]
  <2>1. doc \in Versions  BY <1>4 DEF BeginWrite, JobInv
  <2>2. b \in Batch  BY <2>1 DEF Batch
  <2>3. lake' = Append(lake, b)  BY <1>4 DEF BeginWrite
  <2> HIDE DEF b
  <2>4. lake' \in Seq(Batch)  BY <2>2, <2>3
  <2>5. QED  BY <1>4, <2>4 DEF BeginWrite
<1>5. CASE FinishWrite
  <2>1. lake' \in Seq(Batch)
    BY <1>5, FinishedLake DEF FinishWrite, JobInv
  <2>2. QED  BY <1>5, <2>1 DEF FinishWrite
<1>6. QED  BY <1>1, <1>2, <1>3, <1>4, <1>5 DEF Process

(* The end of a job keeps the types of what it sets.                       *)
LEMMA EndJobType ==
  ASSUME TypeOK, EndJob
  PROVE  /\ pc' \in Point /\ (cur' = None <=> pc' = "sweep")
         /\ cur' = None /\ doc' = None /\ meta' = None /\ dest' = None
         /\ model' \in Domains
BY ConstantsAssumption DEF TypeOK, EndJob, NoJob, Point

(* Moving the document to a free name of another directory.                *)
LEMMA MovedType ==
  ASSUME TypeOK, NEW n \in Names, cur \in Names
  PROVE  /\ [processed EXCEPT ![n] = incoming[cur]] \in [Names -> Versions \union {None}]
         /\ [failed EXCEPT ![n] = incoming[cur]] \in [Names -> Versions \union {None}]
         /\ [incoming EXCEPT ![cur] = None] \in [Names -> Versions \union {None}]
BY DEF TypeOK

(* A step of the lifecycle manager keeps the types.                        *)
LEMMA RelocateKeepsTypes ==
  ASSUME TypeOK, JobInv, Relocate
  PROVE  TypeOK'
<1> USE ConstantsAssumption
<1> DEFINE Side == [Dirs -> [Sidecars -> Versions \union {None}]]
<1> USE DEF dirVars, jobVars, userVars, watchVars
<1>1. CASE ArchiveDocument
  <2>1. cur \in Names  BY <1>1 DEF ArchiveDocument, TypeOK
  <2>2. PICK n \in UniqueDest(processed, cur) :
          processed' = [processed EXCEPT ![n] = incoming[cur]] /\ dest' = n
    BY <1>1 DEF ArchiveDocument
  <2>3. n \in Names  BY <2>1, UniqueDestIsFree
  <2>4. QED  BY <1>1, <2>1, <2>2, <2>3, MovedType DEF ArchiveDocument, TypeOK, Point
<1>2. CASE RejectDocument
  <2>1. cur \in Names  BY <1>2 DEF RejectDocument, TypeOK
  <2>2. PICK n \in UniqueDest(failed, cur) :
          failed' = [failed EXCEPT ![n] = incoming[cur]] /\ dest' = n
    BY <1>2 DEF RejectDocument
  <2>3. n \in Names  BY <2>1, UniqueDestIsFree
  <2>4. QED  BY <1>2, <2>1, <2>2, <2>3, MovedType DEF RejectDocument, TypeOK, Point
<1>3. CASE ArchiveSidecars
  <2>1. side' \in Side
    BY <1>3, MovedSidecarsType DEF ArchiveSidecars, Dirs
  <2>2. QED  BY <1>3, <2>1, EndJobType DEF ArchiveSidecars, TypeOK
<1>4. CASE RejectMissing
  BY <1>4, EndJobType DEF RejectMissing, TypeOK
<1>5. CASE RejectSidecars
  <2>1. side' \in Side
    BY <1>5, MovedSidecarsType DEF RejectSidecars, Dirs
  <2>2. QED  BY <1>5, <2>1 DEF RejectSidecars, TypeOK, Point
<1>6. CASE WriteDeadLetter
  <2>1. errlog' \subseteq Names
    BY <1>6 DEF WriteDeadLetter, JobInv, TypeOK
  <2>2. QED  BY <1>6, <2>1, EndJobType DEF WriteDeadLetter, TypeOK
<1>7. QED
  BY <1>1, <1>2, <1>3, <1>4, <1>5, <1>6 DEF Relocate

(* An error or a crash keeps the types.                                    *)
LEMMA FailureKeepsTypes ==
  ASSUME TypeOK, Failure
  PROVE  TypeOK'
<1> USE ConstantsAssumption
<1> DEFINE Side == [Dirs -> [Sidecars -> Versions \union {None}]]
<1> USE DEF dirVars, jobVars, userVars, watchVars
<1>0. MaxFaults \in Nat /\ MaxCrashes \in Nat
  OBVIOUS
<1>1. CASE FaultWhileHandling
  BY <1>0, <1>1 DEF FaultWhileHandling, TypeOK, Point
<1>2. CASE FaultWhileArchivingSidecars
  <2>1. side' \in Side
    BY <1>2, MovedSidecarsType DEF FaultWhileArchivingSidecars, Dirs
  <2>2. QED  BY <1>0, <1>2, <2>1 DEF FaultWhileArchivingSidecars, TypeOK, Point
<1>3. CASE FaultWhileRejecting
  <2>1. side' \in Side
    <3>1. CASE pc = "rejectSide"
      BY <1>3, <3>1, MovedSidecarsType DEF FaultWhileRejecting, Dirs
    <3>2. CASE pc # "rejectSide"
      BY <1>3, <3>2 DEF FaultWhileRejecting, TypeOK
    <3>3. QED  BY <3>1, <3>2
  <2>2. faults' \in 0..MaxFaults
    BY <1>0, <1>3 DEF FaultWhileRejecting, TypeOK
  <2>3. QED  BY <1>3, <2>1, <2>2, EndJobType DEF FaultWhileRejecting, TypeOK
<1>4. CASE Crash
  <2>1. crashes' \in 0..MaxCrashes
    BY <1>0, <1>4 DEF Crash, TypeOK
  <2>2. tracked' \in [Names -> [ver : Versions \union {None}, count : Nat]]
    BY <1>4 DEF Crash, Untracked
  <2>3. QED  BY <1>4, <2>1, <2>2, EndJobType DEF Crash, TypeOK
<1>5. QED  BY <1>1, <1>2, <1>3, <1>4 DEF Failure

(* Putting a document in incoming keeps the types of the directories.      *)
LEMMA PutIncomingType ==
  ASSUME TypeOK, NEW n \in Names, NEW v \in Versions, PutIncoming(n, v)
  PROVE  incoming' \in [Names -> Versions \union {None}]
BY DEF TypeOK, PutIncoming

(* A user who was served is idle, one who is being served is on the way.   *)
LEMMA UserRecordType ==
  ASSUME TypeOK, NEW u \in Users,
         NEW r \in [at : {"idle", "uploaded", "requeued", "unlinking"},
                    name : Names \union {None}, ver : Versions \union {None}],
         user' = [user EXCEPT ![u] = r]
  PROVE  user' \in [Users -> [at : {"idle", "uploaded", "requeued", "unlinking"},
                             name : Names \union {None},
                             ver : Versions \union {None}]]
BY DEF TypeOK

(* A step of a user keeps the types.                                       *)
LEMMA UserKeepsTypes ==
  ASSUME TypeOK, UserInv, PlaceInv, NEW u \in Users, User(u)
  PROVE  TypeOK'
<1> USE ConstantsAssumption
<1> DEFINE Side == [Dirs -> [Sidecars -> Versions \union {None}]]
           Rec == [at : {"idle", "uploaded", "requeued", "unlinking"},
                   name : Names \union {None}, ver : Versions \union {None}]
<1> USE DEF dirVars, jobVars, userVars, watchVars
<1>0. IdleUser \in Rec /\ user[u] \in Rec
  BY DEF IdleUser, TypeOK
<1>1. ASSUME NEW n \in Names, NEW v \in Versions, UploadDocument(u, n, v)
      PROVE  TypeOK'
  <2>1. used' = used \union {v} /\ PutIncoming(n, v)
    BY <1>1 DEF UploadDocument
  <2>2. incoming' \in [Names -> Versions \union {None}]
    BY <2>1, PutIncomingType
  <2>3. incoming[n] \in used \union {None}
    BY DEF PlaceInv
  <2>4. overwritten' \subseteq used' /\ swapped' \subseteq used'
    BY <2>1, <2>3 DEF PutIncoming, TypeOK
  <2>5. user' \in [Users -> Rec]
    BY <1>1, UserRecordType DEF UploadDocument
  <2>6. QED  BY <1>1, <2>1, <2>2, <2>4, <2>5 DEF UploadDocument, TypeOK
<1>2. CASE UploadSidecar(u)
  <2>1. user[u].name \in Names /\ user[u].ver \in Versions \union {None}
    BY <1>0, <1>2 DEF UploadSidecar, UserInv
  <2>2. FullSidecar[user[u].name] \in Sidecars
    BY <2>1
  <2>3. side' \in Side
    BY <1>2, <2>1, <2>2 DEF UploadSidecar, TypeOK, Dirs
  <2>4. user' \in [Users -> Rec]
    BY <1>0, <1>2, UserRecordType DEF UploadSidecar
  <2>5. QED  BY <1>2, <2>3, <2>4 DEF UploadSidecar, TypeOK
<1>3. ASSUME NEW n \in Names, RequeueDocument(u, n) PROVE TypeOK'
  <2>1. failed[n] \in Versions /\ PutIncoming(n, failed[n])
    BY <1>3 DEF RequeueDocument, TypeOK
  <2>2. incoming' \in [Names -> Versions \union {None}]
    BY <2>1, PutIncomingType
  <2>3. incoming[n] \in used \union {None} /\ failed[n] \in used \union {None}
    BY DEF PlaceInv
  <2>4. overwritten' \subseteq used /\ swapped' \subseteq used
    BY <2>1, <2>3 DEF PutIncoming, TypeOK
  <2>5. user' \in [Users -> Rec]
    BY <1>3, UserRecordType DEF RequeueDocument
  <2>6. failed' \in [Names -> Versions \union {None}]
    BY <1>3 DEF RequeueDocument, TypeOK
  <2>7. requeues' \in 0..MaxRequeues
    <3>1. MaxRequeues \in Nat  OBVIOUS
    <3>2. QED  BY <1>3, <3>1 DEF RequeueDocument, TypeOK
  <2>8. QED  BY <1>3, <2>2, <2>4, <2>5, <2>6, <2>7 DEF RequeueDocument, TypeOK
<1>4. CASE RequeueSidecars(u)
  <2> DEFINE moved == FindSidecars("failed", user[u].name)
             back == [s \in Sidecars |-> IF s \in moved THEN side["failed"][s]
                                                         ELSE side["incoming"][s]]
             rest == [s \in Sidecars |-> IF s \in moved THEN None
                                                         ELSE side["failed"][s]]
  <2>1. side' = [side EXCEPT !["incoming"] = back, !["failed"] = rest]
    BY <1>4 DEF RequeueSidecars
  <2>2. back \in [Sidecars -> Versions \union {None}]
        /\ rest \in [Sidecars -> Versions \union {None}]
    BY DEF TypeOK, Dirs
  <2> HIDE DEF back, rest
  <2>3. side' \in Side
    BY <2>1, <2>2 DEF TypeOK
  <2>4. user' \in [Users -> Rec]
    <3>1. [user[u] EXCEPT !.at = "unlinking"] \in Rec
      BY <1>0
    <3>2. QED  BY <1>4, <3>1, UserRecordType DEF RequeueSidecars
  <2>5. QED  BY <1>4, <2>3, <2>4 DEF RequeueSidecars, TypeOK
<1>5. CASE UnlinkErrorLog(u)
  <2>1. user' \in [Users -> Rec]
    BY <1>0, <1>5, UserRecordType DEF UnlinkErrorLog
  <2>2. QED  BY <1>5, <2>1 DEF UnlinkErrorLog, TypeOK
<1>6. CASE AbandonRequest(u)
  <2>1. user' \in [Users -> Rec]
    BY <1>0, <1>6, UserRecordType DEF AbandonRequest
  <2>2. QED  BY <1>6, <2>1 DEF AbandonRequest, TypeOK
<1>7. QED  BY <1>1, <1>2, <1>3, <1>4, <1>5, <1>6 DEF User

(* Every step of the daemon, a user, an error or a crash keeps the types.  *)
LEMMA NextKeepsTypes ==
  ASSUME TypeOK, JobInv, PlaceInv, UserInv, [Next]_vars
  PROVE  TypeOK'
<1>1. CASE Next
  BY <1>1, WatchKeepsTypes, ProcessKeepsTypes, RelocateKeepsTypes,
     FailureKeepsTypes, UserKeepsTypes DEF Next, Daemon
<1>2. CASE UNCHANGED vars
  BY <1>2 DEF vars, dirVars, watchVars, jobVars, userVars, TypeOK
<1>3. QED  BY <1>1, <1>2

-----------------------------------------------------------------------------
(* The job of the daemon *)

(* A step that is not the daemon's and moves no document.                  *)
LEMMA JobInvUntouched ==
  ASSUME JobInv, UNCHANGED <<incoming, lake, pc, cur, doc, dest, swapped, faults>>
  PROVE  JobInv'
BY DEF JobInv, Indexed

(* A job that is over has nothing to keep.                                 *)
LEMMA JobInvAtTheEnd ==
  ASSUME pc' \in {"sweep", "archiveSide"}
  PROVE  JobInv'
BY DEF JobInv

(* What is put under the name the daemon has read is noted in swapped, so  *)
(* its job does not lose track of what it is about to move.                *)
LEMMA JobInvUnderPut ==
  ASSUME TypeOK, JobInv, NEW n \in Names, NEW v \in Versions, PutIncoming(n, v),
         UNCHANGED <<lake, pc, cur, doc, dest, faults>>
  PROVE  JobInv'
<1>1. CASE pc = "sweep"
  BY <1>1, JobInvAtTheEnd
<1>2. CASE pc # "sweep" /\ cur = n
  <2>1. incoming'[cur] = v /\ v # None
    BY <1>2, ConstantsAssumption DEF PutIncoming, TypeOK
  <2>2. pc \in ReadNotMoved => v \in swapped'
    BY <1>2 DEF PutIncoming
  <2>3. QED  BY <2>1, <2>2 DEF JobInv, ReadNotMoved, Indexed
<1>3. CASE pc # "sweep" /\ cur # n
  <2>1. cur \in Names
    BY <1>3 DEF TypeOK
  <2>2. incoming'[cur] = incoming[cur] /\ swapped' = swapped
    BY <1>3, <2>1 DEF PutIncoming, TypeOK
  <2>3. QED  BY <2>2 DEF JobInv, Indexed
<1>4. QED  BY <1>1, <1>2, <1>3

(* What the point reached by handle_file implies stays true of every step, *)
(* the uploads that replace the file under its hands among them.           *)
LEMMA NextKeepsJobInv ==
  ASSUME TypeOK, JobInv, [Next]_vars
  PROVE  JobInv'
<1> USE ConstantsAssumption
<1> USE DEF dirVars, jobVars, userVars, watchVars
<1>1. CASE Watch \/ (\E n \in Names : EnqueueCandidate(n))
  <2>1. ASSUME NEW n \in Names, DispatchCandidate(n) PROVE JobInv'
    BY <2>1 DEF DispatchCandidate, Existing, JobInv
  <2>2. CASE ScanIncoming
    BY <2>2, JobInvUntouched DEF ScanIncoming
  <2>3. ASSUME NEW n \in Names,
               DropCandidate(n) \/ SampleCandidate(n) \/ EnqueueCandidate(n)
        PROVE  JobInv'
    BY <2>3, JobInvUntouched DEF DropCandidate, SampleCandidate, EnqueueCandidate
  <2>4. QED  BY <1>1, <2>1, <2>2, <2>3 DEF Watch
<1>2. CASE Process
  <2>1. CASE ReadMetadata
    BY <2>1 DEF ReadMetadata, JobInv
  <2>2. CASE PartitionFile
    BY <2>2 DEF PartitionFile, JobInv
  <2>3. CASE EmbedChunks
    BY <2>3 DEF EmbedChunks, JobInv
  <2>4. CASE BeginWrite
    <3> DEFINE b == [ver |-> doc, meta |-> meta, model |-> model, whole |-> FALSE]
    <3>1. lake \in Seq(Batch) /\ b \in Batch /\ b.ver = doc /\ lake' = Append(lake, b)
      BY <2>4 DEF BeginWrite, TypeOK, JobInv, Batch
    <3> HIDE DEF b
    <3>2. lake' # <<>> /\ lake'[Len(lake')] = b
      BY <3>1, AppendProperties
    <3>3. QED  BY <2>4, <3>1, <3>2 DEF BeginWrite, JobInv
  <2>5. CASE FinishWrite
    <3>1. lake # <<>> /\ lake[Len(lake)].ver = doc
      BY <2>5 DEF FinishWrite, JobInv
    <3>2. Indexed(doc)'
      BY <2>5, <3>1, FinishedLake DEF FinishWrite, Indexed
    <3>3. QED  BY <2>5, <3>2 DEF FinishWrite, JobInv
  <2>6. QED  BY <1>2, <2>1, <2>2, <2>3, <2>4, <2>5 DEF Process
<1>3. CASE Relocate
  <2>1. CASE RejectDocument
    <3>1. cur \in Names  BY <2>1 DEF RejectDocument, TypeOK
    <3>2. dest' \in Names
      BY <2>1, <3>1, UniqueDestIsFree DEF RejectDocument
    <3>3. QED  BY <2>1, <3>2 DEF RejectDocument, JobInv
  <2>2. CASE RejectSidecars
    BY <2>2 DEF RejectSidecars, JobInv
  <2>3. CASE ArchiveDocument
    BY <2>3, JobInvAtTheEnd DEF ArchiveDocument
  <2>4. CASE ArchiveSidecars \/ RejectMissing \/ WriteDeadLetter
    BY <2>4, JobInvAtTheEnd DEF ArchiveSidecars, RejectMissing, WriteDeadLetter, EndJob
  <2>5. QED  BY <1>3, <2>1, <2>2, <2>3, <2>4 DEF Relocate
<1>4. CASE Failure
  <2>1. CASE FaultWhileHandling \/ FaultWhileArchivingSidecars
    <3>1. faults' > 0
      BY <2>1 DEF FaultWhileHandling, FaultWhileArchivingSidecars, TypeOK
    <3>2. pc' = "reject"
      BY <2>1 DEF FaultWhileHandling, FaultWhileArchivingSidecars
    <3>3. QED  BY <3>1, <3>2 DEF JobInv
  <2>2. CASE FaultWhileRejecting \/ Crash
    BY <2>2, JobInvAtTheEnd DEF FaultWhileRejecting, Crash, EndJob
  <2>3. QED  BY <1>4, <2>1, <2>2 DEF Failure
<1>5. ASSUME NEW u \in Users, User(u) PROVE JobInv'
  <2>1. ASSUME NEW n \in Names, NEW v \in Versions, UploadDocument(u, n, v)
        PROVE  JobInv'
    BY <2>1, JobInvUnderPut DEF UploadDocument
  <2>2. ASSUME NEW n \in Names, RequeueDocument(u, n) PROVE JobInv'
    <3>1. failed[n] \in Versions  BY <2>2 DEF RequeueDocument, TypeOK
    <3>2. QED  BY <2>2, <3>1, JobInvUnderPut DEF RequeueDocument
  <2>3. CASE UploadSidecar(u) \/ RequeueSidecars(u) \/ UnlinkErrorLog(u)
               \/ AbandonRequest(u)
    BY <2>3, JobInvUntouched
       DEF UploadSidecar, RequeueSidecars, UnlinkErrorLog, AbandonRequest
  <2>4. QED  BY <1>5, <2>1, <2>2, <2>3 DEF User
<1>6. CASE UNCHANGED vars
  BY <1>6, JobInvUntouched DEF vars
<1>7. QED  BY <1>1, <1>2, <1>3, <1>4, <1>5, <1>6 DEF Next, Daemon

(* A document is about to be quarantined only for a reason, which stays     *)
(* one while its bytes are exchanged.                                      *)
LEMMA NextKeepsRefusalInv ==
  ASSUME TypeOK, RefusalInv, [Next]_vars
  PROVE  RefusalInv'
<1> USE DEF dirVars, jobVars, userVars, watchVars
<1>1. CASE pc' # "reject"
  BY <1>1 DEF RefusalInv
<1>2. CASE UNCHANGED <<incoming, cur, pc, swapped, faults>>
  BY <1>2 DEF RefusalInv
<1>3. CASE PartitionFile
  BY <1>3 DEF PartitionFile, RefusalInv
<1>4. CASE FaultWhileHandling \/ FaultWhileArchivingSidecars
  BY <1>4 DEF FaultWhileHandling, FaultWhileArchivingSidecars, RefusalInv, TypeOK
<1>5. ASSUME NEW n \in Names, NEW v \in Versions, PutIncoming(n, v),
             UNCHANGED <<pc, cur, faults>>
      PROVE  RefusalInv'
  <2>1. pc = "reject" => cur \in Names
    BY DEF TypeOK
  <2>2. pc = "reject" /\ cur = n => incoming'[cur] = v /\ v \in swapped'
    BY <1>5, <2>1 DEF PutIncoming, ReadNotMoved, TypeOK
  <2>3. pc = "reject" /\ cur # n => incoming'[cur] = incoming[cur]
    BY <1>5, <2>1 DEF PutIncoming, TypeOK
  <2>4. swapped \subseteq swapped'
    BY <1>5 DEF PutIncoming
  <2>5. QED  BY <1>5, <2>2, <2>3, <2>4 DEF RefusalInv
<1>6. ASSUME NEW u \in Users, User(u) PROVE RefusalInv'
  <2>1. ASSUME NEW n \in Names, NEW v \in Versions, UploadDocument(u, n, v)
        PROVE  RefusalInv'
    BY <1>5, <2>1 DEF UploadDocument
  <2>2. ASSUME NEW n \in Names, RequeueDocument(u, n) PROVE RefusalInv'
    <3>1. failed[n] \in Versions
      BY <2>2 DEF RequeueDocument, TypeOK
    <3>2. QED  BY <1>5, <2>2, <3>1 DEF RequeueDocument
  <2>3. CASE UploadSidecar(u) \/ RequeueSidecars(u) \/ UnlinkErrorLog(u)
               \/ AbandonRequest(u)
    BY <1>2, <2>3
       DEF UploadSidecar, RequeueSidecars, UnlinkErrorLog, AbandonRequest
  <2>4. QED  BY <1>6, <2>1, <2>2, <2>3 DEF User
<1>7. QED
  BY <1>1, <1>2, <1>3, <1>4, <1>6
     DEF Next, vars, Daemon, Watch, Process, Relocate, Failure, EndJob,
         ScanIncoming, DropCandidate, SampleCandidate, DispatchCandidate,
         EnqueueCandidate, ReadMetadata, EmbedChunks, BeginWrite, FinishWrite,
         ArchiveDocument, ArchiveSidecars, RejectDocument, RejectMissing,
         RejectSidecars, WriteDeadLetter, FaultWhileRejecting, Crash

-----------------------------------------------------------------------------
(* The users *)

(* A request that is on the way has a name, and a re-queue was counted.    *)
LEMMA NextKeepsUserInv ==
  ASSUME TypeOK, UserInv, [Next]_vars
  PROVE  UserInv'
<1> USE ConstantsAssumption
<1> USE DEF dirVars, jobVars, userVars, watchVars
<1>1. CASE UNCHANGED <<user, requeues>>
  BY <1>1 DEF UserInv
<1>2. ASSUME NEW u \in Users, User(u) PROVE UserInv'
  <2>1. ASSUME NEW n \in Names, NEW v \in Versions, UploadDocument(u, n, v)
        PROVE  UserInv'
    BY <2>1 DEF UploadDocument, UserInv, TypeOK
  <2>2. ASSUME NEW n \in Names, RequeueDocument(u, n) PROVE UserInv'
    <3>1. requeues' > 0  BY <2>2 DEF RequeueDocument, TypeOK
    <3>2. QED  BY <2>2, <3>1 DEF RequeueDocument, UserInv, TypeOK
  <2>3. CASE RequeueSidecars(u)
    BY <2>3 DEF RequeueSidecars, UserInv, TypeOK
  <2>4. CASE UploadSidecar(u) \/ UnlinkErrorLog(u) \/ AbandonRequest(u)
    <3>1. user' = [user EXCEPT ![u] = IdleUser] /\ requeues' = requeues
      BY <2>4 DEF UploadSidecar, UnlinkErrorLog, AbandonRequest
    <3>2. IdleUser.at = "idle"
      BY DEF IdleUser
    <3>3. QED  BY <3>1, <3>2 DEF UserInv, TypeOK
  <2>5. QED  BY <1>2, <2>1, <2>2, <2>3, <2>4 DEF User
<1>3. QED  BY <1>1, <1>2, WhoChangesWhat

-----------------------------------------------------------------------------
(* The places of the documents *)

Directory == [Names -> Versions \union {None}]

(* What a directory holds after v (a version, or None) took the place of   *)
(* what was under name n, which was under no other name.                   *)
LEMMA StoredAfterPut ==
  ASSUME NEW dir \in Directory, NEW n \in Names, NEW v \in Versions \union {None},
         NoTwins(dir) \/ dir[n] = None, NEW w \in Versions
  PROVE  Stored([dir EXCEPT ![n] = v], w) <=> (w = v \/ (Stored(dir, w) /\ w # dir[n]))
<1> DEFINE new == [dir EXCEPT ![n] = v]
<1>0. w # None
  BY ConstantsAssumption
<1>1. \A m \in Names : new[m] = IF m = n THEN v ELSE dir[m]
  BY DEF Directory
<1>2. ASSUME Stored(new, w) PROVE w = v \/ (Stored(dir, w) /\ w # dir[n])
  <2>1. PICK m \in Names : new[m] = w
    BY <1>2 DEF Stored
  <2>2. CASE m = n  BY <1>1, <2>1, <2>2
  <2>3. CASE m # n
    <3>1. dir[m] = w  BY <1>1, <2>1, <2>3
    <3>2. w # dir[n]  BY <1>0, <2>3, <3>1 DEF NoTwins
    <3>3. QED  BY <3>1, <3>2 DEF Stored
  <2>4. QED  BY <2>2, <2>3
<1>3. ASSUME w = v PROVE Stored(new, w)
  BY <1>1, <1>3 DEF Stored
<1>4. ASSUME Stored(dir, w), w # dir[n] PROVE Stored(new, w)
  BY <1>1, <1>4 DEF Stored
<1>5. QED  BY <1>2, <1>3, <1>4

(* No name is shared after a version that was not there came to stand      *)
(* under one.                                                              *)
LEMMA NoTwinsAfterPut ==
  ASSUME NEW dir \in Directory, NEW n \in Names, NEW v \in Versions \union {None},
         NoTwins(dir), v = None \/ ~Stored(dir, v)
  PROVE  NoTwins([dir EXCEPT ![n] = v])
BY DEF Directory, NoTwins, Stored

(* A step that moves no document leaves every document in its place.       *)
LEMMA PlaceInvUntouched ==
  ASSUME PlaceInv, UNCHANGED <<dirVars, used, overwritten>>
  PROVE  PlaceInv'
BY DEF PlaceInv, Conservation, NoTwins, Stored, dirVars

(* The daemon moves a file of incoming to a free name of processed.        *)
LEMMA ArchiveMoves ==
  ASSUME TypeOK, PlaceInv, ArchiveDocument
  PROVE  /\ UNCHANGED <<used, overwritten>>
         /\ \A w \in Versions :
              /\ Stored(incoming', w) <=> (Stored(incoming, w) /\ w # incoming[cur])
              /\ Stored(processed', w) <=> (w = incoming[cur] \/ Stored(processed, w))
              /\ Stored(failed', w) <=> Stored(failed, w)
              /\ w = incoming[cur] => Stored(incoming, w)
<1>1. cur \in Names /\ incoming[cur] \in Versions \union {None}
  BY DEF ArchiveDocument, TypeOK
<1>2. PICK n \in UniqueDest(processed, cur) :
        processed' = [processed EXCEPT ![n] = incoming[cur]]
  BY DEF ArchiveDocument
<1>3. n \in Names /\ processed[n] = None
  BY <1>1, UniqueDestIsFree
<1>4. /\ incoming' = [incoming EXCEPT ![cur] = None]
      /\ UNCHANGED <<failed, used, overwritten>>
  BY DEF ArchiveDocument, userVars
<1>5. incoming \in Directory /\ processed \in Directory /\ NoTwins(incoming)
  BY DEF TypeOK, Directory, PlaceInv
<1>6. ASSUME NEW w \in Versions
      PROVE  /\ Stored(incoming', w) <=> (Stored(incoming, w) /\ w # incoming[cur])
             /\ Stored(processed', w) <=> (w = incoming[cur] \/ Stored(processed, w))
             /\ Stored(failed', w) <=> Stored(failed, w)
             /\ w = incoming[cur] => Stored(incoming, w)
  <2>1. w # None  BY ConstantsAssumption
  <2>2. Stored(incoming', w) <=> (Stored(incoming, w) /\ w # incoming[cur])
    BY <1>1, <1>4, <1>5, <2>1, StoredAfterPut
  <2>3. Stored(processed', w) <=> (w = incoming[cur] \/ Stored(processed, w))
    BY <1>1, <1>2, <1>3, <1>5, <2>1, StoredAfterPut
  <2>4. w = incoming[cur] => Stored(incoming, w)
    BY <1>1 DEF Stored
  <2>5. Stored(failed', w) <=> Stored(failed, w)
    BY <1>4
  <2>6. QED  BY <2>2, <2>3, <2>4, <2>5
<1>7. QED  BY <1>4, <1>6

(* So it is in one place afterwards, as it was before.                     *)
LEMMA ArchiveKeepsPlaceInv ==
  ASSUME TypeOK, PlaceInv, ArchiveDocument
  PROVE  PlaceInv'
<1>1. cur \in Names /\ incoming[cur] \in Versions \union {None}
  BY DEF ArchiveDocument, TypeOK
<1>2. PICK n \in UniqueDest(processed, cur) :
        processed' = [processed EXCEPT ![n] = incoming[cur]]
  BY DEF ArchiveDocument
<1>3. n \in Names
  BY <1>1, UniqueDestIsFree
<1>4. /\ incoming' = [incoming EXCEPT ![cur] = None]
      /\ UNCHANGED <<failed, used, overwritten>>
  BY DEF ArchiveDocument, userVars
<1>5. incoming \in Directory /\ processed \in Directory /\ NoTwins(incoming)
  BY DEF TypeOK, Directory, PlaceInv
<1>7. Conservation'
  <2>1. used \subseteq Versions /\ overwritten \subseteq Versions
    BY DEF TypeOK
  <2>2. Conservation
    BY DEF PlaceInv
  <2>3. QED  BY <2>1, <2>2, ArchiveMoves DEF Conservation
<1>8. NoTwins(incoming') /\ NoTwins(failed')
  BY <1>1, <1>4, <1>5, NoTwinsAfterPut DEF PlaceInv
<1>9. \A m \in Names : {incoming'[m], processed'[m], failed'[m]} \subseteq used' \union {None}
  BY <1>1, <1>2, <1>3, <1>4, <1>5 DEF PlaceInv, Directory
<1>10. QED  BY <1>7, <1>8, <1>9 DEF PlaceInv, NoTwins

(* The daemon moves a file of incoming to a free name of failed.           *)
LEMMA RejectMoves ==
  ASSUME TypeOK, PlaceInv, RejectDocument
  PROVE  /\ UNCHANGED <<used, overwritten>>
         /\ \A w \in Versions :
              /\ Stored(incoming', w) <=> (Stored(incoming, w) /\ w # incoming[cur])
              /\ Stored(failed', w) <=> (w = incoming[cur] \/ Stored(failed, w))
              /\ Stored(processed', w) <=> Stored(processed, w)
              /\ w = incoming[cur] => Stored(incoming, w)
<1>1. cur \in Names /\ incoming[cur] \in Versions
  BY DEF RejectDocument, TypeOK, Existing
<1>2. PICK n \in UniqueDest(failed, cur) :
        failed' = [failed EXCEPT ![n] = incoming[cur]]
  BY DEF RejectDocument
<1>3. n \in Names /\ failed[n] = None
  BY <1>1, UniqueDestIsFree
<1>4. /\ incoming' = [incoming EXCEPT ![cur] = None]
      /\ UNCHANGED <<processed, used, overwritten>>
  BY DEF RejectDocument, userVars
<1>5. /\ incoming \in Directory /\ failed \in Directory
      /\ NoTwins(incoming) /\ NoTwins(failed)
  BY DEF TypeOK, Directory, PlaceInv
<1>6. ASSUME NEW w \in Versions
      PROVE  /\ Stored(incoming', w) <=> (Stored(incoming, w) /\ w # incoming[cur])
             /\ Stored(failed', w) <=> (w = incoming[cur] \/ Stored(failed, w))
             /\ Stored(processed', w) <=> Stored(processed, w)
             /\ w = incoming[cur] => Stored(incoming, w)
  <2>1. w # None  BY ConstantsAssumption
  <2>2. Stored(incoming', w) <=> (Stored(incoming, w) /\ w # incoming[cur])
    BY <1>1, <1>4, <1>5, <2>1, StoredAfterPut
  <2>3. Stored(failed', w) <=> (w = incoming[cur] \/ Stored(failed, w))
    BY <1>1, <1>2, <1>3, <1>5, <2>1, StoredAfterPut
  <2>4. w = incoming[cur] => Stored(incoming, w)
    BY <1>1 DEF Stored
  <2>5. Stored(processed', w) <=> Stored(processed, w)
    BY <1>4
  <2>6. QED  BY <2>2, <2>3, <2>4, <2>5
<1>7. QED  BY <1>4, <1>6

(* So a refused document is in one place afterwards, as it was before.     *)
LEMMA RejectKeepsPlaceInv ==
  ASSUME TypeOK, PlaceInv, RejectDocument
  PROVE  PlaceInv'
<1>1. cur \in Names /\ incoming[cur] \in Versions
  BY DEF RejectDocument, TypeOK, Existing
<1>2. PICK n \in UniqueDest(failed, cur) :
        failed' = [failed EXCEPT ![n] = incoming[cur]]
  BY DEF RejectDocument
<1>3. n \in Names
  BY <1>1, UniqueDestIsFree
<1>4. /\ incoming' = [incoming EXCEPT ![cur] = None]
      /\ UNCHANGED <<processed, used, overwritten>>
  BY DEF RejectDocument, userVars
<1>5. /\ incoming \in Directory /\ failed \in Directory
      /\ NoTwins(incoming) /\ NoTwins(failed)
  BY DEF TypeOK, Directory, PlaceInv
<1>7. Conservation'
  <2>1. used \subseteq Versions /\ overwritten \subseteq Versions
    BY DEF TypeOK
  <2>2. Conservation
    BY DEF PlaceInv
  <2>3. QED  BY <2>1, <2>2, RejectMoves DEF Conservation
<1>8. ~Stored(failed, incoming[cur])
  BY <1>1, RejectMoves DEF PlaceInv, Conservation
<1>9. NoTwins(incoming') /\ NoTwins(failed')
  BY <1>1, <1>2, <1>3, <1>4, <1>5, <1>8, NoTwinsAfterPut
<1>10. \A m \in Names : {incoming'[m], processed'[m], failed'[m]} \subseteq used' \union {None}
  BY <1>1, <1>2, <1>3, <1>4, <1>5 DEF PlaceInv, Directory
<1>11. QED  BY <1>7, <1>9, <1>10 DEF PlaceInv, NoTwins

(* A user puts v, which is nowhere once failed' is what is left of failed, *)
(* in the place of what was under name n.                                  *)
Arrives(n, v) ==
  /\ PutIncoming(n, v)
  /\ ~Stored(incoming, v) /\ ~Stored(processed, v) /\ v \notin overwritten
  /\ used' = used \union {v} /\ processed' = processed /\ failed' \in Directory
  /\ \A w \in Versions : Stored(failed', w) <=> (Stored(failed, w) /\ w # v)
  /\ NoTwins(failed')
  /\ \A m \in Names : failed'[m] \in used \union {None}

(* A document that arrives in incoming, uploaded or re-queued, displaces   *)
(* the one that stood under its name and no other.                         *)
LEMMA ArrivalMoves ==
  ASSUME TypeOK, PlaceInv, NEW n \in Names, NEW v \in Versions, Arrives(n, v),
         NEW w \in Versions
  PROVE  /\ Stored(incoming', w) <=> (w = v \/ (Stored(incoming, w) /\ w # incoming[n]))
         /\ w = incoming[n] => Stored(incoming, w)
         /\ w \in overwritten' <=> (w \in overwritten \/ w = incoming[n])
         /\ Stored(processed', w) <=> Stored(processed, w)
         /\ Stored(failed', w) <=> (Stored(failed, w) /\ w # v)
<1>1. /\ incoming' = [incoming EXCEPT ![n] = v] /\ processed' = processed
      /\ overwritten' = overwritten \union ({incoming[n]} \ {None})
  BY DEF PutIncoming, Arrives
<1>2. incoming \in Directory /\ NoTwins(incoming)
  BY DEF TypeOK, Directory, PlaceInv
<1>3. w # None  BY ConstantsAssumption
<1>4. Stored(incoming', w) <=> (w = v \/ (Stored(incoming, w) /\ w # incoming[n]))
  BY <1>1, <1>2, StoredAfterPut
<1>5. w = incoming[n] => Stored(incoming, w)
  BY DEF Stored
<1>6. w \in overwritten' <=> (w \in overwritten \/ w = incoming[n])
  BY <1>1, <1>3
<1>7. QED  BY <1>1, <1>4, <1>5, <1>6 DEF Arrives

(* So every document is in one place after an arrival.                     *)
LEMMA ArrivalKeepsPlaceInv ==
  ASSUME TypeOK, PlaceInv, NEW n \in Names, NEW v \in Versions, Arrives(n, v)
  PROVE  PlaceInv'
<1>1. /\ incoming' = [incoming EXCEPT ![n] = v]
      /\ overwritten' = overwritten \union ({incoming[n]} \ {None})
  BY DEF PutIncoming, Arrives
<1>2. /\ incoming \in Directory /\ NoTwins(incoming)
      /\ used \subseteq Versions /\ overwritten \subseteq used
      /\ incoming[n] \in used \union {None}
  BY DEF TypeOK, Directory, PlaceInv
<1>4. Conservation
  BY DEF PlaceInv
<1>5. v # incoming[n]
  BY ArrivalMoves DEF Arrives
<1>6. overwritten' \subseteq Versions /\ used' \subseteq Versions
  BY <1>1, <1>2 DEF Arrives
<1>7. Conservation'
  BY <1>2, <1>4, <1>5, <1>6, ArrivalMoves DEF Conservation, Arrives
<1>8. NoTwins(incoming')
  BY <1>1, <1>2, NoTwinsAfterPut DEF Arrives
<1>9. \A m \in Names : {incoming'[m], processed'[m], failed'[m]} \subseteq used' \union {None}
  BY <1>1, <1>2 DEF PlaceInv, Directory, Arrives
<1>10. QED  BY <1>7, <1>8, <1>9 DEF PlaceInv, NoTwins, Arrives

(* os.replace of an upload is an arrival ...                               *)
LEMMA UploadArrives ==
  ASSUME TypeOK, PlaceInv, NEW u \in Users, NEW n \in Names, NEW v \in Versions,
         UploadDocument(u, n, v)
  PROVE  Arrives(n, v)
<1>1. /\ PutIncoming(n, v) /\ v \notin used /\ used' = used \union {v}
      /\ processed' = processed /\ failed' = failed
  BY DEF UploadDocument
<1>2. ~Stored(incoming, v) /\ ~Stored(processed, v) /\ ~Stored(failed, v)
  BY <1>1, ConstantsAssumption DEF Stored, PlaceInv
<1>3. v \notin overwritten /\ failed \in Directory
  BY <1>1 DEF TypeOK, Directory
<1>4. NoTwins(failed) /\ \A m \in Names : failed[m] \in used \union {None}
  BY DEF PlaceInv
<1>5. QED  BY <1>1, <1>2, <1>3, <1>4 DEF Arrives

(* ... and so is the re-queue of a document of failed.                     *)
LEMMA RequeueArrives ==
  ASSUME TypeOK, PlaceInv, NEW u \in Users, NEW n \in Names, RequeueDocument(u, n)
  PROVE  Arrives(n, failed[n])
<1> DEFINE v == failed[n]
<1>1. /\ PutIncoming(n, v) /\ processed' = processed /\ used' = used
      /\ failed' = [failed EXCEPT ![n] = None] /\ v # None
  BY DEF RequeueDocument
<1>2. v \in Versions /\ Stored(failed, v) /\ failed \in Directory /\ NoTwins(failed)
  BY <1>1 DEF TypeOK, Stored, Directory, PlaceInv
<1>3. ~Stored(incoming, v) /\ ~Stored(processed, v) /\ v \notin overwritten
  BY <1>2 DEF PlaceInv, Conservation
<1>4. used' = used \union {v}
  BY <1>1, <1>2 DEF PlaceInv
<1>5. ASSUME NEW w \in Versions
      PROVE  Stored(failed', w) <=> (Stored(failed, w) /\ w # v)
  <2>1. w # None  BY ConstantsAssumption
  <2>2. Stored([failed EXCEPT ![n] = None], w)
          <=> (w = None \/ (Stored(failed, w) /\ w # failed[n]))
    BY <1>2, StoredAfterPut
  <2>3. QED  BY <1>1, <2>1, <2>2
<1>6. NoTwins(failed') /\ failed' \in Directory
  <2>1. NoTwins([failed EXCEPT ![n] = None])
    BY <1>2, NoTwinsAfterPut
  <2>2. [failed EXCEPT ![n] = None] \in Directory
    BY <1>2 DEF Directory
  <2>3. QED  BY <1>1, <2>1, <2>2
<1>7. \A m \in Names : failed'[m] \in used \union {None}
  BY <1>1, <1>2 DEF Directory, PlaceInv
<1>8. QED
  BY <1>1, <1>2, <1>3, <1>4, <1>5, <1>6, <1>7 DEF Arrives

(* Every step keeps every document in one place.                           *)
LEMMA NextKeepsPlaceInv ==
  ASSUME TypeOK, PlaceInv, [Next]_vars
  PROVE  PlaceInv'
<1>1. CASE UNCHANGED <<dirVars, used, overwritten>>
  BY <1>1, PlaceInvUntouched
<1>2. CASE ArchiveDocument  BY <1>2, ArchiveKeepsPlaceInv
<1>3. CASE RejectDocument  BY <1>3, RejectKeepsPlaceInv
<1>4. ASSUME NEW u \in Users, NEW n \in Names, NEW v \in Versions,
             UploadDocument(u, n, v)
      PROVE  PlaceInv'
  BY <1>4, UploadArrives, ArrivalKeepsPlaceInv
<1>5. ASSUME NEW u \in Users, NEW n \in Names, RequeueDocument(u, n) PROVE PlaceInv'
  <2>1. failed[n] \in Versions
    BY <1>5 DEF RequeueDocument, TypeOK
  <2>2. QED  BY <1>5, <2>1, RequeueArrives, ArrivalKeepsPlaceInv
<1>6. QED
  BY <1>1, <1>2, <1>3, <1>4, <1>5, WhoChangesWhat DEF dirVars

-----------------------------------------------------------------------------
(* The theorems *)

(* The daemon starts in the invariant.                                     *)
LEMMA InitIsInv == Init => PipelineInv
<1> SUFFICES ASSUME Init PROVE PipelineInv
  OBVIOUS
<1>1. JobInv /\ RefusalInv
  BY DEF Init, JobInv, RefusalInv
<1>2. UserInv
  BY DEF Init, UserInv, IdleUser
<1>3. \A v \in Versions : ~Stored(incoming, v) /\ ~Stored(processed, v) /\ ~Stored(failed, v)
  BY ConstantsAssumption DEF Init, Stored
<1>4. PlaceInv
  BY <1>3 DEF Init, PlaceInv, Conservation, NoTwins
<1>5. QED  BY <1>1, <1>2, <1>4 DEF PipelineInv

(* The inductive invariant: types, the daemon's progress, the places of    *)
(* the documents, the requests of the users.                               *)
THEOREM InvariantHolds == Spec => [](TypeOK /\ PipelineInv)
<1>1. Init => TypeOK /\ PipelineInv
  BY InitIsTyped, InitIsInv
<1>2. TypeOK /\ PipelineInv /\ [Next]_vars => TypeOK' /\ PipelineInv'
  BY NextKeepsTypes, NextKeepsJobInv, NextKeepsRefusalInv, NextKeepsUserInv,
     NextKeepsPlaceInv DEF PipelineInv
<1>3. QED  BY <1>1, <1>2, PTL DEF Spec

(* The state is always well-typed.                                         *)
THEOREM TypeCorrect == Spec => []TypeOK
BY InvariantHolds, PTL

(* No document is lost or doubled, however uploads, re-queues, moves,      *)
(* errors and crashes interleave; only the upload or re-queue of another   *)
(* one under its name in incoming makes one disappear.                     *)
THEOREM ConservationHolds == Spec => []Conservation
<1>1. PipelineInv => Conservation
  BY DEF PipelineInv, PlaceInv
<1>2. QED  BY <1>1, InvariantHolds, PTL

(* The lake, the list of swapped documents and the counters only grow.     *)
LEMMA HistoryGrows ==
  ASSUME TypeOK, JobInv, [Next]_vars
  PROVE  /\ \A v \in Versions : Indexed(v) => Indexed(v)'
         /\ swapped \subseteq swapped'
         /\ faults' >= faults /\ crashes' >= crashes /\ requeues' >= requeues
<1> USE DEF userVars
<1>1. \A v \in Versions : Indexed(v) => Indexed(v)'
  <2>1. CASE lake' = lake
    BY <2>1 DEF Indexed
  <2>2. CASE BeginWrite
    <3> DEFINE b == [ver |-> doc, meta |-> meta, model |-> model, whole |-> FALSE]
    <3>1. lake \in Seq(Batch) /\ b \in Batch /\ lake' = Append(lake, b)
      BY <2>2 DEF BeginWrite, TypeOK, JobInv, Batch
    <3> HIDE DEF b
    <3>2. \A i \in DOMAIN lake : i \in DOMAIN lake' /\ lake'[i] = lake[i]
      BY <3>1, AppendProperties
    <3>3. QED  BY <3>2 DEF Indexed
  <2>3. CASE FinishWrite
    <3>1. lake # <<>>
      BY <2>3 DEF FinishWrite, JobInv
    <3>2. \A i \in DOMAIN lake : /\ i \in DOMAIN lake' /\ lake'[i].ver = lake[i].ver
                                 /\ lake[i].whole => lake'[i].whole
      BY <2>3, <3>1, FinishedLake DEF FinishWrite
    <3>3. QED  BY <3>2 DEF Indexed
  <2>4. QED  BY <2>1, <2>2, <2>3, WhoChangesWhat
<1>2. swapped \subseteq swapped'
  BY WhoChangesWhat
     DEF ArchiveDocument, RejectDocument, UploadDocument, RequeueDocument, PutIncoming
<1>3. faults' >= faults /\ crashes' >= crashes /\ requeues' >= requeues
  BY WhoChangesWhat DEF TypeOK
<1>4. QED  BY <1>1, <1>2, <1>3

(* A step archives what is indexed by then, or was swapped in.             *)
LEMMA NextKeepsProcessedWasIndexed ==
  ASSUME TypeOK, TypeOK', JobInv, ProcessedWasIndexed, [Next]_vars
  PROVE  ProcessedWasIndexed'
<1> SUFFICES ASSUME NEW m \in Names, NEW v \in Versions, v = processed'[m]
             PROVE  Indexed(v)' \/ v \in swapped'
  BY DEF ProcessedWasIndexed, Indexed, TypeOK
<1>1. CASE processed'[m] = processed[m]
  <2>1. processed[m] # None
    BY <1>1, ConstantsAssumption
  <2>2. Indexed(v) \/ v \in swapped
    BY <1>1, <2>1 DEF ProcessedWasIndexed
  <2>3. QED  BY <2>2, HistoryGrows
<1>2. CASE processed'[m] # processed[m]
  <2>1. ArchiveDocument
    BY <1>2, WhoChangesWhat DEF RejectDocument, UploadDocument, RequeueDocument
  <2>2. v = incoming[cur] /\ lake' = lake /\ swapped' = swapped
    BY <1>2, <2>1 DEF ArchiveDocument, TypeOK, userVars
  <2>3. Indexed(doc) /\ incoming[cur] \in {doc} \union swapped
    BY <2>1 DEF JobInv, ArchiveDocument
  <2>4. QED  BY <2>2, <2>3 DEF Indexed
<1>3. QED  BY <1>1, <1>2

(* What is in processed has all its chunks in a complete parquet file,     *)
(* unless its bytes came under that name after the daemon had read it.     *)
THEOREM ProcessedWasIndexedHolds == Spec => []ProcessedWasIndexed
<1>1. Init => ProcessedWasIndexed
  BY DEF Init, ProcessedWasIndexed
<1>2. TypeOK /\ TypeOK' /\ PipelineInv /\ ProcessedWasIndexed /\ [Next]_vars
        => ProcessedWasIndexed'
  BY NextKeepsProcessedWasIndexed DEF PipelineInv
<1>3. QED  BY <1>1, <1>2, InvariantHolds, PTL DEF Spec

(* What is in failed is not a document the parser accepted: it cannot be   *)
(* parsed, an error was met, or it took another's place in mid-processing. *)
THEOREM FailedWasRefusedHolds == Spec => []FailedWasRefused
<1>1. Init => FailedWasRefused
  BY DEF Init, FailedWasRefused
<1>2. TypeOK /\ PipelineInv /\ FailedWasRefused /\ [Next]_vars => FailedWasRefused'
  <2> SUFFICES ASSUME TypeOK, TypeOK', JobInv, RefusalInv, FailedWasRefused,
                      [Next]_vars,
                      NEW m \in Names, failed'[m] # None
               PROVE  failed'[m] \in Unparseable \union swapped' \/ faults' > 0
    BY NextKeepsTypes DEF FailedWasRefused, PipelineInv
  <2>1. faults > 0 => faults' > 0
    BY HistoryGrows DEF TypeOK
  <2>2. CASE failed'[m] = failed[m]
    BY <2>1, <2>2, HistoryGrows DEF FailedWasRefused
  <2>3. CASE failed'[m] # failed[m] /\ RejectDocument
    <3>1. failed'[m] = incoming[cur] /\ swapped' = swapped
      BY <2>3 DEF RejectDocument, TypeOK, userVars
    <3>2. incoming[cur] \in Unparseable \union swapped \union {None} \/ faults > 0
      BY <2>3 DEF RejectDocument, RefusalInv
    <3>3. QED  BY <2>1, <3>1, <3>2
  <2>4. CASE failed'[m] # failed[m] /\ \E u \in Users, n \in Names : RequeueDocument(u, n)
    BY <2>4 DEF RequeueDocument, TypeOK
  <2>5. QED
    BY <2>2, <2>3, <2>4, WhoChangesWhat DEF ArchiveDocument, UploadDocument
<1>3. QED  BY <1>1, <1>2, InvariantHolds, PTL DEF Spec

(* A document that was refused has its dead-letter record as soon as the   *)
(* daemon is done with it, as long as nothing fails and no user re-queues. *)
THEOREM FailedHasDeadLetterHolds == Spec => []FailedHasDeadLetter
<1>1. Init => FailedHasDeadLetter
  BY DEF Init, FailedHasDeadLetter
<1>2. TypeOK /\ PipelineInv /\ FailedHasDeadLetter /\ [Next]_vars => FailedHasDeadLetter'
  <2> SUFFICES ASSUME TypeOK, TypeOK', UserInv, FailedHasDeadLetter, [Next]_vars,
                      NEW m \in Names, failed'[m] # None,
                      crashes' = 0, faults' = 0, requeues' = 0
               PROVE  m \in errlog' \/ (pc' \in {"rejectSide", "rejectLog"} /\ dest' = m)
    BY NextKeepsTypes DEF FailedHasDeadLetter, PipelineInv
  <2>1. MaxCrashes \in Nat /\ MaxFaults \in Nat /\ MaxRequeues \in Nat
    BY ConstantsAssumption
  <2>2. crashes = 0 /\ faults = 0 /\ requeues = 0
    BY <2>1, WhoChangesWhat DEF TypeOK
  <2>3. errlog \subseteq errlog'
    BY <2>2, WhoChangesWhat DEF UnlinkErrorLog, UserInv
  <2>4. CASE failed[m] = None
    <3>1. RejectDocument
      BY <2>4, WhoChangesWhat
         DEF ArchiveDocument, UploadDocument, RequeueDocument, TypeOK
    <3>2. pc' = "rejectSide" /\ dest' = m
      BY <2>4, <3>1 DEF RejectDocument, TypeOK
    <3>3. QED  BY <3>2
  <2>5. CASE m \in errlog
    BY <2>3, <2>5
  <2>6. CASE pc \in {"rejectSide", "rejectLog"} /\ dest = m
    <3>1. CASE RejectSidecars
      BY <2>6, <3>1 DEF RejectSidecars, jobVars
    <3>2. CASE WriteDeadLetter
      BY <2>6, <3>2 DEF WriteDeadLetter
    <3>3. CASE UNCHANGED <<pc, dest>>
      BY <2>6, <3>3
    <3>4. faults' # faults + 1 /\ crashes' # crashes + 1
      BY <2>2
    <3>5. QED  BY <2>6, <3>1, <3>2, <3>3, <3>4, WhoChangesWhat
  <2>7. QED  BY <2>2, <2>4, <2>5, <2>6 DEF FailedHasDeadLetter
<1>3. QED  BY <1>1, <1>2, InvariantHolds, PTL DEF Spec

-----------------------------------------------------------------------------
(* The ledger *)

AllPlaces == {"absent", "incoming", "processed", "failed", "overwritten"}

(* The place of a version, read off the directories.                       *)
PlaceIsRead ==
  \A w \in Versions :
    /\ Stored(incoming, w) <=> Place(w) = "incoming"
    /\ Stored(processed, w) <=> Place(w) = "processed"
    /\ Stored(failed, w) <=> Place(w) = "failed"
    /\ w \notin used <=> Place(w) = "absent"
    /\ w \in overwritten <=> Place(w) = "overwritten"
    /\ Place(w) \in AllPlaces

(* With every document in one place, the ledger reads its place off.       *)
LEMMA PlaceIs == TypeOK /\ PlaceInv => PlaceIsRead
<1> SUFFICES ASSUME TypeOK, PlaceInv PROVE PlaceIsRead
  OBVIOUS
<1>1. ASSUME NEW w \in Versions
      PROVE  /\ Stored(incoming, w) <=> Place(w) = "incoming"
             /\ Stored(processed, w) <=> Place(w) = "processed"
             /\ Stored(failed, w) <=> Place(w) = "failed"
             /\ w \notin used <=> Place(w) = "absent"
             /\ w \in overwritten <=> Place(w) = "overwritten"
             /\ Place(w) \in AllPlaces
  <2>1. Stored(incoming, w) \/ Stored(processed, w) \/ Stored(failed, w) => w \in used
    BY ConstantsAssumption DEF Stored, PlaceInv
  <2>2. w \in overwritten => w \in used
    BY DEF TypeOK
  <2>3. /\ ~(Stored(incoming, w) /\ Stored(processed, w))
        /\ ~(Stored(incoming, w) /\ Stored(failed, w))
        /\ ~(Stored(processed, w) /\ Stored(failed, w))
        /\ w \in overwritten =>
             ~Stored(incoming, w) /\ ~Stored(processed, w) /\ ~Stored(failed, w)
        /\ w \in used => \/ Stored(incoming, w) \/ Stored(processed, w)
                         \/ Stored(failed, w) \/ w \in overwritten
    BY DEF PlaceInv, Conservation
  <2>4. QED  BY <2>1, <2>2, <2>3 DEF Place, AllPlaces
<1>2. QED  BY <1>1 DEF PlaceIsRead

(* The same of the state after a step.                                     *)
LEMMA PlaceIsNext == TypeOK' /\ PlaceInv' => PlaceIsRead'
BY PlaceIs, PTL

(* The archive is an archive of the ledger's.                              *)
LEMMA ArchiveIsLedgerStep ==
  ASSUME TypeOK, PlaceIsRead, PlaceIsRead', PlaceInv, JobInv, ArchiveDocument
  PROVE  Ledger!Archive(incoming[cur]) /\ incoming[cur] \in Versions
<1> DEFINE v == incoming[cur]
<1>1. v \in Versions
  BY DEF ArchiveDocument, JobInv, TypeOK
<1>2. Place(v) = "incoming"
  BY <1>1, ArchiveMoves DEF PlaceIsRead
<1>3. ASSUME NEW w \in Versions
      PROVE  Place(w)' = IF w = v THEN "processed" ELSE Place(w)
  BY ArchiveMoves DEF PlaceIsRead, AllPlaces
<1>4. Places' = [Places EXCEPT ![v] = "processed"]
  BY <1>1, <1>3 DEF Places
<1>5. QED  BY <1>1, <1>2, <1>4 DEF Ledger!Archive, Places

(* The rejection is a quarantine of the ledger's.                          *)
LEMMA RejectIsLedgerStep ==
  ASSUME TypeOK, PlaceIsRead, PlaceIsRead', PlaceInv, RejectDocument
  PROVE  Ledger!Quarantine(incoming[cur]) /\ incoming[cur] \in Versions
<1> DEFINE v == incoming[cur]
<1>1. v \in Versions
  BY DEF RejectDocument, Existing, TypeOK
<1>2. Place(v) = "incoming"
  BY <1>1, RejectMoves DEF PlaceIsRead
<1>3. ASSUME NEW w \in Versions
      PROVE  Place(w)' = IF w = v THEN "failed" ELSE Place(w)
  BY RejectMoves DEF PlaceIsRead, AllPlaces
<1>4. Places' = [Places EXCEPT ![v] = "failed"]
  BY <1>1, <1>3 DEF Places
<1>5. QED  BY <1>1, <1>2, <1>4 DEF Ledger!Quarantine, Places

(* An upload or a re-queue is an arrival, in the place of at most one      *)
(* other document.                                                         *)
LEMMA ArrivalIsLedgerStep ==
  ASSUME TypeOK, PlaceIsRead, PlaceIsRead', PlaceInv,
         NEW n \in Names, NEW v \in Versions, Arrives(n, v)
  PROVE  Ledger!Arrive(v)
<1> DEFINE displaced == {incoming[n]} \ {None}
<1>1. Place(v) \in {"absent", "failed"}
  BY DEF PlaceIsRead, AllPlaces, Arrives
<1>2. displaced \in SUBSET {w \in Versions : Places[w] = "incoming"}
  <2>1. displaced \subseteq Versions
    BY DEF TypeOK
  <2>2. \A w \in displaced : Place(w) = "incoming"
    BY <2>1, ArrivalMoves DEF PlaceIsRead
  <2>3. QED  BY <2>1, <2>2 DEF Places
<1>3. \A w1, w2 \in displaced : w1 = w2
  OBVIOUS
<1>4. ASSUME NEW w \in Versions
      PROVE  Place(w)' = IF w = v THEN "incoming"
                         ELSE IF w \in displaced THEN "overwritten" ELSE Place(w)
  <2>1. w \in displaced <=> w = incoming[n]
    BY ConstantsAssumption
  <2>2. v # incoming[n]
    BY ArrivalMoves DEF Arrives
  <2>3. used' = used \union {v}
    BY DEF Arrives
  <2>4. QED  BY <2>1, <2>2, <2>3, ArrivalMoves DEF PlaceIsRead, AllPlaces
<1>5. Places' = [w \in Versions |-> IF w = v THEN "incoming"
                                    ELSE IF w \in displaced THEN "overwritten"
                                    ELSE Places[w]]
  BY <1>4 DEF Places
<1> HIDE DEF displaced
<1>6. Places[v] \in {"absent", "failed"}
  BY <1>1 DEF Places
<1>7. QED  BY <1>2, <1>3, <1>5, <1>6 DEF Ledger!Arrive

(* A step of the pipeline moves a document as the ledger says, or none.    *)
LEMMA NextIsLedgerStep ==
  ASSUME TypeOK, PlaceInv, JobInv, TypeOK', PlaceInv', [Next]_vars
  PROVE  [Ledger!Next]_Places
<1>1. PlaceIsRead /\ PlaceIsRead'
  BY PlaceIs, PlaceIsNext
<1>2. CASE ArchiveDocument
  BY <1>1, <1>2, ArchiveIsLedgerStep DEF Ledger!Next
<1>3. CASE RejectDocument
  BY <1>1, <1>3, RejectIsLedgerStep DEF Ledger!Next
<1>4. ASSUME NEW u \in Users, NEW n \in Names, NEW v \in Versions,
             UploadDocument(u, n, v)
      PROVE  Ledger!Next
  BY <1>1, <1>4, UploadArrives, ArrivalIsLedgerStep DEF Ledger!Next
<1>5. ASSUME NEW u \in Users, NEW n \in Names, RequeueDocument(u, n)
      PROVE  Ledger!Next
  <2>1. failed[n] \in Versions
    BY <1>5 DEF RequeueDocument, TypeOK
  <2>2. QED  BY <1>1, <1>5, <2>1, RequeueArrives, ArrivalIsLedgerStep DEF Ledger!Next
<1>6. CASE UNCHANGED <<incoming, processed, failed, used, overwritten, swapped>>
  BY <1>6 DEF Places, Place, Stored
<1>7. QED  BY <1>2, <1>3, <1>4, <1>5, <1>6, WhoChangesWhat

(* In the beginning no document is anywhere.                               *)
LEMMA InitIsLedgerInit == Init => Ledger!Init
<1>1. Init => PlaceIsRead
  BY InitIsTyped, InitIsInv, PlaceIs DEF PipelineInv
<1>2. Init => \A v \in Versions : Place(v) = "absent"
  BY <1>1 DEF Init, PlaceIsRead
<1>3. QED  BY <1>2 DEF Ledger!Init, Places

(* Every step of the pipeline is a step of the ledger, or none: documents  *)
(* move from incoming to processed or failed, from failed back to incoming *)
(* when re-queued, and one at a time.                                      *)
THEOREM MovesFollowLedgerHolds == Spec => MovesFollowLedger
<1>1. TypeOK /\ PipelineInv /\ TypeOK' /\ PipelineInv' /\ [Next]_vars
        => [Ledger!Next]_Places
  BY NextIsLedgerStep DEF PipelineInv
<1>2. QED
  BY <1>1, InitIsLedgerInit, InvariantHolds, PTL
     DEF Spec, MovesFollowLedger, Ledger!SafeSpec
=============================================================================
