----------------------------- MODULE LakeProofs -----------------------------
(***************************************************************************)
(* The parquet files and the searches that read them, for any documents,   *)
(* users, domains and number of failures.  First what the pipeline's files *)
(* are owed to: no document has a second one, and none is torn, but for a  *)
(* crash or an error each.  Then what a search may miss, and why it may    *)
(* fail: a search leaves the pipeline alone, so that what is proved of the *)
(* pipeline holds under it.                                                *)
(***************************************************************************)
EXTENDS Search, IngestionProofs, FiniteSetTheorems, FunctionTheorems

-----------------------------------------------------------------------------
(* The lake, the failures and the archive from step to step *)

(* A parquet file is added by BeginWrite, for the document that was read;  *)
(* the files before it keep what they are, and stay whole once they are.   *)
LEMMA LakeGrows ==
  ASSUME TypeOK, JobInv, [Next]_vars
  PROVE  /\ DOMAIN lake \subseteq DOMAIN lake'
         /\ \A i \in DOMAIN lake :
              /\ lake'[i].ver = lake[i].ver /\ lake'[i].meta = lake[i].meta
              /\ lake'[i].model = lake[i].model
              /\ lake[i].whole => lake'[i].whole
         /\ \A i \in DOMAIN lake' \ DOMAIN lake :
              /\ pc = "write" /\ pc' = "writing"
              /\ lake'[i].ver = doc /\ i = Len(lake')
         /\ Len(lake') = Len(lake) \/ pc = "write"
         /\ FinishWrite => lake'[Len(lake)].whole
<1>1. lake \in Seq(Batch) /\ Len(lake) \in Nat /\ DOMAIN lake = 1..Len(lake)
  BY LenProperties DEF TypeOK
<1>2. CASE lake' = lake
  <2>1. FinishWrite => lake'[Len(lake)].whole
    BY FinishedLake DEF FinishWrite, JobInv
  <2>2. QED  BY <1>2, <2>1
<1>3. CASE BeginWrite
  <2> DEFINE b == [ver |-> doc, meta |-> meta, model |-> model, whole |-> FALSE]
  <2>1. b \in Batch /\ b.ver = doc /\ lake' = Append(lake, b)
        /\ pc = "write" /\ pc' = "writing"
    BY <1>3 DEF BeginWrite, TypeOK, JobInv, Batch
  <2> HIDE DEF b
  <2>2. /\ lake' \in Seq(Batch) /\ Len(lake') = Len(lake) + 1
        /\ \A i \in 1..Len(lake) : lake'[i] = lake[i]
        /\ lake'[Len(lake) + 1] = b
    BY <1>1, <2>1, AppendProperties
  <2>3. DOMAIN lake' = 1..(Len(lake) + 1)
    BY <2>2, LenProperties
  <2>4. \A i \in DOMAIN lake' \ DOMAIN lake : i = Len(lake')
    BY <1>1, <2>2, <2>3
  <2>5. ~FinishWrite
    BY <2>1 DEF FinishWrite
  <2>6. DOMAIN lake \subseteq DOMAIN lake'
    BY <1>1, <2>3
  <2>7. QED  BY <1>1, <2>1, <2>2, <2>4, <2>5, <2>6
<1>4. CASE FinishWrite
  <2>1. lake # <<>> /\ lake' = [lake EXCEPT ![Len(lake)].whole = TRUE]
    BY <1>4 DEF FinishWrite, JobInv
  <2>2. /\ Len(lake') = Len(lake) /\ DOMAIN lake' = DOMAIN lake
        /\ lake'[Len(lake)].whole
        /\ \A i \in DOMAIN lake : /\ lake'[i].ver = lake[i].ver
                                  /\ lake[i].whole => lake'[i].whole
    BY <2>1, FinishedLake
  <2>3. ASSUME NEW i \in DOMAIN lake
        PROVE  lake'[i].meta = lake[i].meta /\ lake'[i].model = lake[i].model
    <3>1. lake[i] \in Batch
      BY <1>1, ElementOfSeq
    <3> DEFINE e == [lake[i] EXCEPT !.whole = TRUE]
    <3>2. e.meta = lake[i].meta /\ e.model = lake[i].model
      BY <3>1 DEF Batch
    <3>3. lake'[i] = IF i = Len(lake) THEN e ELSE lake[i]
      BY <2>1
    <3> HIDE DEF e
    <3>4. QED  BY <3>2, <3>3
  <2>4. QED  BY <2>2, <2>3
<1>5. QED  BY <1>2, <1>3, <1>4, WhoChangesWhat

LEMMA FailuresCount ==
  ASSUME TypeOK, JobInv, [Next]_vars, crashes + faults > 0
  PROVE  crashes' + faults' > 0
<1>1. crashes \in Int /\ faults \in Int
  BY DEF TypeOK
<1>2. faults' = faults \/ faults' = faults + 1
  BY WhoChangesWhat
<1>3. crashes' = crashes \/ crashes' = crashes + 1
  BY WhoChangesWhat
<1>4. QED  BY <1>1, <1>2, <1>3, SMTT(30)

(* The write is only left for the archive, or by an error or a crash.      *)
LEMMA WriteEnds ==
  ASSUME TypeOK, [Next]_vars, pc = "writing"
  PROVE  \/ pc' = "writing" \/ FinishWrite
         \/ crashes' + faults' > 0
<1>1. crashes \in Nat /\ faults \in Nat
  BY DEF TypeOK
<1>2. \/ pc' = pc \/ FinishWrite
      \/ faults' = faults + 1 /\ crashes' = crashes
      \/ crashes' = crashes + 1 /\ faults' = faults
  BY DEF Next, vars, Daemon, Watch, Process, Relocate, Failure, User,
     ScanIncoming, DropCandidate, SampleCandidate, DispatchCandidate,
     EnqueueCandidate, ReadMetadata, PartitionFile, EmbedChunks, BeginWrite,
     ArchiveDocument, ArchiveSidecars, RejectDocument,
     RejectMissing, RejectSidecars, WriteDeadLetter, FaultWhileHandling,
     FaultWhileArchivingSidecars, FaultWhileRejecting, Crash,
     UploadDocument, UploadSidecar, RequeueDocument, RequeueSidecars,
     UnlinkErrorLog, AbandonRequest
<1>3. QED  BY <1>1, <1>2

(* What is archived stays so.                                              *)
LEMMA ArchiveIsFinal ==
  ASSUME TypeOK, PlaceInv, [Next]_vars, NEW v \in Versions, Stored(processed, v)
  PROVE  Stored(processed', v)
<1>1. CASE ArchiveDocument
  BY <1>1, ArchiveMoves
<1>2. CASE processed' = processed
  BY <1>2
<1>3. QED
  BY <1>1, <1>2, WhoChangesWhat DEF RejectDocument, UploadDocument, RequeueDocument

LEMMA WhoReads ==
  ASSUME [Next]_vars, pc' \in Reading
  PROVE  \/ PartitionFile
         \/ /\ pc \in Reading
            /\ UNCHANGED <<incoming, overwritten, cur, doc>>
         \/ /\ UNCHANGED <<pc, cur, doc>>
            /\ \E n \in Names : \E v \in Versions \union {failed[n]} : PutIncoming(n, v)
<1> USE DEF Reading, dirVars, jobVars, userVars, watchVars, vars
<1>1. CASE Watch \/ (\E n \in Names : EnqueueCandidate(n))
  BY <1>1 DEF Watch, ScanIncoming, DropCandidate, SampleCandidate, DispatchCandidate,
     EnqueueCandidate
<1>2. CASE Process
  BY <1>2 DEF Process, ReadMetadata, EmbedChunks, BeginWrite, FinishWrite
<1>3. CASE Relocate
  BY <1>3 DEF Relocate, ArchiveDocument, ArchiveSidecars, RejectDocument,
     RejectMissing, RejectSidecars, WriteDeadLetter, EndJob
<1>4. CASE Failure
  BY <1>4 DEF Failure, FaultWhileHandling, FaultWhileArchivingSidecars,
     FaultWhileRejecting, Crash, EndJob
<1>5. ASSUME NEW u \in Users, User(u)
      PROVE  \/ UNCHANGED <<pc, incoming, overwritten, cur, doc>>
             \/ /\ UNCHANGED <<pc, cur, doc>>
                /\ \E n \in Names : \E v \in Versions \union {failed[n]} : PutIncoming(n, v)
  BY <1>5 DEF User, UploadDocument, UploadSidecar, RequeueDocument, RequeueSidecars,
     UnlinkErrorLog, AbandonRequest
<1>6. QED  BY <1>1, <1>2, <1>3, <1>4, <1>5 DEF Next, Daemon

LEMMA NextKeepsReadInv ==
  ASSUME TypeOK, JobInv, ReadInv, [Next]_vars
  PROVE  ReadInv'
<1> USE DEF Reading
<1> SUFFICES ASSUME pc' \in Reading PROVE incoming'[cur'] = doc' \/ doc' \in overwritten'
  BY DEF ReadInv
<1>1. CASE PartitionFile
  BY <1>1 DEF PartitionFile, dirVars
<1>2. CASE pc \in Reading /\ UNCHANGED <<incoming, overwritten, cur, doc>>
  BY <1>2 DEF ReadInv
<1>3. ASSUME UNCHANGED <<pc, cur, doc>>, NEW n \in Names,
             NEW v \in Versions \union {failed[n]}, PutIncoming(n, v)
      PROVE  incoming'[cur'] = doc' \/ doc' \in overwritten'
  <2>1. /\ incoming' = [incoming EXCEPT ![n] = v]
        /\ overwritten' = overwritten \union ({incoming[n]} \ {None})
    BY <1>3 DEF PutIncoming
  <2>2. doc # None /\ (incoming[cur] = doc \/ doc \in overwritten)
    BY <1>3 DEF JobInv, ReadInv
  <2>3. CASE cur = n
    BY <1>3, <2>1, <2>2, <2>3
  <2>4. CASE cur # n
    <3>1. incoming'[cur] = incoming[cur] \/ cur \notin Names
      BY <2>1, <2>4 DEF TypeOK
    <3>2. cur \in Names
      BY <1>3 DEF TypeOK
    <3>3. QED  BY <1>3, <2>1, <2>2, <3>1, <3>2
  <2>5. QED  BY <2>3, <2>4
<1>4. QED  BY <1>1, <1>2, <1>3, WhoReads

(* So the document that is being written is not an archived one.           *)
LEMMA WrittenIsNotArchived ==
  ASSUME TypeOK, JobInv, PlaceInv, ReadInv, pc \in Reading
  PROVE  doc \in Versions /\ ~Stored(processed, doc)
<1>1. cur \in Names /\ doc \in Versions
  BY DEF TypeOK, JobInv, Reading
<1>2. CASE incoming[cur] = doc
  <2>1. Stored(incoming, doc)
    BY <1>1, <1>2 DEF Stored
  <2>2. QED  BY <1>1, <2>1 DEF PlaceInv, Conservation
<1>3. CASE doc \in overwritten
  BY <1>1, <1>3 DEF PlaceInv, Conservation
<1>4. QED  BY <1>2, <1>3 DEF ReadInv

-----------------------------------------------------------------------------
(* Finite sets *)

LEMMA BatchedIsFinite ==
  ASSUME TypeOK
  PROVE  IsFiniteSet(Batched) /\ IsFiniteSet(DOMAIN lake) /\ Len(lake) \in Nat
<1>1. DOMAIN lake = 1..Len(lake) /\ Len(lake) \in Nat
  BY LenProperties DEF TypeOK
<1>2. IsFiniteSet(DOMAIN lake)
  BY <1>1, FS_Interval
<1> DEFINE f == [i \in DOMAIN lake |-> lake[i].ver]
<1>3. f \in Surjection(DOMAIN lake, Batched)
  BY DEF Surjection, Batched
<1>4. IsFiniteSet(Batched)
  BY <1>2, <1>3, FS_Surjection
<1>5. QED  BY <1>1, <1>2, <1>4

(* One element more or less, in a set no larger than this.                 *)
LEMMA CardinalityBound ==
  ASSUME NEW S, NEW T, NEW x, IsFiniteSet(S), T \subseteq S \union {x}
  PROVE  /\ IsFiniteSet(T) /\ Cardinality(T) \in Nat /\ Cardinality(S) \in Nat
         /\ Cardinality(T) <= Cardinality(S) + 1
         /\ T \subseteq S => Cardinality(T) <= Cardinality(S)
         /\ T \subseteq S \ {x} /\ x \in S => Cardinality(T) + 1 <= Cardinality(S)
<1>1. /\ IsFiniteSet(S \union {x}) /\ IsFiniteSet(S \ {x})
      /\ Cardinality(S \union {x}) \in {Cardinality(S), Cardinality(S) + 1}
      /\ x \in S => Cardinality(S \ {x}) = Cardinality(S) - 1
  BY FS_AddElement, FS_RemoveElement
<1>2. /\ IsFiniteSet(T) /\ Cardinality(T) <= Cardinality(S \union {x})
      /\ T \subseteq S => Cardinality(T) <= Cardinality(S)
      /\ T \subseteq S \ {x} => Cardinality(T) <= Cardinality(S \ {x})
  BY <1>1, FS_Subset
<1>3. Cardinality(T) \in Nat /\ Cardinality(S) \in Nat
  BY <1>2, FS_CardinalityType
<1>4. Cardinality(S \union {x}) \in Nat /\ Cardinality(S \ {x}) \in Nat
  BY <1>1, FS_CardinalityType
<1>5. Cardinality(S \union {x}) <= Cardinality(S) + 1
  BY <1>1, <1>3
<1>6. QED  BY <1>1, <1>2, <1>3, <1>4, <1>5

-----------------------------------------------------------------------------
(* Torn files *)

Torn == {i \in DOMAIN lake : ~lake[i].whole}

LEMMA FailuresGrow ==
  ASSUME TypeOK, JobInv, [Next]_vars
  PROVE  /\ crashes \in Nat /\ faults \in Nat
         /\ crashes' \in Nat /\ faults' \in Nat
         /\ crashes' >= crashes /\ faults' >= faults
<1>1. crashes \in Nat /\ faults \in Nat
  BY DEF TypeOK
<1>2. crashes' = crashes \/ crashes' = crashes + 1
  BY WhoChangesWhat
<1>3. faults' = faults \/ faults' = faults + 1
  BY WhoChangesWhat
<1>4. QED  BY <1>1, <1>2, <1>3

(* A write begins, goes on, ends well or fails; nothing else is torn.      *)
LEMMA WhoTears ==
  ASSUME TypeOK, JobInv, [Next]_vars
  PROVE  \/ BeginWrite \/ FinishWrite
         \/ lake' = lake /\ (pc' = "writing" <=> pc = "writing")
         \/ /\ lake' = lake /\ pc = "writing" /\ pc' # "writing"
            /\ crashes' + faults' >= crashes + faults + 1
<1>1. crashes \in Nat /\ faults \in Nat
  BY DEF TypeOK
<1>2. \/ BeginWrite \/ FinishWrite
      \/ lake' = lake /\ (pc' = "writing" <=> pc = "writing")
      \/ /\ lake' = lake /\ pc = "writing" /\ pc' # "writing"
         /\ \/ faults' = faults + 1 /\ crashes' = crashes
            \/ crashes' = crashes + 1 /\ faults' = faults
  BY DEF Next, vars, Daemon, Watch, Process, Relocate, Failure, User, EndJob,
     ScanIncoming, DropCandidate, SampleCandidate, DispatchCandidate,
     EnqueueCandidate, ReadMetadata, PartitionFile, EmbedChunks,
     ArchiveDocument, ArchiveSidecars, RejectDocument,
     RejectMissing, RejectSidecars, WriteDeadLetter, FaultWhileHandling,
     FaultWhileArchivingSidecars, FaultWhileRejecting, Crash,
     UploadDocument, UploadSidecar, RequeueDocument, RequeueSidecars,
     UnlinkErrorLog, AbandonRequest
<1>3. QED  BY <1>1, <1>2

LEMMA NextKeepsTorn ==
  ASSUME TypeOK, JobInv, LakeInv, [Next]_vars
  PROVE  (pc' = "writing" => ~lake'[Len(lake')].whole) /\ TornFilesAreAccounted'
<1>0. lake \in Seq(Batch) /\ Len(lake) \in Nat /\ DOMAIN lake = 1..Len(lake)
  BY LenProperties DEF TypeOK
<1>1. IsFiniteSet(Torn) /\ Cardinality(Torn) \in Nat
  <2>1. Torn \in SUBSET (DOMAIN lake)
    BY DEF Torn
  <2>2. IsFiniteSet(Torn)
    BY <2>1, BatchedIsFinite, FS_Subset
  <2>3. QED  BY <2>2, FS_CardinalityType
<1> DEFINE Open == IF pc = "writing" THEN 1 ELSE 0
           OpenNext == IF pc' = "writing" THEN 1 ELSE 0
<1>2. /\ pc = "writing" => ~lake[Len(lake)].whole
      /\ Cardinality(Torn) <= crashes + faults + Open
  BY DEF LakeInv, TornFilesAreAccounted, Torn
<1>3. SUFFICES /\ pc' = "writing" => ~lake'[Len(lake')].whole
               /\ Cardinality(Torn') <= crashes' + faults' + OpenNext
  BY DEF TornFilesAreAccounted, Torn
<1>4. CASE BeginWrite
  <2> DEFINE b == [ver |-> doc, meta |-> meta, model |-> model, whole |-> FALSE]
  <2>1. /\ b \in Batch /\ ~b.whole /\ lake' = Append(lake, b)
        /\ pc = "write" /\ pc' = "writing" /\ UNCHANGED <<crashes, faults>>
    BY <1>4 DEF BeginWrite, TypeOK, JobInv, Batch
  <2> HIDE DEF b
  <2>2. /\ Len(lake') = Len(lake) + 1 /\ DOMAIN lake' = 1..(Len(lake) + 1)
        /\ \A i \in 1..Len(lake) : lake'[i] = lake[i]
        /\ lake'[Len(lake) + 1] = b
    BY <1>0, <2>1, AppendProperties, LenProperties
  <2>3. Torn' \subseteq Torn \union {Len(lake) + 1}
    BY <1>0, <2>2 DEF Torn
  <2>4. Cardinality(Torn') <= Cardinality(Torn) + 1 /\ Cardinality(Torn') \in Nat
    BY <1>1, <2>3, CardinalityBound
  <2>5. Open = 0 /\ OpenNext = 1
    BY <2>1
  <2>6. Cardinality(Torn') <= crashes' + faults' + OpenNext
    BY <1>1, <1>2, <2>1, <2>4, <2>5, FailuresGrow
  <2>7. QED  BY <2>1, <2>2, <2>6
<1>5. CASE FinishWrite
  <2>1. /\ lake # <<>> /\ lake' = [lake EXCEPT ![Len(lake)].whole = TRUE]
        /\ pc = "writing" /\ pc' = "archive" /\ UNCHANGED <<crashes, faults>>
    BY <1>5 DEF FinishWrite, JobInv
  <2>2. /\ Len(lake) \in DOMAIN lake /\ DOMAIN lake' = DOMAIN lake
        /\ lake'[Len(lake)].whole
        /\ \A i \in DOMAIN lake : lake[i].whole => lake'[i].whole
    BY <1>0, <2>1, FinishedLake, EmptySeq
  <2>3. Len(lake) \in Torn /\ Torn' \subseteq Torn \ {Len(lake)}
    BY <1>2, <2>1, <2>2 DEF Torn
  <2>4. Cardinality(Torn') + 1 <= Cardinality(Torn) /\ Cardinality(Torn') \in Nat
    BY <1>1, <2>3, CardinalityBound
  <2>5. Open = 1 /\ OpenNext = 0
    BY <2>1
  <2>6. Cardinality(Torn') <= crashes' + faults' + OpenNext
    BY <1>1, <1>2, <2>1, <2>4, <2>5, FailuresGrow
  <2>7. QED  BY <2>1, <2>6
<1>6. CASE lake' = lake /\ (pc' = "writing" <=> pc = "writing")
  <2>1. Torn' = Torn /\ Open = OpenNext
    BY <1>6 DEF Torn
  <2>2. Cardinality(Torn') <= crashes' + faults' + OpenNext
    BY <1>1, <1>2, <2>1, FailuresGrow
  <2>3. QED  BY <1>2, <1>6, <2>2
<1>7. CASE /\ lake' = lake /\ pc = "writing" /\ pc' # "writing"
           /\ crashes' + faults' >= crashes + faults + 1
  <2>1. Torn' = Torn /\ Open = 1 /\ OpenNext = 0
    BY <1>7 DEF Torn
  <2>2. Cardinality(Torn') <= crashes' + faults' + OpenNext
    BY <1>1, <1>2, <1>7, <2>1, FailuresGrow
  <2>3. QED  BY <1>7, <2>2
<1>8. QED  BY <1>4, <1>5, <1>6, <1>7, WhoTears

-----------------------------------------------------------------------------
(* Second files *)

(* What can unsettle a document: only a failure at work on it.             *)
LEMMA WhoUnsettles ==
  ASSUME TypeOK, JobInv, [Next]_vars
  PROVE  \/ BeginWrite \/ PartitionFile \/ ArchiveDocument
         \/ /\ pc \in Reading /\ pc' \notin Reading
            /\ UNCHANGED <<lake, processed, overwritten>>
            /\ crashes' + faults' >= crashes + faults + 1
         \/ /\ processed' = processed /\ overwritten \subseteq overwritten'
            /\ \/ UNCHANGED <<pc, doc>>
               \/ pc \notin Reading /\ pc' \notin Reading
               \/ doc' = doc /\ {pc, pc'} \subseteq {"embed", "write"}
               \/ doc' = doc /\ {pc, pc'} \subseteq {"writing", "archive"}
<1>0. crashes \in Nat /\ faults \in Nat
  BY DEF TypeOK
<1> USE DEF Reading, vars, dirVars, jobVars, userVars, watchVars, EndJob
<1> DEFINE Settled ==
      /\ processed' = processed /\ overwritten \subseteq overwritten'
      /\ \/ UNCHANGED <<pc, doc>>
         \/ pc \notin Reading /\ pc' \notin Reading
         \/ doc' = doc /\ {pc, pc'} \subseteq {"embed", "write"}
         \/ doc' = doc /\ {pc, pc'} \subseteq {"writing", "archive"}
    Failed ==
      /\ pc \in Reading /\ pc' \notin Reading
      /\ UNCHANGED <<lake, processed, overwritten>>
      /\ \/ faults' = faults + 1 /\ crashes' = crashes
         \/ crashes' = crashes + 1 /\ faults' = faults
<1>1. CASE Watch \/ (\E n \in Names : EnqueueCandidate(n))
  <2>1. Settled
    BY <1>1 DEF Watch, ScanIncoming, DropCandidate, SampleCandidate, DispatchCandidate,
       EnqueueCandidate
  <2>2. QED  BY <2>1
<1>2. CASE Process
  <2>1. Settled \/ BeginWrite \/ PartitionFile
    BY <1>2 DEF Process, ReadMetadata, EmbedChunks, FinishWrite
  <2>2. QED  BY <2>1
<1>3. CASE Relocate
  <2>1. Settled \/ ArchiveDocument
    BY <1>3 DEF Relocate, ArchiveSidecars, RejectDocument, RejectMissing, RejectSidecars,
       WriteDeadLetter
  <2>2. QED  BY <2>1
<1>4. CASE Failure
  <2>1. Settled \/ Failed
    BY <1>4 DEF Failure, FaultWhileHandling, FaultWhileArchivingSidecars,
       FaultWhileRejecting, Crash, Point, TypeOK
  <2>2. Failed => crashes' + faults' >= crashes + faults + 1
    BY <1>0
  <2>3. QED  BY <2>1, <2>2
<1>5. ASSUME NEW u \in Users, User(u) PROVE Settled
  BY <1>5 DEF User, UploadDocument, UploadSidecar, RequeueDocument, RequeueSidecars,
     UnlinkErrorLog, AbandonRequest, PutIncoming
<1>6. CASE UNCHANGED vars
  BY <1>6
<1>7. QED
  BY <1>1, <1>2, <1>3, <1>4, <1>5, <1>6 DEF Next, Daemon

(* Unless a second file is written, the files' documents are the same, and *)
(* a document is only unsettled by a failure at work on it.                *)
LEMMA UnsettledStay ==
  ASSUME TypeOK, JobInv, PlaceInv, ReadInv, [Next]_vars, ~BeginWrite
  PROVE  /\ Batched' = Batched /\ Len(lake') = Len(lake)
         /\ \/ Unsettled' \subseteq Unsettled
            \/ /\ Unsettled' \subseteq Unsettled \union {doc}
               /\ crashes' + faults' >= crashes + faults + 1
<1>1. Batched' = Batched /\ Len(lake') = Len(lake)
  <2>1. CASE lake' = lake
    BY <2>1 DEF Batched
  <2>2. CASE FinishWrite
    <3>1. lake # <<>> /\ lake' = [lake EXCEPT ![Len(lake)].whole = TRUE]
      BY <2>2 DEF FinishWrite, JobInv
    <3>2. /\ Len(lake') = Len(lake) /\ DOMAIN lake' = DOMAIN lake
          /\ \A i \in DOMAIN lake : lake'[i].ver = lake[i].ver
      BY <3>1, FinishedLake
    <3>3. QED  BY <3>2 DEF Batched
  <2>3. QED  BY <2>1, <2>2, WhoChangesWhat
<1> USE DEF Reading
<1>2. CASE PartitionFile
  <2>1. /\ pc = "partition" /\ doc' = incoming[cur] /\ pc' \in {"reject", "embed"}
        /\ UNCHANGED <<processed, overwritten>>
    BY <1>2 DEF PartitionFile, dirVars, userVars
  <2>2. incoming[cur] \in Versions /\ cur \in Names
    BY <2>1 DEF TypeOK, JobInv
  <2>3. Stored(incoming, incoming[cur])
    BY <2>2 DEF Stored
  <2>4. ~Stored(processed, incoming[cur]) /\ incoming[cur] \notin overwritten
    BY <2>2, <2>3 DEF PlaceInv, Conservation
  <2>5. Unsettled' \subseteq Unsettled
    BY <1>1, <2>1, <2>4 DEF Unsettled, Stored
  <2>6. QED  BY <1>1, <2>5
<1>3. CASE ArchiveDocument
  <2>1. pc = "archive" /\ pc' = "archiveSide" /\ cur \in Names
    BY <1>3 DEF ArchiveDocument, TypeOK
  <2>2. doc \in Versions
    BY <2>1 DEF TypeOK, JobInv
  <2>3. /\ overwritten' = overwritten
        /\ \A w \in Versions :
             Stored(processed', w) <=> (w = incoming[cur] \/ Stored(processed, w))
    BY <1>3, ArchiveMoves
  <2>4. Batched \subseteq Versions
    <3>1. lake \in Seq(Batch) /\ DOMAIN lake = 1..Len(lake)
      BY LenProperties DEF TypeOK
    <3>2. ASSUME NEW i \in DOMAIN lake PROVE lake[i].ver \in Versions
      <4>1. lake[i] \in Batch
        BY <3>1, ElementOfSeq
      <4>2. QED  BY <4>1 DEF Batch
    <3>3. QED  BY <3>2 DEF Batched
  <2>5. ASSUME NEW v \in Unsettled' PROVE v \in Unsettled
    <3>1. v \in Batched /\ v \in Versions /\ ~Stored(processed', v) /\ v \notin overwritten
      BY <1>1, <2>1, <2>3, <2>4, <2>5 DEF Unsettled, Stored
    <3>2. ~Stored(processed, v) /\ v # doc
      BY <2>1, <2>2, <2>3, <3>1 DEF ReadInv
    <3>3. QED  BY <3>1, <3>2 DEF Unsettled
  <2>6. QED  BY <1>1, <2>5
<1>4. CASE /\ pc \in Reading /\ pc' \notin Reading
           /\ UNCHANGED <<lake, processed, overwritten>>
           /\ crashes' + faults' >= crashes + faults + 1
  <2>1. Unsettled' \subseteq Unsettled \union {doc}
    BY <1>1, <1>4 DEF Unsettled, Stored
  <2>2. QED  BY <1>1, <1>4, <2>1
<1>5. CASE /\ processed' = processed /\ overwritten \subseteq overwritten'
           /\ \/ UNCHANGED <<pc, doc>>
              \/ pc \notin Reading /\ pc' \notin Reading
              \/ doc' = doc /\ {pc, pc'} \subseteq {"embed", "write"}
              \/ doc' = doc /\ {pc, pc'} \subseteq {"writing", "archive"}
  <2>1. Unsettled' \subseteq Unsettled
    BY <1>1, <1>5 DEF Unsettled, Stored
  <2>2. QED  BY <1>1, <2>1
<1>6. QED  BY <1>2, <1>3, <1>4, <1>5, WhoUnsettles

(* The file of a document without one settles it; that of a document with  *)
(* one is paid for by the failure that had unsettled it.                   *)
LEMMA BeginWriteSettles ==
  ASSUME TypeOK, JobInv, PlaceInv, ReadInv, BeginWrite
  PROVE  /\ Batched' = Batched \union {doc} /\ Len(lake') = Len(lake) + 1
         /\ Unsettled' \subseteq Unsettled \ {doc}
         /\ doc \in Batched => doc \in Unsettled
<1>0. lake \in Seq(Batch) /\ Len(lake) \in Nat /\ DOMAIN lake = 1..Len(lake)
  BY LenProperties DEF TypeOK
<1> DEFINE b == [ver |-> doc, meta |-> meta, model |-> model, whole |-> FALSE]
<1>1. /\ b \in Batch /\ b.ver = doc /\ lake' = Append(lake, b)
      /\ pc = "write" /\ pc' = "writing" /\ doc' = doc
      /\ UNCHANGED <<processed, overwritten>>
  BY DEF BeginWrite, TypeOK, JobInv, Batch, dirVars, jobVars, userVars
<1> HIDE DEF b
<1>2. /\ Len(lake') = Len(lake) + 1 /\ DOMAIN lake' = 1..(Len(lake) + 1)
      /\ \A i \in 1..Len(lake) : lake'[i] = lake[i]
      /\ lake'[Len(lake) + 1] = b
  BY <1>0, <1>1, AppendProperties, LenProperties
<1>3. Batched' = Batched \union {doc}
  <2>1. \A v \in Batched' : v \in Batched \union {doc}
    <3>1. SUFFICES ASSUME NEW i \in DOMAIN lake' PROVE lake'[i].ver \in Batched \union {doc}
      BY DEF Batched
    <3>2. CASE i = Len(lake) + 1  BY <1>1, <1>2, <3>2
    <3>3. CASE i # Len(lake) + 1
      <4>1. i \in DOMAIN lake /\ lake'[i] = lake[i]
        BY <1>0, <1>2, <3>3
      <4>2. QED  BY <4>1 DEF Batched
    <3>4. QED  BY <3>2, <3>3
  <2>2. doc \in Batched'
    <3>1. Len(lake) + 1 \in DOMAIN lake' /\ lake'[Len(lake) + 1].ver = doc
      BY <1>0, <1>1, <1>2
    <3>2. QED  BY <3>1 DEF Batched
  <2>3. ASSUME NEW i \in DOMAIN lake PROVE lake[i].ver \in Batched'
    <3>1. i \in DOMAIN lake' /\ lake'[i] = lake[i]
      BY <1>0, <1>2
    <3>2. QED  BY <3>1 DEF Batched
  <2>4. \A v \in Batched : v \in Batched'
    BY <2>3 DEF Batched
  <2>5. QED  BY <2>1, <2>2, <2>4
<1>4. Unsettled' \subseteq Unsettled \ {doc}
  BY <1>1, <1>3 DEF Unsettled, Stored
<1>5. doc \in Batched => doc \in Unsettled
  BY <1>1 DEF Unsettled
<1>6. QED  BY <1>2, <1>3, <1>4, <1>5

LEMMA NextKeepsLakeInv ==
  ASSUME TypeOK, TypeOK', JobInv, PlaceInv, ReadInv, LakeInv, [Next]_vars
  PROVE  LakeInv'
<1> DEFINE C == Cardinality(Batched)
           N == Cardinality(Unsettled)
<1>1. Unsettled \subseteq Batched /\ IsFiniteSet(Batched) /\ Len(lake) \in Nat
  BY BatchedIsFinite DEF Unsettled
<1>2. IsFiniteSet(Unsettled) /\ N \in Nat /\ C \in Nat
  BY <1>1, FS_Subset, FS_CardinalityType
<1>3. Len(lake) + N <= C + crashes + faults
  BY DEF LakeInv
<1>4. Len(lake') + Cardinality(Unsettled') <= Cardinality(Batched') + crashes' + faults'
  <2>1. CASE BeginWrite
    <3>1. /\ Batched' = Batched \union {doc} /\ Len(lake') = Len(lake) + 1
          /\ Unsettled' \subseteq Unsettled \ {doc}
          /\ doc \in Batched => doc \in Unsettled
      BY <2>1, BeginWriteSettles
    <3>2. /\ Cardinality(Unsettled') \in Nat /\ Cardinality(Unsettled') <= N
          /\ doc \in Unsettled => Cardinality(Unsettled') + 1 <= N
      BY <1>2, <3>1, CardinalityBound
    <3>3. Cardinality(Batched') = IF doc \in Batched THEN C ELSE C + 1
      BY <1>1, <3>1, FS_AddElement
    <3>4. CASE doc \in Batched
      <4>1. Cardinality(Unsettled') + 1 <= N /\ Cardinality(Batched') = C
        BY <3>1, <3>2, <3>3, <3>4
      <4>2. QED  BY <1>1, <1>2, <1>3, <3>1, <3>2, <4>1, FailuresGrow
    <3>5. CASE doc \notin Batched
      <4>1. Cardinality(Unsettled') <= N /\ Cardinality(Batched') = C + 1
        BY <3>2, <3>3, <3>5
      <4>2. QED  BY <1>1, <1>2, <1>3, <3>1, <3>2, <4>1, FailuresGrow
    <3>6. QED  BY <3>4, <3>5
  <2>2. CASE ~BeginWrite
    <3>1. /\ Batched' = Batched /\ Len(lake') = Len(lake)
          /\ \/ Unsettled' \subseteq Unsettled
             \/ /\ Unsettled' \subseteq Unsettled \union {doc}
                /\ crashes' + faults' >= crashes + faults + 1
      BY <2>2, UnsettledStay
    <3>2. CASE Unsettled' \subseteq Unsettled
      <4>1. Cardinality(Unsettled') \in Nat /\ Cardinality(Unsettled') <= N
        BY <1>2, <3>2, CardinalityBound
      <4>2. QED  BY <1>1, <1>2, <1>3, <3>1, <4>1, FailuresGrow
    <3>3. CASE /\ Unsettled' \subseteq Unsettled \union {doc}
               /\ crashes' + faults' >= crashes + faults + 1
      <4>1. Cardinality(Unsettled') \in Nat /\ Cardinality(Unsettled') <= N + 1
        BY <1>2, <3>3, CardinalityBound
      <4>2. QED  BY <1>1, <1>2, <1>3, <3>1, <3>3, <4>1, FailuresGrow
    <3>4. QED  BY <3>1, <3>2, <3>3
  <2>3. QED  BY <2>1, <2>2
<1>5. QED  BY <1>4, NextKeepsTorn DEF LakeInv

-----------------------------------------------------------------------------
(* Theorems *)

LEMMA InitIsLakeInv == Init => ReadInv /\ LakeInv
<1> SUFFICES ASSUME Init PROVE ReadInv /\ LakeInv
  OBVIOUS
<1>1. pc = "sweep" /\ lake = <<>> /\ crashes = 0 /\ faults = 0
  BY DEF Init
<1>2. DOMAIN lake = {} /\ Len(lake) = 0
  BY <1>1, EmptySeq
<1>3. Batched = {} /\ Unsettled = {} /\ Torn = {}
  BY <1>2 DEF Batched, Unsettled, Torn
<1>4. ReadInv
  BY <1>1 DEF ReadInv, Reading
<1>5. TornFilesAreAccounted
  BY <1>1, <1>3, FS_EmptySet DEF TornFilesAreAccounted, Torn
<1>6. Len(lake) + Cardinality(Unsettled) <= Cardinality(Batched) + crashes + faults
  BY <1>1, <1>2, <1>3, FS_EmptySet
<1>7. QED  BY <1>1, <1>4, <1>5, <1>6 DEF LakeInv

(* The daemon reads what is in incoming; every parquet file beyond one per *)
(* document is paid for by a failure, and so will be the next ones.        *)
THEOREM LakeInvariantHolds == Spec => [](ReadInv /\ LakeInv)
<1>1. /\ TypeOK /\ PipelineInv /\ TypeOK' /\ ReadInv /\ LakeInv /\ [Next]_vars
      => ReadInv' /\ LakeInv'
  BY NextKeepsReadInv, NextKeepsLakeInv DEF PipelineInv
<1>2. QED  BY <1>1, InitIsLakeInv, InvariantHolds, PTL DEF Spec

(* Every file of the lake beyond one per document is paid for by a crash   *)
(* or an error, whoever re-queues what.                                    *)
THEOREM DuplicatesAreAccountedHolds == Spec => []DuplicatesAreAccounted
<1>1. TypeOK /\ LakeInv => DuplicatesAreAccounted
  <2> SUFFICES ASSUME TypeOK, LakeInv PROVE DuplicatesAreAccounted
    OBVIOUS
  <2>1. Unsettled \subseteq Batched /\ IsFiniteSet(Batched) /\ Len(lake) \in Nat
    BY BatchedIsFinite DEF Unsettled
  <2>2. Cardinality(Unsettled) \in Nat /\ Cardinality(Batched) \in Nat
    BY <2>1, FS_Subset, FS_CardinalityType
  <2>3. Len(lake) + Cardinality(Unsettled) <= Cardinality(Batched) + crashes + faults
    BY DEF LakeInv
  <2>4. crashes \in Nat /\ faults \in Nat
    BY DEF TypeOK
  <2>5. Len(lake) <= Cardinality(Batched) + crashes + faults
    BY <2>1, <2>2, <2>3, <2>4
  <2>6. QED  BY <2>5 DEF DuplicatesAreAccounted, Batched
<1>2. QED  BY <1>1, LakeInvariantHolds, TypeCorrect, PTL

(* There are no more torn parquet files than crashes and errors, but for   *)
(* the one being written.                                                  *)
THEOREM TornFilesAreAccountedHolds == Spec => []TornFilesAreAccounted
<1>1. LakeInv => TornFilesAreAccounted
  BY DEF LakeInv
<1>2. QED  BY <1>1, LakeInvariantHolds, PTL

-----------------------------------------------------------------------------
(* The pipeline under the search *)

LEMMA SearchLeavesPipeline ==
  ASSUME SearchStep
  PROVE  UNCHANGED vars
BY DEF SearchStep, BeginSearch, ResolvePattern, ExpandPattern, ReadFile, ReadRaises, Answer

LEMMA SearchImplementsPipeline == SearchSpec => Spec
<1>1. SearchInit => Init
  BY DEF SearchInit
<1>2. [SearchNext]_<<vars, searchVars>> => [Next]_vars
  BY SearchLeavesPipeline DEF SearchNext, PipelineStep
<1>3. QED  BY <1>1, <1>2, PTL DEF SearchSpec, Spec

-----------------------------------------------------------------------------
(* The parts of the invariant that the pipeline keeps *)

LEMMA NextKeepsTornInv ==
  ASSUME TypeOK, JobInv, TornInv, [Next]_vars
  PROVE  TornInv'
<1> SUFFICES ASSUME NEW i \in DOMAIN lake', ~lake'[i].whole
             PROVE  crashes' + faults' > 0 \/ (pc' = "writing" /\ i = Len(lake'))
  BY DEF TornInv
<1>1. CASE i \notin DOMAIN lake
  BY <1>1, LakeGrows
<1>2. CASE i \in DOMAIN lake
  <2>1. ~lake[i].whole
    BY <1>2, LakeGrows
  <2>2. CASE crashes + faults > 0
    BY <2>2, FailuresCount
  <2>3. CASE pc = "writing" /\ i = Len(lake)
    <3>1. ~FinishWrite /\ Len(lake') = Len(lake)
      BY <2>3, LakeGrows
    <3>2. QED  BY <2>3, <3>1, WriteEnds
  <2>4. QED  BY <1>2, <2>1, <2>2, <2>3 DEF TornInv
<1>3. QED  BY <1>1, <1>2

-----------------------------------------------------------------------------
(* Steps of the pipeline, with a search under way *)

LEMMA PipelineKeepsTypes ==
  ASSUME TypeOK, TypeOK', JobInv, SearchTypeOK, PipelineStep
  PROVE  SearchTypeOK'
<1>1. UNCHANGED <<search, unread, found, promised>> /\ [Next]_vars
      /\ wrote' = (wrote \/ pc' = "writing")
  BY DEF PipelineStep
<1>2. DOMAIN lake \subseteq DOMAIN lake'
      /\ \A i \in DOMAIN lake : lake'[i].ver = lake[i].ver
  BY <1>1, LakeGrows
<1>3. used \subseteq used'
  BY <1>1, WhoChangesWhat DEF ArchiveDocument, RejectDocument, UploadDocument,
     RequeueDocument, userVars
<1>4. found \subseteq {lake'[i].ver : i \in DOMAIN lake'}
  BY <1>2 DEF SearchTypeOK
<1>5. wrote' \in BOOLEAN
  BY <1>1 DEF SearchTypeOK
<1>6. QED  BY <1>1, <1>2, <1>3, <1>4, <1>5 DEF SearchTypeOK

LEMMA PipelineKeepsPromise ==
  ASSUME TypeOK, JobInv, PlaceInv, ReadInv, SearchTypeOK, PromiseInv, PipelineStep
  PROVE  PromiseInv'
<1>1. UNCHANGED <<search, unread, found, promised>> /\ [Next]_vars
  BY DEF PipelineStep
<1>2. ASSUME NEW v \in promised PROVE Stored(processed', v) /\ Indexed(v)'
  <2>1. v \in Versions
    BY DEF SearchTypeOK, TypeOK
  <2>2. QED  BY <1>1, <2>1, ArchiveIsFinal, HistoryGrows DEF PromiseInv
<1>3. ASSUME NEW i \in DOMAIN lake', search.at \in {"reading", "answered"},
             lake'[i].ver \in promised, Matches(i)'
      PROVE  i \in unread \/ lake'[i].ver \in found
  <2>1. CASE i \in DOMAIN lake
    <3>1. lake'[i].ver = lake[i].ver /\ lake'[i].meta = lake[i].meta
      BY <1>1, <2>1, LakeGrows
    <3>2. Matches(i)
      BY <1>1, <1>3, <3>1 DEF Matches, Partition, Domain
    <3>3. QED  BY <1>3, <2>1, <3>1, <3>2 DEF PromiseInv
  <2>2. CASE i \notin DOMAIN lake
    <3>1. pc = "write" /\ lake'[i].ver = doc
      BY <1>1, <2>2, LakeGrows
    <3>2. ~Stored(processed, doc)
      BY <3>1, WrittenIsNotArchived DEF Reading
    <3>3. QED  BY <1>3, <3>1, <3>2 DEF PromiseInv
  <2>3. QED  BY <2>1, <2>2
<1>4. QED  BY <1>1, <1>2, <1>3 DEF PromiseInv, Stored

LEMMA PipelineKeepsScope ==
  ASSUME TypeOK, JobInv, ScopeInv, PipelineStep
  PROVE  ScopeInv'
<1>1. UNCHANGED <<search, unread, found, promised>> /\ [Next]_vars
      /\ wrote' = (wrote \/ pc' = "writing")
  BY DEF PipelineStep
<1>2. Matching \subseteq Matching'
  <2>1. \A i \in DOMAIN lake : i \in DOMAIN lake' /\ lake'[i].meta = lake[i].meta
    BY <1>1, LakeGrows
  <2>2. QED  BY <1>1, <2>1 DEF Matching, Matches, Partition, Domain
<1>3. QED  BY <1>1, <1>2 DEF ScopeInv

LEMMA PipelineKeepsReasons ==
  ASSUME TypeOK, JobInv, RaisedIsExplained, PipelineStep
  PROVE  RaisedIsExplained'
<1>1. UNCHANGED <<search, unread, found, promised>> /\ [Next]_vars
      /\ wrote' = (wrote \/ pc' = "writing")
  BY DEF PipelineStep
<1>2. crashes + faults > 0 => crashes' + faults' > 0
  BY <1>1, FailuresCount
<1>3. ASSUME NEW i \in Matching, Mixed(i) PROVE i \in Matching' /\ Mixed(i)'
  <2>1. i \in DOMAIN lake' /\ lake'[i].meta = lake[i].meta /\ lake'[i].model = lake[i].model
    BY <1>1, LakeGrows DEF Matching
  <2>2. QED  BY <1>1, <1>3, <2>1 DEF Matching, Matches, Mixed, Partition, Domain
<1>4. SUFFICES ASSUME search.at = "raised", search.scope # None
               PROVE  \/ wrote' \/ crashes' + faults' > 0
                      \/ \E i \in Matching' : Mixed(i)'
  BY <1>1 DEF RaisedIsExplained
<1>5. wrote => wrote'
  BY <1>1, Zenon
<1>6. wrote \/ crashes + faults > 0 \/ \E i \in Matching : Mixed(i)
  BY <1>4, Zenon DEF RaisedIsExplained
<1>7. QED  BY <1>2, <1>3, <1>5, <1>6, Zenon

-----------------------------------------------------------------------------
(* Steps of the search *)

LEMMA BeginKeepsSearchInv ==
  ASSUME TypeOK, ProcessedWasIndexed, SearchInv,
         NEW d \in Domains \union {None}, BeginSearch(d)
  PROVE  SearchInv'
<1>1. /\ search' = [at |-> "asked", scope |-> d]
      /\ found' = {} /\ unread' = {}
      /\ promised' = {v \in used \ swapped : Stored(processed, v)}
      /\ wrote' = (pc = "writing")
      /\ UNCHANGED vars
  BY DEF BeginSearch
<1>2. search'.at = "asked" /\ search'.scope = d
  BY <1>1
<1>3. SearchTypeOK'
  <2>1. search' \in [at : Resting \union {"asked", "matched", "reading"},
                     scope : Domains \union {None}]
    BY <1>1
  <2>2. wrote' \in BOOLEAN
    BY <1>1, Zenon
  <2>3. QED  BY <1>1, <2>1, <2>2 DEF SearchTypeOK, vars, userVars
<1>4. TornInv' /\ ReadInv'
  BY <1>1 DEF SearchInv, TornInv, ReadInv, vars, dirVars, jobVars, userVars, watchVars
<1>5. PromiseInv'
  <2>1. ASSUME NEW v \in promised' PROVE Stored(processed, v) /\ Indexed(v)
    <3>1. v \in used \ swapped /\ v \in Versions /\ Stored(processed, v)
      BY <1>1 DEF TypeOK
    <3>2. PICK n \in Names : processed[n] = v
      BY <3>1 DEF Stored
    <3>3. v # None
      BY <3>1, ConstantsAssumption
    <3>4. QED  BY <3>1, <3>2, <3>3 DEF ProcessedWasIndexed
  <2>2. \A v \in promised' : Stored(processed', v) /\ Indexed(v)'
    BY <1>1, <2>1 DEF Stored, Indexed, vars, dirVars, jobVars
  <2>3. QED  BY <1>2, <2>2 DEF PromiseInv, Stored
<1>6. ScopeInv'
  <2>1. pc' = "writing" => wrote'
    BY <1>1, Zenon DEF vars, jobVars
  <2>2. QED  BY <1>1, <2>1 DEF ScopeInv
<1>7. RaisedIsExplained'
  BY <1>2 DEF RaisedIsExplained
<1>8. QED  BY <1>3, <1>4, <1>5, <1>6, <1>7 DEF SearchInv

(* Nothing matches the pattern only if nothing that is archived is in      *)
(* scope: then the search has nothing to read.                             *)
LEMMA ResolveKeepsSearchInv ==
  ASSUME SearchInv, ResolvePattern
  PROVE  SearchInv'
<1>1. /\ search.at = "asked"
      /\ search' = [search EXCEPT !.at = IF Matching = {} THEN "answered" ELSE "matched"]
      /\ UNCHANGED <<vars, unread, found, promised, wrote>>
  BY DEF ResolvePattern
<1>2. /\ search'.scope = search.scope /\ search'.at \in {"answered", "matched"}
      /\ search'.at = "answered" => Matching = {}
      /\ search' \in [at : Resting \union {"asked", "matched", "reading"},
                      scope : Domains \union {None}]
  BY <1>1 DEF SearchInv, SearchTypeOK, Resting
<1>3. UNCHANGED <<lake, processed, incoming, cur, doc, pc, overwritten, crashes, faults, used>>
  BY <1>1 DEF vars, dirVars, jobVars, userVars
<1>4. Matching' = Matching /\ \A i : Matches(i)' <=> Matches(i)
  BY <1>2, <1>3 DEF Matching, Matches, Partition, Domain
<1>5. SearchTypeOK'
  BY <1>1, <1>2, <1>3 DEF SearchInv, SearchTypeOK
<1>6. TornInv' /\ ReadInv'
  BY <1>3 DEF SearchInv, TornInv, ReadInv
<1>7. PromiseInv'
  BY <1>1, <1>2, <1>3, <1>4 DEF SearchInv, PromiseInv, Stored, Indexed, Matching
<1>8. ScopeInv'
  BY <1>1, <1>2, <1>3, <1>4 DEF SearchInv, ScopeInv, Resting
<1>9. RaisedIsExplained'
  BY <1>2 DEF RaisedIsExplained
<1>10. QED  BY <1>5, <1>6, <1>7, <1>8, <1>9 DEF SearchInv

LEMMA ExpandKeepsSearchInv ==
  ASSUME SearchInv, ExpandPattern
  PROVE  SearchInv'
<1>1. /\ search.at = "matched" /\ search' = [search EXCEPT !.at = "reading"]
      /\ unread' = Matching
      /\ UNCHANGED <<vars, found, promised, wrote>>
  BY DEF ExpandPattern
<1>2. /\ search'.scope = search.scope /\ search'.at = "reading"
      /\ search' \in [at : Resting \union {"asked", "matched", "reading"},
                      scope : Domains \union {None}]
  BY <1>1 DEF SearchInv, SearchTypeOK
<1>3. UNCHANGED <<lake, processed, incoming, cur, doc, pc, overwritten, crashes, faults, used>>
  BY <1>1 DEF vars, dirVars, jobVars, userVars
<1>4. Matching' = Matching /\ \A i : Matches(i)' <=> Matches(i)
  BY <1>2, <1>3 DEF Matching, Matches, Partition, Domain
<1>5. SearchTypeOK'
  BY <1>1, <1>2, <1>3 DEF SearchInv, SearchTypeOK, Matching
<1>6. TornInv' /\ ReadInv'
  BY <1>3 DEF SearchInv, TornInv, ReadInv
<1>7. PromiseInv'
  BY <1>1, <1>2, <1>3, <1>4 DEF SearchInv, PromiseInv, Stored, Indexed, Matching
<1>8. ScopeInv'
  BY <1>1, <1>2, <1>3, <1>4 DEF SearchInv, ScopeInv, Resting
<1>9. RaisedIsExplained'
  BY <1>2 DEF RaisedIsExplained
<1>10. QED  BY <1>5, <1>6, <1>7, <1>8, <1>9 DEF SearchInv

LEMMA ReadKeepsSearchInv ==
  ASSUME SearchInv, NEW i \in unread, ReadFile(i)
  PROVE  SearchInv'
<1>1. /\ unread' = unread \ {i} /\ found' = found \union {lake[i].ver}
      /\ UNCHANGED <<vars, search, promised, wrote>>
  BY DEF ReadFile
<1>2. UNCHANGED <<lake, processed, incoming, cur, doc, pc, overwritten, crashes, faults, used>>
  BY <1>1 DEF vars, dirVars, jobVars, userVars
<1>3. Matching' = Matching /\ \A j : Matches(j)' <=> Matches(j)
  BY <1>1, <1>2 DEF Matching, Matches, Partition, Domain
<1>4. SearchTypeOK'
  BY <1>1, <1>2 DEF SearchInv, SearchTypeOK
<1>5. TornInv' /\ ReadInv'
  BY <1>2 DEF SearchInv, TornInv, ReadInv
<1>6. PromiseInv'
  BY <1>1, <1>2, <1>3 DEF SearchInv, PromiseInv, Stored, Indexed
<1>7. ScopeInv'
  BY <1>1, <1>2, <1>3 DEF SearchInv, ScopeInv
<1>8. RaisedIsExplained'
  BY <1>1, <1>2, <1>3 DEF SearchInv, RaisedIsExplained, Mixed, Partition, Domain
<1>9. QED  BY <1>4, <1>5, <1>6, <1>7, <1>8 DEF SearchInv

(* A file that cannot be read is torn, and then it is being written or was *)
(* left behind, or holds the vectors of another model than the domain's.   *)
LEMMA RaiseKeepsSearchInv ==
  ASSUME SearchInv, NEW i \in unread, ReadRaises(i)
  PROVE  SearchInv'
<1>1. /\ ~Readable(i) /\ search' = [search EXCEPT !.at = "raised"] /\ unread' = {}
      /\ UNCHANGED <<vars, found, promised, wrote>>
  BY DEF ReadRaises
<1>2. /\ search'.scope = search.scope /\ search'.at = "raised"
      /\ search' \in [at : Resting \union {"asked", "matched", "reading"},
                      scope : Domains \union {None}]
  BY <1>1 DEF SearchInv, SearchTypeOK, Resting
<1>3. UNCHANGED <<lake, processed, incoming, cur, doc, pc, overwritten, crashes, faults, used>>
  BY <1>1 DEF vars, dirVars, jobVars, userVars
<1>4. Matching' = Matching
  BY <1>2, <1>3 DEF Matching, Matches, Partition, Domain
<1>5. SearchTypeOK'
  BY <1>1, <1>2, <1>3 DEF SearchInv, SearchTypeOK
<1>6. TornInv' /\ ReadInv'
  BY <1>3 DEF SearchInv, TornInv, ReadInv
<1>7. PromiseInv'
  BY <1>1, <1>2, <1>3 DEF SearchInv, PromiseInv, Stored, Indexed
<1>8. ScopeInv'
  BY <1>1, <1>2 DEF ScopeInv, Resting
<1>9. RaisedIsExplained'
  <2>1. SUFFICES ASSUME search.scope # None
                 PROVE  wrote \/ crashes + faults > 0 \/ \E j \in Matching : Mixed(j)
    BY <1>1, <1>2, <1>3, <1>4 DEF RaisedIsExplained, Mixed, Partition, Domain
  <2>2. i \in Matching /\ i \in DOMAIN lake /\ search.at = "reading"
    BY DEF SearchInv, SearchTypeOK, ScopeInv, Matching
  <2>3. CASE ~lake[i].whole
    BY <2>2, <2>3 DEF SearchInv, TornInv, ScopeInv, Resting
  <2>4. CASE lake[i].model # QueryModel
    <3>1. Partition(i) = search.scope
      BY <2>1, <2>2 DEF Matching, Matches
    <3>2. Mixed(i)
      BY <2>1, <2>4, <3>1 DEF Mixed, QueryModel
    <3>3. QED  BY <2>2, <3>2
  <2>5. QED  BY <1>1, <2>3, <2>4 DEF Readable
<1>10. QED  BY <1>5, <1>6, <1>7, <1>8, <1>9 DEF SearchInv

LEMMA AnswerKeepsSearchInv ==
  ASSUME SearchInv, Answer
  PROVE  SearchInv'
<1>1. /\ search.at = "reading" /\ search' = [search EXCEPT !.at = "answered"]
      /\ unread = {}
      /\ UNCHANGED <<vars, unread, found, promised, wrote>>
  BY DEF Answer
<1>2. /\ search'.scope = search.scope /\ search'.at = "answered"
      /\ search' \in [at : Resting \union {"asked", "matched", "reading"},
                      scope : Domains \union {None}]
  BY <1>1 DEF SearchInv, SearchTypeOK, Resting
<1>3. UNCHANGED <<lake, processed, incoming, cur, doc, pc, overwritten, crashes, faults, used>>
  BY <1>1 DEF vars, dirVars, jobVars, userVars
<1>4. Matching' = Matching /\ \A i : Matches(i)' <=> Matches(i)
  BY <1>2, <1>3 DEF Matching, Matches, Partition, Domain
<1>5. SearchTypeOK'
  BY <1>1, <1>2, <1>3 DEF SearchInv, SearchTypeOK
<1>6. TornInv' /\ ReadInv'
  BY <1>3 DEF SearchInv, TornInv, ReadInv
<1>7. PromiseInv'
  BY <1>1, <1>2, <1>3, <1>4 DEF SearchInv, PromiseInv, Stored, Indexed
<1>8. ScopeInv'
  BY <1>1, <1>2 DEF ScopeInv, Resting
<1>9. RaisedIsExplained'
  BY <1>2 DEF RaisedIsExplained
<1>10. QED  BY <1>5, <1>6, <1>7, <1>8, <1>9 DEF SearchInv

-----------------------------------------------------------------------------
(* Theorems *)

LEMMA SearchInitIsInv == SearchInit => SearchInv
<1> SUFFICES ASSUME SearchInit PROVE SearchInv
  OBVIOUS
<1>1. /\ search = [at |-> "idle", scope |-> None] /\ lake = <<>> /\ pc = "sweep"
      /\ unread = {} /\ found = {} /\ promised = {} /\ wrote = FALSE
  BY DEF SearchInit, Init
<1>2. search.at = "idle" /\ DOMAIN lake = {}
  BY <1>1, EmptySeq
<1>3. SearchTypeOK
  BY <1>1 DEF SearchTypeOK, Resting
<1>4. TornInv /\ ReadInv
  BY <1>1, <1>2 DEF TornInv, ReadInv, Reading
<1>5. PromiseInv /\ ScopeInv
  BY <1>1, <1>2 DEF PromiseInv, ScopeInv
<1>6. RaisedIsExplained
  BY <1>2 DEF RaisedIsExplained
<1>7. QED  BY <1>3, <1>4, <1>5, <1>6 DEF SearchInv

LEMMA SearchNextKeepsSearchInv ==
  ASSUME TypeOK, TypeOK', JobInv, PlaceInv, ProcessedWasIndexed, SearchInv,
         [SearchNext]_<<vars, searchVars>>
  PROVE  SearchInv'
<1>1. CASE PipelineStep
  <2>1. [Next]_vars
    BY <1>1 DEF PipelineStep
  <2>2. QED
    BY <1>1, <2>1, PipelineKeepsTypes, PipelineKeepsPromise, PipelineKeepsScope,
       PipelineKeepsReasons, NextKeepsTornInv, NextKeepsReadInv DEF SearchInv
<1>2. CASE SearchStep
  BY <1>2, BeginKeepsSearchInv, ResolveKeepsSearchInv, ExpandKeepsSearchInv,
     ReadKeepsSearchInv, RaiseKeepsSearchInv, AnswerKeepsSearchInv DEF SearchStep
<1>3. CASE UNCHANGED <<vars, searchVars>>
  BY <1>3 DEF SearchInv, SearchTypeOK, TornInv, ReadInv, PromiseInv, ScopeInv,
     RaisedIsExplained, Matching, Matches, Partition, Domain, Mixed, Stored, Indexed,
     vars, dirVars, jobVars, userVars, watchVars, searchVars
<1>4. QED  BY <1>1, <1>2, <1>3 DEF SearchNext

(* The inductive invariant of a search over the pipeline's: the pipeline's *)
(* own invariants hold of the composition because a search writes nothing. *)
THEOREM SearchInvariantHolds == SearchSpec => []SearchInv
<1>1. TypeOK /\ PipelineInv => JobInv /\ PlaceInv
  BY DEF PipelineInv
<1>2. /\ TypeOK /\ PipelineInv /\ ProcessedWasIndexed /\ TypeOK' /\ SearchInv
      /\ [SearchNext]_<<vars, searchVars>>
      => SearchInv'
  BY <1>1, SearchNextKeepsSearchInv
<1>3. QED
  BY <1>2, SearchInitIsInv, SearchImplementsPipeline, InvariantHolds,
     ProcessedWasIndexedHolds, PTL DEF SearchSpec

(* A search that answers has looked at every document that was archived    *)
(* when it began, but for those of another domain than it was asked for.   *)
THEOREM SearchMissesNothingHolds == SearchSpec => []SearchMissesNothing
<1>1. SearchInv => SearchMissesNothing
  <2> SUFFICES ASSUME SearchInv, search.at = "answered", NEW v \in promised \ found
               PROVE  /\ Indexed(v) /\ search.scope # None
                      /\ \A i \in DOMAIN lake :
                           lake[i].ver = v => Partition(i) # search.scope
    BY DEF SearchMissesNothing
  <2>1. Indexed(v) /\ unread = {}
    BY DEF SearchInv, PromiseInv, SearchTypeOK
  <2>2. \A i \in DOMAIN lake : lake[i].ver = v => ~Matches(i)
    BY <2>1 DEF SearchInv, PromiseInv
  <2>3. PICK i \in DOMAIN lake : lake[i].ver = v
    BY <2>1 DEF Indexed
  <2>4. QED  BY <2>1, <2>2, <2>3 DEF Matches
<1>2. QED  BY <1>1, SearchInvariantHolds, PTL

(* A search of one domain fails only because a file was being written, a   *)
(* crash or an error had left one torn, or a batch of two domains has the  *)
(* vectors of another domain's model.                                      *)
THEOREM RaisedIsExplainedHolds == SearchSpec => []RaisedIsExplained
<1>1. SearchInv => RaisedIsExplained
  BY DEF SearchInv
<1>2. QED  BY <1>1, SearchInvariantHolds, PTL
=============================================================================
