----------------------------- MODULE Ingestion -----------------------------
(***************************************************************************)
(* The ingestion pipeline of corpus-analyst: the daemon (IngestionRunner   *)
(* driving IncomingWatcher, LifecycleManager, DocumentParser and           *)
(* ParquetSink in one thread) and the users of the UI service that upload  *)
(* and re-queue documents in the same three directories at the same time.  *)
(*                                                                         *)
(* A document is a version: the bytes of one upload, under a file name.    *)
(* A sidecar is the metadata of the upload that wrote it, so its content   *)
(* is that version.  One step of a process is what the code does between   *)
(* two points at which another process can change what it reads next.      *)
(***************************************************************************)
EXTENDS Naturals, Sequences, FiniteSets

CONSTANTS
  Versions,         (* the uploads: each has bytes and metadata of its own  *)
  Unparseable,      (* those whose bytes the parser rejects                 *)
  Names,            (* document file names, the collision-free ones too     *)
  Uploadable,       (* the names users choose; the others are what          *)
                    (* _resolve_unique_dest generates                       *)
  Sidecars,         (* .meta.json file names                                *)
  FullSidecar, StemSidecar, (* name -> name.meta.json, stem.meta.json       *)
  Domains, DomainOf, (* the domain an upload's sidecar declares             *)
  DefaultDomain,    (* settings.app.default_domain                          *)
  Users,            (* sessions of the UI service                           *)
  None,             (* no file, no document, no sidecar                     *)
  StabilityChecks,  (* unchanged samples before a file counts as written    *)
  MaxCrashes,       (* bound: daemon crashes                                *)
  MaxFaults,        (* bound: OSErrors in writes and moves                  *)
  MaxRequeues       (* bound: re-queues by users                            *)

ASSUME ConstantsAssumption ==
  /\ Unparseable \subseteq Versions
  /\ Uploadable \subseteq Names
  /\ FullSidecar \in [Names -> Sidecars] /\ StemSidecar \in [Names -> Sidecars]
  /\ DomainOf \in [Versions -> Domains]
  /\ DefaultDomain \in Domains
  /\ None \notin Versions \union Names
  /\ StabilityChecks \in Nat \ {0}
  /\ {MaxCrashes, MaxFaults, MaxRequeues} \subseteq Nat

VARIABLES
  (* the directories *)
  incoming, processed, failed,  (* name -> the version stored there         *)
  side,        (* directory -> sidecar name -> the version it describes     *)
  errlog,      (* the names n with an n.error.json in failed                *)
  lake,        (* the parquet files, in the order they were created         *)
  (* the daemon *)
  pending, tracked,  (* IncomingWatcher._pending_files, detector._tracked   *)
  pc, todo,    (* point reached, candidates of the running sweep            *)
  cur, doc, meta, model, dest,  (* locals of the dispatched file            *)
  (* the users *)
  user,
  (* history, read by no action: what arrived, what was overwritten, what   *)
  (* was put in the place of a file already read; and the bounded counters  *)
  used, overwritten, swapped, crashes, faults, requeues

dirVars   == <<incoming, processed, failed>>
jobVars   == <<cur, doc, meta, model, dest>>
watchVars == <<pending, tracked, todo>>
userVars  == <<user, used, overwritten, swapped, requeues>>
vars == <<dirVars, side, errlog, lake, watchVars, pc, jobVars, userVars,
          crashes, faults>>

Dirs  == {"incoming", "processed", "failed"}
Batch == [ver : Versions, meta : Versions \union {None}, model : Domains,
          whole : BOOLEAN]
Point == {"sweep", "parse", "partition", "embed", "write", "writing",
          "archive", "archiveSide", "reject", "rejectSide", "rejectLog"}

(* The points at which the bytes of cur have been read (or given up) and   *)
(* the file is still to be moved out of incoming by its name alone.        *)
ReadNotMoved == {"embed", "write", "writing", "archive", "reject"}

TypeOK ==
  /\ incoming \in [Names -> Versions \union {None}]
  /\ processed \in [Names -> Versions \union {None}]
  /\ failed \in [Names -> Versions \union {None}]
  /\ side \in [Dirs -> [Sidecars -> Versions \union {None}]]
  /\ errlog \subseteq Names
  /\ lake \in Seq(Batch)
  /\ pending \subseteq Names
  /\ tracked \in [Names -> [ver : Versions \union {None}, count : Nat]]
  /\ pc \in Point
  /\ todo \subseteq Names
  /\ cur \in Names \union {None} /\ (cur = None <=> pc = "sweep")
  /\ doc \in Versions \union {None}
  /\ meta \in Versions \union {None}
  /\ model \in Domains
  /\ dest \in Names \union {None}
  /\ user \in [Users -> [at : {"idle", "uploaded", "requeued", "unlinking"},
                         name : Names \union {None},
                         ver : Versions \union {None}]]
  /\ used \subseteq Versions /\ overwritten \subseteq used /\ swapped \subseteq used
  /\ crashes \in 0..MaxCrashes
  /\ faults \in 0..MaxFaults
  /\ requeues \in 0..MaxRequeues

Untracked == [ver |-> None, count |-> 0]
IdleUser  == [at |-> "idle", name |-> None, ver |-> None]
NoJob     == /\ cur' = None /\ doc' = None /\ meta' = None /\ dest' = None
             /\ model' = DefaultDomain

Init ==
  /\ incoming = [n \in Names |-> None]
  /\ processed = [n \in Names |-> None]
  /\ failed = [n \in Names |-> None]
  /\ side = [d \in Dirs |-> [s \in Sidecars |-> None]]
  /\ errlog = {} /\ lake = <<>>
  /\ pending = {} /\ tracked = [n \in Names |-> Untracked] /\ todo = {}
  /\ pc = "sweep"
  /\ cur = None /\ doc = None /\ meta = None /\ dest = None /\ model = DefaultDomain
  /\ user = [u \in Users |-> IdleUser]
  /\ used = {} /\ overwritten = {} /\ swapped = {}
  /\ crashes = 0 /\ faults = 0 /\ requeues = 0

-----------------------------------------------------------------------------
(* The watcher *)

(* Existing(n): a file of that name is in incoming. *)
Existing == {n \in Names : incoming[n] # None}

(* A watchdog event (created or modified) for a file that is there, or was *)
(* when it was dispatched.  A .meta.json is never enqueued.                *)
EnqueueCandidate(n) ==
  /\ n \in Existing \/ n = cur
  /\ pending' = pending \union {n}
  /\ UNCHANGED <<dirVars, side, errlog, lake, tracked, todo, pc, jobVars,
                 userVars, crashes, faults>>

(* Mutant of ScanIncoming: the sweep relies on the events alone.           *)
ScanEventsOnly ==
  /\ pc = "sweep" /\ todo = {}
  /\ todo' = pending
  /\ UNCHANGED <<dirVars, side, errlog, lake, pending, tracked, pc, jobVars,
                 userVars, crashes, faults>>

(* One tick of the runner: everything in incoming becomes a candidate.     *)
ScanIncoming ==
  /\ pc = "sweep" /\ todo = {}
  /\ pending' = pending \union Existing
  /\ todo' = pending'
  /\ UNCHANGED <<dirVars, side, errlog, lake, tracked, pc, jobVars, userVars,
                 crashes, faults>>

(* The candidate vanished: its entry goes, what was tracked of it stays.   *)
DropCandidate(n) ==
  /\ pc = "sweep" /\ n \in todo /\ n \notin Existing
  /\ pending' = pending \ {n}
  /\ todo' = todo \ {n}
  /\ UNCHANGED <<dirVars, side, errlog, lake, tracked, pc, jobVars, userVars,
                 crashes, faults>>

(* One sample of the write detector.  A sweep samples a file once and the  *)
(* sweeps are poll_interval (5 s) apart, more than interval_seconds (1 s), *)
(* so the "too early" return is not taken here; WriteDetector has the time.*)
(* The size and mtime of a file are those of the version stored.           *)
Stable(n) == /\ tracked[n].ver = incoming[n]
             /\ tracked[n].count + 1 >= StabilityChecks

SampleCandidate(n) ==
  /\ pc = "sweep" /\ n \in todo /\ n \in Existing /\ ~Stable(n)
  /\ tracked' = [tracked EXCEPT ![n] =
       [ver   |-> incoming[n],
        count |-> IF @.ver = incoming[n] THEN @.count + 1 ELSE 0]]
  /\ todo' = todo \ {n}
  /\ UNCHANGED <<dirVars, side, errlog, lake, pending, pc, jobVars, userVars,
                 crashes, faults>>

DispatchCandidate(n) ==
  /\ pc = "sweep" /\ n \in todo /\ n \in Existing /\ Stable(n)
  /\ tracked' = [tracked EXCEPT ![n] = Untracked]
  /\ pending' = pending \ {n}
  /\ todo' = todo \ {n}
  /\ pc' = "parse" /\ cur' = n
  /\ UNCHANGED <<dirVars, side, errlog, lake, doc, meta, model, dest, userVars,
                 crashes, faults>>

(* handle_file returned or raised: _active_files loses the name and the    *)
(* sweep goes on with the next candidate.                                  *)
EndJob == pc' = "sweep" /\ NoJob

-----------------------------------------------------------------------------
(* The processor: DocumentParser.process *)

(* The first sidecar candidate that exists, else None: the fallback        *)
(* metadata.  A sidecar still being written does not parse: None too.      *)
ResolveMetadata(n) ==
  LET full == side["incoming"][FullSidecar[n]]
      stem == side["incoming"][StemSidecar[n]]
  IN  IF full # None THEN full ELSE stem

(* Domain of a resolved metadata envelope. *)
Domain(m) == IF m = None THEN DefaultDomain ELSE DomainOf[m]

(* parse() resolves the metadata the chunks are stamped with ...           *)
ReadMetadata ==
  /\ pc = "parse"
  /\ meta' = ResolveMetadata(cur)
  /\ pc' = "partition"
  /\ UNCHANGED <<dirVars, side, errlog, lake, watchVars, cur, doc, model, dest,
                 userVars, crashes, faults>>

(* Mutant of PartitionFile: a document without metadata is refused.        *)
PartitionNeedsSidecar ==
  /\ pc = "partition"
  /\ doc' = incoming[cur]
  /\ pc' = IF doc' \in Unparseable \/ meta = None THEN "reject" ELSE "embed"
  /\ UNCHANGED <<dirVars, side, errlog, lake, watchVars, cur, meta, model, dest,
                 userVars, crashes, faults>>

(* ... then reads the bytes; a parse error is a result without success.    *)
PartitionFile ==
  /\ pc = "partition"
  /\ doc' = incoming[cur]
  /\ pc' = IF doc' \in Unparseable THEN "reject" ELSE "embed"
  /\ UNCHANGED <<dirVars, side, errlog, lake, watchVars, cur, meta, model, dest,
                 userVars, crashes, faults>>

(* process() resolves the metadata again and embeds the chunks with the    *)
(* model of that domain.                                                   *)
EmbedChunks ==
  /\ pc = "embed"
  /\ model' = Domain(ResolveMetadata(cur))
  /\ pc' = "write"
  /\ UNCHANGED <<dirVars, side, errlog, lake, watchVars, cur, doc, meta, dest,
                 userVars, crashes, faults>>

(* write_bytes creates the parquet file under its final name ...           *)
BeginWrite ==
  /\ pc = "write"
  /\ lake' = Append(lake, [ver |-> doc, meta |-> meta, model |-> model,
                           whole |-> FALSE])
  /\ pc' = "writing"
  /\ UNCHANGED <<dirVars, side, errlog, watchVars, jobVars, userVars,
                 crashes, faults>>

(* Mutant of FinishWrite: the footer of the file is never flushed.         *)
FinishWriteUnflushed ==
  /\ pc = "writing"
  /\ pc' = "archive"
  /\ UNCHANGED <<dirVars, side, errlog, lake, watchVars, jobVars, userVars,
                 crashes, faults>>

(* ... and it is readable once all its bytes are there.                    *)
FinishWrite ==
  /\ pc = "writing"
  /\ lake' = [lake EXCEPT ![Len(lake)].whole = TRUE]
  /\ pc' = "archive"
  /\ UNCHANGED <<dirVars, side, errlog, watchVars, jobVars, userVars,
                 crashes, faults>>

-----------------------------------------------------------------------------
(* The lifecycle manager *)

(* Mutant of UniqueDest: without the check that the name is taken.         *)
SameDest(dir, n) == {n}

(* _resolve_unique_dest: the name itself, or a generated one if it is      *)
(* taken.  A generated name is nobody else's.                              *)
UniqueDest(dir, n) ==
  IF dir[n] = None
    THEN {n}
    ELSE {f \in Names \ Uploadable :
            /\ incoming[f] = None /\ processed[f] = None /\ failed[f] = None}

(* Mutant of ArchiveDocument: the file is copied, not moved.               *)
CopyDocument ==
  /\ pc = "archive"
  /\ \E n \in UniqueDest(processed, cur) :
       /\ processed' = [processed EXCEPT ![n] = incoming[cur]]
       /\ dest' = n
  /\ pc' = "archiveSide"
  /\ UNCHANGED <<incoming, failed, side, errlog, lake, watchVars, cur, doc, meta,
                 model, userVars, crashes, faults>>

ArchiveDocument ==
  /\ pc = "archive"
  /\ \E n \in UniqueDest(processed, cur) :
       /\ processed' = [processed EXCEPT ![n] = incoming[cur]]
       /\ dest' = n
  /\ incoming' = [incoming EXCEPT ![cur] = None]
  /\ pc' = "archiveSide"
  /\ UNCHANGED <<failed, side, errlog, lake, watchVars, cur, doc, meta, model,
                 userVars, crashes, faults>>

(* _find_sidecars: those of n that are in the directory.                   *)
FindSidecars(dir, n) ==
  {s \in {FullSidecar[n], StemSidecar[n]} : side[dir][s] # None}

(* What was moved of them when a later move failed.                        *)
PartOfSidecars(dir, n) ==
  {moved \in {{}, {FullSidecar[n]}} :
     moved \subseteq FindSidecars(dir, n) /\ moved # FindSidecars(dir, n)}

(* Moving sidecars: one whose name is taken in the target is renamed to a  *)
(* name that no document looks for, and so leaves the map.                 *)
MovedSidecars(from, to, moved) ==
  [side EXCEPT
     ![to]   = [s \in Sidecars |-> IF s \in moved /\ @[s] = None
                                     THEN side[from][s] ELSE @[s]],
     ![from] = [s \in Sidecars |-> IF s \in moved THEN None ELSE @[s]]]

ArchiveSidecars ==
  /\ pc = "archiveSide"
  /\ side' = MovedSidecars("incoming", "processed", FindSidecars("incoming", cur))
  /\ EndJob
  /\ UNCHANGED <<dirVars, errlog, lake, watchVars, userVars, crashes, faults>>

RejectDocument ==
  /\ pc = "reject" /\ cur \in Existing
  /\ \E n \in UniqueDest(failed, cur) :
       /\ failed' = [failed EXCEPT ![n] = incoming[cur]]
       /\ dest' = n
  /\ incoming' = [incoming EXCEPT ![cur] = None]
  /\ pc' = "rejectSide"
  /\ UNCHANGED <<processed, side, errlog, lake, watchVars, cur, doc, meta, model,
                 userVars, crashes, faults>>

(* The file is already archived: the move raises out of handle_file and    *)
(* the watcher logs it.  No dead letter is written.                        *)
RejectMissing ==
  /\ pc = "reject" /\ cur \notin Existing
  /\ EndJob
  /\ UNCHANGED <<dirVars, side, errlog, lake, watchVars, userVars, crashes, faults>>

RejectSidecars ==
  /\ pc = "rejectSide"
  /\ side' = MovedSidecars("incoming", "failed", FindSidecars("incoming", cur))
  /\ pc' = "rejectLog"
  /\ UNCHANGED <<dirVars, errlog, lake, watchVars, jobVars, userVars,
                 crashes, faults>>

(* Mutant of WriteDeadLetter: named after the file before its renaming.    *)
WriteDeadLetterOfSource ==
  /\ pc = "rejectLog"
  /\ errlog' = errlog \union {cur}
  /\ EndJob
  /\ UNCHANGED <<dirVars, side, lake, watchVars, userVars, crashes, faults>>

WriteDeadLetter ==
  /\ pc = "rejectLog"
  /\ errlog' = errlog \union {dest}
  /\ EndJob
  /\ UNCHANGED <<dirVars, side, lake, watchVars, userVars, crashes, faults>>

-----------------------------------------------------------------------------
(* What goes wrong in the daemon *)

(* Mutant of FaultWhileHandling: result.success is not looked at.          *)
FaultIgnored ==
  /\ pc \in {"partition", "embed", "write", "writing", "archive"}
  /\ faults < MaxFaults /\ faults' = faults + 1
  /\ pc' = "archive"
  /\ UNCHANGED <<dirVars, side, errlog, lake, watchVars, jobVars, userVars, crashes>>

(* An error while the file is read, embedded, written or moved: up to the  *)
(* archive of the sidecars handle_file catches it and rejects the document;*)
(* while it rejects, the error reaches the watcher, which goes on.         *)
FaultWhileHandling ==
  /\ pc \in {"partition", "embed", "write", "writing", "archive"}
  /\ faults < MaxFaults /\ faults' = faults + 1
  /\ pc' = "reject"
  /\ UNCHANGED <<dirVars, side, errlog, lake, watchVars, jobVars, userVars, crashes>>

FaultWhileArchivingSidecars ==
  /\ pc = "archiveSide"
  /\ faults < MaxFaults /\ faults' = faults + 1
  /\ \E moved \in PartOfSidecars("incoming", cur) :
       side' = MovedSidecars("incoming", "processed", moved)
  /\ pc' = "reject"
  /\ UNCHANGED <<dirVars, errlog, lake, watchVars, jobVars, userVars, crashes>>

FaultWhileRejecting ==
  /\ pc \in {"reject", "rejectSide", "rejectLog"}
  /\ pc = "reject" => cur \in Existing
  /\ faults < MaxFaults /\ faults' = faults + 1
  /\ IF pc = "rejectSide"
       THEN \E moved \in PartOfSidecars("incoming", cur) :
              side' = MovedSidecars("incoming", "failed", moved)
       ELSE UNCHANGED side
  /\ EndJob
  /\ UNCHANGED <<dirVars, errlog, lake, watchVars, userVars, crashes>>

(* The process dies and is started again: only files survive.              *)
Crash ==
  /\ crashes < MaxCrashes /\ crashes' = crashes + 1
  /\ pending' = {} /\ todo' = {} /\ tracked' = [n \in Names |-> Untracked]
  /\ EndJob
  /\ UNCHANGED <<dirVars, side, errlog, lake, userVars, faults>>

-----------------------------------------------------------------------------
(* The users *)

(* Version v comes to stand under name n in incoming, whatever was there.  *)
PutIncoming(n, v) ==
  /\ incoming' = [incoming EXCEPT ![n] = v]
  /\ overwritten' = overwritten \union ({incoming[n]} \ {None})
  /\ swapped' = IF cur = n /\ pc \in ReadNotMoved
                  THEN swapped \union {v} ELSE swapped

(* save_uploaded_file: the bytes are written to a hidden temporary file,   *)
(* which os.replace puts in place ...                                      *)
UploadDocument(u, n, v) ==
  /\ user[u].at = "idle"
  /\ n \in Uploadable /\ v \in Versions \ used
  /\ used' = used \union {v}
  /\ PutIncoming(n, v)
  /\ user' = [user EXCEPT ![u] = [at |-> "uploaded", name |-> n, ver |-> v]]
  /\ UNCHANGED <<processed, failed, side, errlog, lake, watchVars, pc, jobVars,
                 requeues, crashes, faults>>

(* ... and the sidecar is written afterwards.                              *)
UploadSidecar(u) ==
  /\ user[u].at = "uploaded"
  /\ side' = [side EXCEPT !["incoming"][FullSidecar[user[u].name]] = user[u].ver]
  /\ user' = [user EXCEPT ![u] = IdleUser]
  /\ UNCHANGED <<dirVars, errlog, lake, watchVars, pc, jobVars, used, overwritten,
                 swapped, requeues, crashes, faults>>

(* Mutant of RequeueDocument: the document is copied, not moved.            *)
RequeueCopy(u, n) ==
  /\ user[u].at = "idle" /\ failed[n] # None
  /\ requeues < MaxRequeues /\ requeues' = requeues + 1
  /\ PutIncoming(n, failed[n])
  /\ user' = [user EXCEPT ![u] = [at |-> "requeued", name |-> n, ver |-> None]]
  /\ UNCHANGED <<processed, failed, side, errlog, lake, watchVars, pc, jobVars,
                 used, crashes, faults>>

(* requeue_failed_file: the document, then its sidecars, then the log.     *)
RequeueDocument(u, n) ==
  /\ user[u].at = "idle" /\ failed[n] # None
  /\ requeues < MaxRequeues /\ requeues' = requeues + 1
  /\ PutIncoming(n, failed[n])
  /\ failed' = [failed EXCEPT ![n] = None]
  /\ user' = [user EXCEPT ![u] = [at |-> "requeued", name |-> n, ver |-> None]]
  /\ UNCHANGED <<processed, side, errlog, lake, watchVars, pc, jobVars, used,
                 crashes, faults>>

RequeueSidecars(u) ==
  /\ user[u].at = "requeued"
  /\ LET moved == FindSidecars("failed", user[u].name)
     IN  side' = [side EXCEPT
           !["incoming"] = [s \in Sidecars |->
                              IF s \in moved THEN side["failed"][s] ELSE @[s]],
           !["failed"]   = [s \in Sidecars |-> IF s \in moved THEN None ELSE @[s]]]
  /\ user' = [user EXCEPT ![u].at = "unlinking"]
  /\ UNCHANGED <<dirVars, errlog, lake, watchVars, pc, jobVars, used, overwritten,
                 swapped, requeues, crashes, faults>>

UnlinkErrorLog(u) ==
  /\ user[u].at = "unlinking"
  /\ errlog' = errlog \ {user[u].name}
  /\ user' = [user EXCEPT ![u] = IdleUser]
  /\ UNCHANGED <<dirVars, side, lake, watchVars, pc, jobVars, used, overwritten,
                 swapped, requeues, crashes, faults>>

(* The session ends, or an error is raised, between two of these steps.    *)
AbandonRequest(u) ==
  /\ user[u].at # "idle"
  /\ user' = [user EXCEPT ![u] = IdleUser]
  /\ UNCHANGED <<dirVars, side, errlog, lake, watchVars, pc, jobVars, used,
                 overwritten, swapped, requeues, crashes, faults>>

-----------------------------------------------------------------------------
Watch == \/ ScanIncoming
         \/ \E n \in Names : \/ DropCandidate(n)
                             \/ SampleCandidate(n)
                             \/ DispatchCandidate(n)

Process == ReadMetadata \/ PartitionFile \/ EmbedChunks \/ BeginWrite \/ FinishWrite

Relocate == \/ ArchiveDocument \/ ArchiveSidecars
            \/ RejectDocument \/ RejectMissing \/ RejectSidecars \/ WriteDeadLetter

Daemon == Watch \/ Process \/ Relocate

Failure == \/ FaultWhileHandling \/ FaultWhileArchivingSidecars
           \/ FaultWhileRejecting \/ Crash

User(u) == \/ \E n \in Names, v \in Versions : UploadDocument(u, n, v)
           \/ UploadSidecar(u)
           \/ \E n \in Names : RequeueDocument(u, n)
           \/ RequeueSidecars(u)
           \/ UnlinkErrorLog(u)
           \/ AbandonRequest(u)

Next == \/ Daemon
        \/ \E n \in Names : EnqueueCandidate(n)
        \/ Failure
        \/ \E u \in Users : User(u)

Spec == Init /\ [][Next]_vars

(* The runner's loop never stops taking its next step; users, faults and   *)
(* crashes owe nothing.                                                    *)
FairSpec == Spec /\ WF_vars(Daemon)
-----------------------------------------------------------------------------
(* Properties *)

Stored(dir, v) == \E n \in Names : dir[n] = v

(* The parquet files of the lake that hold chunks of v, complete ones only. *)
Indexed(v) == \E i \in DOMAIN lake : lake[i].ver = v /\ lake[i].whole

(* No document is lost or doubled: an uploaded version is in exactly one    *)
(* place, unless a user has put another one under its name in incoming.     *)
(* (Moves go to unique names, a crash falls between two renames.)           *)
Conservation ==
  /\ \A v \in used : \/ Stored(incoming, v) \/ Stored(processed, v)
                     \/ Stored(failed, v) \/ v \in overwritten
  /\ \A v \in overwritten :
       ~Stored(incoming, v) /\ ~Stored(processed, v) /\ ~Stored(failed, v)
  /\ \A v \in Versions : /\ ~(Stored(incoming, v) /\ Stored(processed, v))
                         /\ ~(Stored(incoming, v) /\ Stored(failed, v))
                         /\ ~(Stored(processed, v) /\ Stored(failed, v))

(* What is in processed was indexed: all its chunks are in a complete       *)
(* parquet file, unless the bytes were put under that name after the        *)
(* daemon had read the file it was about to move.                           *)
ProcessedWasIndexed ==
  \A n \in Names : processed[n] # None =>
     Indexed(processed[n]) \/ processed[n] \in swapped

(* What is in failed was refused: the parser rejects it, an error was met,  *)
(* or it took the place of another document in mid-processing.              *)
FailedWasRefused ==
  \A n \in Names : failed[n] # None =>
     failed[n] \in Unparseable \union swapped \/ faults > 0

(* Every file of the lake beyond one per version is paid for by a crash or  *)
(* an error: the watcher never dispatches a document twice by itself, and   *)
(* re-queueing a document that was never written does not duplicate it.     *)
DuplicatesAreAccounted ==
  Len(lake) <= Cardinality({lake[i].ver : i \in DOMAIN lake}) + crashes + faults

(* A torn parquet file is the one being written, or the last trace of a     *)
(* crash or an error: there are no more of them than of those.              *)
TornFilesAreAccounted ==
  Cardinality({i \in DOMAIN lake : ~lake[i].whole})
    <= crashes + faults + (IF pc = "writing" THEN 1 ELSE 0)

(* Every document in failed has its dead-letter record, once the daemon is  *)
(* done with it and as long as nobody re-queues, crashes or meets an error. *)
FailedHasDeadLetter ==
  \A n \in Names :
     failed[n] # None /\ crashes = 0 /\ faults = 0 /\ requeues = 0 =>
       n \in errlog \/ (pc \in {"rejectSide", "rejectLog"} /\ dest = n)

(* What the daemon's point of progress implies, and makes the three above   *)
(* inductive: the file it handles is still where it was, the     *)
(* bytes under that name are those it read or came later, and what it moves *)
(* to processed is in the lake by then.                                     *)
JobInv ==
  /\ pc \in {"parse", "partition", "embed", "write", "writing", "archive"} =>
       incoming[cur] # None
  /\ pc \in {"embed", "write", "writing", "archive"} =>
       doc # None /\ incoming[cur] \in {doc} \union swapped
  /\ pc = "writing" => lake # <<>> /\ lake[Len(lake)].ver = doc
  /\ pc = "archive" => Indexed(doc)
  /\ pc \in {"rejectSide", "rejectLog"} => dest # None

(* And what it moves to failed was refused for a reason.                    *)
RefusalInv ==
  pc = "reject" =>
    incoming[cur] \in Unparseable \union swapped \union {None} \/ faults > 0

(* Names are not shared: one name in a directory for a version there.       *)
NoTwins(dir) ==
  \A n, m \in Names : dir[n] = dir[m] /\ dir[n] # None => n = m

PlaceInv ==
  /\ Conservation
  /\ NoTwins(incoming) /\ NoTwins(failed)
  /\ \A n \in Names : {incoming[n], processed[n], failed[n]} \subseteq used \union {None}

UserInv ==
  \A u \in Users :
    /\ user[u].at # "idle" => user[u].name # None
    /\ user[u].at \in {"requeued", "unlinking"} => requeues > 0

(* The inductive invariant of the proofs.                                   *)
PipelineInv == JobInv /\ RefusalInv /\ PlaceInv /\ UserInv

(* The points between the reading of cur and the end of its way.            *)
Reading == {"embed", "write", "writing", "archive"}

(* The document the daemon has read is still in incoming, or was            *)
(* overwritten there: it is in no other directory.                          *)
ReadInv == pc \in Reading => incoming[cur] = doc \/ doc \in overwritten

Batched == {lake[i].ver : i \in DOMAIN lake}

(* The documents with a parquet file that may get another one: those that   *)
(* were not archived after it, and the one at hand if it had one before.    *)
Unsettled ==
  {v \in Batched : \/ pc \in {"embed", "write"} /\ v = doc
                   \/ /\ ~Stored(processed, v) /\ v \notin overwritten
                      /\ pc \in {"writing", "archive"} => v # doc}

(* Each of them stands for a failure that no second file was written for.   *)
LakeInv ==
  /\ pc = "writing" => ~lake[Len(lake)].whole
  /\ TornFilesAreAccounted
  /\ Len(lake) + Cardinality(Unsettled) <= Cardinality(Batched) + crashes + faults

(* The vectors of a file come from the model of the domain the file is      *)
(* partitioned under, which the query engine relies on.                     *)
ModelMatchesPartition ==
  \A i \in DOMAIN lake : lake[i].model = Domain(lake[i].meta)

(* A file that arrives is dealt with: it leaves incoming, for processed or  *)
(* failed or because it is overwritten, whatever crashes there were.        *)
EveryFileLeavesIncoming ==
  \A n \in Names, v \in Versions : incoming[n] = v ~> incoming[n] # v

(* The place of a version is the directory that holds it.                   *)
Place(v) ==
  CASE v \notin used          -> "absent"
    [] Stored(incoming, v)    -> "incoming"
    [] Stored(processed, v)   -> "processed"
    [] Stored(failed, v)      -> "failed"
    [] OTHER                  -> "overwritten"

Places == [v \in Versions |-> Place(v)]

Ledger == INSTANCE DocumentLedger WITH place <- Places

(* Documents move as the ledger says, one at a time, whatever interleaves:  *)
(* nothing comes back from processed, nothing is quarantined but from       *)
(* incoming, an arrival displaces at most one document.                     *)
MovesFollowLedger == Ledger!SafeSpec

(* The pipeline implements the ledger with its fairness: a document that    *)
(* stays in incoming is in the end archived or quarantined.                 *)
ImplementsLedger == Ledger!Spec
=============================================================================
