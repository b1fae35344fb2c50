----------------------------- MODULE QueueScan -----------------------------
(***************************************************************************)
(* IngestionService.scan_queue, the reader behind the queue monitor,       *)
(* composed with the pipeline whose documents move while it lists the      *)
(* three directories one after the other and looks at each file twice.     *)
(***************************************************************************)
EXTENDS Ingestion

VARIABLES
  scan,      (* whether a scan runs, or how the last one ended              *)
  turn,      (* the directory it has come to: a position in ScanOrder       *)
  listing,   (* the names of its listing that are still to be looked at     *)
  checked,   (* the name _is_primary_file has accepted, before its stat     *)
  items,     (* the queue items so far: directory and document              *)
  steady     (* history: the documents that were there when the scan began  *)
             (* and that no user has re-queued or replaced since            *)

scanVars == <<scan, turn, listing, checked, items>>

(* Mutants of ScanOrder: what is settled before what is pending, and what  *)
(* failed before what was processed.                                       *)
SettledFirst == <<"processed", "failed", "incoming">>
FailedFirst  == <<"incoming", "failed", "processed">>

ScanOrder == <<"incoming", "processed", "failed">>

Contents(d) == CASE d = "incoming"  -> incoming
                 [] d = "processed" -> processed
                 [] d = "failed"    -> failed

FilesOf(d) == {n \in Names : Contents(d)[n] # None}

(* The document that stands under a name of the directory being scanned.   *)
Found(n) == Contents(ScanOrder[turn])[n]

Anywhere(v) == Stored(incoming, v) \/ Stored(processed, v) \/ Stored(failed, v)

ScanInit ==
  /\ Init
  /\ scan = "idle" /\ turn = 1 /\ listing = {} /\ checked = None /\ items = {}
  /\ steady = {}

StartScan ==
  /\ scan # "running" /\ scan' = "running"
  /\ turn' = 1 /\ listing' = FilesOf(ScanOrder[1])
  /\ checked' = None /\ items' = {}
  /\ steady' = {v \in Versions : Anywhere(v)}
  /\ UNCHANGED vars

(* _is_primary_file: a name of the listing that is gone is skipped.        *)
CheckFile(n) ==
  /\ scan = "running" /\ checked = None /\ n \in listing
  /\ listing' = listing \ {n}
  /\ checked' = IF Found(n) # None THEN n ELSE None
  /\ UNCHANGED <<vars, scan, turn, items, steady>>

(* p.stat() and the item; it raises when the file has gone since.          *)
StatFile ==
  /\ checked # None
  /\ checked' = None
  /\ IF Found(checked) # None
       THEN items' = items \union {<<ScanOrder[turn], Found(checked)>>} /\ UNCHANGED scan
       ELSE scan' = "raised" /\ UNCHANGED items
  /\ UNCHANGED <<vars, turn, listing, steady>>

NextDirectory ==
  /\ scan = "running" /\ listing = {} /\ checked = None
  /\ turn < 3
  /\ turn' = turn + 1 /\ listing' = FilesOf(ScanOrder[turn'])
  /\ UNCHANGED <<vars, scan, checked, items, steady>>

EndScan ==
  /\ scan = "running" /\ listing = {} /\ checked = None
  /\ turn = 3
  /\ scan' = "done"
  /\ UNCHANGED <<vars, turn, listing, checked, items, steady>>

Scan == \/ StartScan
        \/ \E n \in Names : CheckFile(n)
        \/ StatFile
        \/ NextDirectory
        \/ EndScan

Requeued(v) == Stored(failed, v) /\ ~Stored(failed', v)

PipelineStep ==
  /\ Next
  /\ steady' = {v \in steady : v \notin overwritten' /\ ~Requeued(v)}
  /\ UNCHANGED scanVars

ScanNext == Scan \/ PipelineStep

ScanSpec == ScanInit /\ [][ScanNext]_<<vars, scanVars, steady>>
-----------------------------------------------------------------------------
(* Properties *)

(* A scan that ends lists every document that was there when it began and  *)
(* that no user moved meanwhile: the directories are read in the order in  *)
(* which the daemon moves documents, so none slips past.                   *)
NothingMissed ==
  scan = "done" => \A v \in steady : \E d \in Dirs : <<d, v>> \in items

(* No document counts both as processed and as failed, so that the failure *)
(* rate of get_metrics is a share of the documents.                        *)
ResolvedOnce ==
  \A v \in Versions : ~(<<"processed", v>> \in items /\ <<"failed", v>> \in items)
-----------------------------------------------------------------------------
(* The inductive invariant *)

ScanTypeOK ==
  /\ scan \in {"idle", "running", "done", "raised"}
  /\ turn \in 1..3 /\ listing \subseteq Names /\ checked \in Names \union {None}
  /\ items \subseteq Dirs \X Versions
  /\ steady \subseteq Versions
  /\ scan = "done" => turn = 3 /\ listing = {} /\ checked = None

Listed(v) == \E d \in Dirs : <<d, v>> \in items

(* The scan will come to the document, if it stays where it is or the      *)
(* daemon moves it.                                                        *)
Ahead(v) ==
  \/ turn < 2 /\ Stored(processed, v)
  \/ turn < 3 /\ Stored(failed, v)
  \/ \E n \in Names : n \in listing \union {checked} /\ Found(n) = v

ListedInv == scan \in {"running", "done"} => \A v \in steady : Listed(v) \/ Ahead(v)

(* What was listed as processed is there for good; nothing is listed as    *)
(* failed before the last directory is read.                               *)
SettledInv ==
  /\ \A v \in Versions : /\ <<"processed", v>> \in items => Stored(processed, v)
                         /\ <<"failed", v>> \in items => turn = 3
  /\ ResolvedOnce

ScanInv == ScanTypeOK /\ ListedInv /\ SettledInv
=============================================================================
