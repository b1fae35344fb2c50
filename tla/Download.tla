------------------------------ MODULE Download ------------------------------
(***************************************************************************)
(* SecFetcher.download_filing composed with the pipeline: the sessions of  *)
(* the UI (or the command line) that download a filing write it in place   *)
(* in incoming, under a name made of ticker, form and date, so that        *)
(* downloading a filing again truncates the file of the first time, which  *)
(* the daemon may have in hand.                                            *)
(***************************************************************************)
EXTENDS Ingestion

CONSTANTS Fetchers, MaxAttempts  (* sessions; the range(3) of _get         *)

ASSUME AttemptsAssumption == MaxAttempts \in Nat \ {0}

VARIABLES
  fetch,     (* each session: point reached, request attempts, file written *)
  content,   (* how much of a version's bytes its file has                  *)
  torn,      (* history: the versions partitioned while half-written        *)
  spoilt     (* history: those left half-written by an error, or put half- *)
             (* written into a file the daemon had yet to read              *)

fetchVars == <<fetch, content, torn, spoilt>>

Requests == <<"tickers", "submissions", "document">>
NoFetch  == [at |-> "idle", tries |-> 0, name |-> None, ver |-> None]

DownloadInit ==
  /\ Init
  /\ fetch = [f \in Fetchers |-> NoFetch]
  /\ content = [v \in Versions |-> "whole"]
  /\ torn = {} /\ spoilt = {}

-----------------------------------------------------------------------------
(* The requests to EDGAR *)

(* A session makes a fetcher of its own, whose CIK cache is empty: it asks *)
(* for the tickers, the company's filings and the document.                *)
BeginDownload(f, n) ==
  /\ fetch[f].at = "idle" /\ Versions # used
  /\ fetch' = [fetch EXCEPT ![f] = [NoFetch EXCEPT !.at = "tickers", !.name = n]]
  /\ UNCHANGED <<vars, content, torn, spoilt>>

Follows(at) == CASE at = "tickers" -> "submissions" [] at = "submissions" -> "document"

(* 200, with what was asked for: the next request.                         *)
Answered(f) ==
  /\ fetch[f].at \in {"tickers", "submissions"}
  /\ fetch' = [fetch EXCEPT ![f].at = Follows(@), ![f].tries = 0]
  /\ UNCHANGED <<vars, content, torn, spoilt>>

(* Mutant of TooManyRequests: the attempts are not counted to the end.     *)
RetriedForEver(f) ==
  /\ fetch[f].at \in {Requests[i] : i \in 1..3}
  /\ fetch' = [fetch EXCEPT ![f].tries = (@ + 1) % MaxAttempts]
  /\ UNCHANGED <<vars, content, torn, spoilt>>

(* 429: after a pause the request is made again, unless it was the last    *)
(* attempt.                                                                *)
TooManyRequests(f) ==
  /\ fetch[f].at \in {Requests[i] : i \in 1..3}
  /\ fetch' = IF fetch[f].tries + 1 < MaxAttempts
                THEN [fetch EXCEPT ![f].tries = @ + 1]
                ELSE [fetch EXCEPT ![f] = NoFetch]
  /\ UNCHANGED <<vars, content, torn, spoilt>>

(* Another status, no such ticker or filing, no token of the limiter in    *)
(* time, or a write that fails: an exception.  What was written stays.     *)
DownloadFails(f) ==
  /\ fetch[f].at # "idle"
  /\ fetch' = [fetch EXCEPT ![f] = NoFetch]
  /\ spoilt' = IF fetch[f].at = "opened" THEN spoilt \union {fetch[f].ver}
                                         ELSE spoilt
  /\ UNCHANGED <<vars, content, torn>>

-----------------------------------------------------------------------------
(* The file *)

(* open(target, "wb").  A file of that name is truncated: the sessions     *)
(* that have it open go on writing into what is now the new version.       *)
OpenTarget(f, v) ==
  /\ fetch[f].at = "document" /\ v \in Versions \ used
  /\ LET n == fetch[f].name
     IN  /\ PutIncoming(n, v)
         /\ spoilt' = IF cur = n /\ pc \in {"parse", "partition"}
                          THEN spoilt \union {v} ELSE spoilt
         /\ fetch' = [g \in Fetchers |->
              IF g = f THEN [at |-> "opened", tries |-> 0, name |-> n, ver |-> v]
              ELSE IF fetch[g].at = "opened" /\ fetch[g].ver = incoming[n]
                THEN [fetch[g] EXCEPT !.ver = v]
              ELSE fetch[g]]
  /\ used' = used \union {v}
  /\ content' = [content EXCEPT ![v] = "empty"]
  /\ UNCHANGED <<processed, failed, side, errlog, lake, watchVars, pc, jobVars,
                 user, requeues, crashes, faults, torn>>

WriteSome(f) ==
  /\ fetch[f].at = "opened" /\ content[fetch[f].ver] = "empty"
  /\ content' = [content EXCEPT ![fetch[f].ver] = "partial"]
  /\ UNCHANGED <<vars, fetch, torn, spoilt>>

CloseTarget(f) ==
  /\ fetch[f].at = "opened"
  /\ content' = [content EXCEPT ![fetch[f].ver] = "whole"]
  /\ fetch' = [fetch EXCEPT ![f].at = "closed"]
  /\ UNCHANGED <<vars, torn, spoilt>>

WriteSidecar(f) ==
  /\ fetch[f].at = "closed"
  /\ side' = [side EXCEPT !["incoming"][FullSidecar[fetch[f].name]] = fetch[f].ver]
  /\ fetch' = [fetch EXCEPT ![f] = NoFetch]
  /\ UNCHANGED <<dirVars, errlog, lake, watchVars, pc, jobVars, userVars, crashes,
                 faults, content, torn, spoilt>>

Fetch(f) == \/ Answered(f) \/ TooManyRequests(f)
            \/ \E v \in Versions : OpenTarget(f, v)
            \/ WriteSome(f) \/ CloseTarget(f) \/ WriteSidecar(f)

-----------------------------------------------------------------------------
(* The daemon on files that are being written *)

IsOpen(n) == \E f \in Fetchers : fetch[f].at = "opened" /\ fetch[f].ver = incoming[n]

(* The detector does not take a file for finished while it is written to,  *)
(* nor when it is empty (theorem OnlyWholeFilesAreDispatched): the record  *)
(* it keeps is not that of the file when its writer is done.               *)
SampleUnfinished(n) ==
  /\ pc = "sweep" /\ n \in todo /\ n \in Existing
  /\ IsOpen(n) \/ content[incoming[n]] = "empty"
  /\ tracked' = IF content[incoming[n]] = "empty" THEN tracked
                ELSE [tracked EXCEPT ![n] = Untracked]
  /\ todo' = todo \ {n}
  /\ UNCHANGED <<dirVars, side, errlog, lake, pending, pc, jobVars, userVars,
                 crashes, faults>>

(* Mutant of SampleFinished: an open file is sampled like another.         *)
SampleAnything(n) ==
  /\ n \in Existing /\ content[incoming[n]] # "empty"
  /\ SampleCandidate(n) \/ DispatchCandidate(n)

SampleFinished(n) ==
  /\ n \in Existing /\ content[incoming[n]] # "empty" /\ ~IsOpen(n)
  /\ SampleCandidate(n) \/ DispatchCandidate(n)

(* The version the daemon reads. *)
InHand == incoming[cur]

(* Mutant of ParseEmpty: the file of 0 bytes is archived.                  *)
ParseEmptyAsDone ==
  /\ pc \in {"parse", "partition"} /\ content[InHand] = "empty"
  /\ doc' = InHand /\ pc' = "archive"
  /\ UNCHANGED <<dirVars, side, errlog, lake, watchVars, cur, meta, model, dest,
                 userVars, crashes, faults, torn>>

(* parse() raises: 0 bytes, or no parseable content.                       *)
ParseEmpty ==
  /\ pc \in {"parse", "partition"} /\ content[InHand] = "empty"
  /\ doc' = InHand /\ pc' = "reject"
  /\ UNCHANGED <<dirVars, side, errlog, lake, watchVars, cur, meta, model, dest,
                 userVars, crashes, faults, torn>>

ParseWritten ==
  /\ pc \in {"parse", "partition"} /\ content[InHand] # "empty"
  /\ ReadMetadata \/ PartitionFile
  /\ torn' = IF pc = "partition" /\ content[InHand] = "partial"
               THEN torn \union {InHand} ELSE torn

(* A user may re-queue a version that is half-written into a file that the *)
(* daemon has yet to read.                                                 *)
UserStep(u) ==
  /\ User(u)
  /\ spoilt' = IF /\ pc \in {"parse", "partition"} /\ InHand' # InHand
                  /\ content[InHand'] # "whole"
                 THEN spoilt \union {InHand'} ELSE spoilt

PipelineMoves ==
  /\ \/ ParseEmpty /\ UNCHANGED spoilt
     \/ ParseWritten /\ UNCHANGED spoilt
     \/ /\ \/ ScanIncoming
           \/ \E n \in Names : \/ DropCandidate(n)
                               \/ SampleUnfinished(n)
                               \/ SampleFinished(n)
                               \/ EnqueueCandidate(n)
           \/ EmbedChunks \/ BeginWrite \/ FinishWrite
           \/ Relocate
           \/ Failure
        /\ UNCHANGED <<torn, spoilt>>
     \/ (\E u \in Users : UserStep(u)) /\ UNCHANGED torn
  /\ UNCHANGED <<fetch, content>>

DownloadNext ==
  \/ \E f \in Fetchers : \/ \E n \in Uploadable : BeginDownload(f, n)
                         \/ Fetch(f)
                         \/ DownloadFails(f)
  \/ PipelineMoves

(* A request ends by its timeout, so a session always takes its next step. *)
DownloadSpec ==
  /\ DownloadInit /\ [][DownloadNext]_<<vars, fetchVars>>
  /\ \A f \in Fetchers : WF_<<vars, fetchVars>>(Fetch(f))
-----------------------------------------------------------------------------
(* Properties *)

(* Chunks of a half-written filing are made, and a whole filing is refused *)
(* for being empty, only of what an error left half-written or what was    *)
(* written into a file the daemon was about to read: a filing downloaded   *)
(* once and to its end is indexed whole.                                   *)
OnlySpoiltSuffer ==
  /\ torn \subseteq spoilt
  /\ \A n \in Names : failed[n] # None =>
       failed[n] \in Unparseable \union swapped \union spoilt \/ faults > 0

(* What makes it inductive.  The types of what a session keeps ...          *)
Phase == {"idle", "tickers", "submissions", "document", "opened", "closed"}

FetchTypeOK ==
  /\ fetch \in [Fetchers -> [at : Phase, tries : Nat, name : Names \union {None},
                              ver : Versions \union {None}]]
  /\ \A f \in Fetchers :
       /\ fetch[f].at # "idle" => fetch[f].name # None
       /\ fetch[f].at \in {"opened", "closed"} => fetch[f].ver \in used
  /\ content \in [Versions -> {"empty", "partial", "whole"}]

Opened(v) == \E f \in Fetchers : fetch[f].at = "opened" /\ fetch[f].ver = v

(* ... a version that is half-written is being written, or was given up, or *)
(* its file was replaced ...                                                *)
HalfWrittenInv ==
  \A v \in Versions :
    content[v] # "whole" => Opened(v) \/ v \in spoilt \union overwritten

(* ... the daemon comes to read one only if it was put under its hands ...  *)
UnreadInv ==
  pc \in {"parse", "partition"} /\ content[InHand] # "whole" => InHand \in spoilt

(* ... and refuses one for a reason.                                        *)
DownloadRefusalInv ==
  pc = "reject" =>
    InHand \in Unparseable \union swapped \union spoilt \union {None} \/ faults > 0

DownloadInv ==
  /\ JobInv /\ PlaceInv /\ UserInv /\ FetchTypeOK /\ HalfWrittenInv /\ UnreadInv
  /\ DownloadRefusalInv /\ OnlySpoiltSuffer /\ ProcessedWasIndexed

(* Whatever EDGAR answers, a download in hand comes to its end.            *)
EveryDownloadEnds ==
  \A f \in Fetchers : fetch[f].at # "idle" ~> fetch[f].at = "idle"
=============================================================================
