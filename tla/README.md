# A verification of corpus-analyst's ingestion and retrieval core

corpus-analyst turns documents (SEC filings, manuals, literary texts) that are
dropped into a directory into chunks with embeddings in Hive-partitioned
parquet files, and answers questions over those files with DuckDB.  There is
no database and no lock between its processes: **directories and file names are
the only shared state**.  A daemon, the sessions of a user interface, an EDGAR
downloader and a query engine list, rename, replace, create and read files in
them at the same time.  What is hard about the system is what may happen
between two file operations, and that is what these models are about.

Contents: [inventory](#inventory), [hard behaviours](#hard-behaviours),
[modules](#modules), [runs](#runs), [findings](#findings), [fairness](#fairness),
[proofs](#proofs), [what is left out](#what-is-left-out), [plan](#plan).
Paths are relative to the repository.

## Inventory

| component | state | operations | talks to | correct when |
|---|---|---|---|---|
| `IngestionRunner` (`src/ingestion/runner.py`) | `_stopped`, `_initialized`, heartbeat file | `run`, `run_cycle`, `request_stop`, signal handler | drives the watcher, in the process's one main thread | a requested stop ends the loop; a cycle never skips a start that was needed; nothing is left running |
| `IncomingWatcher`, `DropDirHandler` (`src/ingestion/watcher.py`) | `_pending_files`, `_active_files`, `_observer`, `_running` | event → `enqueue_candidate`, `scan_incoming`, `process_pending`, `start`, `stop` | the detector and the lifecycle manager | every file that arrives is dispatched, once, whatever events were lost |
| `CompleteWriteDetector` (`watcher.py`) | `_tracked`: path → size, mtime, last check, unchanged samples | `is_write_complete` | reads `stat` of files others write | no half-written file is dispatched, and no finished one waits for ever |
| `LifecycleManager` (`src/ingestion/lifecycle.py`) | the directories `processed` and `failed` | `handle_file`, `atomic_move_to_processed`, `atomic_move_to_failed` | parser; files of the user interface | no document is lost, doubled or put in the wrong directory; each failure has a dead letter |
| `DocumentParser` (`src/ingestion/parser.py`) | the current section of `SectionTracker` | `process` = metadata, partitioning with fallbacks, sections, splitting, embedding, sink | splitter, embedder, sink; sidecars in `incoming` | what can be seen of a document is in its chunks; they carry its metadata, the section they stand in and the vectors of its domain's model |
| `RecursiveTokenSplitter` (`src/ingestion/splitter.py`) | none (pure) | `split_chunks`, `split_chunk`, `split_text` | token counter | nothing lost, progress, chunks within the limits |
| `EmbeddingRegistry`, `DomainEmbedder` (`src/ingestion/embedder.py`) | the global registry, its `_instances`, each embedder's `_model` | `get_embedding_registry`, `get_embedder`, `_get_model`, the fallback | parser; threads of the query engine | a question is embedded with its domain's model; stored and query vectors comparable; a race is over after the first requests |
| `ParquetSink`, storage backends (`src/ingestion/parquet_sink.py`, `src/common/storage.py`) | the lake's files | `write_chunks`, `write_bytes` | query engine | a document's chunks are in the lake once, in whole files |
| `SecFetcher`, `TokenBucketRateLimiter` (`src/ingestion/sec_fetcher.py`) | CIK cache; tokens, last update, lock | `download_filing`, `acquire` | EDGAR; writes in `incoming` | requests stay within the fair-access limit; waits within their timeout |
| `IngestionService` (`ui/components/ingestion_service.py`) | the same three directories | upload, re-queue, `scan_queue`, `get_metrics`, SEC form | daemon (through files) | a request loses nothing; a scan shows what is there |
| Query engine (`src/query_engine/`) | DuckDB connection, lake (read only) | `search`, HTTP endpoints | lake, embedder | a search never fails or misreads because a file is being written |
| Configuration, models (`src/common/config.py`, `models.py`) | cached settings | validation | all | - |
| UI views (`ui/app.py`, `ui/components/*.py`) | widget state | rendering | service, query engine | - |
| Deployment (`docker-compose.yml`, `docker/`, `scripts/`) | - | - | - | - |

How a document travels: the user interface (`os.replace` of a hidden temporary
file) or `SecFetcher` (in place) puts it in `incoming`, its sidecar
`<name>.meta.json` before or after it.  A watchdog event or the 5-second sweep
makes it a candidate; once two samples agree the daemon dispatches it.
`process` looks up the sidecar, partitions the bytes, **looks up the sidecar
again**, embeds, writes a parquet file; `handle_file` then renames what is
*now* under that name to `processed`, or to `failed` with an `.error.json`,
and the sidecars after it.  A user may re-queue a document of `failed`:
document, sidecars and log go one after the other.

## Hard behaviours

PROJECT.json lists them by line under "hazards".  In short:

* a name is checked, read, or listed, and used later (`handle_file`,
  `_resolve_unique_dest`, `scan_queue`), while others may replace what it names;
* one logical step is several file operations (document, sidecars, log; file
  creation, content), and a crash or an error may fall between any two;
* a file is finished when its `stat` stayed the same for a while: a guess about
  the writer's pauses;
* signals interrupt the main thread at any instruction, also in a handler;
* readers of the lake list, expand and read files that are being created;
* a download writes in place and may truncate a file another process reads;
* the limiter computes a wait under its lock, compares it with the timeout and sleeps
  without it, each a moment later;
* embedders and their models are loaded lazily by threads without a lock, and
  replaced by a stand-in for good when a load fails;
* partitioners fall back to others that see less of a document, and the loop over
  elements carries state (the section) from one to the next;
* one document may be written in several partitions, and a write may fail between
  two of them;
* boundary arithmetic of the splitter, at several levels of recursion.

## Modules

| module | models | composed of |
|---|---|---|
| `Ingestion` | daemon and users on the shared directories, with errors and crashes | refines `DocumentLedger` |
| `DocumentLedger` | the abstract promise: where a document is and how it may move | - |
| `Search` | a search of the query engine reading the lake while it is written | extends `Ingestion` |
| `Download` | sessions downloading filings in place into `incoming` | extends `Ingestion` |
| `QueueScan` | `scan_queue` reading the directories while they change | extends `Ingestion` |
| `WriteDetector` | `CompleteWriteDetector` in time, against an in-place writer | - |
| `RateLimiter` | `TokenBucketRateLimiter` with its callers, in time | - |
| `Runner` | the loop, the watcher's observer, the signal handlers | - |
| `Splitter` | `RecursiveTokenSplitter` on words | - |
| `Parser` | `DocumentParser.process` on a file's nodes, with the sink's partitions | extends `Splitter` |
| `Embedders` | registry, embedders and models in the two processes that use them | - |
| `IngestionProofs`, `WriteDetectorProofs`, `RateLimiterProofs`, `EmbeddersProofs`, `RunnerProofs` | theorems and proofs | extend the module they are about |
| `LakeProofs` | theorems and proofs about the parquet files of the pipeline, and the searches that read them | extends `Search` and `IngestionProofs` |
| `ServiceProofs` | theorems and proofs of scans and downloads beside the pipeline | extends `QueueScan`, `Download` and `IngestionProofs` |
| `ParserProofs` | theorems and proofs of the parser and its splitter | extends `Parser` |
| `MCIngestion`, `MCSearch`, `MCDownload`, `MCQueueScan`, `MCParser`, `MCEmbedders` | small instances for TLC | extend the module they instantiate |

Modules with a bounded instance that needs no definitions (`WriteDetector`,
`RateLimiter`, `Runner`) are checked directly.  Next to a definition stands,
where a property needs one, a *mutant* of it (marked as such, and used by no
specification): the same definition with a plausible bug, which TLC must find.

### Ingestion

State: the three directories as functions from file names to **versions** (one
version is the bytes of one upload, so that two uploads under one name differ),
the sidecars per directory (the content of a sidecar is the version that wrote
it), the dead letters, the lake as a sequence of parquet files, the watcher's
`_pending_files` and `_tracked`, the point (`pc`) and the locals of
`handle_file`/`process`, and each user's request.  A step is what the code does
between two points at which another process could change what it reads next:

| code | actions |
|---|---|
| `DropDirHandler` → `enqueue_candidate` | `EnqueueCandidate` |
| `scan_incoming`, `process_pending`, `is_write_complete` | `ScanIncoming`, `DropCandidate`, `SampleCandidate`, `DispatchCandidate` |
| `DocumentParser.process` | `ReadMetadata`, `PartitionFile`, `EmbedChunks`, then `ParquetSink` as `BeginWrite`, `FinishWrite` |
| `atomic_move_to_processed` | `ArchiveDocument`, `ArchiveSidecars` |
| `atomic_move_to_failed` | `RejectDocument`, `RejectMissing`, `RejectSidecars`, `WriteDeadLetter` |
| exceptions in any of these | `FaultWhileHandling`, `FaultWhileArchivingSidecars`, `FaultWhileRejecting` |
| death and restart of the process | `Crash` |
| `save_uploaded_file` | `UploadDocument`, `UploadSidecar` |
| `requeue_failed_file` | `RequeueDocument`, `RequeueSidecars`, `UnlinkErrorLog` |
| a request that ends half-way | `AbandonRequest` |

`used`, `overwritten`, `swapped` are history variables: which versions
arrived, which a user replaced in `incoming`, and which were put under a name
whose previous bytes the daemon had read and not yet moved.

Abstractions: the bytes of a document are accepted or not by the parser
(`Unparseable`); a name that `_resolve_unique_dest` makes up (microseconds and
a random suffix) is nobody else's; moves are renames on one volume; a
sidecar is written in one step (one that is read half-written does not parse
and counts as none, a case covered by the order of the steps); the detector is
untimed here, because a sweep samples a file once and sweeps (5 s) are further
apart than its interval (1 s); all chunks of one document go to one partition.

### DocumentLedger

A document is absent, in incoming, processed, failed or overwritten.  Arrival
(from absent or failed) may displace one document in incoming; archive and
quarantine take it from there; nothing leaves processed.  `Ingestion` maps to it
by `Places`.  `MovesFollowLedger` is the safe part, `ImplementsLedger` adds
that a document in incoming is eventually decided.

### QueueScan

`scan_queue` step by step: list a directory, test one name
(`_is_primary_file`), `stat` it, next directory; every other step is one of
`Ingestion`.  The listing of one directory is taken as a snapshot.

### Search

`search_chunks`/`execute_query`: `BeginSearch` chooses the model of the requested
domain (the default one if none), `ResolvePattern` globs and answers at once if
nothing matches, `ExpandPattern` is the second expansion, by `read_parquet`,
`ReadFile` and `ReadRaises` read one file each, in any order, and `Answer` ends
it.  A file is readable if it is whole and its vectors have the query's
dimension; each domain's model has a dimension of its own (384, 768, 1024 in
`models.json`), so that the model stands for it.  Other predicates, ranking and
`top_k` choose among the candidates and are left out.  One search at a time:
searches share no state but the lake, which they only read.

### Download

`execute_sec_fetch` with `SecFetcher`: three requests, each tried up to three
times (`Answered`, `TooManyRequests`), then `OpenTarget` (which truncates a file
of that name), `WriteSome`, `CloseTarget`, `WriteSidecar`; `DownloadFails` at any
point.  A session has a fetcher of its own, so its CIK cache is empty.  A file is empty,
partial or whole, and `SampleUnfinished` restricts the daemon's sampling to what
theorem `OnlyWholeFilesAreDispatched` says of the detector: an open file is
not taken for finished (its writers pause less than the stability window), an
empty one never.  `torn` and `spoilt` are history: what was read half-written,
and what an error left so or was put into a file dispatched and not yet read, by a
download or by a user who re-queues a document (`UserStep`).

### WriteDetector

One path, in ticks.  A writer opens, appends and closes in place; others rename
a finished file over it (with an mtime of its own) or remove it.  The detector's
branches are `SkipSample`, `FirstSample`, `EarlySample`, `ChangedSample`,
`StableSample` and `Dispatch`.  Assumptions about the world are constants:
a writer pauses at most `MaxPause`, the path is sampled at least every `Period`.

### RateLimiter

Under the lock a caller finds its tokens (`Grant`) or computes how long they will
take (`ComeShort`).  What follows has no lock, and between any two steps time may
pass and others may take tokens: the comparison with the timeout, by another reading
of the clock (`Refuse`, `Stay`), the beginning of the sleep (`Sleep`), its
end and the return to the lock (`Wake`).  Tokens are counted in units of which a
tick adds `Rate`, so that the fractional refill of the code is exact.
`OpenWindow` starts counting grants at an arbitrary moment.  `delay` is history:
the ticks in which a caller could have gone on and did not, for want of the
processor or of the lock.

### Runner

The main thread from `run`'s test to its sleep, with `start` cut at each
assignment, and a stack of signal handlers, each at an instruction of
`request_stop` and `stop`: Python runs a handler between two bytecodes of the
main thread, and a second signal interrupts the first handler.

### Splitter

A text is a sequence of words with a length, a token count (one for a word of
letters, one per mark for punctuation) and the level of the delimiter that
follows.  The characters are numbered, so that a slice is an interval and
"nothing lost" is an equation of sets.  Table delimiters are a longer hierarchy
of the same kind.

The recursion is a stack, `calls`, with a record of the locals of
`_split_text_with_delimiters` for each call at work; only the innermost moves:

| code | actions |
|---|---|
| `split_chunk`, the first test of `split_text` | `SplitChunk` |
| loop over `raw_splits`, with the recursive call | `CutPiece` |
| character slicing of a text without delimiters | `SliceWord` |
| merging loop with the overlap it keeps | `MergeUnit` |
| the last window, `return` to the call before or to `split_chunk` | `ReturnCall` |
| loop of `split_chunks` | `ReadElement`, `EmitChunks` (composed by `Parser`) |

### Parser

`DocumentParser.process` on one file after the other.  A file is a sequence of
*nodes*: tables, text in a tag that `_native_partition_html` looks for, and
loose text; each may be blank and may begin like a heading.  The nodes of a JSON
object are its fields, with the names `_partition_file` looks up or another, and
with values that may be falsy; those of an array are its items, and a scalar is one
node.  `Whole` stands for what is one text of a whole file: an object dumped
because it has no content, and the undecoded bytes of a binary file.

| code | actions |
|---|---|
| `parse`: empty file, format by suffix | `OpenDocument` |
| the JSON branch of `_partition_file` | `PartitionJson` |
| `unstructured`'s partitioners, its strategies for PDF | `LibraryReturns`, `FastStrategyRaises` |
| `_native_partition_html`, `_native_partition_text` | `LibraryRaises` |
| the loop over `raw_elements` with `SectionTracker` | `ParseElement`, `EndOfElements` |
| `split_chunks`, `split_chunk` | `TakeChunk`, `Split` (the step of `Splitter`), `EmitPieces`, `EndOfChunks` |
| `embed_chunks` | `EmbedChunks` |
| `write_chunks`: grouping, one file per group, its errors | `GroupChunks`, `WritePartition`, `WriteRaises` |

The library is external: it is assumed to return every node that shows text, or
to raise.  Without a filing date `resolve_date` asks for the day chunk by chunk,
so that midnight may fall between two of them.  `native` is history.

### Embedders

The query engine's endpoints run in the threads of a pool; the daemon has one
thread.  `get_embedding_registry`, `get_embedder` and `_get_model` are cut at
each read and each write of what the threads share (`CheckRegistry`,
`ConstructRegistry`, `BindRegistry`; `LookUp`, `CreateEmbedder`,
`FetchEmbedder`; `CheckModel`, `LoadSucceeds`/`LoadFails`, `TestModel`,
`ReturnModel`, `Answer`).  Registries and embedders are numbered as they are
made, so that a thread may hold one that was replaced.  A vector is `real` or
`mock`; both processes may restart.  `warm` is history: the profiles that were
in use at a moment when no thread was at work.

## Runs

Every passing run is exhaustive within its bounds.  The type invariants are parts
of the inductive invariants (`PipelineInv` rests on one, `RunnerInv`,
`EmbeddersInv` and `SearchInv` contain one) and are proved; no run repeats them.

| run | bounds | shows |
|---|---|---|
| `pipeline` | 2 versions (one unparseable) under one name and a made-up one, 2 users, 2 samples, 1 crash, 1 error, 1 re-queue | safety of the whole pipeline; the steps of documents are the ledger's |
| `progress` | 3 versions (two unparseable) under one name and two made-up ones, 1 user, 1 crash | every document leaves `incoming`; the ledger with its fairness; dead letters of documents that were renamed |
| `search` | 2 versions of two domains, 1 user, 1 crash, 1 error | an answer is complete; why a search of one domain may fail |
| `download` | 2 sessions, 2 versions (one unparseable), 1 user, 1 re-queue, no error of the daemon, 2 attempts per request | only spoilt files are read half-written or refused as empty; nothing empty is archived; downloads end |
| `queue_scan` | 2 versions, 1 user, 1 re-queue | the monitor misses nothing and counts nothing as both outcomes |
| `write_detector` | 13 ticks, interval 2, two checks, pauses up to 3 (one less than the window) | no half-written file is dispatched; a finished one within its deadline |
| `rate_limiter` | 2 callers, 7 ticks, a timeout of 3, a request costs 1.5 ticks of inflow | grants bounded from any moment on; a call ends within its timeout, but for the time it was held up, and is refused only if its tokens would not be there by then |
| `runner` | 3 signals, 2 failing starts | observer and flag agree; clean stop unless it raced a start; a stop is obeyed |
| `parser` | all texts of up to 5 words of 1 or 7 letters (or up to 3 with runs of marks) under three delimiters, overlap 0 to 2, limits of 3 tokens and 6 characters; files of up to 3 nodes in every format, objects of up to 3 fields of any name, with a value or a falsy one | splitting: nothing lost, progress, a bound on the excess; parsing: what the partitioner in use looks for is kept, in its section, numbered, written once; what is refused showed nothing that is looked for |
| `embedders` | 2 threads, 2 domains with one profile each of which one is the default, 1 failed load, any number of restarts | the right model; the race ends; real and stand-in vectors meet only after a failed load |
| `mixed_model`, `search_all` | as above, without failures | each the counterexample of one [finding](#findings) |

Why these bounds are enough to be interesting.  A race on a name needs two
versions and one name, a race on a re-queue one refused document, a collision
in a target directory two documents under one name and a generated name; a
second crash or error adds no new kind of step, because the daemon's memory is
empty after the first.  In `write_detector` 13 ticks hold an aborted file, a
second one and the full deadline of (2+1)·(2+1) = 9 ticks for it.  Three
signals let a second handler interrupt the first and a third one follow when
they have returned.  Texts of five words under three delimiters contain every
nesting of two levels with a word on each side, and words of seven characters
need three slices.  Three nodes hold a table
between two runs of text, or a heading, a blank element and a paragraph.  Two
threads show every race of the registry, as each step reads or writes one
variable; `EmbeddersProofs` has any number of them.

The deadlock check is off where a bound on time ends the run (`WriteDetector`,
`RateLimiter`); elsewhere no state is without a step.

## Findings

Each is a run that violates what a document of the repository says.

* `mixed_model`: `process` resolves the metadata twice (`parser.py:308`, `539`);
  a sidecar that arrives in between gives chunks of one domain vectors of
  another's model and dimension.
* `search_all`: a search without a domain reads every partition and casts all
  vectors to the dimension of the default domain's model
  (`duckdb_client.py:188`); with documents of two domains it always fails.

The models show weaker points that no run of its own is spent on; for each there
is a property that does hold, and says how far the code can be relied on:

| weak point | what holds |
|---|---|
| a document put under the name of the one being processed is archived without having been read (`lifecycle.py:249`) | `ProcessedWasIndexed`: no other is |
| document and sidecar part: the sidecars are looked up by the incoming name after the document moved (`lifecycle.py:185`) | - |
| a full bucket and the refill of the same second exceed ten requests in one second (`sec_fetcher.py:73`, against `phase-3-plan.md:23`) | `BurstPlusRate` |
| the kept overlap makes chunks beyond the token limit (`splitter.py:186`, against `splitter.py:238` and `phase-4-ing04-plan.md:47`) | `ExcessIsBounded`: by the overlap and a delimiter at most |
| slices of runs of punctuation have up to three times the tokens allowed (`splitter.py:116`) | `ExcessIsBounded` for other texts |
| the native HTML fallback drops loose text between two tables if there is any tag it knows, and refuses a page that has no other (`parser.py:424`) | `VisibleTextIsKept`, `RefusedIsExplained`: but for that |
| a binary file for which no partitioner is left is read as text and indexed (`parser.py:476`) | `VisibleTextIsKept`: as that text, and instead of what it shows |
| of a JSON object with a content only that and a title are read: a second content and every other field are dropped without a word (`parser.py:494`) | `VisibleTextIsKept`: of an object `Fields` are kept, and the whole of one without a content |
| a JSON object whose title and content are blank is refused, whatever else it has (`parser.py:498`) | `RefusedIsExplained`: only then |
| a model that cannot be loaded is replaced by hashed vectors until the process ends, and nothing in the lake tells them apart (`embedder.py:199`) | `ComparedAlike`: only then; `WarmAnswersAlike`: never in mid-service |
| a document without a filing date is split in two partitions at midnight; if the second write fails, the rows of the first stay (`parquet_sink.py:169`) | `RowsMatchOutcome`: only of such a document, and never all of them |
| the sink writes where `storage.local_path` says, the query engine reads where `paths.lake_path` does (`storage.py:185`) | - |
| a stop during the watcher's start leaves the observer, a daemon thread, running (`runner.py:146`) | `CleanUnlessLate` |
| a document moved between test and `stat` makes a refresh raise (`ingestion_service.py:184`) | `NothingMissed` of the scans that end |
| a write that fails leaves half a filing, which is ingested (`sec_fetcher.py:325`) | `OnlySpoiltSuffer` |
| a torn parquet file left by a crash fails every later search of its domain (`storage.py:90`) | `RaisedIsExplained`, `TornFilesAreAccounted` |

## Fairness

`Ingestion!FairSpec` has `WF_vars(Daemon)`: the runner's loop is one thread
without waits other than its sleep, so that it takes its next step as long as
the process lives; after a crash the process is started again.  Events, users,
errors and crashes owe nothing: `EveryFileLeavesIncoming` must not rely on an
event.  `Runner!FairSpec` has weak fairness of the main thread and of the
handler that interrupts it; a join returns because it has a timeout, and the
end of an observer's thread is not assumed.  `DocumentLedger!Spec` promises
decisions of documents that stay in incoming.  `Download!DownloadSpec` has
weak fairness of each session's next step: requests have a timeout of 30 s, the
limiter one of 5 s.  No other run uses fairness.

## Proofs

TLAPS proves, for every value of the constants that satisfies their
assumptions (`ConstantsAssumption`, `TimingAssumption`, `LimiterAssumption`,
`RegistryAssumption`, `BoundsAssumption`, `AttemptsAssumption`,
`SettingsAssumption`, `TextsAssumption`, `DocumentsAssumption`):

* `IngestionProofs`: `TypeOK`, `Conservation`, `ProcessedWasIndexed`,
  `FailedWasRefused`, `FailedHasDeadLetter`, and `MovesFollowLedger`: the
  pipeline implements `DocumentLedger` (safe part).
* `LakeProofs`: `ReadInv` and `LakeInv`, and from them `DuplicatesAreAccounted`
  and `TornFilesAreAccounted`; `SearchInv`, and from it `SearchMissesNothing` and
  `RaisedIsExplained`.
* `ServiceProofs`: `ScanInv`, and from it `NothingMissed` and `ResolvedOnce`;
  `DownloadInv`, and from it `OnlySpoiltSuffer`, `Conservation`,
  `ProcessedWasIndexed` and `MovesFollowLedger` of the pipeline with downloads.
* `ParserProofs`: `SplitterInv`, `BoundInv` and `ParserInv`, and from them
  `NothingLost`, `EachChunkAdvances`, `ExcessIsBounded`, `VisibleTextIsKept`,
  `SectionsFollowHeadings`, `PiecesAreNumbered`, `RowsMatchOutcome`,
  `RefusedIsExplained`.
* `WriteDetectorProofs`: `TypeOK`, `DetectorInv`, and `OnlyWholeFilesDispatched`
  from the hypothesis `PausesAreShort`; `TimeInv`, and from it
  `DispatchedInTime`.
* `RateLimiterProofs`: `TypeOK`, `Budget`, `BurstPlusRate`; `TimeoutInv`, and
  from it `TimeoutIsKept`.
* `EmbeddersProofs`: `EmbeddersInv`, and from it `RightProfile`, `WarmStaysWarm`,
  `WarmAnswersAlike`, `ComparedAlike`.
* `RunnerProofs`: `RunnerInv`, and from it `RunningIsObserved`,
  `NoObserverLost`, `CleanUnlessLate`.

**The pipeline's invariant.**  None of the properties is inductive.  That what is
archived was indexed depends on what the daemon knew when it got to the move:
`JobInv` says, for each point of `handle_file`, that the file is still there
(no one but the daemon takes files out of incoming; users replace them), that
its bytes are those read or noted as swapped, and from the archive point on that
what was read is in a whole parquet file.  That a move creates no second copy depends
on names: `PlaceInv` adds to `Conservation` that no version stands under two names
of one directory, and that only used versions stand anywhere.  `UserInv` ties the requests on the way to
their names and to the re-queue counter.  `PipelineInv` is the conjunction;
there is one lemma per process that it is kept, resting on lemmas about the
three kinds of moves (`ArchiveMoves`, `RejectMoves`, `ArrivalMoves`).  The
refinement then needs only that `Places` can be read off the state
(`PlaceIs`) and one lemma per move that it is a step of the ledger.

**The detector.**  `DetectorInv`: the recorded mtime is `count` intervals older
than the last check.  At the threshold the file has been quiet for
`Checks * Interval`; an open file has not, if pauses are short.  `TimeInv`: the
first sample after the file was last touched is accepted within an interval and
a sweep period, and from there the record's `count` is the number of such
deadlines used up (`StableInTime`, `RecordInTime`), which stops at `Checks`.

**The parquet files.**  A second file for a document needs the document to
leave the path between its first file and the archive, and only an error or a
crash does that.  `LakeInv` makes that a count: `Unsettled` are the documents
with a file that may get another one, and the files and these are together no
more than the documents with a file and the failures.  `UnsettledStay` says that
a step that writes no file unsettles at most the document at hand, and then is
a failure; `BeginWriteSettles` that a second file uses up an unsettled document.

**A scan of the queue.**  The directories are read in the order in which the
daemon moves documents.  So a document that no user moves and that is not listed
is ahead of the scan (`Ahead`), in the listing or in a directory still to be
read, and a move by the daemon keeps it there (`ListedInv`).  One listed as
processed stays in processed, which is why it is not in failed when that is
read (`SettledInv`).

**The limiter.**  `Budget`: what was granted since the window opened plus what is
in the bucket is at most the capacity plus the inflow up to the last update.
`TimeoutInv` follows a caller from step to step, whatever the others do meanwhile:
once it has compared, the rest of its wait ends by the timeout and its `delay`;
before that, the wait it computed still tells how far the bucket is from its cost
(`WaitTells`), because it was the shortest (`SleepTimeIsShortest`), a tick that adds
tokens is a tick of delay (`TickKeepsTimeout`), and the others only take
(`OthersOnlyTake`).

**The registry.**  No thread takes an embedder out of a registry, so that what a
thread found is there when it reads again, though it may be another one
(`ThreadInv`, `RegistriesInv`).  The race ends because a thread about to
construct a registry has found none: as long as there is such a thread no profile
is warm (`WarmInv`), and the threads that come later find what is warm
(`WarmThreadInv`).  `NoFailureInv` follows a stand-in from the failed load to
the vectors.  `ThreadMoves` is the one lemma about a step of a single thread.

**The runner.**  Handlers form a stack, and only the topmost moves; `RunnerInv`
speaks of what any handler of the stack is at (`HandlerAt`), and the lemmas
`HandlerStarts`, `TopMoves` and `TopReturns` say how that changes.  During a
start no handler is past its test of the running flag (`StartInv`); a flag without a live
observer has a handler on its way to clear it (`ObserverInv`); a stop that was
not late leaves the main thread out of the start for good (`StopInv`).

**A search over the pipeline.**  `SearchSpec` implies `Spec` (a search writes
nothing), so that the pipeline's invariant and `ProcessedWasIndexed` hold of the
composition.  What was archived when the search began is indexed by
`ProcessedWasIndexed`, stays archived, and no file is added for it, as the
document being written is still in incoming or was overwritten (`ReadInv` with
`Conservation`): so the files listed by the second expansion are all there will
be (`PromiseInv`).  A torn file is the one being written or was left by a
failure (`TornInv`), and the former has been noted since the search began
(`ScopeInv`).

**Downloads.**  A step of `Download` is one of `Ingestion` under a further guard,
or puts a version into incoming like an upload (`OpenTarget`), so that `JobInv`,
`PlaceInv` and `UserInv` are kept by the lemmas about the pipeline's own steps.
On top of them, what is half-written has a session that writes it, was given up
or was replaced (`HalfWrittenInv`).  The detector dispatches a file with none of
these, so that the daemon has one in hand before it reads it only if it was
put there after the dispatch, and that is what `spoilt` records (`UnreadInv`).

**The splitter.**  One invariant of the whole stack.  Of a call, what is to be
cut, what was cut, the window and the chunks done follow each other in the text
(`CallOrder`), and its loops follow each other (`CallPhase`).  Between calls,
what an inner call has in hand lies after the units of each outer one and before
the rest of its text (`Nested`); so what is returned can be appended to the units in
order.  `NothingLost` needs that the characters in the hands of all calls are
always those of the text; `EachChunkAdvances` that a window ends beyond the chunk it
was kept from, which is so because a unit is added to it at once (`MergeUnit`),
and that a slice advances even if the overlap is as long as a slice (`Advance`).
The recursion is in the behaviour, not in an operator: so no induction over the text
is needed.

`ExcessIsBounded` has an invariant of its own (`BoundInv`), for texts without
runs of marks, since a slice of such a run is not within the limit to begin with.
A unit of a call at level *l* is within the limit plus an overlap and a delimiter
for every level finer than *l* (`Bounded`): it fits, or it was merged by calls at
those levels, or it is a slice, which fits.  Merging at *l* adds at most one more,
for a window that is closed was within the limit when its last unit was added,
or is a single unit, or a single unit after an overlap and one delimiter; so what
a call returns is bounded one level up (`Reach`).  That fits the units of the call
it returns to because every piece handed to an inner call has only finer
delimiters than that call's, so the levels of the stack rise.  Tokens and lengths are sums
over words: `UpTo` makes them functions of the prefixes of a text, and what the
proof needs of them (that sums grow, agree on a common prefix, and that joining two
texts adds a delimiter) is shown by taking the least prefix at which it would fail
(`Climb`, `SumsExist`), since the library's induction theorems have an operator as
parameter.

**The parser.**  `ParserInv` says what each stage has of the one before: the
elements are those `Sought` (`Found`; for JSON, `FieldsRead` says that the loops
over names read the fields with no value under a name before theirs), the first of them are parsed, with the
heading last seen (`ParsedTo`), the first of the chunks are split, numbered and
complete (`EmittedTo`, which takes `NothingLost` from the splitter), and each of them
is in one group (`Grouped`).

**Only model-checked**: liveness (`EveryFileLeavesIncoming`, the fairness part of
`ImplementsLedger`, `StopIsObeyed`, `EveryDownloadEnds`), which is out of the
prover's reach.  Every invariant and every action property of the passing runs is
stated by a theorem.

## What is left out

* White space at the ends of a text or repeated within it, which splitting strips:
  so that the single slice which `split_chunk` discards for the chunk it had
  (`splitter.py:259`) is always the whole of the text.
* A sidecar that is renamed on its own, as its name is taken in the directory it moves
  to, no longer ends like one (`lifecycle.py:170`), so that a scan counts it as a
  document and a user may re-queue it.  In the models no document looks for its new
  name, and so it is gone.
* What `unstructured` finds in a document, the wording that makes a line a
  heading, the text of tables, the lineage fields of chunks: data to the models.
* The Azure backend: its calls are those of a cloud service, and the deployment
  uses the local one.
* HTTP, SQL text, ranking and `top_k`, the SQL console and lake statistics of the
  query engine, which read the lake as a search does.
* Configuration and models: declarations, and validation of one record at a time.
* UI views: rendering.  The state behind the ingestion page is `IngestionService`.
* The heartbeat file and the container's health check; deployment files.
* Several daemons on one directory: the deployment has one.
* Errors of the file system other than those the code catches, and power loss
  (a file system that reorders writes).

## Plan

1. *Done*: all modules of the table, and their proofs.
2. Lemmas for the liveness properties, which the runs check: what each step
   decreases (the words a splitter has in hand, the unfinished sessions of a
   download), so that only the fairness argument is left to TLC.
