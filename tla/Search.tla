------------------------------- MODULE Search -------------------------------
(***************************************************************************)
(* A search of the query engine (search_chunks or execute_query over       *)
(* DuckDBLakehouseClient.search) composed with the pipeline that writes    *)
(* the parquet files it reads.  The two processes share nothing but the    *)
(* lake.  Rows are abstracted to the versions they come from: the          *)
(* predicates on them, the ranking and top_k choose among what is found.   *)
(***************************************************************************)
EXTENDS Ingestion

VARIABLES
  search,    (* point reached, and the domain asked for (None: all)         *)
  unread,    (* the files read_parquet still has to read                    *)
  found,     (* the versions whose rows are candidates                      *)
  promised,  (* history: the versions archived when the search began        *)
  wrote      (* history: a file was being written while it ran              *)

searchVars == <<search, unread, found, promised, wrote>>

Resting == {"idle", "answered", "raised"}

SearchTypeOK ==
  /\ search \in [at : Resting \union {"asked", "matched", "reading"},
                 scope : Domains \union {None}]
  /\ unread \subseteq DOMAIN lake /\ (unread # {} => search.at = "reading")
  /\ found \subseteq {lake[i].ver : i \in DOMAIN lake}
  /\ promised \subseteq used
  /\ wrote \in BOOLEAN

SearchInit ==
  /\ Init
  /\ search = [at |-> "idle", scope |-> None]
  /\ unread = {} /\ found = {} /\ promised = {} /\ wrote = FALSE

(* Mutant of QueryModel: the question is embedded for the default domain.  *)
DefaultModel == DefaultDomain

(* get_embedder: the model of the domain, of the default one if none is    *)
(* asked for.  Every profile has a dimension of its own.                   *)
QueryModel == IF search.scope = None THEN DefaultDomain ELSE search.scope

(* The directory a file lies under: its domain=... partition.              *)
Partition(i) == Domain(lake[i].meta)

(* Mutant of Matches: without a domain, the default one is searched.       *)
MatchesDefault(i) == Partition(i) = QueryModel

(* _resolve_glob_pattern: domain=<d>/**/*.parquet, or **/*.parquet.        *)
Matches(i) == search.scope \in {None, Partition(i)}

Matching == {i \in DOMAIN lake : Matches(i)}

Readable(i) == lake[i].whole /\ lake[i].model = QueryModel

BeginSearch(d) ==
  /\ search.at \in Resting
  /\ search' = [at |-> "asked", scope |-> d]
  /\ found' = {} /\ unread' = {}
  /\ promised' = {v \in used \ swapped : Stored(processed, v)}
  /\ wrote' = (pc = "writing")
  /\ UNCHANGED vars

(* The glob: without a file there is nothing to execute.                   *)
ResolvePattern ==
  /\ search.at = "asked"
  /\ search' = [search EXCEPT !.at = IF Matching = {} THEN "answered" ELSE "matched"]
  /\ UNCHANGED <<vars, unread, found, promised, wrote>>

(* read_parquet expands the pattern itself, with what is there by then.    *)
ExpandPattern ==
  /\ search.at = "matched"
  /\ unread' = Matching
  /\ search' = [search EXCEPT !.at = "reading"]
  /\ UNCHANGED <<vars, found, promised, wrote>>

(* The files are read in any order, and their vectors cast to the query's  *)
(* dimension.                                                              *)
ReadFile(i) ==
  /\ i \in unread /\ Readable(i)
  /\ unread' = unread \ {i}
  /\ found' = found \union {lake[i].ver}
  /\ UNCHANGED <<vars, search, promised, wrote>>

(* A file without its footer or a vector of another length ends the query: *)
(* only a BinderException has a fallback.                                  *)
ReadRaises(i) ==
  /\ i \in unread /\ ~Readable(i)
  /\ search' = [search EXCEPT !.at = "raised"]
  /\ unread' = {}
  /\ UNCHANGED <<vars, found, promised, wrote>>

Answer ==
  /\ search.at = "reading" /\ unread = {}
  /\ search' = [search EXCEPT !.at = "answered"]
  /\ UNCHANGED <<vars, unread, found, promised, wrote>>

SearchStep == \/ \E d \in Domains \union {None} : BeginSearch(d)
              \/ ResolvePattern
              \/ ExpandPattern
              \/ \E i \in unread : ReadFile(i) \/ ReadRaises(i)
              \/ Answer

PipelineStep ==
  /\ Next
  /\ wrote' = (wrote \/ pc' = "writing")
  /\ UNCHANGED <<search, unread, found, promised>>

SearchNext == SearchStep \/ PipelineStep

SearchSpec == SearchInit /\ [][SearchNext]_<<vars, searchVars>>
-----------------------------------------------------------------------------
(* Properties *)

(* A search that answers has looked at every document that was archived    *)
(* when it began, but for those stored under another domain.               *)
SearchMissesNothing ==
  search.at = "answered" =>
    \A v \in promised \ found :
      /\ Indexed(v) /\ search.scope # None
      /\ \A i \in DOMAIN lake : lake[i].ver = v => Partition(i) # search.scope

Mixed(i) == lake[i].model # Partition(i)

(* A search of one domain fails for a reason only: a file was written      *)
(* while it ran, a crash or an error left a torn one behind, or one of the *)
(* files has the vectors of another domain's model.                        *)
RaisedIsExplained ==
  search.at = "raised" /\ search.scope # None =>
    wrote \/ crashes + faults > 0 \/ \E i \in Matching : Mixed(i)

(* "or all domains if domain is empty" (phase-6-plan.md:149): when nothing *)
(* is written, no batch is mixed and there was no failure, a search of all *)
(* domains answers.                                                        *)
AllDomainsAnswer ==
  search.at = "raised" /\ search.scope = None =>
    wrote \/ crashes + faults > 0 \/ \E i \in DOMAIN lake : Mixed(i)
-----------------------------------------------------------------------------
(* The inductive invariant *)

(* A file that is not whole is the one being written or is left of a       *)
(* crash or an error.                                                      *)
TornInv ==
  \A i \in DOMAIN lake : ~lake[i].whole =>
    crashes + faults > 0 \/ (pc = "writing" /\ i = Len(lake))

(* What was archived when the search began stays archived and indexed, and *)
(* no file of it is added.  From the expansion of the pattern on, each of  *)
(* its files in scope was read or is about to be.                          *)
PromiseInv ==
  /\ \A v \in promised : Stored(processed, v) /\ Indexed(v)
  /\ search.at \in {"reading", "answered"} =>
       \A i \in DOMAIN lake : lake[i].ver \in promised /\ Matches(i) =>
         i \in unread \/ lake[i].ver \in found

ScopeInv ==
  /\ unread \subseteq Matching
  /\ search.at \notin Resting /\ pc = "writing" => wrote

SearchInv == SearchTypeOK /\ TornInv /\ ReadInv /\ PromiseInv /\ ScopeInv
             /\ RaisedIsExplained
=============================================================================
