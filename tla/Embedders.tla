------------------------------ MODULE Embedders -----------------------------
(***************************************************************************)
(* EmbeddingRegistry and DomainEmbedder in the two processes that use      *)
(* them: the query engine, whose endpoints run in the threads of a pool    *)
(* and share the registry, its embedders and their lazily loaded models    *)
(* without a lock, and the daemon, which has one thread.  A model that     *)
(* cannot be loaded is replaced by a MockEmbedder of the same dimension,   *)
(* for good; nothing in a vector tells which of the two made it.           *)
(***************************************************************************)
EXTENDS Naturals, Sequences, FiniteSets

CONSTANTS
  Threads,       (* of the query engine's pool                             *)
  Domains,       (* the domains asked for                                  *)
  Ingested,      (* those of the documents that are ingested               *)
  Profiles,      (* of models.json                                         *)
  ProfileOf,     (* get_profile: the default one for an unknown domain     *)
  None,          (* no domain                                              *)
  MaxFailures    (* bound: models that cannot be loaded                    *)

ASSUME RegistryAssumption ==
  /\ ProfileOf \in [Domains -> Profiles] /\ None \notin Domains
  /\ Ingested \subseteq Domains
  /\ MaxFailures \in Nat

VARIABLES
  registry,    (* _GLOBAL_REGISTRY: a number, 0 for None                   *)
  instances,   (* _instances of the registries made so far                 *)
  embedders,   (* the embedders made so far, with their _model             *)
  thread,      (* what each thread is at, and its locals                   *)
  daemonModel, (* the models of the daemon's embedders                     *)
  lake,        (* the kinds of vectors stored for each domain              *)
  failures,    (* bounded counter                                          *)
  warm         (* history: profiles that were in use when all was at rest  *)

engineVars == <<registry, instances, embedders, thread, warm>>
vars == <<engineVars, daemonModel, lake, failures>>

Models == {"none", "real", "mock"}

Idle == [at |-> "idle", domain |-> None, reg |-> 0, emb |-> 0, kind |-> "none"]

(* The profile a thread needs.                                             *)
Wanted(t) == ProfileOf[thread[t].domain]

ThreadStates ==
  [at : {"idle", "registry", "construct", "bind", "lookup", "create", "fetch",
         "model", "load", "test", "return", "answer"},
   domain : Domains \union {None}, reg : 0..Len(instances), emb : 0..Len(embedders),
   kind : Models]

Embedder == [profile : Profiles, model : Models]

TypeOK ==
  /\ instances \in Seq([Profiles -> 0..Len(embedders)])
  /\ registry \in 0..Len(instances)
  /\ embedders \in Seq(Embedder)
  /\ thread \in [Threads -> ThreadStates]
  /\ daemonModel \in [Profiles -> Models]
  /\ lake \in [Domains -> SUBSET {"real", "mock"}]
  /\ failures \in 0..MaxFailures
  /\ warm \subseteq Profiles

Init ==
  /\ registry = 0 /\ instances = <<>> /\ embedders = <<>>
  /\ thread = [t \in Threads |-> Idle]
  /\ daemonModel = [p \in Profiles |-> "none"]
  /\ lake = [d \in Domains |-> {}]
  /\ failures = 0 /\ warm = {}

-----------------------------------------------------------------------------
(* A request of the query engine *)

At(t, point) == thread[t].at = point
GoTo(t, point) == thread' = [thread EXCEPT ![t].at = point]

(* search_chunks, execute_query or embed_text_endpoint is called.          *)
Request(t) ==
  /\ At(t, "idle")
  /\ \E d \in Domains : thread' = [thread EXCEPT ![t] = [Idle EXCEPT !.at = "registry", !.domain = d]]
  /\ UNCHANGED <<registry, instances, embedders, warm, daemonModel, lake, failures>>

(* Mutant of CheckRegistry: get_embedding_registry(reload=True).           *)
CheckRegistryReload(t) ==
  /\ At(t, "registry")
  /\ GoTo(t, "construct")
  /\ UNCHANGED <<registry, instances, embedders, warm, daemonModel, lake, failures>>

(* get_embedding_registry: the test,                                       *)
CheckRegistry(t) ==
  /\ At(t, "registry")
  /\ GoTo(t, IF registry = 0 THEN "construct" ELSE "bind")
  /\ UNCHANGED <<registry, instances, embedders, warm, daemonModel, lake, failures>>

(* the assignment, by every thread that found None,                        *)
ConstructRegistry(t) ==
  /\ At(t, "construct") /\ GoTo(t, "bind")
  /\ instances' = Append(instances, [p \in Profiles |-> 0])
  /\ registry' = Len(instances')
  /\ UNCHANGED <<embedders, warm, daemonModel, lake, failures>>

(* and the global is read again, to be returned.                           *)
BindRegistry(t) ==
  /\ At(t, "bind")
  /\ thread' = [thread EXCEPT ![t].at = "lookup", ![t].reg = registry]
  /\ UNCHANGED <<registry, instances, embedders, warm, daemonModel, lake, failures>>

Instance(t) == instances[thread[t].reg][Wanted(t)]

(* Mutant of LookUp: an embedder for every request.                        *)
LookUpNothing(t) ==
  /\ At(t, "lookup")
  /\ GoTo(t, "create")
  /\ UNCHANGED <<registry, instances, embedders, warm, daemonModel, lake, failures>>

(* get_embedder: the test,                                                 *)
LookUp(t) ==
  /\ At(t, "lookup")
  /\ GoTo(t, IF Instance(t) = 0 THEN "create" ELSE "fetch")
  /\ UNCHANGED <<registry, instances, embedders, warm, daemonModel, lake, failures>>

(* the assignment,                                                         *)
CreateEmbedder(t) ==
  /\ At(t, "create") /\ GoTo(t, "fetch")
  /\ embedders' = Append(embedders, [profile |-> Wanted(t), model |-> "none"])
  /\ instances' = [instances EXCEPT ![thread[t].reg][Wanted(t)] = Len(embedders')]
  /\ UNCHANGED <<registry, warm, daemonModel, lake, failures>>

(* Mutant of FetchEmbedder: the embedder made last is returned.            *)
FetchNewest(t) ==
  /\ At(t, "fetch")
  /\ thread' = [thread EXCEPT ![t].at = "model", ![t].reg = 0,
                                  ![t].emb = Len(embedders)]
  /\ UNCHANGED <<registry, instances, embedders, warm, daemonModel, lake, failures>>

(* and the dictionary is read again; the registry has served.              *)
FetchEmbedder(t) ==
  /\ At(t, "fetch")
  /\ thread' = [thread EXCEPT ![t].at = "model", ![t].reg = 0,
                                  ![t].emb = Instance(t)]
  /\ UNCHANGED <<registry, instances, embedders, warm, daemonModel, lake, failures>>

Model(t) == embedders[thread[t].emb].model

(* Mutant of CheckModel: _model is False while it is being loaded.         *)
CheckModelMarking(t) ==
  /\ At(t, "model")
  /\ GoTo(t, IF Model(t) = "none" THEN "load" ELSE "test")
  /\ embedders' = IF Model(t) = "none" THEN [embedders EXCEPT ![thread[t].emb].model = "mock"]
                                       ELSE embedders
  /\ UNCHANGED <<registry, instances, warm, daemonModel, lake, failures>>

(* _get_model: the test; whoever finds None loads the weights.             *)
CheckModel(t) ==
  /\ At(t, "model")
  /\ GoTo(t, IF Model(t) = "none" THEN "load" ELSE "test")
  /\ UNCHANGED <<registry, instances, embedders, warm, daemonModel, lake, failures>>

LoadSucceeds(t) ==
  /\ At(t, "load") /\ GoTo(t, "test")
  /\ embedders' = [embedders EXCEPT ![thread[t].emb].model = "real"]
  /\ UNCHANGED <<registry, instances, warm, daemonModel, lake, failures>>

(* _model = False, even if another thread has loaded it meanwhile.         *)
LoadFails(t) ==
  /\ failures < MaxFailures
  /\ At(t, "load") /\ GoTo(t, "test")
  /\ embedders' = [embedders EXCEPT ![thread[t].emb].model = "mock"]
  /\ failures' = failures + 1
  /\ UNCHANGED <<registry, instances, warm, daemonModel, lake>>

(* "is False" is asked of one read of _model, and another one returned; a  *)
(* False that comes of it is taken for None by the caller.                 *)
TestModel(t) ==
  /\ At(t, "test")
  /\ thread' = IF Model(t) = "mock" THEN [thread EXCEPT ![t].at = "answer", ![t].kind = "mock"]
               ELSE [thread EXCEPT ![t].at = "return"]
  /\ UNCHANGED <<registry, instances, embedders, warm, daemonModel, lake, failures>>

ReturnModel(t) ==
  /\ At(t, "return")
  /\ thread' = [thread EXCEPT ![t].at = "answer", ![t].kind = Model(t)]
  /\ UNCHANGED <<registry, instances, embedders, warm, daemonModel, lake, failures>>

(* The model a new request for the profile would find.                     *)
Current(p) ==
  IF registry = 0 \/ instances[registry][p] = 0 THEN "none"
  ELSE embedders[instances[registry][p]].model

(* The question is embedded and searched for; history: if no other thread  *)
(* is at work, what a new request would find is warm.                      *)
Answer(t) ==
  /\ At(t, "answer")
  /\ thread' = [thread EXCEPT ![t] = Idle]
  /\ warm' = IF \A u \in Threads \ {t} : At(u, "idle")
             THEN warm \union {p \in Profiles : Current(p) # "none"} ELSE warm
  /\ UNCHANGED <<registry, instances, embedders, daemonModel, lake, failures>>

(* Mutant of RestartEngine: what the threads know outlives the process.    *)
RestartEngineOnly ==
  /\ registry' = 0 /\ instances' = <<>> /\ embedders' = <<>> /\ warm' = {}
  /\ UNCHANGED <<thread, daemonModel, lake, failures>>

(* The process of the query engine ends and is started again.              *)
RestartEngine ==
  /\ registry' = 0 /\ instances' = <<>> /\ embedders' = <<>>
  /\ thread' = [t \in Threads |-> Idle] /\ warm' = {}
  /\ UNCHANGED <<daemonModel, lake, failures>>

-----------------------------------------------------------------------------
(* The daemon *)

(* process: the chunks of a document are embedded by the domain's          *)
(* embedder, which the first of them made load its model, and stored.      *)
IngestWith(d, kind) ==
  /\ daemonModel' = [daemonModel EXCEPT ![ProfileOf[d]] = kind]
  /\ lake' = [lake EXCEPT ![d] = @ \union {kind}]
  /\ UNCHANGED <<engineVars>>

Ingest(d) ==
  /\ IngestWith(d, IF daemonModel[ProfileOf[d]] = "mock" THEN "mock" ELSE "real")
  /\ UNCHANGED failures

IngestWithoutModel(d) ==
  /\ daemonModel[ProfileOf[d]] = "none" /\ failures < MaxFailures
  /\ failures' = failures + 1
  /\ IngestWith(d, "mock")

RestartDaemon ==
  /\ daemonModel' = [p \in Profiles |-> "none"]
  /\ UNCHANGED <<engineVars, lake, failures>>

Engine(t) == \/ Request(t) \/ CheckRegistry(t) \/ ConstructRegistry(t) \/ BindRegistry(t)
             \/ LookUp(t) \/ CreateEmbedder(t) \/ FetchEmbedder(t)
             \/ CheckModel(t) \/ LoadSucceeds(t) \/ LoadFails(t)
             \/ TestModel(t) \/ ReturnModel(t) \/ Answer(t)

Daemon == \/ \E d \in Ingested : Ingest(d) \/ IngestWithoutModel(d)
          \/ RestartDaemon

Next == (\E t \in Threads : Engine(t)) \/ RestartEngine \/ Daemon

Spec == Init /\ [][Next]_vars
-----------------------------------------------------------------------------
(* Properties *)

(* A thread embeds with a model of the profile its domain has, whichever   *)
(* threads made, replaced or fetched the embedder.                         *)
RightProfile ==
  \A t \in Threads : thread[t].emb # 0 => embedders[thread[t].emb].profile = Wanted(t)

(* Once a profile was in use while no thread was at work, its requests     *)
(* construct, create and load nothing more: the first requests may each    *)
(* have done so, and thrown away what another had made.                    *)
WarmStaysWarm ==
  \A t \in Threads :
    thread[t].domain # None /\ Wanted(t) \in warm =>
      thread[t].at \notin {"construct", "create", "load"}

(* And the answers to them are all of one kind.                            *)
WarmAnswersAlike ==
  \A t \in Threads :
    At(t, "answer") /\ Wanted(t) \in warm => thread[t].kind = Current(Wanted(t))

(* Unless a model could not be loaded, in either process, a question is    *)
(* compared with vectors of its own kind.                                  *)
ComparedAlike ==
  failures = 0 =>
    \A t \in Threads : At(t, "answer") => lake[thread[t].domain] \subseteq {thread[t].kind}
-----------------------------------------------------------------------------
(* The inductive invariant *)

(* An embedder stands under its profile in every registry.                 *)
RegistriesInv ==
  \A r \in DOMAIN instances, p \in Profiles :
    instances[r][p] # 0 => embedders[instances[r][p]].profile = p

(* What a thread knows at each point: where it will look there is what it  *)
(* looks for.                                                              *)
ThreadInv(t) ==
  /\ At(t, "idle") <=> thread[t].domain = None
  /\ At(t, "bind") => registry # 0
  /\ thread[t].at \in {"lookup", "create", "fetch"} <=> thread[t].reg # 0
  /\ At(t, "fetch") => Instance(t) # 0
  /\ thread[t].at \in {"model", "load", "test", "return", "answer"} <=> thread[t].emb # 0
  /\ thread[t].emb # 0 => embedders[thread[t].emb].profile = Wanted(t)
  /\ thread[t].at \in {"test", "return", "answer"} => Model(t) # "none"
  /\ At(t, "answer") <=> thread[t].kind # "none"

(* A thread that needs a warm profile is on the way to its model.          *)
WarmThreadInv(t) ==
  thread[t].domain # None /\ Wanted(t) \in warm =>
    /\ thread[t].at \notin {"create", "load"}
    /\ thread[t].reg \in {0, registry}
    /\ thread[t].emb \in {0, instances[registry][Wanted(t)]}
    /\ At(t, "answer") => thread[t].kind = Current(Wanted(t))

WarmInv ==
  /\ \A p \in warm : Current(p) # "none"
  /\ warm # {} => \A t \in Threads : ~At(t, "construct")

NoFailureInv ==
  failures = 0 =>
    /\ \A e \in DOMAIN embedders : embedders[e].model # "mock"
    /\ \A t \in Threads : thread[t].kind # "mock"
    /\ \A p \in Profiles : daemonModel[p] # "mock"
    /\ \A d \in Domains : "mock" \notin lake[d]

(* No registry loses an embedder it has, so that what a thread found there *)
(* is there when it looks again, and what is warm stays what it is.        *)
EmbeddersInv ==
  /\ TypeOK /\ RegistriesInv /\ WarmInv /\ NoFailureInv
  /\ \A t \in Threads : ThreadInv(t) /\ WarmThreadInv(t)
=============================================================================
