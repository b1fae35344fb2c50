--------------------------- MODULE EmbeddersProofs --------------------------
(***************************************************************************)
(* Theorems about Embedders, for any number of threads, domains and        *)
(* profiles.  An action of the query engine moves one thread, and at most  *)
(* one registry or one embedder with it.  ThreadMoves leaves for those     *)
(* that change nothing but the thread what they do to that thread; the     *)
(* other actions have to show too that no thread loses what it holds.      *)
(***************************************************************************)
EXTENDS Embedders, SequenceTheorems, TLAPS

USE RegistryAssumption

(* A thread at work has a domain, and its domain a profile.                *)
LEMMA WantedType ==
  ASSUME EmbeddersInv, NEW t \in Threads, ~At(t, "idle")
  PROVE  thread[t].domain \in Domains /\ Wanted(t) \in Profiles
BY DEF EmbeddersInv, TypeOK, ThreadStates, ThreadInv, At, Wanted

(* What a thread that moves alone has to keep.                             *)
Rest == <<registry, instances, embedders, warm, daemonModel, lake, failures>>

LEMMA ThreadMoves ==
  ASSUME EmbeddersInv, NEW t \in Threads, NEW s \in ThreadStates,
         thread' = [thread EXCEPT ![t] = s], UNCHANGED Rest,
         ThreadInv(t)', WarmThreadInv(t)',
         failures = 0 => s.kind # "mock",
         s.at = "construct" => warm = {}
  PROVE  EmbeddersInv'
<1>1. \A u \in Threads : u # t => thread'[u] = thread[u]
  BY DEF EmbeddersInv, TypeOK
<1>2. thread'[t] = s
  BY DEF EmbeddersInv, TypeOK
<1>3. TypeOK'
  BY DEF EmbeddersInv, TypeOK, ThreadStates, Rest
<1>4. RegistriesInv'
  BY DEF EmbeddersInv, RegistriesInv, Rest
<1>5. WarmInv'
  BY <1>1, <1>2 DEF EmbeddersInv, WarmInv, Current, At, Rest
<1>6. NoFailureInv'
  BY <1>1, <1>2 DEF EmbeddersInv, NoFailureInv, Rest
<1>7. ASSUME NEW u \in Threads PROVE (ThreadInv(u) /\ WarmThreadInv(u))'
  <2>1. CASE u = t
    BY <2>1
  <2>2. CASE u # t
    <3>1. thread'[u] = thread[u] BY <1>1, <2>2
    <3>2. ThreadInv(u)'
      BY <3>1 DEF EmbeddersInv, ThreadInv, At, Instance, Wanted, Model, Rest
    <3>3. WarmThreadInv(u)'
      BY <3>1 DEF EmbeddersInv, WarmThreadInv, At, Wanted, Current, Rest
    <3>4. QED BY <3>2, <3>3
  <2>3. QED BY <2>1, <2>2
<1>8. QED
  BY <1>3, <1>4, <1>5, <1>6, <1>7 DEF EmbeddersInv

(* What a thread finds where it looks, and that what is warm is what a     *)
(* thread that needs it has in hand.                                       *)
LEMMA InstanceInHand ==
  ASSUME EmbeddersInv, NEW t \in Threads, thread[t].reg # 0
  PROVE  /\ thread[t].reg \in DOMAIN instances /\ Instance(t) \in 0..Len(embedders)
         /\ Instance(t) # 0 => embedders[Instance(t)].profile = Wanted(t)
         /\ Wanted(t) \in warm => Instance(t) = instances[registry][Wanted(t)]
<1>1. thread[t].reg \in DOMAIN instances /\ ~At(t, "idle")
  <2>1. thread[t] \in ThreadStates /\ ThreadInv(t) /\ DOMAIN instances = 1..Len(instances)
    BY DEF EmbeddersInv, TypeOK
  <2>2. QED  BY <2>1 DEF ThreadStates, ThreadInv, At
<1>2. instances[thread[t].reg] \in [Profiles -> 0..Len(embedders)] /\ Wanted(t) \in Profiles
  BY <1>1, WantedType DEF EmbeddersInv, TypeOK
<1>3. Wanted(t) \in warm => thread[t].reg = registry
  BY <1>1 DEF EmbeddersInv, WarmThreadInv, ThreadInv, At
<1>4. QED
  BY <1>1, <1>2, <1>3 DEF EmbeddersInv, RegistriesInv, Instance

LEMMA ModelInHand ==
  ASSUME EmbeddersInv, NEW t \in Threads, thread[t].emb # 0
  PROVE  /\ thread[t].emb \in DOMAIN embedders
         /\ embedders[thread[t].emb] \in Embedder
         /\ Model(t) \in Models
         /\ failures = 0 => Model(t) # "mock"
         /\ Wanted(t) \in warm => Model(t) = Current(Wanted(t))
<1>1. thread[t].emb \in DOMAIN embedders /\ ~At(t, "idle")
  <2>1. thread[t] \in ThreadStates /\ ThreadInv(t) /\ DOMAIN embedders = 1..Len(embedders)
    BY DEF EmbeddersInv, TypeOK
  <2>2. QED  BY <2>1 DEF ThreadStates, ThreadInv, At
<1>2. embedders[thread[t].emb] \in Embedder
  <2>1. embedders \in Seq(Embedder)
    BY DEF EmbeddersInv, TypeOK
  <2>2. QED  BY <1>1, <2>1, ElementOfSeq
<1>3. ASSUME Wanted(t) \in warm PROVE Model(t) = Current(Wanted(t))
  <2>1. Current(Wanted(t)) # "none"
    BY <1>3 DEF EmbeddersInv, WarmInv
  <2>2. thread[t].emb = instances[registry][Wanted(t)]
    BY <1>1, <1>3 DEF EmbeddersInv, WarmThreadInv, ThreadInv, At
  <2>3. QED  BY <2>1, <2>2 DEF Current, Model
<1>4. QED
  BY <1>1, <1>2, <1>3 DEF EmbeddersInv, NoFailureInv, Model, Embedder

-----------------------------------------------------------------------------
(* The actions of a thread that change nothing but its own state *)

(* A registry is constructed only if there is none, so nothing is warm.    *)
LEMMA CheckRegistryKeeps ==
  ASSUME EmbeddersInv, NEW t \in Threads, CheckRegistry(t)
  PROVE  EmbeddersInv'
<1> DEFINE s == [thread[t] EXCEPT !.at = IF registry = 0 THEN "construct" ELSE "bind"]
<1>1. thread[t] \in ThreadStates /\ Wanted(t) \in Profiles /\ ThreadInv(t) /\ WarmThreadInv(t)
  BY WantedType DEF CheckRegistry, At, EmbeddersInv, TypeOK
<1>2. s \in ThreadStates
  BY <1>1 DEF CheckRegistry, ThreadStates, At, EmbeddersInv, TypeOK
<1>3. thread' = [thread EXCEPT ![t] = s] /\ thread'[t] = s /\ UNCHANGED Rest
  BY <1>1 DEF CheckRegistry, GoTo, EmbeddersInv, TypeOK, Rest
<1>4. ThreadInv(t)'
  BY <1>1, <1>3 DEF CheckRegistry, ThreadInv, ThreadStates, At, Instance, Wanted, Model, Rest
<1>5. WarmThreadInv(t)'
  BY <1>1, <1>3 DEF CheckRegistry, WarmThreadInv, ThreadInv, ThreadStates, At, Wanted, Instance,
       Current, Model, Rest, EmbeddersInv, WarmInv
<1>6. (failures = 0 => s.kind # "mock") /\ (s.at = "construct" => warm = {})
  BY <1>1 DEF CheckRegistry, At, EmbeddersInv, NoFailureInv, WarmInv, Current
<1>7. QED
  BY <1>2, <1>3, <1>4, <1>5, <1>6, ThreadMoves

(* Every thread binds the registry that is global now.                     *)
LEMMA BindRegistryKeeps ==
  ASSUME EmbeddersInv, NEW t \in Threads, BindRegistry(t)
  PROVE  EmbeddersInv'
<1> DEFINE s == [thread[t] EXCEPT !.at = "lookup", !.reg = registry]
<1>1. thread[t] \in ThreadStates /\ Wanted(t) \in Profiles /\ ThreadInv(t) /\ WarmThreadInv(t)
  BY WantedType DEF BindRegistry, At, EmbeddersInv, TypeOK
<1>2. s \in ThreadStates
  BY <1>1 DEF BindRegistry, ThreadStates, At, EmbeddersInv, TypeOK
<1>3. thread' = [thread EXCEPT ![t] = s] /\ thread'[t] = s /\ UNCHANGED Rest
  BY <1>1 DEF BindRegistry, GoTo, EmbeddersInv, TypeOK, Rest
<1>4. ThreadInv(t)'
  BY <1>1, <1>3 DEF BindRegistry, ThreadInv, ThreadStates, At, Instance, Wanted, Model, Rest
<1>5. WarmThreadInv(t)'
  BY <1>1, <1>3 DEF BindRegistry, WarmThreadInv, ThreadInv, ThreadStates, At, Wanted, Instance,
       Current, Model, Rest, EmbeddersInv, WarmInv
<1>6. (failures = 0 => s.kind # "mock") /\ (s.at = "construct" => warm = {})
  BY <1>1 DEF BindRegistry, At, EmbeddersInv, NoFailureInv, WarmInv, Current
<1>7. QED
  BY <1>2, <1>3, <1>4, <1>5, <1>6, ThreadMoves

(* A thread that needs what is warm finds it.                              *)
LEMMA LookUpKeeps ==
  ASSUME EmbeddersInv, NEW t \in Threads, LookUp(t)
  PROVE  EmbeddersInv'
<1> DEFINE s == [thread[t] EXCEPT !.at = IF Instance(t) = 0 THEN "create" ELSE "fetch"]
<1>1. thread[t] \in ThreadStates /\ Wanted(t) \in Profiles /\ ThreadInv(t) /\ WarmThreadInv(t)
  BY WantedType DEF LookUp, At, EmbeddersInv, TypeOK
<1>2. Wanted(t) \in warm => Instance(t) # 0
  BY <1>1, InstanceInHand DEF LookUp, ThreadInv, At, EmbeddersInv, WarmInv, Current
<1>3. s \in ThreadStates
  BY <1>1, <1>2 DEF LookUp, ThreadStates, At, EmbeddersInv, TypeOK
<1>4. thread' = [thread EXCEPT ![t] = s] /\ thread'[t] = s /\ UNCHANGED Rest
  BY <1>1, <1>2 DEF LookUp, GoTo, EmbeddersInv, TypeOK, Rest
<1>5. ThreadInv(t)'
  BY <1>1, <1>2, <1>4 DEF LookUp, ThreadInv, ThreadStates, At, Instance, Wanted, Model, Rest
<1>6. WarmThreadInv(t)'
  BY <1>1, <1>2, <1>4 DEF LookUp, WarmThreadInv, ThreadInv, ThreadStates, At, Wanted, Instance,
       Current, Model, Rest, EmbeddersInv, WarmInv
<1>7. (failures = 0 => s.kind # "mock") /\ (s.at = "construct" => warm = {})
  BY <1>1, <1>2 DEF LookUp, At, EmbeddersInv, NoFailureInv, WarmInv, Current
<1>8. QED
  BY <1>3, <1>4, <1>5, <1>6, <1>7, ThreadMoves

(* What is fetched is the embedder of the profile, the warm one if any.    *)
LEMMA FetchEmbedderKeeps ==
  ASSUME EmbeddersInv, NEW t \in Threads, FetchEmbedder(t)
  PROVE  EmbeddersInv'
<1> DEFINE s == [thread[t] EXCEPT !.at = "model", !.reg = 0, !.emb = Instance(t)]
<1>1. thread[t] \in ThreadStates /\ Wanted(t) \in Profiles /\ ThreadInv(t) /\ WarmThreadInv(t)
  BY WantedType DEF FetchEmbedder, At, EmbeddersInv, TypeOK
<1>2. /\ Instance(t) \in 1..Len(embedders) /\ embedders[Instance(t)].profile = Wanted(t)
      /\ Wanted(t) \in warm => Instance(t) = instances[registry][Wanted(t)]
  BY <1>1, InstanceInHand DEF FetchEmbedder, ThreadInv, At
<1>3. s \in ThreadStates
  <2>1. Len(embedders) \in Nat /\ Len(instances) \in Nat
    BY DEF EmbeddersInv, TypeOK
  <2>2. /\ 0 \in 0..Len(instances) /\ Instance(t) \in 0..Len(embedders)
        /\ thread[t].domain \in Domains \union {None} /\ thread[t].kind \in Models
    BY <1>1, <1>2, <2>1 DEF ThreadStates
  <2>3. [thread[t] EXCEPT !.at = "model"] \in ThreadStates
    BY <1>1 DEF ThreadStates
  <2>4. [thread[t] EXCEPT !.at = "model", !.reg = 0] \in ThreadStates
    BY <2>2, <2>3 DEF ThreadStates
  <2>5. QED  BY <2>2, <2>4 DEF ThreadStates
<1>4. thread' = [thread EXCEPT ![t] = s] /\ thread'[t] = s /\ UNCHANGED Rest
  BY <1>1, <1>2 DEF FetchEmbedder, GoTo, EmbeddersInv, TypeOK, Rest
<1>5. ThreadInv(t)'
  BY <1>1, <1>2, <1>4 DEF FetchEmbedder, ThreadInv, ThreadStates, At, Instance, Wanted, Model, Rest
<1>6. WarmThreadInv(t)'
  BY <1>1, <1>2, <1>4 DEF FetchEmbedder, WarmThreadInv, ThreadInv, ThreadStates, At, Wanted, Instance,
       Current, Model, Rest, EmbeddersInv, WarmInv
<1>7. (failures = 0 => s.kind # "mock") /\ (s.at = "construct" => warm = {})
  BY <1>1, <1>2 DEF FetchEmbedder, At, EmbeddersInv, NoFailureInv, WarmInv, Current
<1>8. QED
  BY <1>3, <1>4, <1>5, <1>6, <1>7, ThreadMoves

(* Only a model that is not there is loaded.                               *)
LEMMA CheckModelKeeps ==
  ASSUME EmbeddersInv, NEW t \in Threads, CheckModel(t)
  PROVE  EmbeddersInv'
<1> DEFINE s == [thread[t] EXCEPT !.at = IF Model(t) = "none" THEN "load" ELSE "test"]
<1>1. thread[t] \in ThreadStates /\ Wanted(t) \in Profiles /\ ThreadInv(t) /\ WarmThreadInv(t)
  BY WantedType DEF CheckModel, At, EmbeddersInv, TypeOK
<1>2. s \in ThreadStates
  BY <1>1 DEF CheckModel, ThreadStates, At, EmbeddersInv, TypeOK
<1>3. thread' = [thread EXCEPT ![t] = s] /\ thread'[t] = s /\ UNCHANGED Rest
  BY <1>1 DEF CheckModel, GoTo, EmbeddersInv, TypeOK, Rest
<1>4. ThreadInv(t)'
  BY <1>1, <1>3 DEF CheckModel, ThreadInv, ThreadStates, At, Instance, Wanted, Model, Rest
<1>5. WarmThreadInv(t)'
  BY <1>1, <1>3 DEF CheckModel, WarmThreadInv, ThreadInv, ThreadStates, At, Wanted, Instance,
       Current, Model, Rest, EmbeddersInv, WarmInv
<1>6. (failures = 0 => s.kind # "mock") /\ (s.at = "construct" => warm = {})
  BY <1>1 DEF CheckModel, At, EmbeddersInv, NoFailureInv, WarmInv, Current
<1>7. QED
  BY <1>2, <1>3, <1>4, <1>5, <1>6, ThreadMoves

(* Both reads of _model give what the embedder has at the time.            *)
LEMMA TestModelKeeps ==
  ASSUME EmbeddersInv, NEW t \in Threads, TestModel(t)
  PROVE  EmbeddersInv'
<1> DEFINE s == IF Model(t) = "mock" THEN [thread[t] EXCEPT !.at = "answer", !.kind = "mock"]
                ELSE [thread[t] EXCEPT !.at = "return"]
<1>1. thread[t] \in ThreadStates /\ Wanted(t) \in Profiles /\ ThreadInv(t) /\ WarmThreadInv(t)
  BY WantedType DEF TestModel, At, EmbeddersInv, TypeOK
<1>2. Model(t) \in Models /\ (failures = 0 => Model(t) # "mock") /\ Model(t) # "none"
      /\ (Wanted(t) \in warm => Model(t) = Current(Wanted(t)))
  BY <1>1, ModelInHand DEF TestModel, ThreadInv, At
<1>3. s \in ThreadStates
  BY <1>1, <1>2 DEF TestModel, ThreadStates, At, EmbeddersInv, TypeOK
<1>4. thread' = [thread EXCEPT ![t] = s] /\ thread'[t] = s /\ UNCHANGED Rest
  BY <1>1, <1>2 DEF TestModel, GoTo, EmbeddersInv, TypeOK, Rest
<1>5. ThreadInv(t)'
  BY <1>1, <1>2, <1>4 DEF TestModel, ThreadInv, ThreadStates, At, Instance, Wanted, Model, Rest
<1>6. WarmThreadInv(t)'
  <2>1. /\ s.domain = thread[t].domain /\ s.reg = thread[t].reg /\ s.emb = thread[t].emb
        /\ s.at \in {"answer", "return"}
        /\ s.at = "answer" => s.kind = Model(t)
    BY <1>1, <1>2 DEF ThreadStates
  <2>2. Wanted(t)' = Wanted(t) /\ \A p \in Profiles : Current(p)' = Current(p)
    BY <1>4, <2>1 DEF Wanted, Current, Rest
  <2>3. QED  BY <1>1, <1>2, <1>4, <2>1, <2>2 DEF WarmThreadInv, At, Rest
<1>7. (failures = 0 => s.kind # "mock") /\ (s.at = "construct" => warm = {})
  BY <1>1, <1>2 DEF TestModel, At, EmbeddersInv, NoFailureInv, WarmInv, Current
<1>8. QED
  BY <1>3, <1>4, <1>5, <1>6, <1>7, ThreadMoves

(* A model once set is never None again.                                   *)
LEMMA ReturnModelKeeps ==
  ASSUME EmbeddersInv, NEW t \in Threads, ReturnModel(t)
  PROVE  EmbeddersInv'
<1> DEFINE s == [thread[t] EXCEPT !.at = "answer", !.kind = Model(t)]
<1>1. thread[t] \in ThreadStates /\ Wanted(t) \in Profiles /\ ThreadInv(t) /\ WarmThreadInv(t)
  BY WantedType DEF ReturnModel, At, EmbeddersInv, TypeOK
<1>2. Model(t) \in Models /\ (failures = 0 => Model(t) # "mock") /\ Model(t) # "none"
      /\ (Wanted(t) \in warm => Model(t) = Current(Wanted(t)))
  BY <1>1, ModelInHand DEF ReturnModel, ThreadInv, At
<1>3. s \in ThreadStates
  BY <1>1, <1>2 DEF ReturnModel, ThreadStates, At, EmbeddersInv, TypeOK
<1>4. thread' = [thread EXCEPT ![t] = s] /\ thread'[t] = s /\ UNCHANGED Rest
  BY <1>1, <1>2 DEF ReturnModel, GoTo, EmbeddersInv, TypeOK, Rest
<1>5. ThreadInv(t)'
  BY <1>1, <1>2, <1>4 DEF ReturnModel, ThreadInv, ThreadStates, At, Instance, Wanted, Model, Rest
<1>6. WarmThreadInv(t)'
  BY <1>1, <1>2, <1>4 DEF ReturnModel, WarmThreadInv, ThreadInv, ThreadStates, At, Wanted, Instance,
       Current, Model, Rest, EmbeddersInv, WarmInv
<1>7. (failures = 0 => s.kind # "mock") /\ (s.at = "construct" => warm = {})
  BY <1>1, <1>2 DEF ReturnModel, At, EmbeddersInv, NoFailureInv, WarmInv, Current
<1>8. QED
  BY <1>3, <1>4, <1>5, <1>6, <1>7, ThreadMoves

LEMMA IdleType ==
  ASSUME TypeOK
  PROVE  Idle \in ThreadStates
<1>1. 0 \in 0..Len(instances) /\ 0 \in 0..Len(embedders)
  BY DEF TypeOK
<1>2. QED  BY <1>1 DEF Idle, ThreadStates, Models

(* A request starts with nothing in hand.                                  *)
LEMMA RequestKeeps ==
  ASSUME EmbeddersInv, NEW t \in Threads, Request(t)
  PROVE  EmbeddersInv'
<1>1. PICK d \in Domains :
        thread' = [thread EXCEPT ![t] = [Idle EXCEPT !.at = "registry", !.domain = d]]
  BY DEF Request
<1> DEFINE s == [Idle EXCEPT !.at = "registry", !.domain = d]
<1>2. s.at = "registry" /\ s.domain = d /\ s.reg = 0 /\ s.emb = 0 /\ s.kind = "none"
  BY DEF Idle
<1>3. s \in ThreadStates
  <2>1. Idle \in ThreadStates
    BY IdleType DEF EmbeddersInv
  <2>2. [Idle EXCEPT !.at = "registry"] \in ThreadStates
    BY <2>1 DEF ThreadStates
  <2>3. QED  BY <2>2 DEF ThreadStates
<1>4. thread'[t] = s
  BY <1>1 DEF EmbeddersInv, TypeOK
<1>5. UNCHANGED Rest
  BY DEF Request, Rest
<1>6. ThreadInv(t)'
  BY <1>2, <1>4 DEF ThreadInv, At
<1>7. WarmThreadInv(t)'
  BY <1>2, <1>4 DEF WarmThreadInv, At
<1>8. QED
  BY <1>1, <1>2, <1>3, <1>5, <1>6, <1>7, ThreadMoves

-----------------------------------------------------------------------------
(* The actions that make or change a registry or an embedder *)

(* A new registry is constructed while nothing is warm; no thread has it   *)
(* yet, and what the others hold is where it was.                          *)
LEMMA ConstructRegistryKeeps ==
  ASSUME EmbeddersInv, NEW t \in Threads, ConstructRegistry(t)
  PROVE  EmbeddersInv'
<1> DEFINE empty == [p \in Profiles |-> 0]
<1>1. instances' = Append(instances, empty) /\ registry' = Len(instances')
      /\ UNCHANGED <<embedders, warm, daemonModel, lake, failures>>
  BY DEF ConstructRegistry
<1>2. /\ Len(embedders) \in Nat /\ Len(instances) \in Nat
      /\ empty \in [Profiles -> 0..Len(embedders)]
  BY DEF EmbeddersInv, TypeOK
<1>3. /\ instances' \in Seq([Profiles -> 0..Len(embedders)])
      /\ Len(instances') = Len(instances) + 1
      /\ \A r \in DOMAIN instances : instances'[r] = instances[r]
      /\ instances'[Len(instances) + 1] = empty
  BY <1>1, <1>2, AppendProperties DEF EmbeddersInv, TypeOK
<1>4. warm = {}
  BY DEF EmbeddersInv, WarmInv, ConstructRegistry
<1>5. thread[t] \in ThreadStates /\ ThreadInv(t) /\ At(t, "construct")
  BY DEF ConstructRegistry, EmbeddersInv, TypeOK
<1> DEFINE s == [thread[t] EXCEPT !.at = "bind"]
<1>6. /\ thread' = [thread EXCEPT ![t] = s] /\ thread'[t] = s
      /\ \A u \in Threads : u # t => thread'[u] = thread[u]
  BY DEF ConstructRegistry, GoTo, EmbeddersInv, TypeOK
<1>7. TypeOK'
  <2>1. 0..Len(instances) \subseteq 0..Len(instances') /\ UNCHANGED embedders
    BY <1>1, <1>2, <1>3
  <2>2. ThreadStates \subseteq ThreadStates'
    BY <2>1 DEF ThreadStates
  <2>3. s \in ThreadStates
    BY <1>5 DEF ThreadStates
  <2>4. thread' \in [Threads -> ThreadStates']
    BY <1>6, <2>2, <2>3 DEF EmbeddersInv, TypeOK
  <2>5. registry' \in 0..Len(instances')
    BY <1>1, <1>2, <1>3
  <2>6. QED  BY <1>1, <1>3, <2>4, <2>5 DEF EmbeddersInv, TypeOK
<1>8. RegistriesInv'
  BY <1>1, <1>2, <1>3 DEF EmbeddersInv, TypeOK, RegistriesInv
<1>9. WarmInv' /\ NoFailureInv'
  BY <1>1, <1>4, <1>6 DEF EmbeddersInv, WarmInv, NoFailureInv
<1>10. ASSUME NEW u \in Threads PROVE (ThreadInv(u) /\ WarmThreadInv(u))'
  <2>1. CASE u = t
    BY <1>1, <1>2, <1>3, <1>4, <1>5, <1>6, <2>1 DEF ThreadInv, WarmThreadInv, ThreadStates, At
  <2>2. CASE u # t
    <3>1. thread'[u] = thread[u] /\ thread[u] \in ThreadStates /\ ThreadInv(u)
      BY <1>6, <2>2 DEF EmbeddersInv, TypeOK
    <3>2. thread[u].reg # 0 => instances'[thread[u].reg] = instances[thread[u].reg]
      BY <1>2, <1>3, <3>1 DEF ThreadStates, EmbeddersInv, TypeOK
    <3>3. registry' # 0
      BY <1>1, <1>2, <1>3
    <3>4. QED
      BY <1>1, <1>4, <3>1, <3>2, <3>3 DEF ThreadInv, WarmThreadInv, At, Instance, Wanted, Model
  <2>3. QED  BY <2>1, <2>2
<1>11. QED
  BY <1>7, <1>8, <1>9, <1>10 DEF EmbeddersInv

(* What is warm has an embedder in the global registry.                    *)
LEMMA WarmIsThere ==
  ASSUME EmbeddersInv, NEW p \in warm
  PROVE  /\ p \in Profiles /\ registry \in DOMAIN instances
         /\ instances[registry] \in [Profiles -> 0..Len(embedders)]
         /\ instances[registry][p] \in DOMAIN embedders
         /\ embedders[instances[registry][p]].profile = p
         /\ Current(p) = embedders[instances[registry][p]].model
<1>1. p \in Profiles /\ Current(p) # "none"
  BY DEF EmbeddersInv, TypeOK, WarmInv
<1>2. registry # 0 /\ instances[registry][p] # 0
  BY <1>1 DEF Current
<1>3. registry \in DOMAIN instances
  BY <1>2 DEF EmbeddersInv, TypeOK
<1>4. instances[registry] \in [Profiles -> 0..Len(embedders)]
  BY <1>3 DEF EmbeddersInv, TypeOK
<1>5. instances[registry][p] \in DOMAIN embedders
  BY <1>1, <1>2, <1>4 DEF EmbeddersInv, TypeOK
<1>6. QED
  BY <1>1, <1>2, <1>3, <1>4, <1>5 DEF EmbeddersInv, RegistriesInv, Current

(* A new embedder is put where it is missing, so not for what is warm; a   *)
(* thread that was about to fetch there gets the new one or the old.       *)
LEMMA CreateEmbedderKeeps ==
  ASSUME EmbeddersInv, NEW t \in Threads, CreateEmbedder(t)
  PROVE  EmbeddersInv'
<1> DEFINE r == thread[t].reg
           p == Wanted(t)
           new == [profile |-> p, model |-> "none"]
           s == [thread[t] EXCEPT !.at = "fetch"]
<1>1. /\ thread[t] \in ThreadStates /\ ThreadInv(t) /\ WarmThreadInv(t) /\ At(t, "create")
      /\ p \in Profiles /\ thread[t].domain # None
  BY WantedType DEF CreateEmbedder, EmbeddersInv, TypeOK, At, ThreadInv
<1>2. r \in DOMAIN instances /\ p \notin warm
  BY <1>1, InstanceInHand DEF ThreadInv, WarmThreadInv, At
<1>3. /\ embedders' = Append(embedders, new)
      /\ instances' = [instances EXCEPT ![r][p] = Len(embedders')]
      /\ UNCHANGED <<registry, warm, daemonModel, lake, failures>>
  BY DEF CreateEmbedder
<1>4. Len(embedders) \in Nat /\ Len(instances) \in Nat /\ new \in Embedder
  BY <1>1 DEF EmbeddersInv, TypeOK, Embedder, Models
<1>5. /\ embedders' \in Seq(Embedder) /\ Len(embedders') = Len(embedders) + 1
      /\ \A e \in DOMAIN embedders : embedders'[e] = embedders[e]
      /\ embedders'[Len(embedders')] = new
  BY <1>3, <1>4, AppendProperties DEF EmbeddersInv, TypeOK
<1>6. \A i \in DOMAIN instances : instances[i] \in [Profiles -> 0..Len(embedders)]
  BY DEF EmbeddersInv, TypeOK
<1>7. /\ DOMAIN instances' = DOMAIN instances /\ Len(instances') = Len(instances)
      /\ \A i \in DOMAIN instances, q \in Profiles :
           instances'[i][q] = IF i = r /\ q = p THEN Len(embedders') ELSE instances[i][q]
  BY <1>1, <1>2, <1>3, <1>6 DEF EmbeddersInv, TypeOK
<1>8. instances' \in Seq([Profiles -> 0..Len(embedders')])
  <2> DEFINE R == [Profiles -> 0..Len(embedders')]
             row == [instances[r] EXCEPT ![p] = Len(embedders')]
  <2>1. \A i \in 1..Len(instances) : instances[i] \in R
    BY <1>4, <1>5, <1>6
  <2>2. instances \in Seq(R)
    BY <2>1, SeqMonotonic, <1>4, <1>5 DEF EmbeddersInv, TypeOK
  <2>3. row \in R
    <3>1. instances[r] \in R
      BY <1>2, <2>1, <2>2
    <3>2. Len(embedders') \in 0..Len(embedders')
      BY <1>4, <1>5
    <3>3. QED  BY <3>1, <3>2
  <2>4. instances' = [instances EXCEPT ![r] = row]
    BY <1>3
  <2> HIDE DEF R, row
  <2>5. r \in 1..Len(instances)
    BY <1>2, <2>2
  <2>6. instances' \in Seq(R)
    BY <2>2, <2>3, <2>4, <2>5, ExceptSeq
  <2>7. QED  BY <2>6 DEF R
<1>9. /\ thread' = [thread EXCEPT ![t] = s] /\ thread'[t] = s
      /\ \A u \in Threads : u # t => thread'[u] = thread[u]
  BY DEF CreateEmbedder, GoTo, EmbeddersInv, TypeOK
<1>10. TypeOK'
  <2>1. 0..Len(embedders) \subseteq 0..Len(embedders') /\ Len(instances') = Len(instances)
    BY <1>4, <1>5, <1>7
  <2>2. ThreadStates \subseteq ThreadStates'
    BY <2>1 DEF ThreadStates
  <2>3. s \in ThreadStates
    BY <1>1 DEF ThreadStates
  <2>4. thread' \in [Threads -> ThreadStates']
    BY <1>9, <2>2, <2>3 DEF EmbeddersInv, TypeOK
  <2>5. QED  BY <1>3, <1>5, <1>7, <1>8, <2>4 DEF EmbeddersInv, TypeOK
<1>11. RegistriesInv'
  <2> SUFFICES ASSUME NEW i \in DOMAIN instances, NEW q \in Profiles, instances'[i][q] # 0
               PROVE  embedders'[instances'[i][q]].profile = q
    BY <1>7 DEF RegistriesInv
  <2>1. CASE i = r /\ q = p
    BY <1>5, <1>7, <2>1
  <2>2. CASE ~(i = r /\ q = p)
    <3>1. instances'[i][q] = instances[i][q]
      BY <1>7, <2>2
    <3>2. instances[i][q] \in DOMAIN embedders
      BY <1>4, <1>6, <3>1 DEF EmbeddersInv, TypeOK
    <3>3. QED  BY <1>5, <3>1, <3>2 DEF EmbeddersInv, RegistriesInv
  <2>3. QED  BY <2>1, <2>2
<1>12. ASSUME NEW q \in warm
       PROVE  instances'[registry][q] = instances[registry][q] /\ Current(q)' = Current(q)
  <2>1. /\ q \in Profiles /\ registry \in DOMAIN instances
        /\ instances[registry][q] \in DOMAIN embedders
    BY WarmIsThere
  <2>2. instances'[registry][q] = instances[registry][q]
    BY <1>2, <1>7, <2>1
  <2>3. QED  BY <1>3, <1>5, <2>1, <2>2 DEF Current
<1>13. WarmInv'
  BY <1>3, <1>9, <1>12 DEF EmbeddersInv, WarmInv, At
<1>14. NoFailureInv'
  <2>1. \A e \in DOMAIN embedders' : e \in DOMAIN embedders \/ embedders'[e] = new
    BY <1>4, <1>5 DEF EmbeddersInv, TypeOK
  <2>2. QED
    BY <1>3, <1>5, <1>9, <2>1 DEF EmbeddersInv, NoFailureInv
<1>15. ASSUME NEW u \in Threads PROVE (ThreadInv(u) /\ WarmThreadInv(u))'
  <2>1. CASE u = t
    <3>1. Instance(t)' = Len(embedders')
      BY <1>1, <1>2, <1>7, <1>9 DEF Instance, Wanted
    <3>2. /\ thread'[t].at = "fetch" /\ thread'[t].domain = thread[t].domain
          /\ thread'[t].reg = r /\ thread'[t].emb = thread[t].emb
          /\ thread'[t].kind = thread[t].kind /\ Wanted(t)' = p
      BY <1>1, <1>9 DEF ThreadStates, Wanted
    <3>3. ThreadInv(t)'
      BY <1>1, <1>4, <1>5, <3>1, <3>2 DEF ThreadInv, At
    <3>4. WarmThreadInv(t)'
      BY <1>2, <1>3, <3>2 DEF WarmThreadInv
    <3>5. QED  BY <2>1, <3>3, <3>4
  <2>2. CASE u # t
    <3>1. thread'[u] = thread[u] /\ thread[u] \in ThreadStates /\ ThreadInv(u) /\ WarmThreadInv(u)
      BY <1>9, <2>2 DEF EmbeddersInv, TypeOK
    <3>2. ASSUME thread[u].reg # 0, Instance(u) # 0 PROVE Instance(u)' # 0
      <4>1. thread[u].reg \in DOMAIN instances /\ Wanted(u) \in Profiles
        BY <3>1, <3>2, InstanceInHand, WantedType DEF ThreadInv, At
      <4>2. QED  BY <1>4, <1>5, <1>7, <3>1, <3>2, <4>1 DEF Instance, Wanted
    <3>3. thread[u].emb # 0 => embedders'[thread[u].emb] = embedders[thread[u].emb]
      BY <1>5, ModelInHand
    <3>4. ThreadInv(u)'
      BY <1>3, <3>1, <3>2, <3>3 DEF ThreadInv, At, Wanted, Model
    <3>5. WarmThreadInv(u)'
      BY <1>3, <1>12, <3>1 DEF WarmThreadInv, At, Wanted
    <3>6. QED  BY <3>4, <3>5
  <2>3. QED  BY <2>1, <2>2
<1>16. QED
  BY <1>10, <1>11, <1>13, <1>14, <1>15 DEF EmbeddersInv

(* A model is loaded, or replaced, in an embedder that is not warm: the    *)
(* thread that does so would not be there otherwise.                       *)
LEMMA LoadKeeps ==
  ASSUME EmbeddersInv, NEW t \in Threads, NEW m \in {"real", "mock"},
         At(t, "load"), GoTo(t, "test"),
         embedders' = [embedders EXCEPT ![thread[t].emb].model = m],
         failures' \in 0..MaxFailures, failures' = 0 => failures = 0 /\ m = "real",
         UNCHANGED <<registry, instances, warm, daemonModel, lake>>
  PROVE  EmbeddersInv'
<1> DEFINE x == thread[t].emb
           new == [embedders[x] EXCEPT !.model = m]
           s == [thread[t] EXCEPT !.at = "test"]
<1>1. /\ thread[t] \in ThreadStates /\ ThreadInv(t) /\ WarmThreadInv(t)
      /\ Wanted(t) \in Profiles /\ thread[t].domain # None
  BY WantedType DEF EmbeddersInv, TypeOK, At, ThreadInv
<1>2. /\ x \in DOMAIN embedders /\ embedders[x] \in Embedder
      /\ embedders[x].profile = Wanted(t) /\ Wanted(t) \notin warm
  BY <1>1, ModelInHand DEF ThreadInv, WarmThreadInv, At
<1>3. new \in Embedder /\ new.profile = embedders[x].profile /\ new.model = m
  BY <1>2 DEF Embedder, Models
<1>4. /\ embedders' \in Seq(Embedder) /\ Len(embedders') = Len(embedders)
      /\ DOMAIN embedders' = DOMAIN embedders
      /\ \A e \in DOMAIN embedders : embedders'[e] = IF e = x THEN new ELSE embedders[e]
  <2>1. embedders' = [embedders EXCEPT ![x] = new]
    OBVIOUS
  <2>2. embedders \in Seq(Embedder) /\ x \in 1..Len(embedders)
    BY <1>2 DEF EmbeddersInv, TypeOK
  <2>3. embedders' \in Seq(Embedder) /\ Len(embedders') = Len(embedders)
    BY <1>3, <2>1, <2>2, ExceptSeq
  <2>4. QED  BY <2>1, <2>2, <2>3
<1>5. \A e \in DOMAIN embedders : embedders'[e].profile = embedders[e].profile
  BY <1>3, <1>4
<1>6. \A i \in DOMAIN instances : instances[i] \in [Profiles -> 0..Len(embedders)]
  BY DEF EmbeddersInv, TypeOK
<1>7. /\ thread' = [thread EXCEPT ![t] = s] /\ thread'[t] = s
      /\ \A u \in Threads : u # t => thread'[u] = thread[u]
  BY DEF GoTo, EmbeddersInv, TypeOK
<1>8. TypeOK'
  <2>1. s \in ThreadStates /\ ThreadStates' = ThreadStates
    BY <1>1, <1>4 DEF ThreadStates
  <2>2. thread' \in [Threads -> ThreadStates']
    BY <1>7, <2>1 DEF EmbeddersInv, TypeOK
  <2>3. QED  BY <1>4, <2>2 DEF EmbeddersInv, TypeOK
<1>9. RegistriesInv'
  BY <1>5, <1>6 DEF EmbeddersInv, RegistriesInv, TypeOK
<1>10. ASSUME NEW q \in warm PROVE Current(q)' = Current(q)
  BY <1>2, <1>4, WarmIsThere DEF Current
<1>11. WarmInv'
  BY <1>7, <1>10 DEF EmbeddersInv, WarmInv, At
<1>12. NoFailureInv'
  BY <1>1, <1>3, <1>4, <1>7 DEF EmbeddersInv, NoFailureInv, ThreadStates
<1>13. ASSUME NEW u \in Threads PROVE (ThreadInv(u) /\ WarmThreadInv(u))'
  <2>1. CASE u = t
    <3>1. /\ thread'[t].at = "test" /\ thread'[t].domain = thread[t].domain
          /\ thread'[t].reg = thread[t].reg /\ thread'[t].emb = x
          /\ thread'[t].kind = thread[t].kind /\ Wanted(t)' = Wanted(t)
      BY <1>1, <1>7 DEF ThreadStates, Wanted
    <3>2. Model(t)' = m /\ embedders'[x].profile = Wanted(t)
      BY <1>2, <1>3, <1>4, <3>1 DEF Model
    <3>3. ThreadInv(t)'
      BY <1>1, <3>1, <3>2 DEF ThreadInv, At
    <3>4. WarmThreadInv(t)'
      BY <1>2, <3>1 DEF WarmThreadInv
    <3>5. QED  BY <2>1, <3>3, <3>4
  <2>2. CASE u # t
    <3>1. thread'[u] = thread[u] /\ ThreadInv(u) /\ WarmThreadInv(u)
      BY <1>7, <2>2 DEF EmbeddersInv
    <3>2. thread[u].emb # 0 => /\ embedders'[thread[u].emb].profile = embedders[thread[u].emb].profile
                               /\ Model(u) # "none" => Model(u)' # "none"
      BY <1>3, <1>4, <1>5, <3>1, ModelInHand DEF Model
    <3>3. ThreadInv(u)'
      BY <3>1, <3>2 DEF ThreadInv, At, Wanted, Instance
    <3>4. WarmThreadInv(u)'
      BY <1>10, <3>1 DEF WarmThreadInv, At, Wanted
    <3>5. QED  BY <3>3, <3>4
  <2>3. QED  BY <2>1, <2>2
<1>14. QED
  BY <1>8, <1>9, <1>11, <1>12, <1>13 DEF EmbeddersInv

-----------------------------------------------------------------------------
(* Answers and restarts *)

(* A profile becomes warm only when no thread has anything in hand.        *)
LEMMA AnswerKeeps ==
  ASSUME EmbeddersInv, NEW t \in Threads, Answer(t)
  PROVE  EmbeddersInv'
<1>1. /\ thread' = [thread EXCEPT ![t] = Idle] /\ thread'[t] = Idle
      /\ UNCHANGED <<registry, instances, embedders, daemonModel, lake, failures>>
      /\ \A u \in Threads : u # t => thread'[u] = thread[u]
  BY DEF Answer, EmbeddersInv, TypeOK
<1>2. /\ warm' \subseteq Profiles /\ warm \subseteq warm'
      /\ \A p \in warm' : Current(p) # "none"
      /\ warm' = warm \/ \A u \in Threads : thread'[u].at = "idle"
  BY <1>1 DEF Answer, EmbeddersInv, TypeOK, WarmInv, At, Idle
<1>3. \A p \in Profiles : Current(p)' = Current(p)
  BY <1>1 DEF Current
<1>4. TypeOK'
  <2>1. thread' \in [Threads -> ThreadStates] /\ ThreadStates' = ThreadStates
    BY <1>1, IdleType DEF EmbeddersInv, TypeOK, ThreadStates
  <2>2. QED  BY <1>1, <1>2, <2>1 DEF EmbeddersInv, TypeOK
<1>5. RegistriesInv'
  BY <1>1 DEF EmbeddersInv, RegistriesInv
<1>6. WarmInv'
  BY <1>1, <1>2, <1>3 DEF EmbeddersInv, WarmInv, At, Idle
<1>7. NoFailureInv'
  BY <1>1 DEF EmbeddersInv, NoFailureInv, Idle
<1>8. ASSUME NEW u \in Threads PROVE (ThreadInv(u) /\ WarmThreadInv(u))'
  <2>1. CASE u = t
    BY <1>1, <2>1 DEF ThreadInv, WarmThreadInv, Idle, At
  <2>2. CASE u # t
    <3>1. thread'[u] = thread[u] /\ ThreadInv(u) /\ WarmThreadInv(u)
      BY <1>1, <2>2 DEF EmbeddersInv
    <3>2. ThreadInv(u)'
      BY <1>1, <3>1 DEF ThreadInv, At, Wanted, Instance, Model
    <3>3. CASE thread'[u].at = "idle"
      BY <3>2, <3>3 DEF ThreadInv, WarmThreadInv, At
    <3>4. CASE warm' = warm
      <4>1. WarmThreadInv(u)'
        BY <1>1, <1>2, <3>1, <3>4 DEF WarmThreadInv, At, Wanted, Current
      <4>2. QED  BY <3>2, <4>1
    <3>5. QED  BY <1>2, <3>2, <3>3, <3>4
  <2>3. QED  BY <2>1, <2>2
<1>9. QED
  BY <1>4, <1>5, <1>6, <1>7, <1>8 DEF EmbeddersInv

LEMMA InitKeeps ==
  ASSUME Init
  PROVE  EmbeddersInv
<1>1. \A S : <<>> \in Seq(S) /\ Len(<<>>) = 0
  BY EmptySeq
<1>2. Idle \in ThreadStates
  BY <1>1 DEF Init, Idle, ThreadStates, Models
<1>3. TypeOK
  BY <1>1, <1>2 DEF Init, TypeOK, Models
<1>4. RegistriesInv /\ WarmInv /\ NoFailureInv
  BY DEF Init, RegistriesInv, WarmInv, NoFailureInv, Idle
<1>5. \A t \in Threads : ThreadInv(t) /\ WarmThreadInv(t)
  BY DEF Init, ThreadInv, WarmThreadInv, Idle, At
<1>6. QED  BY <1>3, <1>4, <1>5 DEF EmbeddersInv

(* Nothing of the engine outlives its process.                             *)
LEMMA RestartEngineKeeps ==
  ASSUME EmbeddersInv, RestartEngine
  PROVE  EmbeddersInv'
<1>1. \A S : <<>> \in Seq(S) /\ Len(<<>>) = 0
  BY EmptySeq
<1>2. Idle \in ThreadStates'
  BY <1>1 DEF RestartEngine, Idle, ThreadStates, Models
<1>3. TypeOK'
  BY <1>1, <1>2 DEF RestartEngine, EmbeddersInv, TypeOK
<1>4. RegistriesInv' /\ WarmInv'
  BY DEF RestartEngine, RegistriesInv, WarmInv
<1>5. NoFailureInv'
  BY DEF RestartEngine, EmbeddersInv, NoFailureInv, Idle
<1>6. \A t \in Threads : (ThreadInv(t) /\ WarmThreadInv(t))'
  BY DEF RestartEngine, ThreadInv, WarmThreadInv, Idle, At
<1>7. QED  BY <1>3, <1>4, <1>5, <1>6 DEF EmbeddersInv

(* The daemon shares nothing with the engine but the lake.                 *)
LEMMA DaemonKeeps ==
  ASSUME EmbeddersInv, Daemon
  PROVE  EmbeddersInv'
<1>1. UNCHANGED engineVars
  BY DEF Daemon, Ingest, IngestWithoutModel, IngestWith, RestartDaemon
<1>2. /\ daemonModel' \in [Profiles -> Models] /\ lake' \in [Domains -> SUBSET {"real", "mock"}]
      /\ failures' \in 0..MaxFailures
      /\ failures' = 0 => failures = 0
      /\ (failures' = 0 /\ NoFailureInv) =>
           /\ \A p \in Profiles : daemonModel'[p] # "mock"
           /\ \A d \in Domains : "mock" \notin lake'[d]
  <2>1. TypeOK /\ NoFailureInv
    BY DEF EmbeddersInv
  <2>2. ASSUME NEW d \in Ingested, Ingest(d) PROVE <1>2
    <3>1. d \in Domains /\ ProfileOf[d] \in Profiles
      OBVIOUS
    <3>2. failures = 0 => daemonModel[ProfileOf[d]] # "mock"
      BY <2>1, <3>1 DEF NoFailureInv
    <3>3. QED
      BY <2>1, <2>2, <3>1, <3>2 DEF Ingest, IngestWith, TypeOK, NoFailureInv, Models
  <2>3. ASSUME NEW d \in Ingested, IngestWithoutModel(d) PROVE <1>2
    <3>1. d \in Domains /\ ProfileOf[d] \in Profiles
      OBVIOUS
    <3>2. failures' \in 0..MaxFailures /\ failures' # 0
      BY <2>1, <2>3 DEF IngestWithoutModel, TypeOK
    <3>3. QED
      BY <2>1, <2>3, <3>1, <3>2 DEF IngestWithoutModel, IngestWith, TypeOK, Models
  <2>4. ASSUME RestartDaemon PROVE <1>2
    BY <2>1, <2>4 DEF RestartDaemon, TypeOK, NoFailureInv, Models
  <2>5. QED
    BY <2>2, <2>3, <2>4 DEF Daemon
<1>3. TypeOK'
  <2>1. UNCHANGED <<registry, instances, embedders, thread, warm>> /\ TypeOK
    BY <1>1 DEF engineVars, EmbeddersInv
  <2>2. ThreadStates' = ThreadStates
    BY <2>1 DEF ThreadStates
  <2>3. QED  BY <1>2, <2>1, <2>2 DEF TypeOK
<1>4. RegistriesInv' /\ WarmInv'
  BY <1>1 DEF EmbeddersInv, RegistriesInv, WarmInv, engineVars, Current, At
<1>5. NoFailureInv'
  BY <1>1, <1>2 DEF EmbeddersInv, NoFailureInv, engineVars
<1>6. \A t \in Threads : (ThreadInv(t) /\ WarmThreadInv(t))'
  BY <1>1 DEF EmbeddersInv, ThreadInv, WarmThreadInv, engineVars, At, Wanted, Instance, Model, Current
<1>7. QED
  BY <1>3, <1>4, <1>5, <1>6 DEF EmbeddersInv

-----------------------------------------------------------------------------
(* The theorems *)

LEMMA NextKeeps ==
  ASSUME EmbeddersInv, [Next]_vars
  PROVE  EmbeddersInv'
<1>1. ASSUME NEW t \in Threads, Engine(t) PROVE EmbeddersInv'
  <2>1. CASE LoadSucceeds(t)
    <3>1. failures' \in 0..MaxFailures /\ failures' = failures
      BY <2>1 DEF LoadSucceeds, EmbeddersInv, TypeOK
    <3>2. QED  BY <2>1, <3>1, LoadKeeps DEF LoadSucceeds
  <2>2. CASE LoadFails(t)
    <3>1. failures' \in 0..MaxFailures /\ failures' # 0
      BY <2>2 DEF LoadFails, EmbeddersInv, TypeOK
    <3>2. QED  BY <2>2, <3>1, LoadKeeps DEF LoadFails
  <2>3. QED
    BY <1>1, <2>1, <2>2, RequestKeeps, CheckRegistryKeeps, ConstructRegistryKeeps,
       BindRegistryKeeps, LookUpKeeps, CreateEmbedderKeeps, FetchEmbedderKeeps,
       CheckModelKeeps, TestModelKeeps, ReturnModelKeeps, AnswerKeeps DEF Engine
<1>2. CASE UNCHANGED vars
  <2>1. UNCHANGED <<registry, instances, embedders, thread, warm, daemonModel, lake, failures>>
    BY <1>2 DEF vars, engineVars
  <2>2. TypeOK'
    BY <2>1 DEF EmbeddersInv, TypeOK, ThreadStates
  <2>3. RegistriesInv' /\ WarmInv' /\ NoFailureInv'
    BY <2>1 DEF EmbeddersInv, RegistriesInv, WarmInv, NoFailureInv, Current, At
  <2>4. \A t \in Threads : (ThreadInv(t) /\ WarmThreadInv(t))'
    BY <2>1 DEF EmbeddersInv, ThreadInv, WarmThreadInv, At, Wanted, Instance, Model, Current
  <2>5. QED  BY <2>2, <2>3, <2>4 DEF EmbeddersInv
<1>3. QED
  BY <1>1, <1>2, RestartEngineKeeps, DaemonKeeps DEF Next

(* The registry, its embedders and their models keep the invariant under   *)
(* any number of threads without a lock.                                   *)
THEOREM InvariantHolds == Spec => []EmbeddersInv
<1>1. Init => EmbeddersInv
  BY InitKeeps
<1>2. EmbeddersInv /\ [Next]_vars => EmbeddersInv'
  BY NextKeeps
<1>3. QED
  BY <1>1, <1>2, PTL DEF Spec

(* The state of both processes is well-typed.                              *)
THEOREM TypeCorrect == Spec => []TypeOK
<1>1. EmbeddersInv => TypeOK
  BY DEF EmbeddersInv
<1>2. QED
  BY <1>1, InvariantHolds, PTL

(* Whichever threads make, replace or fetch the embedder of a profile in   *)
(* get_embedder, a question is embedded with its domain's.                 *)
THEOREM RightProfileHolds == Spec => []RightProfile
<1>1. EmbeddersInv => RightProfile
  BY DEF EmbeddersInv, RightProfile, ThreadInv
<1>2. QED
  BY <1>1, InvariantHolds, PTL

(* What get_embedding_registry, get_embedder and _get_model made for the   *)
(* first requests is not made again once these are done.                   *)
THEOREM WarmStaysWarmHolds == Spec => []WarmStaysWarm
<1>1. EmbeddersInv => WarmStaysWarm
  BY DEF EmbeddersInv, WarmStaysWarm, WarmThreadInv, WarmInv, At
<1>2. QED
  BY <1>1, InvariantHolds, PTL

(* From then on all answers for a profile come from one model, or all from *)
(* its stand-in.                                                           *)
THEOREM WarmAnswersAlikeHolds == Spec => []WarmAnswersAlike
<1>1. EmbeddersInv => WarmAnswersAlike
  BY DEF EmbeddersInv, WarmAnswersAlike, WarmThreadInv, ThreadInv, At
<1>2. QED
  BY <1>1, InvariantHolds, PTL

(* As long as every model could be loaded, questions and stored vectors    *)
(* are of one kind: the race alone never makes a stand-in answer.          *)
THEOREM ComparedAlikeHolds == Spec => []ComparedAlike
<1>1. ASSUME EmbeddersInv PROVE ComparedAlike
  <2> SUFFICES ASSUME failures = 0, NEW t \in Threads, At(t, "answer")
               PROVE  lake[thread[t].domain] \subseteq {thread[t].kind}
    BY DEF ComparedAlike
  <2>1. thread[t] \in ThreadStates /\ thread[t].domain \in Domains /\ thread[t].kind = "real"
    BY <1>1, WantedType DEF EmbeddersInv, TypeOK, NoFailureInv, ThreadInv, ThreadStates, Models, At
  <2>2. lake[thread[t].domain] \subseteq {"real"}
    BY <1>1, <2>1 DEF EmbeddersInv, TypeOK, NoFailureInv
  <2>3. QED  BY <2>1, <2>2
<1>2. QED
  BY <1>1, InvariantHolds, PTL
=============================================================================
