---------------------------- MODULE ModelLifecycle ----------------------------
(***************************************************************************)
(* How a trained model becomes the champion and reaches the processes that *)
(* score with it. Trainers (the service and the command line) register a   *)
(* version in MLflow, move an alias to it, log model_metadata.json and add *)
(* a row to model_registry_cache, in that order and in separate calls. A   *)
(* model runtime (of the worker, or of the API) looks the alias up, loads  *)
(* the model BY ALIAS and the metadata BY RUN. All of this interleaves.    *)
(* What a model learned is left out: a version stands for its model, its   *)
(* run, its metrics and its thresholds.                                    *)
(***************************************************************************)
EXTENDS Integers, Sequences

CONSTANTS Trainers,    \* processes with a FraudTrainer that trains
          Runtimes,    \* processes with a ModelRuntime
          Apis,        \* those of them that serve POST /models/reload
          MaxVersions, \* bound on the versions ever registered
          MaxRows,     \* no reload is asked for once the cache has so many rows
          MaxFailures  \* bound on failing calls and dying processes

ASSUME LifecycleAssumption ==
  /\ Apis \subseteq Runtimes /\ MaxVersions \in Nat /\ MaxFailures \in Nat

VARIABLES
  versions,  \* how many versions the registry has; the next one is versions + 1
  alias,     \* the version each registry alias points to, 0 for none
  logged,    \* the model_metadata.json files: version and alias they name
  cache,     \* the rows of model_registry_cache, oldest first
  run,       \* what each trainer is doing
  load,      \* what each runtime is doing
  loaded,    \* ModelRuntime._loaded_model: nothing, or a model and a metadata
  failures,
  promoted   \* history: the versions the champion alias was moved to

registry == <<versions, alias, logged, promoted>>
vars == <<registry, cache, run, load, loaded, failures>>

Aliases == {"champion", "challenger"}
Versions == 1..MaxVersions
Metadata == [version : Versions, alias : Aliases]

NoRun == [at |-> "idle", alias |-> "champion", version |-> 0]
NoLoad == [at |-> "idle", reload |-> FALSE, pinned |-> 0, model |-> 0]

Init == /\ versions = 0 /\ alias = [a \in Aliases |-> 0] /\ logged = {} /\ promoted = <<>>
        /\ cache = <<>> /\ run = [t \in Trainers |-> NoRun]
        /\ load = [r \in Runtimes |-> NoLoad] /\ loaded = [r \in Runtimes |-> {}]
        /\ failures = 0

Champion == alias["champion"]
Fault == failures < MaxFailures /\ failures' = failures + 1
-------------------------------------------------------------------------------
(* Which champion get_current_metadata reports: the newest cached row, or  *)
(* else what the registry says.                                            *)

ChampionRows == {i \in DOMAIN cache : cache[i].alias = "champion"}
NewestRow == {cache[i].version : i \in {j \in ChampionRows : \A k \in ChampionRows : k <= j}}
Reported == IF ChampionRows # {} THEN NewestRow ELSE {Champion} \ {0}
-------------------------------------------------------------------------------
(* A training run.                                                         *)

Elsewhere == UNCHANGED <<load, loaded>>

\* The model is fitted and evaluated before anything is written.
BeginRun(t, a) ==
  /\ run[t].at = "idle"
  /\ run' = [run EXCEPT ![t] = [at |-> "training", alias |-> a, version |-> 0]]
  /\ UNCHANGED <<registry, cache>> /\ Elsewhere

\* train_from_csv, train_from_repository: without an alias it is the champion's.
Train(t) == (\E a \in Aliases : BeginRun(t, a)) /\ UNCHANGED failures

\* bootstrap_model: forced, or because no champion is reported.
Bootstrap(t, force) == /\ force \/ Reported = {}
                       /\ BeginRun(t, "champion") /\ UNCHANGED failures

\* The same with a registry that does not answer: any exception reads as "none".
BootstrapBlind(t) == /\ ChampionRows = {} /\ Champion # 0 /\ Fault
                     /\ BeginRun(t, "champion")

\* start_run and log_model: the run's version is in the registry.
Register(t) ==
  /\ run[t].at = "training" /\ versions < MaxVersions
  /\ versions' = versions + 1
  /\ run' = [run EXCEPT ![t].at = "registered", ![t].version = versions + 1]
  /\ UNCHANGED <<alias, logged, promoted, cache, failures>> /\ Elsewhere

PromoteAt(t, places) ==
  /\ run[t].at \in places
  /\ alias' = [alias EXCEPT ![run[t].alias] = run[t].version]
  /\ promoted' = IF run[t].alias = "champion" THEN Append(promoted, run[t].version)
                                              ELSE promoted
  /\ run' = [run EXCEPT ![t].at = "promoted"]
  /\ UNCHANGED <<versions, logged, cache, failures>> /\ Elsewhere

\* Variant: the alias is moved without waiting for the version.
PromoteUnregistered(t) == PromoteAt(t, {"training", "registered"})

\* set_registered_model_alias, to the version of this run.
Promote(t) == PromoteAt(t, {"registered"})

MetadataOf(t) == [version |-> run[t].version, alias |-> run[t].alias]

LogMetadata(t) ==
  /\ run[t].at = "promoted"
  /\ logged' = logged \cup {MetadataOf(t)}
  /\ run' = [run EXCEPT ![t].at = "logged"]
  /\ UNCHANGED <<versions, alias, promoted, cache, failures>> /\ Elsewhere

\* Variant: the row is written before the metadata file.
CacheRowEarly(t) == /\ run[t].at \in {"promoted", "logged"}
                    /\ cache' = Append(cache, MetadataOf(t))
                    /\ run' = [run EXCEPT ![t] = NoRun]
                    /\ UNCHANGED <<registry, failures>> /\ Elsewhere

\* cache_model_metadata. The drift report that follows touches none of this.
CacheRow(t) == /\ run[t].at = "logged"
               /\ cache' = Append(cache, MetadataOf(t))
               /\ run' = [run EXCEPT ![t] = NoRun]
               /\ UNCHANGED <<registry, failures>> /\ Elsewhere

\* A call raises, or the process dies: nothing of the run is undone.
Abandon(t) == /\ run[t].at # "idle" /\ Fault
              /\ run' = [run EXCEPT ![t] = NoRun]
              /\ UNCHANGED <<registry, cache>> /\ Elsewhere
-------------------------------------------------------------------------------
(* ModelRuntime.reload.                                                    *)

Training == UNCHANGED <<registry, run>>

\* ensure_loaded loads once and then never again; a reload is asked for at any time.
Wanted(r, reload) == \/ loaded[r] = {} /\ ~reload
                     \/ reload /\ r \in Apis /\ Len(cache) < MaxRows

\* get_model_version_by_alias, for ensure_loaded or for POST /models/reload.
LookUp(r, reload) ==
  /\ load[r].at = "idle" /\ Champion # 0 /\ Wanted(r, reload)
  /\ load' = [load EXCEPT ![r] =
                [at |-> "pinned", reload |-> reload, pinned |-> Champion, model |-> 0]]
  /\ UNCHANGED <<cache, loaded, failures>> /\ Training

\* load_model resolves the alias again.
FetchModel(r) ==
  /\ load[r].at = "pinned"
  /\ load' = [load EXCEPT ![r].at = "fetched", ![r].model = Champion]
  /\ UNCHANGED <<cache, loaded, failures>> /\ Training

\* The metadata of version v of the registry; there is none before it is logged.
FetchMetadataOf(r, v) ==
  /\ load[r].at = "fetched"
  /\ \/ \E m \in {n \in logged : n.version = v} :
          /\ loaded' = [loaded EXCEPT ![r] = {[model |-> load[r].model, meta |-> m]}]
          /\ load' = IF load[r].reload THEN [load EXCEPT ![r].at = "switched"]
                                       ELSE [load EXCEPT ![r] = NoLoad]
     \/ /\ \A n \in logged : n.version # v
        /\ load' = [load EXCEPT ![r] = NoLoad] /\ UNCHANGED loaded
  /\ UNCHANGED <<cache, failures>> /\ Training

\* Variants of the download: for the alias as it is by now; repeated until the
\* file is there.
FetchNewestMetadata(r) == FetchMetadataOf(r, Champion)
FetchMetadataPatiently(r) == /\ \E n \in logged : n.version = load[r].pinned
                             /\ FetchMetadataOf(r, load[r].pinned)

\* download_artifacts of the run found by LookUp; if it is not there the load fails.
FetchMetadata(r) == FetchMetadataOf(r, load[r].pinned)

\* The rest of POST /models/reload: a row for what was loaded.
CacheLoaded(r) == /\ load[r].at = "switched"
                  /\ \E l \in loaded[r] : cache' = Append(cache, l.meta)
                  /\ load' = [load EXCEPT ![r] = NoLoad]
                  /\ UNCHANGED <<loaded, failures>> /\ Training

\* A call of the reload raises: a model loaded before stays, or the new one does.
LoadFails(r) == /\ load[r].at # "idle" /\ Fault
                /\ load' = [load EXCEPT ![r] = NoLoad]
                /\ UNCHANGED <<cache, loaded>> /\ Training

\* The process dies and comes back.
Restart(r) == /\ loaded[r] # {} /\ Fault
              /\ load' = [load EXCEPT ![r] = NoLoad]
              /\ loaded' = [loaded EXCEPT ![r] = {}]
              /\ UNCHANGED cache /\ Training

RunStep(t) == \/ Train(t) \/ Bootstrap(t, TRUE) \/ Bootstrap(t, FALSE) \/ BootstrapBlind(t)
              \/ Register(t) \/ Promote(t) \/ LogMetadata(t) \/ CacheRow(t) \/ Abandon(t)
LoadStep(r) == LookUp(r, FALSE) \/ FetchModel(r) \/ FetchMetadata(r)
Next == \/ \E t \in Trainers : RunStep(t)
        \/ \E r \in Runtimes : \/ LoadStep(r) \/ LookUp(r, TRUE) \/ CacheLoaded(r)
                               \/ LoadFails(r) \/ Restart(r)

\* Events keep arriving, so a runtime keeps trying to load and goes through with
\* it. Nobody has to train or to ask for a reload, and a run may take for ever.
Spec == Init /\ [][Next]_vars /\ \A r \in Runtimes : WF_vars(LoadStep(r))
-------------------------------------------------------------------------------
TypeOK == /\ versions \in 0..MaxVersions
          /\ alias \in [Aliases -> 0..MaxVersions]
          /\ logged \subseteq Metadata /\ promoted \in Seq(Versions) /\ cache \in Seq(Metadata)
          /\ run \in [Trainers -> [at : {"idle", "training", "registered", "promoted", "logged"},
                                   alias : Aliases, version : 0..MaxVersions]]
          /\ load \in [Runtimes -> [at : {"idle", "pinned", "fetched", "switched"},
                                    reload : BOOLEAN, pinned : 0..MaxVersions,
                                    model : 0..MaxVersions]]
          /\ loaded \in [Runtimes -> SUBSET [model : Versions, meta : Metadata]]
          /\ failures \in 0..MaxFailures

WasChampion(v) == \E k \in DOMAIN promoted : promoted[k] = v
PromotedInOrder(v, w) == \E i, k \in DOMAIN promoted :
                           i <= k /\ promoted[i] = v /\ promoted[k] = w

\* What /models/current shows is not a dream: a cached row is of a run whose
\* metadata file exists, and a champion row of one that was made champion, however
\* trainers and reloads interleave and wherever they stop.
CachedIsReal ==
  \A i \in DOMAIN cache :
    cache[i] \in logged /\ (cache[i].alias = "champion" => WasChampion(cache[i].version))

\* A runtime may score with the model of one version and the thresholds of another,
\* if the alias moves during the load; but the model is then the later champion.
PairedInPromotionOrder ==
  \A r \in Runtimes : \A l \in loaded[r] : PromotedInOrder(l.meta.version, l.model)

\* A champion that was promoted by a run that died before it logged its metadata
\* cannot be loaded by anyone. But as soon as the champion can be loaded and stays
\* so, every runtime gets a model in the end, whatever its earlier attempts met.
Loadable == \E m \in logged : m.version = Champion
ModelArrives == \A r \in Runtimes : <>[]Loadable => <>[](loaded[r] # {})
===============================================================================
