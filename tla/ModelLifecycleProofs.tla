------------------------- MODULE ModelLifecycleProofs -------------------------
(***************************************************************************)
(* Safety of ModelLifecycle for any number of trainers, runtimes and       *)
(* versions. The inductive invariant follows a version on its way: where   *)
(* a run is tells what it has written already, and where a load is tells   *)
(* in which order the versions it holds became champion. History only      *)
(* grows, so what was promoted or logged stays so.                         *)
(***************************************************************************)
EXTENDS ModelLifecycle, TLAPS

RegistryOK == /\ versions \in 0..MaxVersions /\ alias \in [Aliases -> 0..MaxVersions]
              /\ logged \subseteq Metadata /\ promoted \in Seq(Versions)
RunsOK == run \in [Trainers ->
            [at : {"idle", "training", "registered", "promoted", "logged"},
             alias : Aliases, version : 0..MaxVersions]]
LoadsOK == /\ load \in [Runtimes -> [at : {"idle", "pinned", "fetched", "switched"},
                          reload : BOOLEAN, pinned : 0..MaxVersions, model : 0..MaxVersions]]
           /\ loaded \in [Runtimes -> SUBSET [model : Versions, meta : Metadata]]

\* The champion alias points to the version promoted last.
ChampionIsLast == IF promoted = <<>> THEN Champion = 0
                                     ELSE Champion = promoted[Len(promoted)]

\* What a run has written when it is at one of its steps.
RunWrote == \A t \in Trainers :
  /\ run[t].at \in {"registered", "promoted", "logged"} => run[t].version \in Versions
  /\ run[t].at \in {"promoted", "logged"} /\ run[t].alias = "champion"
       => WasChampion(run[t].version)
  /\ run[t].at = "logged" => MetadataOf(t) \in logged

LoggedIsPromoted == \A m \in logged : m.alias = "champion" => WasChampion(m.version)

\* What a load has read when it is at one of its steps.
LoadRead == \A r \in Runtimes :
  /\ load[r].at = "pinned" => WasChampion(load[r].pinned)
  /\ load[r].at = "fetched" => PromotedInOrder(load[r].pinned, load[r].model)
LoadedIsLogged == \A r \in Runtimes : \A l \in loaded[r] : l.meta \in logged

IInv == /\ TypeOK /\ ChampionIsLast /\ RunWrote /\ LoggedIsPromoted
        /\ LoadRead /\ LoadedIsLogged /\ CachedIsReal /\ PairedInPromotionOrder

LEMMA TypeParts == TypeOK <=> /\ RegistryOK /\ RunsOK /\ LoadsOK
                              /\ cache \in Seq(Metadata) /\ failures \in 0..MaxFailures
  BY DEF TypeOK, RegistryOK, RunsOK, LoadsOK

LEMMA InitIInv == Init => IInv
<1>. SUFFICES ASSUME Init PROVE IInv
  OBVIOUS
<1>. USE LifecycleAssumption DEF Init
<1>1. RegistryOK
  BY DEF RegistryOK, Aliases, Versions
<1>2. RunsOK
  BY DEF RunsOK, NoRun, Aliases
<1>3. LoadsOK
  BY DEF LoadsOK, NoLoad
<1>4. cache \in Seq(Metadata) /\ failures \in 0..MaxFailures
  OBVIOUS
<1>5. ChampionIsLast /\ RunWrote /\ LoggedIsPromoted /\ LoadRead
  BY DEF ChampionIsLast, Champion, Aliases, RunWrote, NoRun, LoggedIsPromoted, LoadRead, NoLoad
<1>6. LoadedIsLogged /\ CachedIsReal /\ PairedInPromotionOrder
  BY DEF LoadedIsLogged, CachedIsReal, PairedInPromotionOrder
<1>. QED  BY <1>1, <1>2, <1>3, <1>4, <1>5, <1>6, TypeParts DEF IInv

\* What was champion stays so, and in the same order, when the champion moves.
LEMMA HistoryGrows ==
  ASSUME promoted \in Seq(Versions), NEW v \in Versions,
         promoted' = promoted \/ promoted' = Append(promoted, v)
  PROVE  /\ \A w : WasChampion(w) => WasChampion(w)'
         /\ \A u, w : PromotedInOrder(u, w) => PromotedInOrder(u, w)'
<1>1. \A k \in DOMAIN promoted : k \in DOMAIN promoted' /\ promoted'[k] = promoted[k]
  OBVIOUS
<1>. QED  BY <1>1 DEF WasChampion, PromotedInOrder

\* The champion is the last of all that were.
LEMMA ChampionWas ==
  ASSUME IInv, Champion # 0
  PROVE  /\ Champion \in Versions /\ WasChampion(Champion)
         /\ \A v : WasChampion(v) => PromotedInOrder(v, Champion)
<1>. DEFINE n == Len(promoted)
<1>1. promoted \in Seq(Versions)
  BY DEF IInv, TypeOK
<1>2. promoted # <<>> /\ Champion = promoted[n]
  BY DEF IInv, ChampionIsLast
<1>3. n \in DOMAIN promoted /\ \A k \in DOMAIN promoted : k <= n
  BY <1>1, <1>2
<1>. QED  BY <1>1, <1>2, <1>3 DEF WasChampion, PromotedInOrder
-------------------------------------------------------------------------------
(* A step of a run.                                                        *)

LEMMA RunsStayOK ==
  ASSUME IInv, NEW t \in Trainers, RunStep(t)
  PROVE  RunsOK' /\ RegistryOK'
<1>. USE TypeParts, LifecycleAssumption DEF IInv, RunsOK, RegistryOK, registry, NoRun, Aliases
<1>1. ASSUME NEW a \in Aliases, BeginRun(t, a) PROVE RunsOK' /\ RegistryOK'
  BY <1>1 DEF BeginRun
<1>2. CASE Train(t)
  BY <1>1, <1>2 DEF Train
<1>3. CASE Bootstrap(t, TRUE) \/ Bootstrap(t, FALSE) \/ BootstrapBlind(t)
  BY <1>3, <1>1 DEF Bootstrap, BootstrapBlind
<1>4. CASE Register(t)
  <2>1. versions + 1 \in 0..MaxVersions /\ versions' = versions + 1
    BY <1>4 DEF Register
  <2>2. RunsOK'
    <3>1. run' = [run EXCEPT ![t].at = "registered", ![t].version = versions + 1]
      BY <1>4 DEF Register
    <3>2. run' = [run EXCEPT ![t] = [run[t] EXCEPT !.at = "registered", !.version = versions + 1]]
      BY <3>1
    <3>. QED  BY <2>1, <3>2
  <2>3. RegistryOK'
    BY <1>4, <2>1 DEF Register
  <2>. QED  BY <2>2, <2>3
<1>5. CASE Promote(t)
  <2>1. run[t].version \in Versions
    BY <1>5 DEF Promote, PromoteAt, RunWrote
  <2>2. promoted' \in Seq(Versions)
    BY <1>5, <2>1 DEF Promote, PromoteAt
  <2>3. alias' \in [Aliases -> 0..MaxVersions]
    BY <1>5 DEF Promote, PromoteAt
  <2>4. RunsOK'
    BY <1>5 DEF Promote, PromoteAt
  <2>5. versions' = versions /\ logged' = logged
    BY <1>5 DEF Promote, PromoteAt
  <2>. QED  BY <2>2, <2>3, <2>4, <2>5
<1>6. CASE LogMetadata(t)
  <2>1. MetadataOf(t) \in Metadata
    BY <1>6 DEF LogMetadata, MetadataOf, Metadata, RunWrote
  <2>. QED  BY <1>6, <2>1 DEF LogMetadata
<1>7. CASE CacheRow(t) \/ Abandon(t)
  <2>1. run' = [run EXCEPT ![t] = NoRun] /\ UNCHANGED registry
    BY <1>7 DEF CacheRow, Abandon
  <2>2. RegistryOK'
    BY <2>1
  <2>3. RunsOK'
    BY <2>1
  <2>. QED  BY <2>2, <2>3
<1>. QED  BY <1>2, <1>3, <1>4, <1>5, <1>6, <1>7 DEF RunStep

\* The parts of the invariant about what a run wrote.
LEMMA RunsWrite ==
  ASSUME IInv, NEW t \in Trainers, RunStep(t)
  PROVE  /\ ChampionIsLast' /\ RunWrote' /\ LoggedIsPromoted'
         /\ logged \subseteq logged'
         /\ promoted' = promoted \/ \E v \in Versions : promoted' = Append(promoted, v)
<1>. USE TypeParts DEF IInv, RunsOK, RegistryOK, registry, NoRun
<1>1. ASSUME registry' = registry,
             \A u \in Trainers : run'[u] = run[u] \/ run'[u].at \in {"idle", "training"}
      PROVE  /\ ChampionIsLast' /\ RunWrote' /\ LoggedIsPromoted' /\ UNCHANGED <<logged, promoted>>
  <2>1. UNCHANGED <<versions, alias, logged, promoted>>
    BY <1>1
  <2>2. \A w : WasChampion(w)' = WasChampion(w)
    BY <2>1 DEF WasChampion
  <2>3. ChampionIsLast'
    BY <2>1 DEF ChampionIsLast, Champion
  <2>4. RunWrote'
    BY <1>1, <2>1, <2>2 DEF RunWrote, MetadataOf
  <2>5. LoggedIsPromoted'
    BY <2>1, <2>2 DEF LoggedIsPromoted
  <2>. QED  BY <2>1, <2>3, <2>4, <2>5
<1>2. CASE Train(t) \/ Bootstrap(t, TRUE) \/ Bootstrap(t, FALSE) \/ BootstrapBlind(t)
  <2>1. PICK a : BeginRun(t, a)
    BY <1>2 DEF Train, Bootstrap, BootstrapBlind
  <2>2. \A u \in Trainers : run'[u] = run[u] \/ run'[u].at \in {"idle", "training"}
    BY <2>1 DEF BeginRun
  <2>. QED  BY <1>1, <2>1, <2>2 DEF BeginRun
<1>3. CASE CacheRow(t) \/ Abandon(t)
  <2>1. \A u \in Trainers : run'[u] = run[u] \/ run'[u].at \in {"idle", "training"}
    BY <1>3 DEF CacheRow, Abandon
  <2>. QED  BY <1>1, <1>3, <2>1 DEF CacheRow, Abandon
<1>4. CASE Register(t)
  <2>1. run'[t].version \in Versions /\ run'[t].at = "registered"
    BY <1>4, LifecycleAssumption DEF Register, Versions
  <2>2. \A u \in Trainers : u # t => run'[u] = run[u]
    BY <1>4 DEF Register
  <2>3. UNCHANGED <<alias, logged, promoted>>
    BY <1>4 DEF Register
  <2>. QED  BY <2>1, <2>2, <2>3
       DEF ChampionIsLast, Champion, RunWrote, LoggedIsPromoted, WasChampion, MetadataOf
<1>5. CASE LogMetadata(t)
  <2>1. /\ UNCHANGED <<alias, promoted>> /\ logged' = logged \cup {MetadataOf(t)}
        /\ run[t].at = "promoted" /\ run' = [run EXCEPT ![t].at = "logged"]
    BY <1>5 DEF LogMetadata
  <2>2. ChampionIsLast'
    BY <2>1 DEF ChampionIsLast, Champion
  <2>3. RunWrote'
    BY <2>1 DEF RunWrote, WasChampion, MetadataOf
  <2>4. LoggedIsPromoted'
    BY <2>1 DEF LoggedIsPromoted, RunWrote, WasChampion, MetadataOf
  <2>. QED  BY <2>1, <2>2, <2>3, <2>4
<1>6. CASE Promote(t)
  <2>. DEFINE v == run[t].version
  <2>1. /\ run[t].at = "registered" /\ run' = [run EXCEPT ![t].at = "promoted"]
        /\ alias' = [alias EXCEPT ![run[t].alias] = v]
        /\ promoted' = IF run[t].alias = "champion" THEN Append(promoted, v) ELSE promoted
        /\ logged' = logged
    BY <1>6 DEF Promote, PromoteAt
  <2>2. v \in Versions
    BY <2>1 DEF RunWrote
  <2>3. \A w : WasChampion(w) => WasChampion(w)'
    BY <2>1, <2>2, HistoryGrows
  <2>4. ChampionIsLast'
    <3>1. CASE run[t].alias = "champion"
      <4>1. alias'["champion"] = v /\ promoted' = Append(promoted, v)
        BY <2>1, <3>1 DEF Aliases
      <4>2. promoted' # <<>> /\ promoted'[Len(promoted')] = v
        BY <4>1, <2>2
      <4>. QED  BY <4>1, <4>2 DEF ChampionIsLast, Champion
    <3>2. CASE run[t].alias # "champion"
      BY <2>1, <3>2 DEF ChampionIsLast, Champion, Aliases
    <3>. QED  BY <3>1, <3>2
  <2>5. RunWrote'
    <3>1. run[t].alias = "champion" => WasChampion(v)'
      <4>1. promoted \in Seq(Versions)
        OBVIOUS
      <4>2. SUFFICES ASSUME promoted' = Append(promoted, v) PROVE WasChampion(v)'
        BY <2>1
      <4>3. Len(promoted') \in DOMAIN promoted' /\ promoted'[Len(promoted')] = v
        BY <2>2, <4>1, <4>2
      <4>4. v = run'[t].version
        BY <2>1
      <4>. QED  BY <4>3, <4>4 DEF WasChampion
    <3>2. \A u \in Trainers : u # t => run'[u] = run[u]
      BY <2>1
    <3>3. run'[t] = [run[t] EXCEPT !.at = "promoted"]
      BY <2>1
    <3>. QED  BY <2>1, <2>2, <2>3, <3>1, <3>2, <3>3 DEF RunWrote, MetadataOf
  <2>6. LoggedIsPromoted'
    BY <2>1, <2>3 DEF LoggedIsPromoted
  <2>. QED  BY <2>1, <2>2, <2>4, <2>5, <2>6
<1>. QED  BY <1>2, <1>3, <1>4, <1>5, <1>6 DEF RunStep

LEMMA RunKeeps == ASSUME IInv, NEW t \in Trainers, RunStep(t) PROVE IInv'
<1>1. /\ RunsOK' /\ RegistryOK' /\ ChampionIsLast' /\ RunWrote' /\ LoggedIsPromoted'
      /\ logged \subseteq logged'
      /\ promoted' = promoted \/ \E v \in Versions : promoted' = Append(promoted, v)
  BY RunsStayOK, RunsWrite
<1>2. load' = load /\ loaded' = loaded
  BY DEF RunStep, Train, Bootstrap, BootstrapBlind, BeginRun, Register, Promote, PromoteAt,
         LogMetadata, CacheRow, Abandon, Elsewhere
<1>3. LoadsOK' /\ LoadedIsLogged'
  BY <1>1, <1>2 DEF IInv, TypeOK, LoadsOK, LoadedIsLogged
<1>4. /\ \A w : WasChampion(w) => WasChampion(w)'
      /\ \A u, w : PromotedInOrder(u, w) => PromotedInOrder(u, w)'
  <2>1. promoted \in Seq(Versions)
    BY DEF IInv, TypeOK
  <2>2. CASE promoted' = promoted
    BY <2>2 DEF WasChampion, PromotedInOrder
  <2>. QED  BY <1>1, <2>1, <2>2, HistoryGrows
<1>5. LoadRead' /\ PairedInPromotionOrder'
  BY <1>2, <1>4 DEF IInv, LoadRead, PairedInPromotionOrder
<1>6. failures' \in 0..MaxFailures
  BY LifecycleAssumption DEF IInv, TypeOK, RunStep, Train, Bootstrap, BootstrapBlind, BeginRun,
     Register, Promote, PromoteAt, LogMetadata, CacheRow, Abandon, Fault
<1>7. /\ cache' \in Seq(Metadata)
      /\ cache' = cache \/ \E m \in logged : /\ cache' = Append(cache, m)
                                             /\ m.alias = "champion" => WasChampion(m.version)
  <2>1. CASE CacheRow(t)
    <3>1. MetadataOf(t) \in logged
      BY <2>1 DEF IInv, CacheRow, RunWrote
    <3>. QED  BY <2>1, <3>1 DEF IInv, TypeOK, CacheRow, LoggedIsPromoted
  <2>2. CASE ~CacheRow(t)
    BY <2>2 DEF IInv, TypeOK, RunStep, Train, Bootstrap, BootstrapBlind, BeginRun,
       Register, Promote, PromoteAt, LogMetadata, Abandon
  <2>. QED  BY <2>1, <2>2
<1>8. CachedIsReal'
  <2>1. CASE cache' = cache
    BY <1>1, <1>4, <2>1 DEF IInv, CachedIsReal
  <2>2. ASSUME NEW m \in logged, cache' = Append(cache, m),
               m.alias = "champion" => WasChampion(m.version)
        PROVE  CachedIsReal'
    <3>1. cache \in Seq(Metadata) /\ m \in Metadata
      BY DEF IInv, TypeOK
    <3>2. \A i \in DOMAIN cache' : cache'[i] = m \/ (i \in DOMAIN cache /\ cache'[i] = cache[i])
      BY <2>2, <3>1
    <3>. QED  BY <1>1, <1>4, <2>2, <3>2 DEF IInv, CachedIsReal
  <2>. QED  BY <1>7, <2>1, <2>2
<1>9. TypeOK'
  BY <1>1, <1>3, <1>6, <1>7 DEF TypeOK, RegistryOK, RunsOK, LoadsOK
<1>. QED  BY <1>1, <1>3, <1>5, <1>8, <1>9 DEF IInv
-------------------------------------------------------------------------------
(* A step of a runtime.                                                    *)

RuntimeStep(r) == \/ LoadStep(r) \/ LookUp(r, TRUE) \/ CacheLoaded(r)
                  \/ LoadFails(r) \/ Restart(r)

LEMMA LoadKeeps == ASSUME IInv, NEW r \in Runtimes, RuntimeStep(r) PROVE IInv'
<1>. USE DEF NoLoad
<1>1. registry' = registry /\ run' = run
  BY DEF RuntimeStep, LoadStep, LookUp, FetchModel, FetchMetadata, FetchMetadataOf, CacheLoaded,
         LoadFails, Restart, Training
<1>2. failures' \in 0..MaxFailures
  <2>1. failures' = failures \/ Fault
    BY DEF RuntimeStep, LoadStep, LookUp, FetchModel, FetchMetadata, FetchMetadataOf, CacheLoaded,
           LoadFails, Restart
  <2>. QED  BY <2>1, LifecycleAssumption DEF IInv, TypeOK, Fault
<1>3. /\ RegistryOK' /\ RunsOK' /\ ChampionIsLast' /\ RunWrote' /\ LoggedIsPromoted'
      /\ \A w : WasChampion(w) = WasChampion(w)'
      /\ \A u, w : PromotedInOrder(u, w) = PromotedInOrder(u, w)'
  BY <1>1, TypeParts DEF IInv, registry, RegistryOK, RunsOK, ChampionIsLast, Champion, RunWrote,
     LoggedIsPromoted, WasChampion, PromotedInOrder, MetadataOf
<1>4. ASSUME load' \in [Runtimes -> [at : {"idle", "pinned", "fetched", "switched"},
               reload : BOOLEAN, pinned : 0..MaxVersions, model : 0..MaxVersions]],
             loaded' \in [Runtimes -> SUBSET [model : Versions, meta : Metadata]],
             LoadRead', LoadedIsLogged', PairedInPromotionOrder', cache' = cache
      PROVE  IInv'
  <2>1. LoadsOK' /\ cache' \in Seq(Metadata)
    BY <1>4 DEF LoadsOK, IInv, TypeOK
  <2>2. TypeOK'
    BY <1>2, <1>3, <2>1 DEF TypeOK, RegistryOK, RunsOK, LoadsOK
  <2>3. CachedIsReal'
    BY <1>1, <1>3, <1>4 DEF IInv, CachedIsReal, registry
  <2>. QED  BY <1>3, <1>4, <2>2, <2>3 DEF IInv
<1>5. loaded' = loaded => LoadedIsLogged' /\ PairedInPromotionOrder'
  BY <1>1, <1>3 DEF IInv, LoadedIsLogged, PairedInPromotionOrder, registry
<1>6. ASSUME NEW b \in BOOLEAN, LookUp(r, b) PROVE IInv'
  <2>1. Champion \in Versions /\ WasChampion(Champion)
    BY <1>6, ChampionWas DEF LookUp
  <2>2. LoadRead'
    BY <1>3, <1>6, <2>1 DEF LookUp, LoadRead, IInv, TypeOK
  <2>3. Champion \in 0..MaxVersions
    BY <2>1, LifecycleAssumption DEF Versions
  <2>4. load' \in [Runtimes -> [at : {"idle", "pinned", "fetched", "switched"},
                     reload : BOOLEAN, pinned : 0..MaxVersions, model : 0..MaxVersions]]
    <3>1. 0 \in 0..MaxVersions
      BY LifecycleAssumption
    <3>. QED  BY <1>6, <2>3, <3>1 DEF LookUp, IInv, TypeOK
  <2>5. loaded' = loaded /\ cache' = cache
    BY <1>6 DEF LookUp
  <2>. QED  BY <1>4, <1>5, <2>2, <2>4, <2>5 DEF IInv, TypeOK
<1>7. CASE FetchModel(r)
  <2>1. WasChampion(load[r].pinned)
    BY <1>7 DEF FetchModel, IInv, LoadRead
  <2>2. promoted # <<>>
    BY <2>1 DEF WasChampion
  <2>3. Champion # 0
    BY <2>2, LifecycleAssumption DEF IInv, TypeOK, ChampionIsLast, Versions
  <2>4. PromotedInOrder(load[r].pinned, Champion) /\ Champion \in Versions
    BY <2>1, <2>3, ChampionWas
  <2>5. LoadRead'
    BY <1>3, <1>7, <2>4 DEF FetchModel, LoadRead, IInv, TypeOK
  <2>6. Champion \in 0..MaxVersions
    BY <2>4, LifecycleAssumption DEF Versions
  <2>. QED  BY <1>4, <1>5, <1>7, <2>5, <2>6 DEF FetchModel, IInv, TypeOK
<1>8. CASE FetchMetadata(r)
  <2>1. load[r].at = "fetched" /\ PromotedInOrder(load[r].pinned, load[r].model)
    BY <1>8 DEF FetchMetadata, FetchMetadataOf, IInv, LoadRead
  <2>2. load' \in [Runtimes -> [at : {"idle", "pinned", "fetched", "switched"},
                     reload : BOOLEAN, pinned : 0..MaxVersions, model : 0..MaxVersions]]
    <3>1. \/ load' = [load EXCEPT ![r] = NoLoad] \/ load' = [load EXCEPT ![r].at = "switched"]
      BY <1>8 DEF FetchMetadata, FetchMetadataOf
    <3>2. 0 \in 0..MaxVersions
      BY LifecycleAssumption
    <3>3. NoLoad \in [at : {"idle", "pinned", "fetched", "switched"},
                      reload : BOOLEAN, pinned : 0..MaxVersions, model : 0..MaxVersions]
      BY <3>2
    <3>4. load \in [Runtimes -> [at : {"idle", "pinned", "fetched", "switched"},
                      reload : BOOLEAN, pinned : 0..MaxVersions, model : 0..MaxVersions]]
      BY DEF IInv, TypeOK
    <3>5. CASE load' = [load EXCEPT ![r] = NoLoad]
      BY <3>3, <3>4, <3>5
    <3>6. CASE load' = [load EXCEPT ![r].at = "switched"]
      BY <3>4, <3>6
    <3>. QED  BY <3>1, <3>5, <3>6
  <2>3. LoadRead'
    <3>1. \/ load' = [load EXCEPT ![r] = NoLoad] \/ load' = [load EXCEPT ![r].at = "switched"]
      BY <1>8 DEF FetchMetadata, FetchMetadataOf
    <3>2. load'[r].at \in {"idle", "switched"} /\ \A q \in Runtimes : q # r => load'[q] = load[q]
      BY <3>1 DEF IInv, TypeOK
    <3>. QED  BY <1>3, <3>2 DEF LoadRead, IInv
  <2>4. cache' = cache
    BY <1>8 DEF FetchMetadata, FetchMetadataOf
  <2>5. CASE loaded' = loaded
    BY <1>4, <1>5, <2>2, <2>3, <2>4, <2>5 DEF IInv, TypeOK
  <2>6. ASSUME NEW m \in logged, m.version = load[r].pinned,
               loaded' = [loaded EXCEPT ![r] = {[model |-> load[r].model, meta |-> m]}]
        PROVE  IInv'
    <3>1. load[r].model \in Versions
      BY <2>1 DEF PromotedInOrder, IInv, TypeOK
    <3>2. m \in Metadata
      BY <2>6 DEF IInv, TypeOK
    <3>3. loaded' \in [Runtimes -> SUBSET [model : Versions, meta : Metadata]]
      BY <2>6, <3>1, <3>2 DEF IInv, TypeOK
    <3>4. LoadedIsLogged'
      BY <1>1, <2>6 DEF LoadedIsLogged, IInv, TypeOK, registry
    <3>5. PairedInPromotionOrder'
      BY <1>3, <2>1, <2>6 DEF PairedInPromotionOrder, IInv, TypeOK
    <3>. QED  BY <1>4, <2>2, <2>3, <2>4, <3>3, <3>4, <3>5
  <2>. QED  BY <1>8, <2>5, <2>6 DEF FetchMetadata, FetchMetadataOf
<1>9. CASE CacheLoaded(r)
  <2>1. PICK l \in loaded[r] : cache' = Append(cache, l.meta)
    BY <1>9 DEF CacheLoaded
  <2>2. l.meta \in logged /\ (l.meta.alias = "champion" => WasChampion(l.meta.version))
    BY <2>1 DEF IInv, LoadedIsLogged, LoggedIsPromoted
  <2>3. l.meta \in Metadata /\ cache \in Seq(Metadata)
    BY <2>2 DEF IInv, TypeOK
  <2>4. cache' \in Seq(Metadata)
    BY <2>1, <2>3
  <2>5. CachedIsReal'
    BY <1>1, <1>3, <2>1, <2>2, <2>3 DEF IInv, CachedIsReal, registry
  <2>6. LoadsOK' /\ LoadRead'
    BY <1>3, <1>9, LifecycleAssumption DEF CacheLoaded, LoadsOK, LoadRead, IInv, TypeOK
  <2>7. TypeOK'
    BY <1>2, <1>3, <2>4, <2>6 DEF TypeOK, RegistryOK, RunsOK, LoadsOK
  <2>8. LoadedIsLogged' /\ PairedInPromotionOrder'
    BY <1>5, <1>9 DEF CacheLoaded
  <2>. QED  BY <1>3, <2>5, <2>6, <2>7, <2>8 DEF IInv
<1>10. CASE LoadFails(r)
  <2>1. LoadRead'
    BY <1>3, <1>10 DEF LoadFails, LoadRead, IInv, TypeOK
  <2>. QED  BY <1>4, <1>5, <1>10, <2>1, LifecycleAssumption DEF LoadFails, IInv, TypeOK
<1>11. CASE Restart(r)
  <2>1. LoadRead'
    BY <1>3, <1>11 DEF Restart, LoadRead, IInv, TypeOK
  <2>2. LoadedIsLogged' /\ PairedInPromotionOrder'
    BY <1>1, <1>3, <1>11 DEF Restart, LoadedIsLogged, PairedInPromotionOrder, IInv, TypeOK, registry
  <2>. QED  BY <1>4, <1>11, <2>1, <2>2, LifecycleAssumption DEF Restart, IInv, TypeOK
<1>. QED  BY <1>6, <1>7, <1>8, <1>9, <1>10, <1>11 DEF RuntimeStep, LoadStep

LEMMA StepIInv == IInv /\ [Next]_vars => IInv'
<1>1. ASSUME IInv, UNCHANGED vars PROVE IInv'
  BY <1>1 DEF IInv, vars, registry, TypeOK, ChampionIsLast, Champion, RunWrote, LoggedIsPromoted,
     LoadRead, LoadedIsLogged, CachedIsReal, PairedInPromotionOrder, WasChampion,
     PromotedInOrder, MetadataOf
<1>. QED  BY <1>1, RunKeeps, LoadKeeps DEF Next, RuntimeStep

LEMMA AlwaysIInv == Spec => []IInv
  BY InitIInv, StepIInv, PTL DEF Spec

\* The type invariant, for any number of trainers, runtimes and versions.
THEOREM TypeCorrect == Spec => []TypeOK
<1>1. IInv => TypeOK
  BY DEF IInv
<1>. QED  BY <1>1, AlwaysIInv, PTL

\* What the cache reports as champion was made champion and can be loaded.
THEOREM CacheIsReal == Spec => []CachedIsReal
<1>1. IInv => CachedIsReal
  BY DEF IInv
<1>. QED  BY <1>1, AlwaysIInv, PTL

\* A runtime never pairs a model with the metadata of a later champion.
THEOREM LoadsInOrder == Spec => []PairedInPromotionOrder
<1>1. IInv => PairedInPromotionOrder
  BY DEF IInv
<1>. QED  BY <1>1, AlwaysIInv, PTL
-------------------------------------------------------------------------------
(***************************************************************************)
(* A runtime runs one load at a time, so what a load finds became champion *)
(* no earlier than what the loads before it have found.                    *)
(***************************************************************************)
Ahead(r) == \A l \in loaded[r] :
  /\ load[r].at \in {"pinned", "fetched"} => PromotedInOrder(l.meta.version, load[r].pinned)
  /\ load[r].at = "fetched" => PromotedInOrder(l.model, load[r].model)
LoadsAhead == \A r \in Runtimes : Ahead(r)

\* However trainers promote and reloads fail or are repeated: a runtime that has a
\* model and switches to another one never goes back to an earlier champion, and
\* neither do its thresholds.
Forward(r) == \A l \in loaded[r], n \in loaded'[r] :
  loaded'[r] # loaded[r] => /\ PromotedInOrder(l.model, n.model)'
                            /\ PromotedInOrder(l.meta.version, n.meta.version)'
NeverBack == [][\A r \in Runtimes : Forward(r)]_vars

LEMMA OrderStays ==
  ASSUME IInv, [Next]_vars
  PROVE  \A u, w : PromotedInOrder(u, w) => PromotedInOrder(u, w)'
<1>1. promoted \in Seq(Versions)
  BY DEF IInv, TypeOK
<1>2. promoted' = promoted \/ \E v \in Versions : promoted' = Append(promoted, v)
  <2>1. ASSUME NEW t \in Trainers, RunStep(t) PROVE promoted' = promoted \/ \E v \in Versions : promoted' = Append(promoted, v)
    BY <2>1, RunsWrite
  <2>2. ASSUME NEW r \in Runtimes, RuntimeStep(r) PROVE UNCHANGED promoted
    BY <2>2 DEF RuntimeStep, LoadStep, LookUp, FetchModel, FetchMetadata, FetchMetadataOf,
                CacheLoaded, LoadFails, Restart, Training, registry
  <2>. QED  BY <2>1, <2>2 DEF Next, RuntimeStep, vars, registry
<1>3. CASE promoted' = promoted
  BY <1>3 DEF PromotedInOrder
<1>. QED  BY <1>1, <1>2, <1>3, HistoryGrows

\* The step of runtime r, seen by r itself.
LEMMA AheadHere ==
  ASSUME IInv, LoadsAhead, NEW r \in Runtimes, RuntimeStep(r),
         \A u, w : PromotedInOrder(u, w) => PromotedInOrder(u, w)'
  PROVE  Forward(r) /\ Ahead(r)'
<1>. USE DEF LoadsAhead, Ahead, Forward, NoLoad
<1>0. load \in [Runtimes -> [at : {"idle", "pinned", "fetched", "switched"}, reload : BOOLEAN,
                             pinned : 0..MaxVersions, model : 0..MaxVersions]]
      /\ loaded \in [Runtimes -> SUBSET [model : Versions, meta : Metadata]]
  BY DEF IInv, TypeOK
<1>1. \A l \in loaded[r] : WasChampion(l.meta.version) /\ WasChampion(l.model)
  BY DEF IInv, PairedInPromotionOrder, PromotedInOrder, WasChampion
<1>2. Champion # 0 => \A l \in loaded[r] : /\ PromotedInOrder(l.meta.version, Champion)
                                           /\ PromotedInOrder(l.model, Champion)
  BY <1>1, ChampionWas
<1>3. ASSUME NEW b \in BOOLEAN, LookUp(r, b) PROVE Forward(r) /\ Ahead(r)'
  <2>1. /\ Champion # 0 /\ loaded' = loaded
        /\ load'[r] = [at |-> "pinned", reload |-> b, pinned |-> Champion, model |-> 0]
    BY <1>0, <1>3 DEF LookUp
  <2>. QED  BY <1>2, <2>1
<1>4. CASE FetchModel(r)
  <2>1. /\ load[r].at = "pinned" /\ loaded' = loaded /\ load'[r].pinned = load[r].pinned
        /\ load'[r].at = "fetched" /\ load'[r].model = Champion
    BY <1>0, <1>4 DEF FetchModel
  <2>2. Champion # 0
    BY <2>1, LifecycleAssumption
       DEF IInv, TypeOK, LoadRead, WasChampion, ChampionIsLast, Versions
  <2>. QED  BY <1>2, <2>1, <2>2
<1>5. CASE FetchMetadata(r)
  <2>1. load[r].at = "fetched" /\ load'[r].at \in {"idle", "switched"}
    BY <1>0, <1>5 DEF FetchMetadata, FetchMetadataOf
  <2>2. loaded'[r] = loaded[r] \/
        \E m \in logged : /\ m.version = load[r].pinned
                          /\ loaded'[r] = {[model |-> load[r].model, meta |-> m]}
    BY <1>0, <1>5 DEF FetchMetadata, FetchMetadataOf
  <2>. QED  BY <2>1, <2>2
<1>6. CASE CacheLoaded(r) \/ LoadFails(r)
  BY <1>0, <1>6 DEF CacheLoaded, LoadFails
<1>7. CASE Restart(r)
  BY <1>0, <1>7 DEF Restart
<1>. QED  BY <1>3, <1>4, <1>5, <1>6, <1>7 DEF RuntimeStep, LoadStep

LEMMA AheadStep ==
  ASSUME IInv, LoadsAhead, [Next]_vars
  PROVE  LoadsAhead' /\ \A r \in Runtimes : Forward(r)
<1>1. \A u, w : PromotedInOrder(u, w) => PromotedInOrder(u, w)'
  BY OrderStays
<1>2. ASSUME NEW r \in Runtimes, load'[r] = load[r], loaded'[r] = loaded[r]
      PROVE  Forward(r) /\ Ahead(r)'
  BY <1>1, <1>2 DEF LoadsAhead, Ahead, Forward
<1>3. ASSUME NEW q \in Runtimes, RuntimeStep(q), NEW r \in Runtimes, r # q
      PROVE  load'[r] = load[r] /\ loaded'[r] = loaded[r]
  BY <1>3 DEF IInv, TypeOK, RuntimeStep, LoadStep, LookUp, FetchModel, FetchMetadata,
              FetchMetadataOf, CacheLoaded, LoadFails, Restart
<1>4. ASSUME NEW t \in Trainers, RunStep(t) PROVE UNCHANGED <<load, loaded>>
  BY <1>4 DEF RunStep, Train, Bootstrap, BootstrapBlind, BeginRun, Register, Promote, PromoteAt,
              LogMetadata, CacheRow, Abandon, Elsewhere
<1>5. ASSUME NEW r \in Runtimes
      PROVE  Forward(r) /\ Ahead(r)'
  <2>1. CASE \E q \in Runtimes : RuntimeStep(q)
    BY <1>1, <1>2, <1>3, <2>1, AheadHere
  <2>2. CASE \/ \E t \in Trainers : RunStep(t)
             \/ UNCHANGED vars
    BY <1>2, <1>4, <2>2 DEF vars
  <2>. QED  BY <2>1, <2>2 DEF Next, RuntimeStep
<1>. QED  BY <1>5 DEF LoadsAhead

\* A runtime's model and its thresholds only ever move on to later champions.
THEOREM LoadsMoveOn == Spec => NeverBack
<1>1. Init => LoadsAhead
  BY DEF Init, LoadsAhead, Ahead
<1>2. IInv /\ LoadsAhead /\ [Next]_vars => LoadsAhead'
  BY AheadStep
<1>3. IInv /\ LoadsAhead /\ [Next]_vars => [\A r \in Runtimes : Forward(r)]_vars
  BY AheadStep
<1>. QED  BY <1>1, <1>2, <1>3, AlwaysIInv, PTL DEF Spec, NeverBack
===============================================================================
