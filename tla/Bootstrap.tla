----------------------------- MODULE Bootstrap -----------------------------
(***************************************************************************)
(* Process start-up: elf.Init (src/elf.go), the plugin manager            *)
(* (src/plugin/manager.go) and the Init of every plugin, run one after    *)
(* the other from app.Before.                                              *)
(*                                                                         *)
(*  - CAS is elf.Init's done.CAS(0, 1) together with the installation of  *)
(*    the app.Before wrapper; a caller that loses returns                 *)
(*    ErrorReinitialized.                                                  *)
(*  - Register is one plugin.Register of elf.Init's loop: the manager     *)
(*    refuses a name it has seen.                                          *)
(*  - RegisterDone is app.Run entering Before; PluginInit is one turn of  *)
(*    Before's loop, a whole plugin's Init; BeforeDone restores Before.   *)
(*                                                                         *)
(* A plugin is named by its kind ("log" for "log_setting", "apollo" for   *)
(* "apollo_config", ...): String() is injective on the five plugins.      *)
(* What a backend answers (agollo starting, a Read, a database ping) is   *)
(* chosen with \E among the outcomes the code distinguishes.              *)
(***************************************************************************)
EXTENDS Naturals, Sequences

CONSTANTS
    Callers,      \* goroutines calling elf.Init
    PluginLists,  \* plugin lists a caller may pass to elf.Init
    Configured,   \* plugins whose required flags are set
    StoreList,    \* the Type of each entry of the store yaml, in order
    NumLoaders,   \* Len(config.Loaders)
    NumWatchers   \* Len(config.Watchers)

Kinds == {"log", "version", "apollo", "nacos", "store"}

ASSUME PluginListsAssumption == PluginLists \subseteq Seq(Kinds)
ASSUME ConfiguredAssumption == Configured \subseteq Kinds
ASSUME StoreListAssumption == StoreList \in Seq({"redis", "mysql", "other"})
ASSUME HooksAssumption == NumLoaders \in Nat /\ NumWatchers \in Nat

VARIABLES
    args,          \* args[c]: the plugins caller c passed to elf.Init
    done,          \* elf's atomic done flag
    registered,    \* manager.registered, as the set of names mapped to true
    plugins,       \* manager.plugins
    pc,            \* pc[c]: where caller c is in elf.Init, or its result
    ri,            \* ri[c]: index in PluginList of c's next Register
    bi,            \* index in plugins of Before's next plugin Init
    apolloConfig,  \* the apollo package's config: "nil" or "set"
    loaderRuns,    \* loaderRuns[i]: calls of config.Loaders[i]'s Load
    watcherRuns,   \* watcherRuns[i]: calls of config.Watchers[i]'s Init
    panicked       \* a nil dereference has crashed the process

vars == <<args, done, registered, plugins, pc, ri, bi, apolloConfig, loaderRuns,
          watcherRuns, panicked>>

(* Where elf.Init can be, and how it can end. *)
Running == {"cas", "register", "before"}
Results == {"refused", "err", "ok", "exit", "panic"}

-----------------------------------------------------------------------------
(* The config plugins' hook loops (apollo and nacos config.go Init).      *)

(* Mutant: the loop runs one index past the end of the hook list.        *)
BumpPastEnd(runs, n, upto) ==
    [i \in 1 .. n + 1 |-> (IF i \in DOMAIN runs THEN runs[i] ELSE 0)
                           + (IF i <= upto THEN 1 ELSE 0)]

(* Calls of the first `upto' hooks of n, each counted once more.          *)
Bump(runs, n, upto) == [i \in 1 .. n |-> IF i <= upto THEN runs[i] + 1 ELSE runs[i]]

(***************************************************************************)
(* The loops over config.Loaders then config.Watchers.  lf is the first   *)
(* loader that fails (NumLoaders + 1: none), lnil whether it failed by    *)
(* its constructor returning nil (then Load was not called); wf, wnil the *)
(* same for the watchers, which run only when every loader succeeded.    *)
(* The result is the pair of new counters and whether Init succeeds.      *)
(***************************************************************************)
RunHooks(lf, lnil, wf, wnil) ==
    IF lf <= NumLoaders
    THEN <<Bump(loaderRuns, NumLoaders, IF lnil THEN lf - 1 ELSE lf),
           watcherRuns, FALSE>>
    ELSE <<Bump(loaderRuns, NumLoaders, NumLoaders),
           Bump(watcherRuns, NumWatchers, IF wnil THEN wf - 1 ELSE wf),
           wf > NumWatchers>>

-----------------------------------------------------------------------------
(* The store plugin's loop over its yaml entries (store config.go).       *)
(* Outcomes are "ok", "err" or "panic".                                    *)

(* redis newRedisPool: a client, or nil when tracing cannot be set up.    *)
NewRedisPool == {"client", "nil"}

(***************************************************************************)
(* redis.Load: an empty namespace or key is an error before apollo.Get;  *)
(* apollo.Get is a method call on apollo's config, and panics while it is *)
(* nil; then an empty value, bad json, checkConfig or a failed Ping is an *)
(* error, and Ping on the nil client of newRedisPool panics.              *)
(***************************************************************************)
RedisLoad ==
    {"err"} \cup
    IF apolloConfig = "nil" THEN {"panic"}
    ELSE {IF p = "nil" THEN "panic" ELSE "ok" : p \in NewRedisPool}

(* mysql.Load: apollo.Get first; then an empty value, bad json, a failed  *)
(* open or a failed Ping is an error.                                      *)
MysqlLoad == IF apolloConfig = "nil" THEN {"panic"} ELSE {"ok", "err"}

(* What one entry of the yaml can do, by its Type; other types are        *)
(* skipped by loadStore's switch.                                          *)
EntryLoad == [redis |-> RedisLoad, mysql |-> MysqlLoad, other |-> {"ok"}]

(* The results of loadStore's loop: every entry before the k-th loads,   *)
(* and the k-th fails with the result, or all load and it is "ok".         *)
LoadStore ==
    {r \in {"ok", "err", "panic"} :
       \E k \in 1 .. Len(StoreList) + 1 :
          /\ \A i \in 1 .. k - 1 : "ok" \in EntryLoad[StoreList[i]]
          /\ IF k <= Len(StoreList) THEN r \in EntryLoad[StoreList[k]] \ {"ok"}
                                    ELSE r = "ok"}

-----------------------------------------------------------------------------

Init ==
    /\ args \in [Callers -> PluginLists]
    /\ done = 0
    /\ registered = {}
    /\ plugins = <<>>
    /\ pc = [c \in Callers |-> "cas"]
    /\ ri = [c \in Callers |-> 1]
    /\ bi = 1
    /\ apolloConfig = "nil"
    /\ loaderRuns = [i \in 1 .. NumLoaders |-> 0]
    /\ watcherRuns = [i \in 1 .. NumWatchers |-> 0]
    /\ panicked = FALSE

(* elf.Init: done.CAS(Uninitialized, Initialized), then the new Before.   *)
CAS(c) ==
    /\ pc[c] = "cas"
    /\ IF done = 0
       THEN /\ done' = 1
            /\ pc' = [pc EXCEPT ![c] = "register"]
       ELSE /\ pc' = [pc EXCEPT ![c] = "refused"]
            /\ UNCHANGED done
    /\ UNCHANGED <<args, registered, plugins, ri, bi, apolloConfig, loaderRuns,
                   watcherRuns, panicked>>

(* Mutant: the manager does not look up the name first.                   *)
RegisterNoCheck(c) ==
    /\ pc[c] = "register"
    /\ ri[c] <= Len(args[c])
    /\ registered' = registered \cup {args[c][ri[c]]}
    /\ plugins' = Append(plugins, args[c][ri[c]])
    /\ ri' = [ri EXCEPT ![c] = ri[c] + 1]
    /\ UNCHANGED <<args, done, pc, bi, apolloConfig, loaderRuns, watcherRuns, panicked>>

(* One plugin.Register of elf.Init's loop, under the manager's mutex: a   *)
(* name already registered makes elf.Init return the error.               *)
Register(c) ==
    /\ pc[c] = "register"
    /\ ri[c] <= Len(args[c])
    /\ LET p == args[c][ri[c]] IN
       IF p \in registered
       THEN /\ pc' = [pc EXCEPT ![c] = "err"]
            /\ UNCHANGED <<registered, plugins, ri>>
       ELSE /\ registered' = registered \cup {p}
            /\ plugins' = Append(plugins, p)
            /\ ri' = [ri EXCEPT ![c] = ri[c] + 1]
            /\ UNCHANGED pc
    /\ UNCHANGED <<args, done, bi, apolloConfig, loaderRuns, watcherRuns, panicked>>

(* All registered: app.Run parses the flags and calls Before.              *)
RegisterDone(c) ==
    /\ pc[c] = "register"
    /\ ri[c] > Len(args[c])
    /\ pc' = [pc EXCEPT ![c] = "before"]
    /\ UNCHANGED <<args, done, registered, plugins, ri, bi, apolloConfig, loaderRuns,
                   watcherRuns, panicked>>

(* Before's loop moves on after a plugin's Init returned nil, or stops    *)
(* with result r.                                                          *)
Continue(c) ==
    /\ bi' = bi + 1
    /\ UNCHANGED <<pc, panicked>>

Stop(c, r) ==
    /\ pc' = [pc EXCEPT ![c] = r]
    /\ panicked' = (r = "panic")
    /\ UNCHANGED bi

(* log plugin Init (its outcomes are those of module LogPlugin).           *)
LogInit(c) ==
    /\ \E ok \in BOOLEAN : IF ok THEN Continue(c) ELSE Stop(c, "err")
    /\ UNCHANGED <<apolloConfig, loaderRuns, watcherRuns>>

(* version plugin Init: with --version it prints and calls os.Exit(0).    *)
VersionInit(c) ==
    /\ \E show \in BOOLEAN : IF show THEN Stop(c, "exit") ELSE Continue(c)
    /\ UNCHANGED <<apolloConfig, loaderRuns, watcherRuns>>

(* apollo newSource: a source, or nil when agollo fails to start.          *)
NewSource == {"source", "nil"}

(***************************************************************************)
(* apollo plugin Init: getConfigure needs apollo_ip, apollo_appid and     *)
(* apollo_namespaces.  load assigns apolloConfig = cfg.NewConfig() and    *)
(* Loads newSource(opts): Load calls Read on a nil source and panics, and *)
(* a failed Read is an error.  Then the hook loops.                        *)
(***************************************************************************)
ApolloInit(c) ==
    IF "apollo" \notin Configured
    THEN Stop(c, "err") /\ UNCHANGED <<apolloConfig, loaderRuns, watcherRuns>>
    ELSE /\ apolloConfig' = "set"
         /\ \E src \in NewSource, loaded \in BOOLEAN :
              IF src = "nil" THEN Stop(c, "panic") /\ UNCHANGED <<loaderRuns, watcherRuns>>
              ELSE IF ~loaded THEN Stop(c, "err") /\ UNCHANGED <<loaderRuns, watcherRuns>>
              ELSE \E lf \in 1 .. NumLoaders + 1, wf \in 1 .. NumWatchers + 1,
                      lnil, wnil \in BOOLEAN :
                     LET h == RunHooks(lf, lnil, wf, wnil) IN
                     /\ loaderRuns' = h[1]
                     /\ watcherRuns' = h[2]
                     /\ IF h[3] THEN Continue(c) ELSE Stop(c, "err")

(***************************************************************************)
(* nacos plugin Init: getConfigure needs nacos_address,                   *)
(* nacos_namespace_id and nacos_watch_config; load ends "ok", "err" or   *)
(* "panic" (module NacosLoad tells which); then the same hook loops.      *)
(***************************************************************************)
NacosInit(c) ==
    /\ UNCHANGED apolloConfig
    /\ IF "nacos" \notin Configured
       THEN Stop(c, "err") /\ UNCHANGED <<loaderRuns, watcherRuns>>
       ELSE \E load \in {"ok", "err", "panic"} :
              IF load # "ok" THEN Stop(c, load) /\ UNCHANGED <<loaderRuns, watcherRuns>>
              ELSE \E lf \in 1 .. NumLoaders + 1, wf \in 1 .. NumWatchers + 1,
                      lnil, wnil \in BOOLEAN :
                     LET h == RunHooks(lf, lnil, wf, wnil) IN
                     /\ loaderRuns' = h[1]
                     /\ watcherRuns' = h[2]
                     /\ IF h[3] THEN Continue(c) ELSE Stop(c, "err")

(***************************************************************************)
(* store plugin Init: store_cfg must be set; loadStore reads the yaml     *)
(* (getStoreConf fails on a missing or malformed file), then loads its   *)
(* entries in order.                                                       *)
(***************************************************************************)
StoreInit(c) ==
    /\ UNCHANGED <<apolloConfig, loaderRuns, watcherRuns>>
    /\ IF "store" \notin Configured
       THEN Stop(c, "err")
       ELSE \E read \in BOOLEAN, loaded \in LoadStore :
              LET r == IF read THEN loaded ELSE "err" IN
              IF r = "ok" THEN Continue(c) ELSE Stop(c, r)

(* One turn of Before's loop over plugin.Plugins(): the next plugin's Init. *)
PluginInit(c) ==
    /\ pc[c] = "before"
    /\ bi <= Len(plugins)
    /\ CASE plugins[bi] = "log"     -> LogInit(c)
         [] plugins[bi] = "version" -> VersionInit(c)
         [] plugins[bi] = "apollo"  -> ApolloInit(c)
         [] plugins[bi] = "nacos"   -> NacosInit(c)
         [] plugins[bi] = "store"   -> StoreInit(c)
    /\ UNCHANGED <<args, done, registered, plugins, ri>>

(* Every plugin initialised: Before is restored and app.Run returns nil.  *)
BeforeDone(c) ==
    /\ pc[c] = "before"
    /\ bi > Len(plugins)
    /\ pc' = [pc EXCEPT ![c] = "ok"]
    /\ UNCHANGED <<args, done, registered, plugins, ri, bi, apolloConfig, loaderRuns,
                   watcherRuns, panicked>>

Next ==
    /\ ~panicked
    /\ \E c \in Callers :
          \/ CAS(c)
          \/ Register(c)
          \/ RegisterDone(c)
          \/ PluginInit(c)
          \/ BeforeDone(c)

Spec == Init /\ [][Next]_vars

-----------------------------------------------------------------------------
(* Properties *)

(* Every variable has its type. *)
TypeOK ==
    /\ args \in [Callers -> PluginLists]
    /\ done \in {0, 1}
    /\ registered \subseteq Kinds
    /\ plugins \in Seq(Kinds)
    /\ pc \in [Callers -> Running \cup Results]
    /\ ri \in [Callers -> Nat]
    /\ \A c \in Callers : ri[c] \in 1 .. Len(args[c]) + 1
    /\ bi \in 1 .. Len(plugins) + 1
    /\ apolloConfig \in {"nil", "set"}
    /\ loaderRuns \in [1 .. NumLoaders -> Nat]
    /\ watcherRuns \in [1 .. NumWatchers -> Nat]
    /\ panicked \in BOOLEAN

(* Callers that got past done.CAS. *)
Past(c) == pc[c] \notin {"cas", "refused"}

(* However many goroutines call elf.Init at once, at most one gets past  *)
(* the done flag, so plugins are registered and initialised by one only  *)
(* (elf.go Init, done.CAS).                                                *)
SingleInit == \A c1, c2 \in Callers : Past(c1) /\ Past(c2) => c1 = c2

(* Every config.Loader is loaded at most once per process (spec 1:        *)
(* "Loader: one-shot orchestration"; apollo and nacos config.go Init).    *)
LoadersRunOnce == \A i \in 1 .. NumLoaders : loaderRuns[i] <= 1

(* Start-up never dereferences a nil config: it ends with an error or     *)
(* with every plugin initialised (store mysql.Load / redis.Load reading   *)
(* apollo.Get, apollo newSource returning nil).                           *)
NoNilDereference == ~panicked

(***************************************************************************)
(* The refinement mapping to PluginLifecycle: the registered plugins are  *)
(* the manager's, the initialised ones those Before's loop has passed,    *)
(* and the status is that of the caller that won the done flag.           *)
(***************************************************************************)
(* The lifecycle phase of the caller that won, by its position. *)
Phase == [register |-> "registering", before |-> "running", ok |-> "ok",
          err |-> "halted", exit |-> "halted", panic |-> "halted"]

Status ==
    IF \A c \in Callers : ~Past(c) THEN "registering"
    ELSE Phase[pc[CHOOSE c \in Callers : Past(c)]]

Lifecycle == INSTANCE PluginLifecycle
    WITH Names <- Kinds, order <- plugins, inited <- bi - 1, status <- Status

(* elf.Init and the manager implement PluginLifecycle: distinct names,    *)
(* Init in registration order, each once, and nothing after a failure.   *)
LifecycleRefined == Lifecycle!Spec

=============================================================================
