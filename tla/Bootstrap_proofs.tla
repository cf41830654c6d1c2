-------------------------- MODULE Bootstrap_proofs ---------------------------
(***************************************************************************)
(* Proofs about Bootstrap for every value of its constants: the model is  *)
(* well typed, and at most one caller of elf.Init gets past the done flag. *)
(***************************************************************************)
EXTENDS Bootstrap, TLAPS

(***************************************************************************)
(* The inductive invariant behind SingleInit.  SingleInit alone is not    *)
(* inductive: a second caller's CAS succeeds if done is still 0, so the   *)
(* invariant adds that while done is 0 every caller is still at its CAS.  *)
(***************************************************************************)
IInv ==
    /\ TypeOK
    /\ done = 0 => \A c \in Callers : pc[c] = "cas"
    /\ SingleInit

-----------------------------------------------------------------------------

(* One more call of the first `upto' hooks keeps the counters natural.    *)
LEMMA BumpType ==
    ASSUME NEW n \in Nat, NEW runs \in [1 .. n -> Nat], NEW upto
    PROVE  Bump(runs, n, upto) \in [1 .. n -> Nat]
BY DEF Bump

(* The hook loops yield natural counters for every failure point.         *)
LEMMA RunHooksType ==
    ASSUME TypeOK, NEW lf \in Nat, NEW wf \in Nat,
           NEW lnil \in BOOLEAN, NEW wnil \in BOOLEAN
    PROVE  /\ RunHooks(lf, lnil, wf, wnil)[1] \in [1 .. NumLoaders -> Nat]
           /\ RunHooks(lf, lnil, wf, wnil)[2] \in [1 .. NumWatchers -> Nat]
<1>1. /\ Bump(loaderRuns, NumLoaders, lf - 1) \in [1 .. NumLoaders -> Nat]
      /\ Bump(loaderRuns, NumLoaders, lf) \in [1 .. NumLoaders -> Nat]
      /\ Bump(loaderRuns, NumLoaders, NumLoaders) \in [1 .. NumLoaders -> Nat]
      /\ Bump(watcherRuns, NumWatchers, wf - 1) \in [1 .. NumWatchers -> Nat]
      /\ Bump(watcherRuns, NumWatchers, wf) \in [1 .. NumWatchers -> Nat]
  BY HooksAssumption, BumpType DEF TypeOK
<1>. QED
  BY <1>1 DEF RunHooks, TypeOK

(***************************************************************************)
(* What one plugin's Init does to the start-up state: Before's loop goes  *)
(* on or stops with a result, apollo's config is set or not, and the hook *)
(* counters stay natural.                                                  *)
(***************************************************************************)
Failures == {"err", "exit", "panic"}

PluginStep(c) ==
    /\ \/ Continue(c)
       \/ \E r \in Failures : Stop(c, r)
    /\ apolloConfig' \in {"nil", "set"}
    /\ loaderRuns' \in [1 .. NumLoaders -> Nat]
    /\ watcherRuns' \in [1 .. NumWatchers -> Nat]

(* The hook part shared by apollo and nacos: RunHooks, then Continue or   *)
(* an error.                                                               *)
LEMMA HooksStep ==
    ASSUME TypeOK, NEW c \in Callers,
           NEW lf \in 1 .. NumLoaders + 1, NEW wf \in 1 .. NumWatchers + 1,
           NEW lnil \in BOOLEAN, NEW wnil \in BOOLEAN,
           loaderRuns' = RunHooks(lf, lnil, wf, wnil)[1],
           watcherRuns' = RunHooks(lf, lnil, wf, wnil)[2],
           IF RunHooks(lf, lnil, wf, wnil)[3] THEN Continue(c) ELSE Stop(c, "err")
    PROVE  /\ \/ Continue(c)
              \/ \E r \in Failures : Stop(c, r)
           /\ loaderRuns' \in [1 .. NumLoaders -> Nat]
           /\ watcherRuns' \in [1 .. NumWatchers -> Nat]
<1>1. lf \in Nat /\ wf \in Nat
  BY HooksAssumption
<1>2. loaderRuns' \in [1 .. NumLoaders -> Nat] /\ watcherRuns' \in [1 .. NumWatchers -> Nat]
  BY <1>1, RunHooksType
<1>3. "err" \in Failures
  BY DEF Failures
<1>. QED
  BY <1>2, <1>3

LEMMA LogStep == ASSUME TypeOK, NEW c \in Callers, LogInit(c) PROVE PluginStep(c)
BY DEF LogInit, PluginStep, Failures, TypeOK

LEMMA VersionStep == ASSUME TypeOK, NEW c \in Callers, VersionInit(c) PROVE PluginStep(c)
BY DEF VersionInit, PluginStep, Failures, TypeOK

LEMMA ApolloStep == ASSUME TypeOK, NEW c \in Callers, ApolloInit(c) PROVE PluginStep(c)
<1>1. CASE "apollo" \notin Configured
  BY <1>1 DEF ApolloInit, PluginStep, Failures, TypeOK
<1>2. CASE "apollo" \in Configured
  <2>1. apolloConfig' = "set"
    BY <1>2 DEF ApolloInit
  <2>2. PICK src \in NewSource, loaded \in BOOLEAN :
          IF src = "nil" THEN Stop(c, "panic") /\ UNCHANGED <<loaderRuns, watcherRuns>>
          ELSE IF ~loaded THEN Stop(c, "err") /\ UNCHANGED <<loaderRuns, watcherRuns>>
          ELSE \E lf \in 1 .. NumLoaders + 1, wf \in 1 .. NumWatchers + 1,
                  lnil, wnil \in BOOLEAN :
                 LET h == RunHooks(lf, lnil, wf, wnil) IN
                 /\ loaderRuns' = h[1]
                 /\ watcherRuns' = h[2]
                 /\ IF h[3] THEN Continue(c) ELSE Stop(c, "err")
    BY <1>2 DEF ApolloInit
  <2>3. CASE src = "nil" \/ ~loaded
    BY <2>1, <2>2, <2>3 DEF PluginStep, Failures, TypeOK
  <2>4. CASE src # "nil" /\ loaded
    <3>1. PICK lf \in 1 .. NumLoaders + 1, wf \in 1 .. NumWatchers + 1,
               lnil \in BOOLEAN, wnil \in BOOLEAN :
                 /\ loaderRuns' = RunHooks(lf, lnil, wf, wnil)[1]
                 /\ watcherRuns' = RunHooks(lf, lnil, wf, wnil)[2]
                 /\ IF RunHooks(lf, lnil, wf, wnil)[3] THEN Continue(c) ELSE Stop(c, "err")
      BY <2>2, <2>4
    <3>. QED
      BY <2>1, <3>1, HooksStep DEF PluginStep
  <2>. QED
    BY <2>3, <2>4
<1>. QED
  BY <1>1, <1>2

LEMMA NacosStep == ASSUME TypeOK, NEW c \in Callers, NacosInit(c) PROVE PluginStep(c)
<1>1. apolloConfig' \in {"nil", "set"}
  BY DEF NacosInit, TypeOK
<1>2. CASE "nacos" \notin Configured
  BY <1>1, <1>2 DEF NacosInit, PluginStep, Failures, TypeOK
<1>3. CASE "nacos" \in Configured
  <2>2. PICK load \in {"ok", "err", "panic"} :
          IF load # "ok" THEN Stop(c, load) /\ UNCHANGED <<loaderRuns, watcherRuns>>
          ELSE \E lf \in 1 .. NumLoaders + 1, wf \in 1 .. NumWatchers + 1,
                  lnil, wnil \in BOOLEAN :
                 LET h == RunHooks(lf, lnil, wf, wnil) IN
                 /\ loaderRuns' = h[1]
                 /\ watcherRuns' = h[2]
                 /\ IF h[3] THEN Continue(c) ELSE Stop(c, "err")
    BY <1>3 DEF NacosInit
  <2>3. CASE load # "ok"
    BY <1>1, <2>2, <2>3 DEF PluginStep, Failures, TypeOK
  <2>4. CASE load = "ok"
    <3>1. PICK lf \in 1 .. NumLoaders + 1, wf \in 1 .. NumWatchers + 1,
               lnil \in BOOLEAN, wnil \in BOOLEAN :
                 /\ loaderRuns' = RunHooks(lf, lnil, wf, wnil)[1]
                 /\ watcherRuns' = RunHooks(lf, lnil, wf, wnil)[2]
                 /\ IF RunHooks(lf, lnil, wf, wnil)[3] THEN Continue(c) ELSE Stop(c, "err")
      BY <2>2, <2>4
    <3>. QED
      BY <1>1, <3>1, HooksStep DEF PluginStep
  <2>. QED
    BY <2>3, <2>4
<1>. QED
  BY <1>2, <1>3

LEMMA StoreStep == ASSUME TypeOK, NEW c \in Callers, StoreInit(c) PROVE PluginStep(c)
<1>1. LoadStore \subseteq {"ok", "err", "panic"}
  BY DEF LoadStore
<1>. QED
  BY <1>1 DEF StoreInit, PluginStep, Failures, TypeOK

(* Every plugin of a caller's list is one of the five kinds.               *)
LEMMA ArgsKinds ==
    ASSUME TypeOK, NEW c \in Callers
    PROVE  args[c] \in Seq(Kinds)
BY PluginListsAssumption DEF TypeOK

(* One turn of Before's loop is one of the five plugins' Init.             *)
LEMMA PluginInitStep ==
    ASSUME TypeOK, NEW c \in Callers, PluginInit(c)
    PROVE  PluginStep(c) /\ bi \in 1 .. Len(plugins)
<1>1. bi \in 1 .. Len(plugins)
  BY DEF PluginInit, TypeOK
<1>2. plugins[bi] \in Kinds
  BY <1>1 DEF TypeOK
<1>3. CASE plugins[bi] = "log"
  <2>1. LogInit(c)
    BY <1>3 DEF PluginInit
  <2>. QED
    BY <1>1, <2>1, LogStep
<1>4. CASE plugins[bi] = "version"
  <2>1. VersionInit(c)
    BY <1>4 DEF PluginInit
  <2>. QED
    BY <1>1, <2>1, VersionStep
<1>5. CASE plugins[bi] = "apollo"
  <2>1. ApolloInit(c)
    BY <1>5 DEF PluginInit
  <2>. QED
    BY <1>1, <2>1, ApolloStep
<1>6. CASE plugins[bi] = "nacos"
  <2>1. NacosInit(c)
    BY <1>6 DEF PluginInit
  <2>. QED
    BY <1>1, <2>1, NacosStep
<1>7. CASE plugins[bi] = "store"
  <2>1. StoreInit(c)
    BY <1>7 DEF PluginInit
  <2>. QED
    BY <1>1, <2>1, StoreStep
<1>. QED
  BY <1>2, <1>3, <1>4, <1>5, <1>6, <1>7 DEF Kinds

LEMMA TypeInit == Init => TypeOK
<1>. SUFFICES ASSUME Init PROVE TypeOK
  OBVIOUS
<1>1. ASSUME NEW c \in Callers PROVE 1 \in 1 .. Len(args[c]) + 1
  <2>1. args[c] \in Seq(Kinds)
    BY PluginListsAssumption DEF Init
  <2>. QED
    BY <2>1
<1>2. plugins \in Seq(Kinds) /\ bi \in 1 .. Len(plugins) + 1
  BY DEF Init
<1>3. pc \in [Callers -> Running \cup Results]
  BY DEF Init, Running
<1>4. loaderRuns \in [1 .. NumLoaders -> Nat] /\ watcherRuns \in [1 .. NumWatchers -> Nat]
  BY DEF Init
<1>. QED
  BY <1>1, <1>2, <1>3, <1>4 DEF Init, TypeOK

LEMMA TypeStep == TypeOK /\ [Next]_vars => TypeOK'
<1>. SUFFICES ASSUME TypeOK, [Next]_vars PROVE TypeOK'
  OBVIOUS
<1>1. ASSUME NEW c \in Callers, CAS(c) PROVE TypeOK'
  BY <1>1 DEF CAS, TypeOK, Running, Results
<1>2. ASSUME NEW c \in Callers, Register(c) PROVE TypeOK'
  <2>1. args[c][ri[c]] \in Kinds
    BY <1>2, ArgsKinds DEF Register, TypeOK
  <2>2. CASE args[c][ri[c]] \in registered
    BY <1>2, <2>2 DEF Register, TypeOK, Results
  <2>3. CASE args[c][ri[c]] \notin registered
    <3>1. plugins' = Append(plugins, args[c][ri[c]]) /\ Len(plugins') = Len(plugins) + 1
      BY <1>2, <2>3, <2>1 DEF Register, TypeOK
    <3>2. plugins' \in Seq(Kinds)
      BY <3>1, <2>1 DEF TypeOK
    <3>3. ri[c] \in 1 .. Len(args[c]) /\ ri' = [ri EXCEPT ![c] = ri[c] + 1]
      BY <1>2, <2>3 DEF Register, TypeOK
    <3>4. ri' \in [Callers -> Nat] /\ \A d \in Callers : ri'[d] \in 1 .. Len(args'[d]) + 1
      BY <1>2, <3>3 DEF Register, TypeOK
    <3>5. bi' \in 1 .. Len(plugins') + 1
      BY <1>2, <3>1 DEF Register, TypeOK
    <3>. QED
      BY <1>2, <2>3, <2>1, <3>2, <3>3, <3>4, <3>5 DEF Register, TypeOK
  <2>. QED
    BY <2>2, <2>3
<1>3. ASSUME NEW c \in Callers, RegisterDone(c) PROVE TypeOK'
  BY <1>3 DEF RegisterDone, TypeOK, Running
<1>4. ASSUME NEW c \in Callers, PluginInit(c) PROVE TypeOK'
  <2>1. PluginStep(c) /\ bi \in 1 .. Len(plugins)
    BY <1>4, PluginInitStep
  <2>2. bi \in 1 .. Len(plugins)
    BY <2>1
  <2>3. CASE Continue(c)
    BY <1>4, <2>1, <2>2, <2>3 DEF PluginInit, PluginStep, Continue, TypeOK
  <2>4. CASE \E r \in Failures : Stop(c, r)
    BY <1>4, <2>1, <2>4 DEF PluginInit, PluginStep, Stop, TypeOK, Failures, Results
  <2>. QED
    BY <2>1, <2>3, <2>4 DEF PluginStep
<1>5. ASSUME NEW c \in Callers, BeforeDone(c) PROVE TypeOK'
  BY <1>5 DEF BeforeDone, TypeOK, Results
<1>6. CASE UNCHANGED vars
  BY <1>6 DEF vars, TypeOK
<1>. QED
  BY <1>1, <1>2, <1>3, <1>4, <1>5, <1>6 DEF Next

(* The model is well typed in every reachable state.                       *)
THEOREM TypeCorrect == Spec => []TypeOK
BY TypeInit, TypeStep, PTL DEF Spec

(* Past is the complement of the CAS and its refusal.                      *)
LEMMA IInvInit == Init => IInv
<1>. SUFFICES ASSUME Init PROVE IInv
  OBVIOUS
<1>1. \A c \in Callers : ~Past(c)
  BY DEF Init, Past
<1>. QED
  BY <1>1, TypeInit DEF Init, IInv, SingleInit

LEMMA IInvStep == IInv /\ [Next]_vars => IInv'
<1>. SUFFICES ASSUME IInv, [Next]_vars PROVE IInv'
  OBVIOUS
<1>1. TypeOK'
  BY TypeStep DEF IInv
<1>2. ASSUME NEW c \in Callers, CAS(c) PROVE IInv'
  <2>1. CASE done = 0
    <3>1. \A d \in Callers : Past(d)' => d = c
      BY <1>2, <2>1 DEF IInv, TypeOK, CAS, Past
    <3>. QED
      BY <1>1, <1>2, <2>1, <3>1 DEF IInv, SingleInit, CAS
  <2>2. CASE done # 0
    BY <1>1, <1>2, <2>2 DEF IInv, SingleInit, CAS, Past, TypeOK
  <2>. QED
    BY <2>1, <2>2
(* Every other step is taken by a caller already past the flag, so done   *)
(* is 1, and it keeps that caller past the flag.                           *)
<1>3. ASSUME NEW c \in Callers,
             Register(c) \/ RegisterDone(c) \/ PluginInit(c) \/ BeforeDone(c)
      PROVE  IInv'
  <2>1. pc[c] \in {"register", "before"}
    BY <1>3 DEF Register, RegisterDone, PluginInit, BeforeDone
  <2>2. done = 1 /\ done' = 1
    BY <2>1, <1>3 DEF IInv, TypeOK, Register, RegisterDone, PluginInit, BeforeDone
  <2>3. \E r \in {"register", "before", "ok"} \cup Failures :
          pc' = pc \/ pc' = [pc EXCEPT ![c] = r]
    <3>1. CASE PluginInit(c)
      BY <3>1, PluginInitStep DEF IInv, PluginStep, Continue, Stop
    <3>2. CASE Register(c)
      BY <3>2 DEF Register, Failures
    <3>3. CASE RegisterDone(c) \/ BeforeDone(c)
      BY <3>3 DEF RegisterDone, BeforeDone
    <3>. QED
      BY <1>3, <3>1, <3>2, <3>3
  <2>4. \A d \in Callers : Past(d)' => Past(d)
    BY <2>1, <2>3 DEF IInv, TypeOK, Past, Failures
  <2>. QED
    BY <1>1, <2>2, <2>4 DEF IInv, SingleInit
<1>4. CASE UNCHANGED vars
  BY <1>4 DEF vars, IInv, TypeOK, SingleInit, Past
<1>. QED
  BY <1>2, <1>3, <1>4 DEF Next

(* However many goroutines call elf.Init, at most one of them registers   *)
(* and initialises plugins.                                                *)
THEOREM SingleInitHolds == Spec => []SingleInit
<1>1. Init => IInv
  BY IInvInit
<1>2. IInv /\ [Next]_vars => IInv'
  BY IInvStep
<1>3. IInv => SingleInit
  BY DEF IInv
<1>. QED
  BY <1>1, <1>2, <1>3, PTL DEF Spec

-----------------------------------------------------------------------------
(* Refinement of PluginLifecycle.                                          *)

(* The names the manager has registered are those of its plugin list.     *)
RInv ==
    /\ IInv
    /\ registered = {plugins[i] : i \in DOMAIN plugins}

(* Status as a function of the callers' positions p.                      *)
StatusAt(p) ==
    IF \A c \in Callers : p[c] \in {"cas", "refused"} THEN "registering"
    ELSE Phase[p[CHOOSE c \in Callers : p[c] \notin {"cas", "refused"}]]

LEMMA StatusIsStatusAt == Status = StatusAt(pc) /\ Status' = StatusAt(pc')
BY DEF Status, StatusAt, Past

(* With one caller past the flag, the status is that caller's phase.      *)
LEMMA StatusWinner ==
    ASSUME NEW p, NEW c \in Callers, p[c] \notin {"cas", "refused"},
           \A d \in Callers : p[d] \notin {"cas", "refused"} => d = c
    PROVE  StatusAt(p) = Phase[p[c]]
<1>1. (CHOOSE d \in Callers : p[d] \notin {"cas", "refused"}) = c
  OBVIOUS
<1>. QED
  BY <1>1 DEF StatusAt

(* With no caller past the flag, start-up is still registering.           *)
LEMMA StatusNone ==
    ASSUME NEW p, \A c \in Callers : p[c] \in {"cas", "refused"}
    PROVE  StatusAt(p) = "registering"
BY DEF StatusAt

(* The status is the phase of the one caller past the flag, before and   *)
(* after a step.                                                           *)
LEMMA Winner ==
    ASSUME IInv, NEW c \in Callers, Past(c)
    PROVE  Status = Phase[pc[c]]
<1>1. \A d \in Callers : pc[d] \notin {"cas", "refused"} => d = c
  BY DEF IInv, SingleInit, Past
<1>2. pc[c] \notin {"cas", "refused"}
  BY DEF Past
<1>. QED
  BY <1>1, <1>2, StatusWinner, StatusIsStatusAt

LEMMA WinnerNext ==
    ASSUME IInv', NEW c \in Callers, Past(c)'
    PROVE  Status' = Phase[pc'[c]]
<1>1. \A d \in Callers : pc'[d] \notin {"cas", "refused"} => d = c
  BY DEF IInv, SingleInit, Past
<1>2. pc'[c] \notin {"cas", "refused"}
  BY DEF Past
<1>. QED
  BY <1>1, <1>2, StatusWinner, StatusIsStatusAt

LEMMA RInvInit == Init => RInv
BY IInvInit DEF Init, RInv

LEMMA RInvStep == RInv /\ [Next]_vars => RInv'
<1>. SUFFICES ASSUME RInv, [Next]_vars PROVE RInv'
  OBVIOUS
<1>1. IInv'
  BY IInvStep DEF RInv
<1>2. ASSUME NEW c \in Callers, Register(c)
      PROVE  registered' = {plugins'[i] : i \in DOMAIN plugins'}
  <2>1. CASE args[c][ri[c]] \in registered
    BY <1>2, <2>1 DEF Register, RInv
  <2>2. CASE args[c][ri[c]] \notin registered
    <3>1. plugins \in Seq(Kinds)
      BY DEF RInv, IInv, TypeOK
    <3>2. plugins' = Append(plugins, args[c][ri[c]])
          /\ registered' = registered \cup {args[c][ri[c]]}
      BY <1>2, <2>2 DEF Register
    <3>. QED
      BY <3>1, <3>2 DEF RInv
  <2>. QED
    BY <2>1, <2>2
<1>3. ASSUME NEW c \in Callers, PluginInit(c)
      PROVE  UNCHANGED <<registered, plugins>>
  BY <1>3 DEF PluginInit
<1>. QED
  BY <1>1, <1>2, <1>3 DEF Next, vars, RInv, CAS, RegisterDone, BeforeDone

(* Every step of Bootstrap is a step of PluginLifecycle or leaves its     *)
(* mapped variables unchanged.                                             *)
LEMMA RefineStep == RInv /\ RInv' /\ [Next]_vars => [Lifecycle!Next]_Lifecycle!vars
<1>. SUFFICES ASSUME RInv, RInv', [Next]_vars
              PROVE  [Lifecycle!Next]_Lifecycle!vars
  OBVIOUS
<1>0. TypeOK /\ TypeOK' /\ IInv /\ IInv'
  BY DEF RInv, IInv
<1>1. ASSUME NEW c \in Callers, CAS(c) PROVE UNCHANGED Lifecycle!vars
  <2>1. UNCHANGED <<plugins, bi>>
    BY <1>1 DEF CAS
  <2>2. CASE done = 0
    <3>1. \A d \in Callers : pc[d] \in {"cas", "refused"}
      BY <1>0, <2>2 DEF IInv
    <3>2. Past(c)' /\ pc'[c] = "register"
      BY <1>0, <1>1, <2>2 DEF CAS, TypeOK, Past
    <3>3. Status' = "registering"
      BY <1>0, <3>2, WinnerNext DEF Phase
    <3>4. Status = "registering"
      BY <3>1, StatusNone, StatusIsStatusAt
    <3>. QED
      BY <2>1, <3>3, <3>4 DEF Lifecycle!vars
  <2>3. CASE done # 0
    <3>1. pc' = [pc EXCEPT ![c] = "refused"] /\ pc[c] = "cas"
      BY <1>1, <2>3 DEF CAS
    <3>2. \A d \in Callers : Past(d)' <=> Past(d)
      BY <1>0, <3>1 DEF TypeOK, Past
    <3>3. CASE \A d \in Callers : ~Past(d)
      <4>1. \A d \in Callers : pc[d] \in {"cas", "refused"} /\ pc'[d] \in {"cas", "refused"}
        BY <3>2, <3>3 DEF Past
      <4>. QED
        BY <2>1, <4>1, StatusNone, StatusIsStatusAt DEF Lifecycle!vars
    <3>4. CASE \E d \in Callers : Past(d)
      <4>1. PICK d \in Callers : Past(d)
        BY <3>4
      <4>2. Past(d)' /\ pc'[d] = pc[d]
        BY <1>0, <3>1, <3>2, <4>1 DEF TypeOK, Past
      <4>. QED
        BY <1>0, <2>1, <4>1, <4>2, Winner, WinnerNext DEF Lifecycle!vars
    <3>. QED
      BY <3>3, <3>4
  <2>. QED
    BY <2>2, <2>3
<1>2. ASSUME NEW c \in Callers, Register(c) PROVE Lifecycle!Next
  <2>1. Past(c) /\ pc[c] = "register"
    BY <1>2 DEF Register, Past
  <2>2. Status = "registering"
    BY <1>0, <2>1, Winner DEF Phase
  <2>3. CASE args[c][ri[c]] \in registered
    <3>1. pc' = [pc EXCEPT ![c] = "err"] /\ UNCHANGED <<plugins, bi>>
      BY <1>2, <2>3 DEF Register
    <3>2. Past(c)' /\ pc'[c] = "err"
      BY <1>0, <3>1 DEF TypeOK, Past
    <3>3. Status' = "halted"
      BY <1>0, <3>2, WinnerNext DEF Phase
    <3>. QED
      BY <2>2, <3>1, <3>3 DEF Lifecycle!Next, Lifecycle!Halt
  <2>4. CASE args[c][ri[c]] \notin registered
    <3>1. args[c][ri[c]] \in Kinds
      BY <1>0, <1>2, ArgsKinds DEF Register, TypeOK
    <3>2. UNCHANGED <<pc, bi>> /\ plugins' = Append(plugins, args[c][ri[c]])
      BY <1>2, <2>4 DEF Register
    <3>3. Past(c)' /\ pc'[c] = "register"
      BY <2>1, <3>2 DEF Past
    <3>4. Status' = "registering"
      BY <1>0, <3>3, WinnerNext DEF Phase
    <3>5. args[c][ri[c]] \notin Lifecycle!Registered
      BY <2>4 DEF RInv, Lifecycle!Registered
    <3>. QED
      BY <2>2, <3>1, <3>2, <3>4, <3>5 DEF Lifecycle!Next, Lifecycle!Register
  <2>. QED
    BY <2>3, <2>4
<1>3. ASSUME NEW c \in Callers, RegisterDone(c) PROVE Lifecycle!Next
  <2>1. Past(c) /\ pc[c] = "register" /\ Past(c)' /\ pc'[c] = "before"
    BY <1>0, <1>3 DEF RegisterDone, Past, TypeOK
  <2>2. Status = "registering" /\ Status' = "running"
    BY <1>0, <2>1, Winner, WinnerNext DEF Phase
  <2>. QED
    BY <1>3, <2>2 DEF RegisterDone, Lifecycle!Next, Lifecycle!Start
<1>4. ASSUME NEW c \in Callers, PluginInit(c) PROVE Lifecycle!Next
  <2>1. PluginStep(c) /\ bi \in 1 .. Len(plugins)
    BY <1>0, <1>4, PluginInitStep
  <2>2. Past(c) /\ pc[c] = "before" /\ UNCHANGED plugins
    BY <1>4 DEF PluginInit, Past
  <2>3. Status = "running"
    BY <1>0, <2>2, Winner DEF Phase
  <2>4. CASE Continue(c)
    <3>1. Past(c)' /\ pc'[c] = "before"
      BY <2>2, <2>4 DEF Continue, Past
    <3>2. Status' = "running"
      BY <1>0, <3>1, WinnerNext DEF Phase
    <3>3. bi' - 1 = (bi - 1) + 1 /\ bi - 1 < Len(plugins)
      BY <2>1, <2>4 DEF Continue
    <3>. QED
      BY <2>2, <2>3, <3>2, <3>3 DEF Lifecycle!Next, Lifecycle!InitNext
  <2>5. CASE \E r \in Failures : Stop(c, r)
    <3>1. PICK r \in Failures : Stop(c, r)
      BY <2>5
    <3>2. Past(c)' /\ pc'[c] = r
      BY <1>0, <3>1 DEF Stop, Past, TypeOK, Failures
    <3>3. Status' = "halted"
      BY <1>0, <3>2, WinnerNext DEF Phase, Failures
    <3>4. UNCHANGED bi
      BY <3>1 DEF Stop
    <3>. QED
      BY <2>2, <2>3, <3>3, <3>4 DEF Lifecycle!Next, Lifecycle!Halt
  <2>. QED
    BY <2>1, <2>4, <2>5 DEF PluginStep
<1>5. ASSUME NEW c \in Callers, BeforeDone(c) PROVE Lifecycle!Next
  <2>1. Past(c) /\ pc[c] = "before" /\ Past(c)' /\ pc'[c] = "ok"
    BY <1>0, <1>5 DEF BeforeDone, Past, TypeOK
  <2>2. Status = "running" /\ Status' = "ok"
    BY <1>0, <2>1, Winner, WinnerNext DEF Phase
  <2>3. bi - 1 = Len(plugins)
    BY <1>0, <1>5 DEF BeforeDone, TypeOK
  <2>. QED
    BY <1>5, <2>2, <2>3 DEF BeforeDone, Lifecycle!Next, Lifecycle!Finish
<1>6. CASE UNCHANGED vars
  BY <1>6, StatusIsStatusAt DEF vars, Lifecycle!vars
<1>. QED
  BY <1>1, <1>2, <1>3, <1>4, <1>5, <1>6 DEF Next, Lifecycle!vars

(* elf.Init and the plugin manager implement PluginLifecycle: plugins are *)
(* registered under distinct names and initialised in that order, each at *)
(* most once, and nothing more happens after a failure.                   *)
THEOREM Refinement == Spec => LifecycleRefined
<1>1. Init => Lifecycle!Init
  <2>. SUFFICES ASSUME Init PROVE Lifecycle!Init
    OBVIOUS
  <2>1. \A c \in Callers : pc[c] \in {"cas", "refused"}
    BY DEF Init
  <2>. QED
    BY <2>1, StatusNone, StatusIsStatusAt DEF Init, Lifecycle!Init
<1>2. Init => RInv
  BY RInvInit
<1>3. RInv /\ [Next]_vars => RInv'
  BY RInvStep
<1>4. RInv /\ RInv' /\ [Next]_vars => [Lifecycle!Next]_Lifecycle!vars
  BY RefineStep
<1>. QED
  BY <1>1, <1>2, <1>3, <1>4, PTL DEF Spec, LifecycleRefined, Lifecycle!Spec

=============================================================================
