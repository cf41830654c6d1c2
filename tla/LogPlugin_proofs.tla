--------------------------- MODULE LogPlugin_proofs ---------------------------
(***************************************************************************)
(* Proofs about the log plugin: every reachable state is well typed, and  *)
(* the package logger is never a half-built one, for every set of log_mod, *)
(* log_duration, level and field inputs and every bound on the loggers.   *)
(***************************************************************************)
EXTENDS LogPlugin, SequenceTheorems, TLAPS

(* The types Init registers, spelled out.                                  *)
LEMMA TypesEq ==
    Types = {"debug", "trace", "info", "warn", "error", "panic", "fatal",
             "access", "tracing", "micro"}
<1>1. \A i \in 1 .. 10 : Builders[i] \in {"debug", "trace", "info", "warn", "error",
                                          "panic", "fatal", "access", "tracing", "micro"}
    BY DEF Builders
<1>2. \A t \in {"debug", "trace", "info", "warn", "error", "panic", "fatal",
                "access", "tracing", "micro"} : \E i \in 1 .. 10 : Builders[i] = t
    BY DEF Builders
<1>. QED
    BY <1>1, <1>2 DEF Types

(* Every level's name is the type of a builder.                           *)
LEMMA LevelNameType ==
    \A lv \in AllLevels : LevelName[lv] \in Types
BY TypesEq DEF LevelName, AllLevels

(* doSelect picks a registered type or stdLogger.                          *)
LEMMA TargetType ==
    ASSUME NEW l \in Logger, NEW lv \in AllLevels
    PROVE  Target(l, lv) \in Types \cup {"std"}
BY LevelNameType DEF Target, Logger

(* NewPLogger, and each way the code updates a pLogger, yields a Logger: *)
(* Init's registration, SetLogLevel, WithField and the sysLogger's clone. *)
LEMMA NewPLoggerType == NewPLogger \in Logger
BY DEF NewPLogger, Logger, AllLevels

LEMMA LoggerRegister ==
    ASSUME NEW r \in Logger, NEW sl \in [Types -> 0 .. 6], NEW nw \in BOOLEAN
    PROVE  /\ [r EXCEPT !.sel = sl, !.nilw = nw] \in Logger
           /\ [r EXCEPT !.sel = sl, !.nilw = nw].sel = sl
BY DEF Logger

LEMMA LoggerSetLevel ==
    ASSUME NEW r \in Logger, NEW lv \in AllLevels
    PROVE  [r EXCEPT !.level = lv] \in Logger /\ [r EXCEPT !.level = lv].sel = r.sel
BY DEF Logger

LEMMA LoggerWithField ==
    ASSUME NEW r \in Logger, NEW f \in Types \cup {"plain"}
    PROVE  [r EXCEPT !.typ = IF f = "plain" THEN @ ELSE f, !.clone = TRUE] \in Logger
BY DEF Logger

LEMMA LoggerRetype ==
    ASSUME NEW r \in Logger, NEW ty \in Types
    PROVE  [r EXCEPT !.typ = ty, !.clone = TRUE] \in Logger
BY DEF Logger

(* A message through a well-typed logger leaves a well-typed record.     *)
LEMMA LogViaType ==
    ASSUME NEW l \in Logger, NEW lv \in AllLevels, NEW root \in BOOLEAN,
           defaultLogLevel \in AllLevels, LogVia(l, lv, root)
    PROVE  /\ last' \in [lvl : 0 .. 6, root : BOOLEAN, req : 0 .. 6,
                         out : {"none", "dropped", "std", "written", "panic"},
                         file : {NoFile} \cup {Layout(t) : t \in Types}]
           /\ panicked' \in BOOLEAN
<1>1. Outcome(l, lv) \in {"dropped", "std", "written", "panic"}
    BY DEF Outcome
<1>2. Outcome(l, lv) = "written" => Target(l, lv) \in Types
    BY TargetType DEF Outcome
<1>3. (IF Outcome(l, lv) = "written" THEN Layout(Target(l, lv)) ELSE NoFile)
        \in {NoFile} \cup {Layout(t) : t \in Types}
    BY <1>2
<1>. QED
    BY <1>1, <1>3 DEF LogVia, AllLevels

(***************************************************************************)
(* The inductive invariant: the type invariant, and the package logger's *)
(* selector is empty or full.  Each conjunct needs the other: a new       *)
(* package logger is full because defaultLogLevel is a level, never 0.    *)
(***************************************************************************)
IInv == TypeOK /\ InstalledComplete

LEMMA IInvInit == Init => IInv
<1> SUFFICES ASSUME Init PROVE IInv
    OBVIOUS
<1>1. NewPLogger \in Logger
    BY NewPLoggerType
<1>2. loggers \in Seq(Logger) /\ defaultLog \in DOMAIN loggers
    BY <1>1 DEF Init
<1>4. last \in [lvl : 0 .. 6, root : BOOLEAN, req : 0 .. 6,
                out : {"none", "dropped", "std", "written", "panic"},
                file : {NoFile} \cup {Layout(t) : t \in Types}]
    BY DEF Init, NoMessage
<1>5. defaultLogMod \in Int /\ defaultLogLevel \in AllLevels
    BY ModAssumption DEF Init, AllLevels
<1>6. TypeOK
    BY <1>2, <1>4, <1>5 DEF Init, TypeOK
<1>3. InstalledComplete
    BY DEF Init, InstalledComplete, NewPLogger
<1>. QED
    BY <1>6, <1>3 DEF IInv

(* logger.go Init keeps the invariant: it either leaves the package      *)
(* logger alone or installs one with every type registered.               *)
LEMMA InitLoggerStep ==
    ASSUME IInv, NEW res, NEW mod, InitLogger(res, mod)
    PROVE  /\ loggers' \in Seq(Logger)
           /\ defaultLog' \in DOMAIN loggers'
           /\ LET sel == loggers'[defaultLog'].sel IN
              (\A t \in Types : sel[t] = 0) \/ (\A t \in Types : sel[t] # 0)
<1>1. PICK k \in 1 .. Len(Builders) + 1 :
        /\ IF k <= Len(Builders)
           THEN UNCHANGED <<loggers, defaultLog>>
           ELSE /\ loggers' = Append(loggers,
                     [NewPLogger EXCEPT
                        !.sel = [t \in Types |-> defaultLogLevel],
                        !.nilw = (NewWriter(mod) = {"nil"})])
                /\ defaultLog' = Len(loggers) + 1
    BY DEF InitLogger
<1>2. CASE k <= Len(Builders)
    BY <1>1, <1>2 DEF IInv, TypeOK, InstalledComplete
<1>3. CASE ~(k <= Len(Builders))
    <2> DEFINE nl == [NewPLogger EXCEPT
                        !.sel = [t \in Types |-> defaultLogLevel],
                        !.nilw = (NewWriter(mod) = {"nil"})]
    <2>0. defaultLogLevel \in AllLevels /\ loggers \in Seq(Logger)
        BY DEF IInv, TypeOK
    <2>1. nl \in Logger /\ nl.sel = [t \in Types |-> defaultLogLevel]
        <3>1. [t \in Types |-> defaultLogLevel] \in [Types -> 0 .. 6]
              /\ (NewWriter(mod) = {"nil"}) \in BOOLEAN
            BY <2>0 DEF AllLevels
        <3>. QED
            BY <3>1, NewPLoggerType, LoggerRegister
    <2>2. loggers' = Append(loggers, nl) /\ defaultLog' = Len(loggers) + 1
        BY <1>1, <1>3
    <2>3. loggers' \in Seq(Logger) /\ defaultLog' \in DOMAIN loggers'
          /\ loggers'[defaultLog'] = nl
        BY <2>0, <2>1, <2>2, AppendProperties
    <2>4. \A t \in Types : nl.sel[t] # 0
        BY <2>0, <2>1 DEF AllLevels
    <2>. QED
        BY <2>3, <2>4
<1>. QED
    BY <1>2, <1>3

LEMMA IInvStep == IInv /\ [Next]_vars => IInv'
<1> SUFFICES ASSUME IInv, [Next]_vars PROVE IInv'
    OBVIOUS
<1>0. loggers \in Seq(Logger) /\ defaultLog \in DOMAIN loggers
      /\ loggers[defaultLog] \in Logger /\ defaultLogLevel \in AllLevels
    BY DEF IInv, TypeOK
<1>1. CASE PluginInit
    <2>1. PICK setting \in BOOLEAN, mod \in ModInputs, dur \in DurInputs :
            IF ~setting
            THEN /\ pluginResult' = "skipped"
                 /\ UNCHANGED <<loggers, defaultLog, defaultLogMod>>
            ELSE /\ defaultLogMod' = IF mod >= 0 THEN mod ELSE defaultLogMod
                 /\ CASE dur = "pos" ->
                           \E res \in {"ok", "err"} :
                              /\ pluginResult' = res
                              /\ InitLogger(res, defaultLogMod')
                   [] dur \in {"zero", "bad"} ->
                           pluginResult' = "err" /\ UNCHANGED <<loggers, defaultLog>>
                   [] dur = "neg" ->
                           pluginResult' = "ok" /\ UNCHANGED <<loggers, defaultLog>>
        BY <1>1 DEF PluginInit
    <2>2. UNCHANGED <<defaultLogLevel, last, panicked>>
        BY <1>1 DEF PluginInit
    <2>3. CASE ~setting
        BY <2>1, <2>2, <2>3 DEF IInv, TypeOK, InstalledComplete
    <2>4. CASE setting /\ dur = "pos"
        <3>1. PICK res \in {"ok", "err"} :
                pluginResult' = res /\ InitLogger(res, defaultLogMod')
            BY <2>1, <2>4
        <3>2. defaultLogMod' \in Int
            BY <2>1, <2>4, ModAssumption DEF IInv, TypeOK
        <3>3. /\ loggers' \in Seq(Logger)
              /\ defaultLog' \in DOMAIN loggers'
              /\ LET sel == loggers'[defaultLog'].sel IN
                 (\A t \in Types : sel[t] = 0) \/ (\A t \in Types : sel[t] # 0)
            BY <3>1, InitLoggerStep
        <3>. QED
            BY <2>2, <3>1, <3>2, <3>3 DEF IInv, TypeOK, InstalledComplete
    <2>5. CASE setting /\ dur # "pos"
        <3>1. dur \in {"zero", "bad", "neg"}
            BY <2>5, DurAssumption
        <3>2. pluginResult' \in {"ok", "err"} /\ UNCHANGED <<loggers, defaultLog>>
            BY <2>1, <2>5, <3>1
        <3>3. defaultLogMod' \in Int
            BY <2>1, <2>5, ModAssumption DEF IInv, TypeOK
        <3>. QED
            BY <2>2, <3>2, <3>3 DEF IInv, TypeOK, InstalledComplete
    <2>. QED
        BY <2>3, <2>4, <2>5
<1>2. ASSUME NEW lv \in LevelInputs, SetLogLevel(lv) PROVE IInv'
    <2>1. lv \in AllLevels
        BY <1>2 DEF SetLogLevel
    <2>2. loggers' = [loggers EXCEPT ![defaultLog].level = lv]
        BY <1>2 DEF SetLogLevel
    <2>4. [loggers[defaultLog] EXCEPT !.level = lv] \in Logger
          /\ [loggers[defaultLog] EXCEPT !.level = lv].sel = loggers[defaultLog].sel
        BY <1>0, <2>1, LoggerSetLevel
    <2>5. loggers' = [loggers EXCEPT ![defaultLog] = [loggers[defaultLog] EXCEPT !.level = lv]]
          /\ defaultLog \in 1 .. Len(loggers)
        BY <1>0, <2>2
    <2>3. loggers' \in Seq(Logger) /\ DOMAIN loggers' = DOMAIN loggers
          /\ loggers'[defaultLog].sel = loggers[defaultLog].sel
        BY <1>0, <2>4, <2>5, ExceptSeq
    <2>. QED
        BY <1>2, <2>1, <2>3 DEF SetLogLevel, IInv, TypeOK, InstalledComplete
<1>3. ASSUME NEW i \in Held, NEW f \in FieldInputs, WithField(i, f) PROVE IInv'
    <2>1. i \in DOMAIN loggers
        BY <1>0 DEF Held
    <2>4. loggers[i] \in Logger /\ f \in Types \cup {"plain"}
        BY <1>0, <2>1, FieldAssumption
    <2>2. [loggers[i] EXCEPT !.typ = IF f = "plain" THEN @ ELSE f, !.clone = TRUE]
            \in Logger
        BY <2>4, LoggerWithField
    <2>3. loggers' \in Seq(Logger) /\ defaultLog \in DOMAIN loggers'
          /\ loggers'[defaultLog] = loggers[defaultLog]
        BY <1>0, <1>3, <2>2, AppendProperties DEF WithField
    <2>. QED
        BY <1>3, <2>3 DEF WithField, IInv, TypeOK, InstalledComplete
<1>4. ASSUME NEW i \in Held, NEW lv \in LogLevels, Log(i, lv) PROVE IInv'
    <2>1. loggers[i] \in Logger /\ lv \in AllLevels
        BY <1>0, LevelAssumption DEF Held
    <2>2. LogVia(loggers[i], lv, i = defaultLog)
        BY <1>4 DEF Log
    <2>3. UNCHANGED <<loggers, defaultLog, defaultLogLevel, defaultLogMod, pluginResult>>
        BY <2>2 DEF LogVia
    <2>. QED
        BY <1>0, <2>1, <2>2, <2>3, LogViaType DEF IInv, TypeOK, InstalledComplete
<1>5. CASE SysLog
    <2>1. [loggers[defaultLog] EXCEPT !.typ = "micro", !.clone = TRUE] \in Logger
        BY <1>0, TypesEq, LoggerRetype
    <2>2. LogVia([loggers[defaultLog] EXCEPT !.typ = "micro", !.clone = TRUE], 2, FALSE)
        BY <1>5 DEF SysLog
    <2>3. UNCHANGED <<loggers, defaultLog, defaultLogLevel, defaultLogMod, pluginResult>>
        BY <2>2 DEF LogVia
    <2>4. 2 \in AllLevels
        BY DEF AllLevels
    <2>. QED
        BY <1>0, <2>1, <2>2, <2>3, <2>4, LogViaType DEF IInv, TypeOK, InstalledComplete
<1>6. CASE UNCHANGED vars
    BY <1>6 DEF vars, IInv, TypeOK, InstalledComplete
<1>. QED
    BY <1>1, <1>2, <1>3, <1>4, <1>5, <1>6 DEF Next

(* Every reachable state of the log plugin is well typed: the plugin's   *)
(* Init, SetLogLevel, WithField and every write keep the loggers, the     *)
(* package logger's index and the last message in their types.           *)
THEOREM TypeCorrect == Spec => []TypeOK
BY IInvInit, IInvStep, PTL DEF Spec, IInv

(* Whatever log_mod, log_duration and builder failures occur, the package *)
(* logger is the initial proxy or one with a zap logger for every type:   *)
(* logger.go Init calls SetLogger only after its whole builder loop.      *)
THEOREM InstalledCompleteHolds == Spec => []InstalledComplete
BY IInvInit, IInvStep, PTL DEF Spec, IInv
=============================================================================
