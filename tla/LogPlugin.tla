----------------------------- MODULE LogPlugin ------------------------------
(***************************************************************************)
(* The log plugin (src/plugin/log): the proxy logger pLogger (proxy.go),  *)
(* the zap loggers Init builds for each type (logger.go), the package     *)
(* logger and its setters (default.go, config.go) and the plugin's Init   *)
(* that parses the flags (plugin.go).                                      *)
(*                                                                         *)
(* A logger is a record: the proxy's levelEnabler, its selector (for each *)
(* type, the level the zap logger registered under it was built with, or *)
(* 0 when none is), whether those zap loggers got a nil writer, and the   *)
(* "type" field it carries ("none" when it has none).  Every pLogger ever *)
(* made, the package's own and every clone made by WithField, is kept in *)
(* the sequence `loggers' so that goroutines holding it can go on using  *)
(* it.  What a message says is left out: only its level and where it goes *)
(* matter.                                                                 *)
(***************************************************************************)
EXTENDS Integers, Sequences

CONSTANTS
    ModInputs,      \* log_mod as strconv.Atoi reads it; -1 also stands for
                    \* a value that does not parse
    DurInputs,      \* log_duration: "pos", "zero", "neg" or "bad"
    LevelInputs,    \* levels passed to SetLogLevel (0: not a level)
    LogLevels,      \* levels messages are logged at
    FieldInputs,    \* WithField: "plain" (a key other than "type") or a type
    MaxLoggers      \* bound on the number of pLoggers

(* nglog's levels, Debug (1) to Fatal (6), and their String().            *)
LevelName == <<"debug", "info", "warn", "error", "panic", "fatal">>
AllLevels == 1 .. 6

(* The builders Init runs, in order, by the type each registers.          *)
Builders == <<"debug", "trace", "info", "warn", "error", "panic", "fatal",
              "access", "tracing", "micro">>
Types == {Builders[i] : i \in 1 .. 10}

(* The level builders: each opens its own writer on the default log file  *)
(* in the subdirectory of its level (trace shares debug/, panic and fatal *)
(* share error/), and the error-level ones add a stacktrace.              *)
LevelBuilders ==
    [t \in {"debug", "trace", "info", "warn", "error", "panic", "fatal"} |->
        [dir   |-> CASE t \in {"debug", "trace"} -> "debug/"
                     [] t \in {"error", "panic", "fatal"} -> "error/"
                     [] OTHER -> t \o "/",
         file  |-> "default",
         stack |-> t \in {"error", "panic", "fatal"}]]

(* The builders with a file of their own under info/; tracing writes the  *)
(* bare message with no host and project fields.                           *)
NamedBuilders ==
    [t \in {"access", "tracing", "micro"} |->
        [dir |-> "info/",
         file |-> CASE t = "access" -> "gw-access.log"
                    [] t = "tracing" -> "tracing.log"
                    [] OTHER -> "micro.log",
         stack |-> FALSE]]

(* Where the zap logger of type t writes when log_mod asks for files.     *)
Layout(t) == IF t \in DOMAIN LevelBuilders THEN LevelBuilders[t] ELSE NamedBuilders[t]

ASSUME ModAssumption == ModInputs \subseteq Int
ASSUME DurAssumption == DurInputs \subseteq {"pos", "zero", "neg", "bad"}
ASSUME LevelAssumption == LevelInputs \subseteq 0 .. 6 /\ LogLevels \subseteq AllLevels
ASSUME FieldAssumption == FieldInputs \subseteq Types \cup {"plain"}
ASSUME MaxAssumption == MaxLoggers \in Nat \ {0}

Logger == [level : AllLevels, sel : [Types -> 0 .. 6], nilw : BOOLEAN,
           typ : Types \cup {"none"}, clone : BOOLEAN]

VARIABLES
    loggers,          \* every pLogger made so far
    defaultLog,       \* index in loggers of the package's logger
    defaultLogLevel,  \* config.go defaultLogLevel
    defaultLogMod,    \* config.go defaultLogMod
    pluginResult,     \* the plugin's Init: "none" (not run), "skipped"
                      \* (no log_setting), or what it returned, "ok"/"err"
    last,             \* the last message: its level, whether it went through
                      \* the package logger, the level set then, its fate
    panicked          \* a zap logger wrote to a nil writer

vars == <<loggers, defaultLog, defaultLogLevel, defaultLogMod, pluginResult,
          last, panicked>>

(* NewPLogger: levelEnabler Debug, no selector, no fields.                *)
NewPLogger == [level |-> 1, sel |-> [t \in Types |-> 0], nilw |-> FALSE, typ |-> "none",
               clone |-> FALSE]

(* The outcomes of newWriter for a mod: stdout for 0; a rotating file for *)
(* 1, or both for 2, which rotate.NewWriter may fail to open; a nil       *)
(* writer and a nil error for any other mod.                               *)
NewWriter(mod) ==
    IF mod = 0 THEN {"ok"} ELSE IF mod \in {1, 2} THEN {"ok", "err"} ELSE {"nil"}

NoFile == [dir |-> "", file |-> "", stack |-> FALSE]

NoMessage == [lvl |-> 0, root |-> FALSE, req |-> 0, out |-> "none", file |-> NoFile]

Init ==
    /\ loggers = <<NewPLogger>>
    /\ defaultLog = 1
    /\ defaultLogLevel = 1
    /\ defaultLogMod \in {0} \cup ModInputs   \* getLogMod: LOG_MOD, or 0 when unset
    /\ pluginResult = "none"
    /\ last = NoMessage
    /\ panicked = FALSE

-----------------------------------------------------------------------------
(***************************************************************************)
(* logger.go Init: every builder makes a writer for the mod and a        *)
(* zap logger at defaultLogLevel, which is registered under its type in a *)
(* new pLogger; the first error is returned, and only when every builder *)
(* succeeded is the new pLogger installed by SetLogger.  The result is    *)
(* "ok" or "err".                                                          *)
(***************************************************************************)
(* Mutant: the pLogger is installed before the builders run.              *)
InitLoggerEarly(res, mod) ==
    \E k \in 1 .. Len(Builders) + 1 :
       /\ k <= Len(Builders) => "err" \in NewWriter(mod)
       /\ res = IF k <= Len(Builders) THEN "err" ELSE "ok"
       /\ loggers' = Append(loggers,
            [NewPLogger EXCEPT
               !.sel = [t \in Types |->
                          IF \E i \in 1 .. k - 1 : Builders[i] = t
                          THEN defaultLogLevel ELSE 0],
               !.nilw = (NewWriter(mod) = {"nil"})])
       /\ defaultLog' = Len(loggers) + 1

InitLogger(res, mod) ==
    \E k \in 1 .. Len(Builders) + 1 :
       /\ k <= Len(Builders) => "err" \in NewWriter(mod)
       /\ res = IF k <= Len(Builders) THEN "err" ELSE "ok"
       /\ IF k <= Len(Builders)
          THEN UNCHANGED <<loggers, defaultLog>>
          ELSE /\ loggers' = Append(loggers,
                    [NewPLogger EXCEPT
                       !.sel = [t \in Types |-> defaultLogLevel],
                       !.nilw = (NewWriter(mod) = {"nil"})])
               /\ defaultLog' = Len(loggers) + 1

(***************************************************************************)
(* The plugin's Init.  An empty log_setting returns nil at once.  A       *)
(* log_mod that parses to a non-negative integer becomes defaultLogMod.  *)
(* log_duration: a positive duration goes on to Init(l.md); one that does *)
(* not parse, or is zero, is the "cannot be empty" error; a negative one  *)
(* leaves `return err' with err nil, so Init returns nil without building *)
(* any logger.                                                             *)
(***************************************************************************)
PluginInit ==
    /\ pluginResult = "none"
    /\ \E setting \in BOOLEAN, mod \in ModInputs, dur \in DurInputs :
         IF ~setting
         THEN /\ pluginResult' = "skipped"
              /\ UNCHANGED <<loggers, defaultLog, defaultLogMod>>
         ELSE /\ defaultLogMod' = IF mod >= 0 THEN mod ELSE defaultLogMod
              /\ CASE dur = "pos" ->
                        \E res \in {"ok", "err"} :
                           /\ pluginResult' = res
                           /\ InitLogger(res, defaultLogMod')
                [] dur \in {"zero", "bad"} ->
                        pluginResult' = "err" /\ UNCHANGED <<loggers, defaultLog>>
                [] dur = "neg" ->
                        pluginResult' = "ok" /\ UNCHANGED <<loggers, defaultLog>>
    /\ UNCHANGED <<defaultLogLevel, last, panicked>>

-----------------------------------------------------------------------------
(* Mutant: pLogger.SetLogLevel takes any level.                          *)
SetLogLevelNoCheck(lv) ==
    /\ loggers' = [loggers EXCEPT ![defaultLog].level = lv]
    /\ defaultLogLevel' = lv
    /\ UNCHANGED <<defaultLog, defaultLogMod, pluginResult, last, panicked>>

(* SetLogLevel (config.go): the package logger's SetLogLevel, then        *)
(* defaultLogLevel.  pLogger.SetLogLevel accepts one of AllLevels only.  *)
SetLogLevel(lv) ==
    /\ lv \in AllLevels
    /\ loggers' = [loggers EXCEPT ![defaultLog].level = lv]
    /\ defaultLogLevel' = lv
    /\ UNCHANGED <<defaultLog, defaultLogMod, pluginResult, last, panicked>>

(* WithField on logger i with a non-empty key: a clone with the same      *)
(* levelEnabler and selector, carrying the field.                          *)
WithField(i, f) ==
    /\ Len(loggers) < MaxLoggers
    /\ loggers' = Append(loggers,
         [loggers[i] EXCEPT !.typ = IF f = "plain" THEN @ ELSE f, !.clone = TRUE])
    /\ UNCHANGED <<defaultLog, defaultLogLevel, defaultLogMod, pluginResult, last,
                   panicked>>

(***************************************************************************)
(* doSelect: below the levelEnabler, the nop logger; else the zap logger  *)
(* registered under the "type" field, or else under the level's name, or *)
(* else stdLogger.  The target of logger l at level lv.                   *)
(***************************************************************************)
Target(l, lv) ==
    IF l.typ # "none" /\ l.sel[l.typ] # 0 THEN l.typ
    ELSE IF l.sel[LevelName[lv]] # 0 THEN LevelName[lv]
    ELSE "std"

(* What a message at level lv through logger l becomes: dropped by the    *)
(* proxy or by the zap logger's own level, written to stdout, written by *)
(* the zap logger, or a panic on its nil writer.                           *)
Outcome(l, lv) ==
    IF lv < l.level THEN "dropped"
    ELSE LET t == Target(l, lv) IN
         IF t = "std" THEN "std"
         ELSE IF lv < l.sel[t] THEN "dropped"
         ELSE IF l.nilw THEN "panic"
         ELSE "written"

(* The loggers code can still call: the package logger (through the      *)
(* functions SetLogger points at it) and every clone handed out by        *)
(* WithField.  A package logger SetLogger replaced is reachable only       *)
(* through its clones.                                                     *)
Held == {defaultLog} \cup {i \in DOMAIN loggers : loggers[i].clone}

(* A message at level lv through logger l: its fate and, when a zap       *)
(* logger writes it, the file of that logger.                               *)
LogVia(l, lv, root) ==
    /\ last' = [lvl |-> lv, root |-> root, req |-> defaultLogLevel,
                out |-> Outcome(l, lv),
                file |-> IF Outcome(l, lv) = "written" THEN Layout(Target(l, lv))
                         ELSE NoFile]
    /\ panicked' = (Outcome(l, lv) = "panic")
    /\ UNCHANGED <<loggers, defaultLog, defaultLogLevel, defaultLogMod, pluginResult>>

(* Debug, Info, Warn, Error through logger i (Trace is Debug).            *)
Log(i, lv) == LogVia(loggers[i], lv, i = defaultLog)

(***************************************************************************)
(* A write of the standard library's log package once replaceSysLogger    *)
(* ran, which Init does right after SetLogger, so exactly when the        *)
(* package logger is a built one: sysLogger.Write logs the text at Info   *)
(* through WithField("type", "micro").WithField("notice", "true") of the  *)
(* package logger at that moment.                                          *)
(***************************************************************************)
SysLog ==
    /\ loggers[defaultLog].sel["micro"] # 0
    /\ LogVia([loggers[defaultLog] EXCEPT !.typ = "micro", !.clone = TRUE], 2, FALSE)

Next ==
    /\ ~panicked
    /\ \/ PluginInit
       \/ \E lv \in LevelInputs : SetLogLevel(lv)
       \/ \E i \in Held, f \in FieldInputs : WithField(i, f)
       \/ \E i \in Held, lv \in LogLevels : Log(i, lv)
       \/ SysLog

Spec == Init /\ [][Next]_vars

-----------------------------------------------------------------------------
(* Properties *)

TypeOK ==
    /\ loggers \in Seq(Logger)
    /\ defaultLog \in DOMAIN loggers
    /\ defaultLogLevel \in AllLevels
    /\ defaultLogMod \in Int
    /\ pluginResult \in {"none", "skipped", "ok", "err"}
    /\ last \in [lvl : 0 .. 6, root : BOOLEAN, req : 0 .. 6,
                 out : {"none", "dropped", "std", "written", "panic"},
                 file : {NoFile} \cup {Layout(t) : t \in Types}]
    /\ panicked \in BOOLEAN

(* The package logger is either the initial proxy or one with a zap       *)
(* logger for every type: a builder failing part-way through Init leaves *)
(* the old logger in place (logger.go Init, SetLogger after the loop).   *)
InstalledComplete ==
    LET sel == loggers[defaultLog].sel IN
    (\A t \in Types : sel[t] = 0) \/ (\A t \in Types : sel[t] # 0)

(* "Changing level on the fly without app restart" (proxy.go SetLogLevel): *)
(* a message through the package logger at or above the level last set   *)
(* is not dropped.                                                         *)
LevelTakesEffect ==
    last.root /\ last.lvl >= last.req => last.out # "dropped"

InitInstallsLogger ==
    pluginResult = "ok" => \E t \in Types : loggers[defaultLog].sel[t] # 0

(* No message is written through a zap logger with a nil writer          *)
(* (newWriter for a log_mod other than 0, 1, 2).                           *)
NoNilWriter == ~panicked

=============================================================================
