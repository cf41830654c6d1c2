----------------------------- MODULE NacosLoad ------------------------------
(***************************************************************************)
(* The nacos plugin's load() (src/plugin/nacos/nacos.go): newSource       *)
(* configures a configSource, logging and dropping any error of           *)
(* sourceConfiguration, then the config package's Load reads the source   *)
(* and watches it.  Read calls GetConfig once per entry of the watch list *)
(* and Watch, through newConfigWatcher (watch.go), calls ListenConfig once *)
(* per entry; both stop at the first error.                                *)
(*                                                                         *)
(* The nacos server is the environment: each GetConfig and ListenConfig    *)
(* may fail.  What GetConfig returns is left out (NacosWatch models it):   *)
(* only which keys were read and which are listened to matters here.      *)
(***************************************************************************)
EXTENDS Naturals, Sequences

CONSTANTS
    Keys,        \* <<group, dataId>> pairs a watch file can list
    WatchFiles,  \* the watch files nacos_watch_config may name
    NoFile,      \* a watch file that is missing or is not valid yaml
    Addrs        \* nacos_address: "ok", "noport" or "badport"

ASSUME WatchFilesAssumption == WatchFiles \subseteq Seq(Keys) \cup {NoFile}
ASSUME NoFileAssumption == NoFile \notin Seq(Keys)
ASSUME AddrsAssumption == Addrs \subseteq {"ok", "noport", "badport"}

VARIABLES
    watch,      \* configSource.watch
    client,     \* configSource.confClient: "client" or "nil"
    pc,         \* "new", "read", "watch", or load's result "ok"/"err"
    i,          \* the entry of the watch list the loop is at
    read,       \* keys Read fetched with GetConfig
    listening,  \* keys a ListenConfig registered w.callback for
    panicked    \* a method was called on the nil confClient

vars == <<watch, client, pc, i, read, listening, panicked>>

Entries(w) == {w[k] : k \in DOMAIN w}

Init ==
    /\ watch = <<>>
    /\ client = "nil"
    /\ pc = "new"
    /\ i = 1
    /\ read = {}
    /\ listening = {}
    /\ panicked = FALSE

-----------------------------------------------------------------------------
(* getWatchData: the file parses to a watch list, or an error is returned *)
(* (the path, the read or the yaml unmarshal fails).                       *)
GetWatchData(file) == file # NoFile

(***************************************************************************)
(* newSource and sourceConfiguration: the watch list is stored first; an  *)
(* address without a port or with a port that does not parse returns     *)
(* before a client is made, and NewConfigClient itself may fail.  Every  *)
(* error is only logged, and Load gets the source either way.             *)
(***************************************************************************)
NewSource ==
    /\ pc = "new"
    /\ \E file \in WatchFiles, addr \in Addrs, made \in BOOLEAN :
         /\ watch' = IF GetWatchData(file) THEN file ELSE <<>>
         /\ client' = IF GetWatchData(file) /\ addr = "ok" /\ made
                      THEN "client" ELSE "nil"
    /\ pc' = "read"
    /\ UNCHANGED <<i, read, listening, panicked>>

(* Read: one GetConfig for entry i; an error ends Read, and Load, with it. *)
ReadEntry ==
    /\ pc = "read"
    /\ i <= Len(watch)
    /\ IF client = "nil"
       THEN /\ panicked' = TRUE
            /\ UNCHANGED <<pc, i, read>>
       ELSE \E ok \in BOOLEAN :
              /\ pc' = IF ok THEN pc ELSE "err"
              /\ read' = IF ok THEN read \cup {watch[i]} ELSE read
              /\ i' = IF ok THEN i + 1 ELSE i
              /\ UNCHANGED panicked
    /\ UNCHANGED <<watch, client, listening>>

(* Mutant: Load goes on to Watch before Read has fetched every entry.    *)
ReadDoneEarly ==
    /\ pc = "read"
    /\ pc' = "watch"
    /\ i' = 1
    /\ UNCHANGED <<watch, client, read, listening, panicked>>

(* Read has fetched every entry: the snapshot is encoded and Load goes on *)
(* to Watch.                                                               *)
ReadDone ==
    /\ pc = "read"
    /\ i > Len(watch)
    /\ pc' = "watch"
    /\ i' = 1
    /\ UNCHANGED <<watch, client, read, listening, panicked>>

(* newConfigWatcher: one ListenConfig for entry i.  An error returns     *)
(* at once; the listeners already registered stay registered.             *)
ListenEntry ==
    /\ pc = "watch"
    /\ i <= Len(watch)
    /\ IF client = "nil"
       THEN /\ panicked' = TRUE
            /\ UNCHANGED <<pc, i, listening>>
       ELSE \E ok \in BOOLEAN :
              /\ pc' = IF ok THEN pc ELSE "err"
              /\ listening' = IF ok THEN listening \cup {watch[i]} ELSE listening
              /\ i' = IF ok THEN i + 1 ELSE i
              /\ UNCHANGED panicked
    /\ UNCHANGED <<watch, client, read>>

(* Every entry is listened to: newConfigWatcher returns the watcher and   *)
(* load returns nil.                                                      *)
WatchDone ==
    /\ pc = "watch"
    /\ i > Len(watch)
    /\ pc' = "ok"
    /\ UNCHANGED <<watch, client, i, read, listening, panicked>>

Next ==
    /\ ~panicked
    /\ \/ NewSource
       \/ ReadEntry
       \/ ReadDone
       \/ ListenEntry
       \/ WatchDone

Spec == Init /\ [][Next]_vars

-----------------------------------------------------------------------------
(* Properties *)

TypeOK ==
    /\ watch \in Seq(Keys)
    /\ client \in {"client", "nil"}
    /\ pc \in {"new", "read", "watch", "ok", "err"}
    /\ i \in 1 .. Len(watch) + 1
    /\ read \subseteq Keys /\ listening \subseteq Keys
    /\ panicked \in BOOLEAN

(* A key is listened to only after Read fetched it, and when load         *)
(* returns nil every key of the watch list was both fetched and is        *)
(* listened to (Load calls Read, then Watch; each loop stops at its first *)
(* error).                                                                 *)
LoadComplete ==
    /\ listening \subseteq read
    /\ pc = "ok" => read = Entries(watch) /\ listening = Entries(watch)

(* A source that cannot reach nacos is fatal to start-up: when load       *)
(* returns nil the source has a nacos client (the spec's connectivity     *)
(* error during Read or Watch registration aborts the Loader).            *)
ConnectedOnSuccess == pc = "ok" => client = "client"

(* No method is called on a nil confClient (nacos.go Read and Watch after  *)
(* sourceConfiguration failed).                                            *)
NoNilClient == ~panicked

=============================================================================
