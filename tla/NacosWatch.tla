----------------------------- MODULE NacosWatch -----------------------------
(***************************************************************************)
(* The nacos configuration source (src/plugin/nacos) together with the    *)
(* config aggregator's consumption loop that feeds on its watcher.         *)
(*                                                                         *)
(*  - Init is `load`: Source.Read builds the first snapshot from one       *)
(*    GetConfig per entry of the watch list, then Source.Watch registers  *)
(*    one ListenConfig callback per entry.                                 *)
(*  - Publish is the environment: the nacos server changes one watched     *)
(*    key and the SDK queues a notification for it.                        *)
(*  - Fire is `watcher.callback` up to its blocking send: it reads the     *)
(*    aggregator's current snapshot (cfg.Get().Bytes()), decodes it, sets  *)
(*    snapMap[group][dataId] = data and re-encodes the whole tree.         *)
(*  - Receive is the rendezvous on the unbuffered channel w.ch between a   *)
(*    callback blocked in `w.ch <- cs` and the consumer blocked in Next.   *)
(*  - Apply is the aggregator swapping in the received snapshot.           *)
(*  - NextStopped is Next taking the `<-w.exit` branch of its select.      *)
(*  - StopCheck / StopClose are the two halves of watcher.Stop: the        *)
(*    select that tests w.exit, then the close(w.exit) of its default arm. *)
(*                                                                         *)
(* The snapshot is the decoded map[string]map[string]interface{}: a        *)
(* function from group to a function from dataId to a value, where Absent *)
(* is a key missing from the inner map and <<d, v>> is the nested map      *)
(* {d: v} that Read stores for the second dataId of a group.              *)
(***************************************************************************)
EXTENDS Naturals, Sequences

CONSTANTS
    Groups,      \* nacos groups (the outer keys of the snapshot)
    DataIds,     \* nacos dataIds (the inner keys)
    Vals,        \* configuration contents a dataId can hold
    WatchList,   \* the watch entries of nacos_watch.yaml, in file order
    Callbacks,   \* SDK goroutines that may run the listener concurrently
    Stoppers,    \* goroutines that may call watcher.Stop
    MaxPublish,  \* bound on the number of server-side changes
    MaxSync,     \* bound on the number of Sync calls
    Absent       \* a key that is not in its inner map

ASSUME WatchListAssumption == WatchList \in Seq(Groups \X DataIds)
ASSUME ValsAssumption == Vals # {}
ASSUME AbsentAssumption == Absent \notin Vals \cup (DataIds \X Vals)
ASSUME MaxPublishAssumption == MaxPublish \in Nat
ASSUME MaxSyncAssumption == MaxSync \in Nat

VARIABLES
    server,      \* server[k]: the content nacos holds for watched key k
    pending,     \* watched keys whose change the SDK has yet to announce
    published,   \* number of Publish steps so far (bounded by MaxPublish)
    snapshot,    \* the aggregator's current decoded snapshot
    pc,          \* pc[c]: "idle" or "send" (blocked in w.ch <- cs)
    out,         \* out[c]: the snapshot a callback is trying to send
    cpc,         \* consumer: "next" (in Next), "apply", or "exited"
    held,        \* the snapshot the consumer received and will apply
    exitClosed,  \* w.exit has been closed
    spc,         \* spc[s]: "ready", "closing" (passed the select), "done"
    panicked,    \* close of a closed channel: the process has crashed
    synced       \* number of Sync calls so far (bounded by MaxSync)

vars == <<server, pending, published, snapshot, pc, out, cpc, held,
          exitClosed, spc, panicked, synced>>

-----------------------------------------------------------------------------
(* Data *)

Watched == {WatchList[i] : i \in DOMAIN WatchList}

Value == Vals \cup (DataIds \X Vals) \cup {Absent}

Snapshot == [Groups -> [DataIds -> Value]]

(* The value of watched key k = <<g, d>> in snapshot s. *)
At(s, k) == s[k[1]][k[2]]

(***************************************************************************)
(* Source.Read (nacos.go Read): walks the watch list in order; the first   *)
(* entry of a group creates the inner map {dataId: str}, a later entry of *)
(* the same group stores {dataId: {dataId: str}} instead.  A key listed   *)
(* twice keeps what its last entry stored.                                 *)
(***************************************************************************)
LastIdx(k) ==
    CHOOSE i \in DOMAIN WatchList :
        /\ WatchList[i] = k
        /\ \A j \in DOMAIN WatchList : WatchList[j] = k => j <= i

FirstOfGroup(i) == \A j \in 1 .. (i - 1) : WatchList[j][1] # WatchList[i][1]

ReadEntry(srv, k) ==
    IF FirstOfGroup(LastIdx(k)) THEN srv[k] ELSE <<k[2], srv[k]>>

ReadSnapshot(srv) ==
    [g \in Groups |-> [d \in DataIds |->
        IF <<g, d>> \in Watched THEN ReadEntry(srv, <<g, d>>) ELSE Absent]]

(***************************************************************************)
(* The mutation of watcher.callback: snapMap[group] is looked up; a group *)
(* not in the map gets the fresh inner map {dataId: data}, otherwise      *)
(* value[dataId] = data is set in the existing inner map.                 *)
(***************************************************************************)
GroupPresent(s, g) == \E d \in DataIds : s[g][d] # Absent

(* Mutant: always the fresh-group branch, dropping the group's siblings.  *)
MergeFreshGroup(s, g, d, data) ==
    [s EXCEPT ![g] = [x \in DataIds |-> IF x = d THEN data ELSE Absent]]

Merge(s, g, d, data) ==
    IF GroupPresent(s, g)
    THEN [s EXCEPT ![g][d] = data]
    ELSE [s EXCEPT ![g] = [x \in DataIds |-> IF x = d THEN data ELSE Absent]]

-----------------------------------------------------------------------------
(* Initial state: load() has read the first snapshot and registered the   *)
(* listeners; the consumer is blocked in Next.                             *)

Init ==
    /\ server \in [Watched -> Vals]
    /\ pending = {}
    /\ published = 0
    /\ snapshot = ReadSnapshot(server)
    /\ pc = [c \in Callbacks |-> "idle"]
    /\ out = [c \in Callbacks |-> snapshot]
    /\ cpc = "next"
    /\ held = snapshot
    /\ exitClosed = FALSE
    /\ spc = [s \in Stoppers |-> "ready"]
    /\ panicked = FALSE
    /\ synced = 0

(* The nacos server takes a new content for k; the SDK notices the md5    *)
(* change and queues a notification.                                       *)
Publish(k, v) ==
    /\ published < MaxPublish
    /\ v # server[k]
    /\ server' = [server EXCEPT ![k] = v]
    /\ pending' = pending \cup {k}
    /\ published' = published + 1
    /\ UNCHANGED <<snapshot, pc, out, cpc, held, exitClosed, spc, panicked, synced>>

(* watcher.callback(namespace, group, dataId, data) on SDK goroutine c,    *)
(* with data the content the SDK fetched: read, decode, mutate, encode,   *)
(* then block on the send.                                                 *)
Fire(c, k) ==
    /\ pc[c] = "idle"
    /\ k \in pending
    /\ pending' = pending \ {k}
    /\ out' = [out EXCEPT ![c] = Merge(snapshot, k[1], k[2], server[k])]
    /\ pc' = [pc EXCEPT ![c] = "send"]
    /\ UNCHANGED <<server, published, snapshot, cpc, held, exitClosed, spc,
                   panicked, synced>>

(* Next's `case cs := <-w.ch` meets callback c's `w.ch <- cs`.            *)
Receive(c) ==
    /\ cpc = "next"
    /\ pc[c] = "send"
    /\ held' = out[c]
    /\ cpc' = "apply"
    /\ pc' = [pc EXCEPT ![c] = "idle"]
    /\ UNCHANGED <<server, pending, published, snapshot, out, exitClosed, spc,
                   panicked, synced>>

(* The aggregator replaces its snapshot by the one Next returned.         *)
Apply ==
    /\ cpc = "apply"
    /\ snapshot' = held
    /\ cpc' = "next"
    /\ UNCHANGED <<server, pending, published, pc, out, held, exitClosed, spc,
                   panicked, synced>>

(* Next's `case <-w.exit` returns ErrWatcherStopped; the loop exits.      *)
NextStopped ==
    /\ cpc = "next"
    /\ exitClosed
    /\ cpc' = "exited"
    /\ UNCHANGED <<server, pending, published, snapshot, pc, out, held,
                   exitClosed, spc, panicked, synced>>

(* Stop's select: a closed w.exit returns nil, else the default arm.       *)
StopCheck(s) ==
    /\ spc[s] = "ready"
    /\ \/ /\ exitClosed
          /\ spc' = [spc EXCEPT ![s] = "done"]
       \/ /\ ~exitClosed
          /\ spc' = [spc EXCEPT ![s] = "closing"]
    /\ UNCHANGED <<server, pending, published, snapshot, pc, out, cpc, held,
                   exitClosed, panicked, synced>>

(* Stop's close(w.exit): closing a closed channel panics.                  *)
StopClose(s) ==
    /\ spc[s] = "closing"
    /\ \/ /\ ~exitClosed
          /\ exitClosed' = TRUE
          /\ UNCHANGED panicked
       \/ /\ exitClosed
          /\ panicked' = TRUE
          /\ UNCHANGED exitClosed
    /\ spc' = [spc EXCEPT ![s] = "done"]
    /\ UNCHANGED <<server, pending, published, snapshot, pc, out, cpc, held,
                   synced>>

(* nacos.Sync -> cfg.Sync: Source.Read again and replace the snapshot     *)
(* outright; a GetConfig error makes Read, and Sync, fail with the        *)
(* snapshot left as it was.                                                *)
Sync ==
    /\ synced < MaxSync
    /\ \/ snapshot' = ReadSnapshot(server)
       \/ UNCHANGED snapshot
    /\ synced' = synced + 1
    /\ UNCHANGED <<server, pending, published, pc, out, cpc, held, exitClosed,
                   spc, panicked>>

(* A panic ends the process: no goroutine takes another step.             *)
Next ==
    /\ ~panicked
    /\ \/ \E k \in Watched, v \in Vals : Publish(k, v)
       \/ \E c \in Callbacks, k \in Watched : Fire(c, k)
       \/ \E c \in Callbacks : Receive(c)
       \/ Apply
       \/ NextStopped
       \/ Sync
       \/ \E s \in Stoppers : StopCheck(s) \/ StopClose(s)

(* Go's channel hands a blocked sender to a waiting receiver in FIFO       *)
(* order, so each blocked callback is eventually received while the       *)
(* consumer keeps calling Next; the consumer goroutine itself never stops *)
(* running.                                                                *)
Fairness ==
    /\ \A c \in Callbacks : WF_vars(~panicked /\ Receive(c))
    /\ WF_vars(~panicked /\ Apply)
    /\ WF_vars(~panicked /\ NextStopped)

Spec == Init /\ [][Next]_vars /\ Fairness


-----------------------------------------------------------------------------
(* Properties *)

(* Every variable has its type; the callbacks' pending sends and the      *)
(* consumer's received snapshot are whole snapshots.                       *)
TypeOK ==
    /\ server \in [Watched -> Vals]
    /\ pending \subseteq Watched
    /\ published \in 0 .. MaxPublish
    /\ snapshot \in Snapshot
    /\ pc \in [Callbacks -> {"idle", "send"}]
    /\ out \in [Callbacks -> Snapshot]
    /\ cpc \in {"next", "apply", "exited"}
    /\ held \in Snapshot
    /\ exitClosed \in BOOLEAN
    /\ spc \in [Stoppers -> {"ready", "closing", "done"}]
    /\ panicked \in BOOLEAN
    /\ synced \in 0 .. MaxSync

(* Every entry of the watch list stays addressable: no callback's         *)
(* read-decode-mutate-encode of the whole tree, however its read          *)
(* interleaves with other callbacks and with the consumer's swaps, ever   *)
(* drops a sibling key of the group it updates (watch.go callback).       *)
WatchedKeysPresent == \A k \in Watched : At(snapshot, k) # Absent

(* While the watcher is not stopped, a callback blocked in `w.ch <- cs`   *)
(* is eventually received by the consumer's Next and returns to the SDK   *)
(* (watch.go callback and Next).                                           *)
CallbackCompletes == \A c \in Callbacks : pc[c] = "send" ~> pc[c] = "idle"

(* No notification is queued, no callback is in flight and the consumer   *)
(* is waiting in Next.                                                     *)
Quiescent ==
    /\ pending = {}
    /\ \A c \in Callbacks : pc[c] = "idle"
    /\ cpc = "next"

(* Once every change has been delivered and applied, the snapshot holds   *)
(* the server's content for every watched key: no update is lost by the   *)
(* callback's read of cfg.Get() racing the consumer's swap (spec 4.4-4.5). *)
SnapshotConverges == Quiescent => \A k \in Watched : At(snapshot, k) = server[k]

(* Every watched key holds its content as a plain string, as the callback *)
(* stores it and as Get(group, dataId).String reads it (nacos.go Read).   *)
ReadPlainValues == \A k \in Watched : At(snapshot, k) \in Vals

(* Calling Stop from several goroutines never closes w.exit twice          *)
(* (watch.go Stop; spec 4.3).                                              *)
NoDoubleClose == ~panicked

(* Once w.exit is closed, Next never again returns a ChangeSet (watch.go  *)
(* Next; spec 4.3: every call after Stop returns ErrWatcherStopped).       *)
NoDeliveryAfterStop ==
    [][~(exitClosed /\ \E c \in Callbacks : Receive(c))]_vars

=============================================================================
