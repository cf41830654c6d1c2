---------------------------- MODULE ApolloWatch ----------------------------
(***************************************************************************)
(* The apollo configuration source (src/plugin/apollo) together with the  *)
(* config aggregator's consumption loop that feeds on its watcher.         *)
(*                                                                         *)
(*  - Init is `load`: Source.Read copies the agollo cache of every        *)
(*    namespace into the snapshot; Source.Watch registers the watcher     *)
(*    with AddChangeListener.                                              *)
(*  - Publish is the environment: agollo receives a new content for one    *)
(*    namespace, diffs it against its cache into ADDED / MODIFIED /       *)
(*    DELETED changes, updates the cache and starts OnChange(event) on a  *)
(*    goroutine of its own.                                                *)
(*  - Fire is OnChange up to its blocking send: read apolloConfig.Get(),  *)
(*    decode, apply every change of the event, re-encode.                  *)
(*  - Receive / Apply are the hand-off on w.ch and the aggregator's swap,  *)
(*    as for nacos.  Stop is watcher.Stop, whose default arm does nothing: *)
(*    w.exit is never closed, so Next's `<-w.exit` case is dead code and  *)
(*    is not an action.                                                    *)
(*                                                                         *)
(* The snapshot is the decoded map[string]map[string]interface{}: a        *)
(* function from namespace to a function from key to a content or Absent. *)
(***************************************************************************)
EXTENDS Naturals, Sequences

CONSTANTS
    Namespaces,  \* the namespaces of apollo_namespaces, split on ","
    Keys,        \* configuration keys inside a namespace
    Vals,        \* contents a key can hold
    MaxPublish,  \* bound on the number of change events
    MaxSync,     \* bound on the number of Sync calls
    Absent       \* a key that is not in its namespace's map

ASSUME ValsAssumption == Vals # {}
ASSUME AbsentAssumption == Absent \notin Vals
ASSUME MaxPublishAssumption == MaxPublish \in Nat
ASSUME MaxSyncAssumption == MaxSync \in Nat

(* agollo's change types. *)
ChangeTypes == {"ADDED", "MODIFIED", "DELETED"}

VARIABLES
    cache,       \* cache[ns]: agollo's copy of namespace ns
    events,      \* the change events agollo has raised, in order
    epc,         \* epc[i]: "run", "send" (blocked in w.ch <- cs) or "done"
    eout,        \* eout[i]: the snapshot event i's goroutine sends
    snapshot,    \* the aggregator's current decoded snapshot
    cpc,         \* consumer: "next" (in Next) or "apply"
    held,        \* the snapshot the consumer received and will apply
    stopCalled,  \* watcher.Stop has been called
    synced       \* number of Sync calls so far

vars == <<cache, events, epc, eout, snapshot, cpc, held, stopCalled, synced>>

-----------------------------------------------------------------------------
(* Data *)

Content == [Keys -> Vals \cup {Absent}]

Snapshot == [Namespaces -> Content]

Change == [type : ChangeTypes, new : Vals \cup {Absent}]

Event == [ns : Namespaces, changes : UNION {[D -> Change] : D \in SUBSET Keys}]

(* agollo's diff of a namespace's old and new content (environment).      *)
Diff(old, new) ==
    [k \in {x \in Keys : old[x] # new[x]} |->
        [type |-> CASE old[k] = Absent -> "ADDED"
                    [] new[k] = Absent -> "DELETED"
                    [] OTHER           -> "MODIFIED",
         new  |-> new[k]]]

(* Source.Read: each namespace's cache, copied key by key.                *)
ReadSnapshot(c) == [ns \in Namespaces |-> [k \in Keys |-> c[ns][k]]]

(***************************************************************************)
(* The loop of OnChange over changeEvent.Changes: ADDED and MODIFIED set  *)
(* snapMap[ns][k] = v.NewValue, DELETED deletes k, another type is logged *)
(* and skipped.  Each key occurs once, so the order of the range over the *)
(* map does not matter.                                                    *)
(***************************************************************************)
Applied(cur, ch, k) ==
    CASE ch[k].type \in {"ADDED", "MODIFIED"} -> ch[k].new
      [] ch[k].type = "DELETED"               -> Absent
      [] OTHER                                -> cur

(* Mutant: DELETED falls into the default arm and is skipped.             *)
ApplyChangesKeepDeleted(s, ns, ch) ==
    [s EXCEPT ![ns] = [k \in Keys |->
        IF k \in DOMAIN ch /\ ch[k].type # "DELETED"
        THEN Applied(s[ns][k], ch, k) ELSE s[ns][k]]]

ApplyChanges(s, ns, ch) ==
    [s EXCEPT ![ns] = [k \in Keys |->
        IF k \in DOMAIN ch THEN Applied(s[ns][k], ch, k) ELSE s[ns][k]]]

-----------------------------------------------------------------------------

Init ==
    /\ cache \in [Namespaces -> Content]
    /\ events = <<>>
    /\ epc = <<>>
    /\ eout = <<>>
    /\ snapshot = ReadSnapshot(cache)
    /\ cpc = "next"
    /\ held = snapshot
    /\ stopCalled = FALSE
    /\ synced = 0

(* agollo takes a new content for ns, raises its diff as an event and     *)
(* starts `go listener.OnChange(event)`.                                   *)
Publish(ns, new) ==
    /\ Len(events) < MaxPublish
    /\ new # cache[ns]
    /\ cache' = [cache EXCEPT ![ns] = new]
    /\ events' = Append(events, [ns |-> ns, changes |-> Diff(cache[ns], new)])
    /\ epc' = Append(epc, "run")
    /\ eout' = Append(eout, snapshot)
    /\ UNCHANGED <<snapshot, cpc, held, stopCalled, synced>>

(* OnChange(events[i]): read, decode, apply the changes, encode, send.    *)
Fire(i) ==
    /\ epc[i] = "run"
    /\ eout' = [eout EXCEPT ![i] =
                  ApplyChanges(snapshot, events[i].ns, events[i].changes)]
    /\ epc' = [epc EXCEPT ![i] = "send"]
    /\ UNCHANGED <<cache, events, snapshot, cpc, held, stopCalled, synced>>

(* Next's `case cs := <-w.ch` meets goroutine i's `w.ch <- cs`.           *)
Receive(i) ==
    /\ cpc = "next"
    /\ epc[i] = "send"
    /\ held' = eout[i]
    /\ cpc' = "apply"
    /\ epc' = [epc EXCEPT ![i] = "done"]
    /\ UNCHANGED <<cache, events, eout, snapshot, stopCalled, synced>>

(* Mutant: the consumption loop returns after its first update.          *)
ApplyThenReturn ==
    /\ cpc = "apply"
    /\ snapshot' = held
    /\ cpc' = "returned"
    /\ UNCHANGED <<cache, events, epc, eout, held, stopCalled, synced>>

(* The aggregator replaces its snapshot by the one Next returned.         *)
Apply ==
    /\ cpc = "apply"
    /\ snapshot' = held
    /\ cpc' = "next"
    /\ UNCHANGED <<cache, events, epc, eout, held, stopCalled, synced>>

(* apollo.Sync -> cfg.Sync: Read the caches again and replace the         *)
(* snapshot outright.                                                      *)
Sync ==
    /\ synced < MaxSync
    /\ snapshot' = ReadSnapshot(cache)
    /\ synced' = synced + 1
    /\ UNCHANGED <<cache, events, epc, eout, cpc, held, stopCalled>>

(* watcher.Stop: w.exit is open, so the select takes its default arm,    *)
(* which is empty, and Stop returns nil.                                   *)
Stop ==
    /\ ~stopCalled
    /\ stopCalled' = TRUE
    /\ UNCHANGED <<cache, events, epc, eout, snapshot, cpc, held, synced>>

Next ==
    \/ \E ns \in Namespaces, new \in Content : Publish(ns, new)
    \/ \E i \in DOMAIN events : Fire(i) \/ Receive(i)
    \/ Apply
    \/ Sync
    \/ Stop

Spec == Init /\ [][Next]_vars

-----------------------------------------------------------------------------
(* Properties *)

(* Every variable has its type. *)
TypeOK ==
    /\ cache \in [Namespaces -> Content]
    /\ events \in Seq(Event)
    /\ Len(events) <= MaxPublish
    /\ epc \in [DOMAIN events -> {"run", "send", "done"}]
    /\ eout \in [DOMAIN events -> Snapshot]
    /\ snapshot \in Snapshot
    /\ cpc \in {"next", "apply"}
    /\ held \in Snapshot
    /\ stopCalled \in BOOLEAN
    /\ synced \in 0 .. MaxSync

(* OnChange's loop applied to a namespace that holds agollo's old content *)
(* yields exactly the new content, for every old and new content: ADDED, *)
(* MODIFIED and DELETED together rebuild the namespace (spec 8, the       *)
(* ADDED / MODIFIED / DELETED example, for all contents).                 *)
DiffRoundTrip ==
    \A ns \in Namespaces, old, new \in Content :
        ApplyChanges([snapshot EXCEPT ![ns] = old], ns, Diff(old, new))[ns] = new

(* Every goroutine has delivered and the consumer waits in Next.          *)
Quiescent == (\A i \in DOMAIN events : epc[i] = "done") /\ cpc = "next"

(* Once every event has been delivered and applied, the snapshot holds    *)
(* agollo's content for every namespace (spec 4.4-4.5; spec 5 promises    *)
(* the events of one source in the order they were raised).              *)
SnapshotConverges == Quiescent => snapshot = cache

(* Once Stop has returned, Next never again returns a ChangeSet (spec    *)
(* 4.3: Stop unblocks every pending and future Next with                 *)
(* ErrWatcherStopped; apollo watch.go Stop).                              *)
NoDeliveryAfterStop ==
    [][~(stopCalled /\ \E i \in DOMAIN events : Receive(i))]_vars

=============================================================================
