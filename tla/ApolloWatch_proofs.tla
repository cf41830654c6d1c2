------------------------- MODULE ApolloWatch_proofs -------------------------
(***************************************************************************)
(* Proofs about the apollo watcher: the type invariant holds in every     *)
(* reachable state, and OnChange's loop over agollo's diff rebuilds the   *)
(* new content of a namespace from the old, for every set of namespaces,  *)
(* keys and contents.                                                      *)
(***************************************************************************)
EXTENDS ApolloWatch, TLAPS

(* agollo's diff of two contents is a change map over the keys that      *)
(* differ.                                                                  *)
LEMMA DiffType ==
    ASSUME NEW old \in Content, NEW new \in Content
    PROVE  Diff(old, new) \in UNION {[D -> Change] : D \in SUBSET Keys}
<1> DEFINE D == {x \in Keys : old[x] # new[x]}
<1>1. Diff(old, new) \in [D -> Change]
    BY DEF Diff, Change, Content, ChangeTypes
<1>. QED
    BY <1>1

(* Applying a change map to one namespace of a snapshot yields a         *)
(* snapshot.                                                                *)
LEMMA ApplyChangesType ==
    ASSUME NEW s \in Snapshot, NEW ns \in Namespaces,
           NEW ch \in UNION {[D -> Change] : D \in SUBSET Keys}
    PROVE  ApplyChanges(s, ns, ch) \in Snapshot
<1>1. PICK D \in SUBSET Keys : ch \in [D -> Change]
    OBVIOUS
<1>2. \A k \in Keys : k \in DOMAIN ch => Applied(s[ns][k], ch, k) \in Vals \cup {Absent}
    BY <1>1 DEF Applied, Change, Snapshot, Content
<1>. QED
    BY <1>2 DEF ApplyChanges, Snapshot, Content

(* Each key OnChange's loop touches ends with its new value: ADDED and   *)
(* MODIFIED store it, DELETED removes a key whose new value is Absent;    *)
(* the keys the diff leaves out already agree.                            *)
LEMMA RoundTrip ==
    ASSUME NEW s \in Snapshot, NEW ns \in Namespaces,
           NEW old \in Content, NEW new \in Content
    PROVE  ApplyChanges([s EXCEPT ![ns] = old], ns, Diff(old, new))[ns] = new
<1> DEFINE t == [s EXCEPT ![ns] = old]
           ch == Diff(old, new)
<1>1. t[ns] = old
    BY DEF Snapshot
<1>2. ApplyChanges(t, ns, ch)[ns] =
        [k \in Keys |-> IF k \in DOMAIN ch THEN Applied(old[k], ch, k) ELSE old[k]]
    BY <1>1 DEF ApplyChanges, Snapshot
<1>3. ASSUME NEW k \in Keys, k \in DOMAIN ch PROVE Applied(old[k], ch, k) = new[k]
    <2>1. old[k] # new[k]
        BY <1>3 DEF Diff
    <2>. QED
        BY <1>3, <2>1 DEF Applied, Diff
<1>4. ASSUME NEW k \in Keys, k \notin DOMAIN ch PROVE old[k] = new[k]
    BY <1>4 DEF Diff
<1>. QED
    BY <1>2, <1>3, <1>4 DEF Content

-----------------------------------------------------------------------------

LEMMA TypeInit == Init => TypeOK
<1> SUFFICES ASSUME Init PROVE TypeOK
    OBVIOUS
<1>1. ReadSnapshot(cache) \in Snapshot
    BY DEF Init, ReadSnapshot, Snapshot, Content
<1>2. events \in Seq(Event) /\ Len(events) <= MaxPublish
    BY MaxPublishAssumption DEF Init
<1>3. DOMAIN events = {} /\ epc = [x \in {} |-> "run"] /\ eout = [x \in {} |-> snapshot]
    BY DEF Init
<1>4. epc \in [DOMAIN events -> {"run", "send", "done"}] /\ eout \in [DOMAIN events -> Snapshot]
    BY <1>3
<1>5. snapshot \in Snapshot /\ held \in Snapshot /\ synced \in 0 .. MaxSync
    BY <1>1, MaxSyncAssumption DEF Init
<1>. QED
    BY <1>2, <1>4, <1>5 DEF Init, TypeOK

LEMMA TypeStep == TypeOK /\ [Next]_vars => TypeOK'
<1> SUFFICES ASSUME TypeOK, [Next]_vars PROVE TypeOK'
    OBVIOUS
<1>1. ASSUME NEW ns \in Namespaces, NEW new \in Content, Publish(ns, new)
      PROVE  TypeOK'
    <2>1. [ns |-> ns, changes |-> Diff(cache[ns], new)] \in Event
        BY DiffType DEF TypeOK, Event
    <2>2. events' \in Seq(Event) /\ Len(events') = Len(events) + 1
        BY <1>1, <2>1 DEF Publish, TypeOK
    <2>3. Len(events') <= MaxPublish
        BY <1>1, <2>2, MaxPublishAssumption DEF Publish
    <2>4. epc \in Seq({"run", "send", "done"}) /\ Len(epc) = Len(events)
          /\ eout \in Seq(Snapshot) /\ Len(eout) = Len(events)
        BY DEF TypeOK
    <2>7. DOMAIN events' = 1 .. Len(events) + 1
        BY <2>2
    <2>8. epc' \in Seq({"run", "send", "done"}) /\ Len(epc') = Len(events) + 1
          /\ eout' \in Seq(Snapshot) /\ Len(eout') = Len(events) + 1
        BY <1>1, <2>4 DEF Publish, TypeOK
    <2>5. epc' \in [DOMAIN events' -> {"run", "send", "done"}]
          /\ eout' \in [DOMAIN events' -> Snapshot]
        BY <2>7, <2>8
    <2>6. cache' \in [Namespaces -> Content]
        BY <1>1 DEF Publish, TypeOK
    <2>. QED
        BY <1>1, <2>2, <2>3, <2>5, <2>6 DEF Publish, TypeOK
<1>2. ASSUME NEW i \in DOMAIN events, Fire(i) PROVE TypeOK'
    <2>1. events[i] \in Event
        BY DEF TypeOK
    <2>2. ApplyChanges(snapshot, events[i].ns, events[i].changes) \in Snapshot
        BY <2>1, ApplyChangesType DEF TypeOK, Event
    <2>. QED
        BY <1>2, <2>2 DEF Fire, TypeOK
<1>3. ASSUME NEW i \in DOMAIN events, Receive(i) PROVE TypeOK'
    BY <1>3 DEF Receive, TypeOK
<1>4. CASE Apply
    BY <1>4 DEF Apply, TypeOK
<1>5. CASE Sync
    <2>1. ReadSnapshot(cache) \in Snapshot
        BY DEF TypeOK, ReadSnapshot, Snapshot, Content
    <2>. QED
        BY <1>5, <2>1, MaxSyncAssumption DEF Sync, TypeOK
<1>6. CASE Stop
    BY <1>6 DEF Stop, TypeOK
<1>7. CASE UNCHANGED vars
    BY <1>7 DEF vars, TypeOK
<1>. QED
    BY <1>1, <1>2, <1>3, <1>4, <1>5, <1>6, <1>7 DEF Next

(* The watcher's state keeps its type: agollo's events are diffs over     *)
(* the keys, OnChange's merge and Read yield snapshots, and the hand-off  *)
(* moves snapshots (apollo watch.go OnChange, apollo.go Read).            *)
THEOREM TypeCorrect == Spec => []TypeOK
BY TypeInit, TypeStep, PTL DEF Spec

(* OnChange's loop over ADDED, MODIFIED and DELETED rebuilds agollo's new *)
(* content from the old one in every reachable snapshot, for every old   *)
(* and new content (apollo watch.go OnChange against agollo's diff).      *)
THEOREM DiffRoundTripHolds == Spec => [](TypeOK /\ DiffRoundTrip)
<1>1. TypeOK => DiffRoundTrip
    BY RoundTrip DEF TypeOK, DiffRoundTrip
<1>. QED
    BY TypeCorrect, <1>1, PTL
=============================================================================
