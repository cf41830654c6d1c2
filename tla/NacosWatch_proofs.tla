-------------------------- MODULE NacosWatch_proofs --------------------------
(***************************************************************************)
(* Proofs about NacosWatch for every value of its constants.              *)
(***************************************************************************)
EXTENDS NacosWatch, TLAPS

(* Every watched key of snapshot s is present. *)
KeysIn(s) == \A k \in Watched : At(s, k) # Absent

(***************************************************************************)
(* The inductive invariant behind WatchedKeysPresent.  The snapshot alone *)
(* is not inductive: a callback's pending send and the consumer's         *)
(* received-but-unapplied snapshot later become the snapshot, so they     *)
(* must keep every watched key as well.                                   *)
(***************************************************************************)
IInv ==
    /\ TypeOK
    /\ KeysIn(snapshot)
    /\ \A c \in Callbacks : pc[c] = "send" => KeysIn(out[c])
    /\ cpc = "apply" => KeysIn(held)

-----------------------------------------------------------------------------

(* Watched keys are pairs of a group and a dataId. *)
LEMMA WatchedType == Watched \subseteq Groups \X DataIds
BY WatchListAssumption DEF Watched

(* The callback's mutation yields a snapshot when given a snapshot, a     *)
(* watched key and a plain content.                                        *)
LEMMA MergeType ==
    ASSUME NEW s \in Snapshot, NEW k \in Watched, NEW data \in Vals
    PROVE  Merge(s, k[1], k[2], data) \in Snapshot
<1>1. k[1] \in Groups /\ k[2] \in DataIds
  BY WatchedType
<1>2. data \in Value
  BY DEF Value
<1>3. Absent \in Value
  BY DEF Value
<1>. QED
  BY <1>1, <1>2, <1>3 DEF Merge, Snapshot

(* The callback's mutation keeps every watched key of a snapshot that has *)
(* them all: the updated key's group is present, so the existing inner    *)
(* map is updated in place.                                                *)
LEMMA MergeKeeps ==
    ASSUME NEW s \in Snapshot, NEW k \in Watched, NEW data \in Vals,
           KeysIn(s)
    PROVE  KeysIn(Merge(s, k[1], k[2], data))
<1>1. k[1] \in Groups /\ k[2] \in DataIds
  BY WatchedType
<1>2. GroupPresent(s, k[1])
  BY <1>1 DEF KeysIn, At, GroupPresent
<1>3. Merge(s, k[1], k[2], data) = [s EXCEPT ![k[1]][k[2]] = data]
  BY <1>2 DEF Merge
<1>4. data # Absent
  BY AbsentAssumption
<1>. QED
  BY <1>1, <1>3, <1>4, WatchedType DEF KeysIn, At, Snapshot

(* Read gives every watched key a plain or a nested content, never Absent. *)
LEMMA ReadSnapshotKeys ==
    ASSUME NEW srv \in [Watched -> Vals]
    PROVE  /\ ReadSnapshot(srv) \in Snapshot
           /\ KeysIn(ReadSnapshot(srv))
<1>1. \A k \in Watched : ReadEntry(srv, k) \in Value \ {Absent}
  <2>. TAKE k \in Watched
  <2>1. k[2] \in DataIds /\ srv[k] \in Vals
    BY WatchedType
  <2>2. <<k[2], srv[k]>> \in DataIds \X Vals
    BY <2>1
  <2>. QED
    BY <2>1, <2>2, AbsentAssumption DEF ReadEntry, Value
<1>2. ReadSnapshot(srv) \in Snapshot
  BY <1>1 DEF ReadSnapshot, Snapshot, Value
<1>3. KeysIn(ReadSnapshot(srv))
  BY <1>1, WatchedType DEF ReadSnapshot, KeysIn, At
<1>. QED
  BY <1>2, <1>3

-----------------------------------------------------------------------------

(* Init is well typed. *)
LEMMA TypeInit == Init => TypeOK
<1> SUFFICES ASSUME Init PROVE TypeOK
  OBVIOUS
<1>1. snapshot \in Snapshot
  BY ReadSnapshotKeys DEF Init
<1>2. published \in 0 .. MaxPublish /\ synced \in 0 .. MaxSync
  BY MaxPublishAssumption, MaxSyncAssumption DEF Init
<1>. QED
  BY <1>1, <1>2 DEF Init, TypeOK

(* Every step, or stutter, keeps the types. *)
LEMMA TypeStep == TypeOK /\ [Next]_vars => TypeOK'
<1> SUFFICES ASSUME TypeOK, [Next]_vars PROVE TypeOK'
  OBVIOUS
<1>1. ASSUME NEW k \in Watched, NEW v \in Vals, Publish(k, v) PROVE TypeOK'
  BY <1>1, MaxPublishAssumption DEF Publish, TypeOK
<1>2. ASSUME NEW c \in Callbacks, NEW k \in Watched, Fire(c, k) PROVE TypeOK'
  <2>1. Merge(snapshot, k[1], k[2], server[k]) \in Snapshot
    BY MergeType DEF TypeOK
  <2>. QED
    BY <1>2, <2>1 DEF Fire, TypeOK
<1>3. ASSUME NEW c \in Callbacks, Receive(c) PROVE TypeOK'
  BY <1>3 DEF Receive, TypeOK
<1>4. CASE Apply
  BY <1>4 DEF Apply, TypeOK
<1>5. CASE NextStopped
  BY <1>5 DEF NextStopped, TypeOK
<1>6. ASSUME NEW s \in Stoppers, StopCheck(s) PROVE TypeOK'
  BY <1>6 DEF StopCheck, TypeOK
<1>7. ASSUME NEW s \in Stoppers, StopClose(s) PROVE TypeOK'
  BY <1>7 DEF StopClose, TypeOK
<1>8. CASE Sync
  <2>1. ReadSnapshot(server) \in Snapshot
    BY ReadSnapshotKeys DEF TypeOK
  <2>. QED
    BY <1>8, <2>1, MaxSyncAssumption DEF Sync, TypeOK
<1>9. CASE UNCHANGED vars
  BY <1>9 DEF vars, TypeOK
<1>. QED
  BY <1>1, <1>2, <1>3, <1>4, <1>5, <1>6, <1>7, <1>8, <1>9 DEF Next

(* Every state of every behaviour is well typed. *)
THEOREM TypeCorrect == Spec => []TypeOK
BY TypeInit, TypeStep, PTL DEF Spec

(* IInv holds initially and is preserved by every step. *)
LEMMA IInvInductive == IInv /\ [Next]_vars => IInv'
<1> SUFFICES ASSUME IInv, [Next]_vars PROVE IInv'
  OBVIOUS
<1>0. TypeOK'
  BY TypeStep DEF IInv
<1>1. ASSUME NEW k \in Watched, NEW v \in Vals, Publish(k, v) PROVE IInv'
  BY <1>0, <1>1 DEF Publish, IInv
<1>2. ASSUME NEW c \in Callbacks, NEW k \in Watched, Fire(c, k) PROVE IInv'
  <2>1. KeysIn(Merge(snapshot, k[1], k[2], server[k]))
    BY MergeKeeps DEF IInv, TypeOK
  <2>. QED
    BY <1>0, <1>2, <2>1 DEF Fire, IInv, TypeOK
<1>3. ASSUME NEW c \in Callbacks, Receive(c) PROVE IInv'
  BY <1>0, <1>3 DEF Receive, IInv, TypeOK
<1>4. CASE Apply
  BY <1>0, <1>4 DEF Apply, IInv
<1>5. CASE NextStopped
  BY <1>0, <1>5 DEF NextStopped, IInv
<1>6. ASSUME NEW s \in Stoppers, StopCheck(s) PROVE IInv'
  BY <1>0, <1>6 DEF StopCheck, IInv
<1>7. ASSUME NEW s \in Stoppers, StopClose(s) PROVE IInv'
  BY <1>0, <1>7 DEF StopClose, IInv
<1>8. CASE Sync
  <2>1. KeysIn(ReadSnapshot(server))
    BY ReadSnapshotKeys DEF IInv, TypeOK
  <2>. QED
    BY <1>0, <1>8, <2>1 DEF Sync, IInv
<1>9. CASE UNCHANGED vars
  BY <1>9 DEF vars, IInv, TypeOK, KeysIn, At
<1>. QED
  BY <1>1, <1>2, <1>3, <1>4, <1>5, <1>6, <1>7, <1>8, <1>9 DEF Next

(* Every entry of the watch list stays in the snapshot, in every state of *)
(* every behaviour and for every watch list: the callback's whole-tree    *)
(* rewrite never drops a sibling key.                                      *)
THEOREM KeysPresent == Spec => []WatchedKeysPresent
<1>1. Init => IInv
  <2> SUFFICES ASSUME Init PROVE IInv
    OBVIOUS
  <2>1. TypeOK
    BY TypeInit
  <2>2. KeysIn(snapshot)
    BY ReadSnapshotKeys DEF Init
  <2>. QED
    BY <2>1, <2>2 DEF Init, IInv
<1>2. IInv => WatchedKeysPresent
  BY DEF IInv, KeysIn, WatchedKeysPresent
<1>. QED
  BY <1>1, <1>2, IInvInductive, PTL DEF Spec

=============================================================================
