-------------------------- MODULE NacosLoad_proofs --------------------------
(***************************************************************************)
(* Proofs about the nacos load sequence: the type invariant and           *)
(* LoadComplete hold in every reachable state, for every set of keys,    *)
(* watch files and addresses.                                              *)
(***************************************************************************)
EXTENDS NacosLoad, TLAPS

(* The keys fetched, or listened to, by the first n - 1 entries.          *)
Prefix(n) == {watch[k] : k \in 1 .. n - 1}

(***************************************************************************)
(* The inductive invariant: in each phase, what the loops have done so    *)
(* far is exactly the prefix of the watch list before i.  LoadComplete    *)
(* alone is not inductive: it says nothing of read while Read is still   *)
(* running, so it cannot tell that Read covered every entry when it ends. *)
(***************************************************************************)
IInv ==
    /\ TypeOK
    /\ pc = "new" => read = {} /\ listening = {} /\ i = 1
    /\ pc = "read" => read = Prefix(i) /\ listening = {}
    /\ pc \in {"watch", "ok"} => read = Entries(watch) /\ listening = Prefix(i)
    /\ pc = "ok" => i = Len(watch) + 1
    /\ pc = "err" => listening \subseteq read

(* The prefix grows by the entry at i.                                    *)
LEMMA PrefixNext ==
    ASSUME NEW w \in Seq(Keys), NEW n \in 1 .. Len(w)
    PROVE  {w[k] : k \in 1 .. (n + 1) - 1} = {w[k] : k \in 1 .. n - 1} \cup {w[n]}
BY SMT

(* The whole prefix is every entry.                                        *)
LEMMA PrefixAll ==
    ASSUME NEW w \in Seq(Keys)
    PROVE  {w[k] : k \in 1 .. (Len(w) + 1) - 1} = {w[k] : k \in DOMAIN w}
BY SMT

LEMMA IInvInit == Init => IInv
<1> SUFFICES ASSUME Init PROVE IInv
    OBVIOUS
<1>1. watch \in Seq(Keys) /\ Len(watch) = 0
    BY DEF Init
<1>2. i \in 1 .. Len(watch) + 1
    BY <1>1 DEF Init
<1>. QED
    BY <1>1, <1>2 DEF Init, IInv, TypeOK, Prefix

LEMMA IInvStep == IInv /\ [Next]_vars => IInv'
<1> SUFFICES ASSUME IInv, [Next]_vars PROVE IInv'
    OBVIOUS
<1>1. CASE NewSource
    <2>1. PICK file \in WatchFiles, addr \in Addrs, made \in BOOLEAN :
                /\ watch' = IF GetWatchData(file) THEN file ELSE <<>>
                /\ client' = IF GetWatchData(file) /\ addr = "ok" /\ made
                             THEN "client" ELSE "nil"
        BY <1>1 DEF NewSource
    <2>2. watch' \in Seq(Keys)
        BY <2>1, WatchFilesAssumption DEF GetWatchData
    <2>3. client' \in {"client", "nil"}
        BY <1>1 DEF NewSource
    <2>4. i' = 1 /\ i' \in 1 .. Len(watch') + 1
        BY <1>1, <2>2 DEF NewSource, IInv
    <2>5. read' = Prefix(i)' /\ listening' = {}
        BY <1>1, <2>4 DEF NewSource, IInv, Prefix
    <2>. QED
        BY <1>1, <2>2, <2>3, <2>4, <2>5 DEF NewSource, IInv, TypeOK
<1>2. CASE ReadEntry
    <2>1. CASE client = "nil"
        BY <1>2, <2>1 DEF ReadEntry, IInv, TypeOK, Prefix
    <2>2. CASE client # "nil"
        <3>1. PICK ok \in BOOLEAN :
                /\ pc' = IF ok THEN pc ELSE "err"
                /\ read' = IF ok THEN read \cup {watch[i]} ELSE read
                /\ i' = IF ok THEN i + 1 ELSE i
            BY <1>2, <2>2 DEF ReadEntry
        <3>2. i \in 1 .. Len(watch) /\ watch \in Seq(Keys) /\ pc = "read"
            BY <1>2 DEF ReadEntry, IInv, TypeOK
        <3>3. CASE ok
            <4>1. read' = Prefix(i)'
                BY <1>2, <3>1, <3>2, <3>3, PrefixNext DEF ReadEntry, IInv, Prefix
            <4>. QED
                BY <1>2, <3>1, <3>2, <3>3, <4>1 DEF ReadEntry, IInv, TypeOK
        <3>4. CASE ~ok
            BY <1>2, <3>1, <3>2, <3>4 DEF ReadEntry, IInv, TypeOK
        <3>. QED
            BY <3>3, <3>4
    <2>. QED
        BY <2>1, <2>2
<1>3. CASE ReadDone
    <2>1. i = Len(watch) + 1 /\ watch \in Seq(Keys)
        BY <1>3 DEF ReadDone, IInv, TypeOK
    <2>2. read = Entries(watch)
        BY <1>3, <2>1, PrefixAll DEF ReadDone, IInv, Prefix, Entries
    <2>. QED
        BY <1>3, <2>2 DEF ReadDone, IInv, TypeOK, Prefix
<1>4. CASE ListenEntry
    <2>1. CASE client = "nil"
        BY <1>4, <2>1 DEF ListenEntry, IInv, TypeOK, Prefix
    <2>2. CASE client # "nil"
        <3>1. PICK ok \in BOOLEAN :
                /\ pc' = IF ok THEN pc ELSE "err"
                /\ listening' = IF ok THEN listening \cup {watch[i]} ELSE listening
                /\ i' = IF ok THEN i + 1 ELSE i
            BY <1>4, <2>2 DEF ListenEntry
        <3>2. i \in 1 .. Len(watch) /\ watch \in Seq(Keys) /\ pc = "watch"
            BY <1>4 DEF ListenEntry, IInv, TypeOK
        <3>3. CASE ok
            <4>1. listening' = Prefix(i)'
                BY <1>4, <3>1, <3>2, <3>3, PrefixNext DEF ListenEntry, IInv, Prefix
            <4>. QED
                BY <1>4, <3>1, <3>2, <3>3, <4>1 DEF ListenEntry, IInv, TypeOK
        <3>4. CASE ~ok
            <4>1. listening \subseteq read
                BY <3>2 DEF IInv, Prefix, Entries
            <4>. QED
                BY <1>4, <3>1, <3>2, <3>4, <4>1 DEF ListenEntry, IInv, TypeOK
        <3>. QED
            BY <3>3, <3>4
    <2>. QED
        BY <2>1, <2>2
<1>5. CASE WatchDone
    BY <1>5 DEF WatchDone, IInv, TypeOK, Prefix
<1>6. CASE UNCHANGED vars
    BY <1>6 DEF vars, IInv, TypeOK, Prefix
<1>. QED
    BY <1>1, <1>2, <1>3, <1>4, <1>5, <1>6 DEF Next

LEMMA IInvLoadComplete == IInv => TypeOK /\ LoadComplete
<1> SUFFICES ASSUME IInv PROVE TypeOK /\ LoadComplete
    OBVIOUS
<1>1. pc = "ok" => listening = Entries(watch)
    BY PrefixAll DEF IInv, TypeOK, Prefix, Entries
<1>2. pc \in {"watch", "ok"} => listening \subseteq read
    BY DEF IInv, TypeOK, Prefix, Entries
<1>. QED
    BY <1>1, <1>2 DEF IInv, TypeOK, LoadComplete

(* Every reachable state of the load is well typed: newSource,           *)
(* sourceConfiguration and the two loops of nacos.go keep the watch list, *)
(* the index and the sets of fetched and listened keys in their types.    *)
THEOREM TypeCorrect == Spec => []TypeOK
<1>1. IInv => TypeOK
    BY DEF IInv
<1>. QED
    BY IInvInit, IInvStep, <1>1, PTL DEF Spec

(* The nacos load never leaves a key listened to that Read did not fetch, *)
(* and returns nil only with every watched key fetched and listened to   *)
(* (nacos.go Read, watch.go newConfigWatcher, in the order Load calls     *)
(* them).                                                                   *)
THEOREM LoadCompleteHolds == Spec => [](TypeOK /\ LoadComplete)
BY IInvInit, IInvStep, IInvLoadComplete, PTL DEF Spec
=============================================================================
