--------------------------- MODULE MC_NacosWatch ---------------------------
(* Small instances of NacosWatch for TLC.                                  *)
EXTENDS NacosWatch, TLC

CONSTANTS g1, g2, d1, d2

(* Two dataIds of group g1 and one of g2, as in a nacos_watch.yaml that    *)
(* lists several dataIds per group.                                        *)
MCWatchShared == << <<g1, d1>>, <<g1, d2>>, <<g2, d1>> >>

(* Every group listed once.                                                *)
MCWatchDistinct == << <<g1, d1>>, <<g2, d1>> >>

(* No goroutine calls Stop; one does; two do. *)
MCNone == {}

CONSTANTS s1, s2

MCStopOne == {s1}

MCStopTwo == {s1, s2}

(* Contents, SDK goroutines and Stop callers are interchangeable.        *)
MCSymmetry == Permutations(Vals) \cup Permutations(Callbacks) \cup Permutations(Stoppers)
=============================================================================
