---------------------------- MODULE MC_NacosLoad ----------------------------
(* Instances of NacosLoad for TLC. *)
EXTENDS NacosLoad

CONSTANTS k1, k2, k3, missing

MCKeys == {k1, k2, k3}

(* Every watch list of distinct keys, and a missing file.                  *)
MCFiles ==
    {missing} \cup
    UNION {{f \in [1 .. n -> MCKeys] : \A a, b \in 1 .. n : a # b => f[a] # f[b]} :
           n \in 0 .. 3}

MCAllAddrs == {"ok", "noport", "badport"}

MCGoodAddrs == {"ok"}
=============================================================================
