---------------------------- MODULE MC_Bootstrap ----------------------------
(* Instances of Bootstrap for TLC. *)
EXTENDS Bootstrap

(* elf_test.go's list: log, version and the two config plugins, then store. *)
MCTestPlugins == <<"log", "version", "apollo", "nacos", "store">>

(* A list naming log twice: the manager must refuse the second. *)
MCDuplicate == <<"log", "apollo", "log">>

(* store placed before the apollo plugin it reads its settings from. *)
MCStoreFirst == <<"store", "apollo">>

(* apollo, then store. *)
MCApolloStore == <<"apollo", "store">>

(* A store yaml with a redis entry, a skipped entry and a mysql entry. *)
MCStoreYaml == <<"redis", "other", "mysql">>

(* What concurrent callers pass: the test's list, or a list with a duplicate. *)
MCLists == {MCTestPlugins, MCDuplicate}

(* A single caller with the test's list. *)
MCTestOnly == {MCTestPlugins}

(* A single caller with store before apollo. *)
MCStoreFirstOnly == {MCStoreFirst}

(* A single caller with apollo then store. *)
MCApolloStoreOnly == {MCApolloStore}

MCAllConfigured == Kinds
=============================================================================
