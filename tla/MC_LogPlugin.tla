---------------------------- MODULE MC_LogPlugin ----------------------------
(* Instances of LogPlugin for TLC. *)
EXTENDS LogPlugin

(* log_mod: negative or unparsable, terminal, file, and a mod newWriter    *)
(* does not know.                                                          *)
MCMods == {-1, 0, 1, 3}

(* log_mod values that newWriter knows.                                    *)
MCKnownMods == {-1, 0, 1}

MCDurs == {"pos", "zero", "neg", "bad"}

(* SetLogLevel: an invalid level, Debug and Warn.                          *)
MCSetLevels == {0, 1, 3}

(* Messages at Debug, Info and Error.                                      *)
MCLogLevels == {1, 2, 4}

MCFields == {"plain", "tracing"}
=============================================================================
